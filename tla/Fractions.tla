-------------------------------- MODULE Fractions --------------------------------
(***************************************************************************)
(* Exact arithmetic on the rates, weights and parameters of the Python     *)
(* code.  A fraction with denominator 0 stands for None, or for a number   *)
(* that is not finite; every other denominator is positive.                *)
(***************************************************************************)
EXTENDS Integers, FiniteSetsExt

Rate(n, d) == [num |-> n, den |-> d]
Whole(n) == Rate(n, 1)
Undefined == Rate(0, 0)
Defined(r) == r.den # 0

Leq(a, b) == a.num * b.den <= b.num * a.den
Less(a, b) == ~Leq(b, a)
InUnit(r) == r \in [num : Nat, den : Nat \ {0}] /\ r.num <= r.den
LargestOf(S) == CHOOSE r \in S : \A x \in S : Leq(x, r)

Abs(n) == IF n < 0 THEN -n ELSE n

\* Equal fractions have one lowest form, that of the least denominator.
Lowest(r) ==
  IF ~Defined(r) THEN Undefined
  ELSE LET den == CHOOSE d \in 1 .. r.den :
                    /\ (r.num * d) % r.den = 0
                    /\ \A e \in 1 .. d - 1 : (r.num * e) % r.den # 0
       IN Rate((r.num * den) \div r.den, den)

Plus(a, b) == Lowest(Rate(a.num * b.den + b.num * a.den, a.den * b.den))
Times(a, b) == Lowest(Rate(a.num * b.num, a.den * b.den))
Negative(a) == Rate(-a.num, a.den)
Minus(a, b) == Plus(a, Negative(b))
Over(a, b) ==
  IF b.num < 0 THEN Lowest(Rate(0 - a.num * b.den, a.den * (-b.num)))
  ELSE Lowest(Rate(a.num * b.den, a.den * b.num))
Magnitude(a) == Rate(Abs(a.num), a.den)
Difference(a, b) ==
  IF Defined(a) /\ Defined(b) THEN Magnitude(Minus(a, b)) ELSE Undefined

\* The sum of f[x] over S.
SumOver(f, S) == FoldFunctionOnSet(Plus, Whole(0), f, S)
=============================================================================
