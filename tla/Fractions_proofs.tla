---------------------------- MODULE Fractions_proofs ----------------------------
(***************************************************************************)
(* Lemmas about the operators of Fractions, and about folds and sums over  *)
(* finite sets, for any numbers and any finite sets.                       *)
(*                                                                         *)
(* A fold takes the elements of a set in the order Picked; what holds of   *)
(* the empty set, and of a set once it holds of the set less its picked    *)
(* element, holds of every finite set (PickInduction, stated on the set of *)
(* subsets it holds of).  Equal fractions have one lowest form             *)
(* (LowestCanonical), so that a law of the integers becomes an equation    *)
(* between reduced fractions: Plus and Times commute, associate and        *)
(* distribute, SumOver adds and scales term by term (SumOverPlus,          *)
(* SumOverTimes), distances from a mean cancel out (CentredCancel), and    *)
(* sums and products keep the order (SumOverMonotone, TimesMonotone).      *)
(***************************************************************************)
EXTENDS Fractions, FiniteSetTheorems, TLAPS

-----------------------------------------------------------------------------
(* Finite sets and natural numbers                                         *)

\* Every nonempty family of subsets of a finite set has a minimal member: what is
\* false of some subset is false of one all of whose smaller subsets satisfy it.
LEMMA MinimalSubset ==
  ASSUME NEW S, IsFiniteSet(S), NEW F \in SUBSET SUBSET S, F # {}
  PROVE  \E T \in F : \A U \in F : U \subseteq T => U = T
<1>1. IsWellFoundedOn(StrictSubsetOrdering(S), SUBSET S)
  BY FS_StrictSubsetOrderingWellFounded, FS_FiniteSubsetsOfFinite
<1>2. PICK T \in F : \A U \in F : <<U, T>> \notin StrictSubsetOrdering(S)
  BY <1>1, WFMin
<1>. QED
  BY <1>2 DEF StrictSubsetOrdering

\* The least number of B is the one whose interval is minimal.
LEMMA LeastNatural ==
  ASSUME NEW B \in SUBSET Nat, B # {}
  PROVE  \E m \in B : \A k \in B : m <= k
<1>1. PICK n \in B : TRUE
  OBVIOUS
<1> DEFINE T == {0 .. k : k \in {j \in B : j <= n}}
<1>2. IsFiniteSet(0 .. n)
  BY FS_Interval
<1>3. IsWellFoundedOn(StrictSubsetOrdering(0 .. n), SUBSET (0 .. n))
  BY <1>2, FS_StrictSubsetOrderingWellFounded, FS_FiniteSubsetsOfFinite
<1>4. T \subseteq SUBSET (0 .. n)
  OBVIOUS
<1>5. 0 .. n \in T
  OBVIOUS
<1>6. \E x \in T : \A y \in T : <<y, x>> \notin StrictSubsetOrdering(0 .. n)
  <2> HIDE DEF T
  <2> QED BY <1>3, <1>4, <1>5, WFMin
<1>7. PICK x \in T : \A y \in T : <<y, x>> \notin StrictSubsetOrdering(0 .. n)
  BY <1>6
<1>8. PICK m \in B : m <= n /\ x = 0 .. m
  BY <1>7
<1>9. ASSUME NEW k \in B, k < m PROVE FALSE
  <2>1. 0 .. k \in T
    BY <1>8, <1>9
  <2>2. 0 .. k \subseteq 0 .. m /\ 0 .. k # 0 .. m
    BY <1>8, <1>9
  <2>3. <<0 .. k, 0 .. m>> \in StrictSubsetOrdering(0 .. n)
    BY <2>1, <2>2, <1>4, <1>8 DEF StrictSubsetOrdering
  <2> QED BY <2>1, <2>3, <1>7, <1>8
<1> QED
  BY <1>8, <1>9

\* The element that the folds of the community modules take next.
Picked(U) == CHOOSE x \in U : TRUE

LEMMA PickedIn == ASSUME NEW U, U # {} PROVE Picked(U) \in U
BY DEF Picked

\* What holds of the empty set, and of a set if it holds of the set less its picked
\* element, holds of every finite set; G is the set of the subsets it holds of.
LEMMA PickInduction ==
  ASSUME NEW S, IsFiniteSet(S), NEW G, {} \in G,
         \A T \in SUBSET S : T # {} /\ T \ {Picked(T)} \in G => T \in G
  PROVE  \A T \in SUBSET S : T \in G
<1>. DEFINE Bad == {T \in SUBSET S : T \notin G}
<1>. SUFFICES ASSUME Bad # {} PROVE FALSE
  OBVIOUS
<1>1. PICK T \in Bad : \A U \in Bad : U \subseteq T => U = T
  <2>1. Bad \in SUBSET SUBSET S
    OBVIOUS
  <2>. HIDE DEF Bad
  <2>. QED
    BY <2>1, MinimalSubset
<1>2. T # {} /\ Picked(T) \in T
  BY <1>1, PickedIn
<1>3. T \ {Picked(T)} \in G
  BY <1>1, <1>2
<1>. QED
  BY <1>1, <1>2, <1>3

LEMMA CountsIn ==
  ASSUME NEW S, IsFiniteSet(S), NEW T \in SUBSET S
  PROVE  IsFiniteSet(T) /\ Cardinality(T) \in Nat /\ Cardinality(T) <= Cardinality(S)
         /\ Cardinality(S) \in Nat
<1>1. IsFiniteSet(T) /\ Cardinality(T) <= Cardinality(S)
  BY FS_Subset
<1>. QED
  BY <1>1, FS_CardinalityType

-----------------------------------------------------------------------------
(* Folds                                                                   *)

\* g folds every subset of T.
Folding(g, T, base, op) ==
  g = [U \in SUBSET T |-> IF U = {} THEN base ELSE op[<<Picked(U), g[U \ {Picked(U)}]>>]]

LEMMA FoldingBase ==
  ASSUME NEW T, NEW base, NEW op, NEW g, Folding(g, T, base, op)
  PROVE  g[{}] = base
<1>1. g[{}] = IF {} = {} THEN base ELSE op[<<Picked({}), g[{} \ {Picked({})}]>>]
  BY DEF Folding
<1>. QED
  BY <1>1, Zenon

LEMMA FoldingNext ==
  ASSUME NEW T, NEW base, NEW op, NEW g, Folding(g, T, base, op), NEW U \in SUBSET T, U # {}
  PROVE  g[U] = op[<<Picked(U), g[U \ {Picked(U)}]>>]
BY DEF Folding

\* Two foldings agree on the subsets they have in common.
LEMMA FoldingUnique ==
  ASSUME NEW T, IsFiniteSet(T), NEW base, NEW op, NEW g, NEW V, NEW h,
         Folding(g, T, base, op), Folding(h, V, base, op), NEW U \in SUBSET (T \cap V)
  PROVE  g[U] = h[U]
<1>. DEFINE G == {X \in SUBSET (T \cap V) : g[X] = h[X]}
<1>1. {} \in G
  <2>1. g[{}] = base /\ h[{}] = base
    BY FoldingBase
  <2>. QED
    BY <2>1, Zenon
<1>2. ASSUME NEW X \in SUBSET (T \cap V), X # {}, X \ {Picked(X)} \in G
      PROVE  X \in G
  <2>0. X \in SUBSET T /\ X \in SUBSET V /\ X # {}
    BY <1>2
  <2>1. g[X \ {Picked(X)}] = h[X \ {Picked(X)}]
    BY <1>2
  <2>2. g[X] = op[<<Picked(X), g[X \ {Picked(X)}]>>]
    BY <2>0, FoldingNext
  <2>3. h[X] = op[<<Picked(X), h[X \ {Picked(X)}]>>]
    BY <2>0, FoldingNext
  <2>4. g[X] = h[X]
    BY <2>1, <2>2, <2>3
  <2>. QED
    BY <2>4
<1>3. IsFiniteSet(T \cap V)
  BY FS_Intersection
<1>. HIDE DEF G
<1>4. U \in G
  BY <1>1, <1>2, <1>3, PickInduction
<1>. QED
  BY <1>4 DEF G

\* Every finite set has one: over a minimal set without, the values of the foldings
\* of its proper subsets make one.
LEMMA FoldingExists ==
  ASSUME NEW S, IsFiniteSet(S), NEW base, NEW op
  PROVE  \E g : Folding(g, S, base, op)
<1>. DEFINE None == {T \in SUBSET S : ~ \E g : Folding(g, T, base, op)}
<1>. SUFFICES ASSUME None # {} PROVE FALSE
  OBVIOUS
<1>1. PICK T \in None : \A U \in None : U \subseteq T => U = T
  <2>1. None \in SUBSET SUBSET S
    OBVIOUS
  <2>. HIDE DEF None
  <2>. QED
    BY <2>1, MinimalSubset
<1>. DEFINE folding(U) == CHOOSE g : Folding(g, U, base, op)
            value(U) == folding(U)[U]
            h == [U \in SUBSET T |->
                    IF U = {} THEN base ELSE op[<<Picked(U), value(U \ {Picked(U)})>>]]
<1>2. ASSUME NEW U \in SUBSET T, U # T PROVE Folding(folding(U), U, base, op)
  <2>1. \E g : Folding(g, U, base, op)
    BY <1>1, <1>2
  <2>. QED
    BY <2>1
<1>3. ASSUME NEW U \in SUBSET T, U # {}, U # T
      PROVE  value(U) = op[<<Picked(U), value(U \ {Picked(U)})>>]
  <2>1. Folding(folding(U), U, base, op) /\ IsFiniteSet(U)
    BY <1>2, <1>3, FS_Subset
  <2>. DEFINE Y == U \ {Picked(U)}
  <2>2. Y \in SUBSET T /\ Y # T /\ Y \in SUBSET (U \cap Y)
    BY <1>3, PickedIn
  <2>3. Folding(folding(Y), Y, base, op)
    BY <1>2, <2>2
  <2>. HIDE DEF folding, Y
  <2>4. folding(U)[Y] = folding(Y)[Y]
    BY <2>1, <2>2, <2>3, FoldingUnique
  <2>5. folding(U)[U] = op[<<Picked(U), folding(U)[Y]>>]
    BY <1>3, <2>1, FoldingNext DEF Y
  <2>. QED
    BY <2>4, <2>5 DEF Y
<1>4. ASSUME {} # T PROVE value({}) = base
  <2>1. Folding(folding({}), {}, base, op)
    BY <1>2, <1>4
  <2>. HIDE DEF folding
  <2>. QED
    BY <2>1, FoldingBase
<1>5. ASSUME NEW U \in SUBSET T, U # T PROVE h[U] = value(U)
  <2>. HIDE DEF value
  <2>. QED
    BY <1>3, <1>4, <1>5
<1>6. ASSUME NEW U \in SUBSET T, U # {}
      PROVE  h[U \ {Picked(U)}] = value(U \ {Picked(U)})
  <2>1. U \ {Picked(U)} \in SUBSET T /\ U \ {Picked(U)} # T
    BY <1>6, PickedIn
  <2>. HIDE DEF value, h
  <2>. QED
    BY <2>1, <1>5
<1>7. Folding(h, T, base, op)
  <2>1. h = [U \in SUBSET T |->
               IF U = {} THEN base ELSE op[<<Picked(U), h[U \ {Picked(U)}]>>]]
    <3>1. \A U \in SUBSET T :
            (IF U = {} THEN base ELSE op[<<Picked(U), value(U \ {Picked(U)})>>])
              = (IF U = {} THEN base ELSE op[<<Picked(U), h[U \ {Picked(U)}]>>])
      <4>. HIDE DEF value, h
      <4>. QED
        BY <1>6
    <3>2. h = [U \in SUBSET T |->
                   IF U = {} THEN base ELSE op[<<Picked(U), value(U \ {Picked(U)})>>]]
      OBVIOUS
    <3>. HIDE DEF value, h
    <3>. QED
      BY <3>1, <3>2
  <2>. HIDE DEF h
  <2>. QED
    BY <2>1 DEF Folding
<1>. QED
  BY <1>1, <1>7

\* Over typed data a folding has typed values.
LEMMA FoldingValues ==
  ASSUME NEW S, IsFiniteSet(S), NEW V, NEW base \in V, NEW op, op \in [S \X V -> V], NEW g,
         Folding(g, S, base, op)
  PROVE  \A U \in SUBSET S : g[U] \in V
<1>. DEFINE G == {T \in SUBSET S : g[T] \in V}
<1>1. {} \in G
  BY FoldingBase
<1>2. ASSUME NEW T \in SUBSET S, T # {}, T \ {Picked(T)} \in G
      PROVE  T \in G
  <2>1. Picked(T) \in S /\ g[T \ {Picked(T)}] \in V
    BY <1>2, PickedIn
  <2>2. g[T] = op[<<Picked(T), g[T \ {Picked(T)}]>>]
    BY <1>2, FoldingNext
  <2>3. g[T] \in V
    BY <2>1, <2>2
  <2>. QED
    BY <2>3
<1>. HIDE DEF G
<1>3. \A T \in SUBSET S : T \in G
  BY <1>1, <1>2, PickInduction
<1>. QED
  BY <1>3 DEF G

\* A function that takes the steps of a folding where its values are in V.
FoldingOver(g, S, V, base, op) ==
  /\ g = [U \in SUBSET S |-> g[U]] /\ g[{}] = base
  /\ \A U \in SUBSET S : U # {} /\ g[U \ {Picked(U)}] \in V =>
       g[U] = op[<<Picked(U), g[U \ {Picked(U)}]>>]

LEMMA FoldingTyped ==
  ASSUME NEW S, IsFiniteSet(S), NEW V, NEW base \in V, NEW op, op \in [S \X V -> V], NEW g,
         FoldingOver(g, S, V, base, op)
  PROVE  Folding(g, S, base, op)
<1>1. \A U \in SUBSET S : g[U] \in V
  <2>. DEFINE G == {T \in SUBSET S : g[T] \in V}
  <2>1. {} \in G
    BY DEF FoldingOver
  <2>2. ASSUME NEW T \in SUBSET S, T # {}, T \ {Picked(T)} \in G
        PROVE  T \in G
    <3>1. Picked(T) \in S /\ g[T \ {Picked(T)}] \in V
      BY <2>2, PickedIn
    <3>2. g[T] = op[<<Picked(T), g[T \ {Picked(T)}]>>]
      BY <2>2, <3>1 DEF FoldingOver
    <3>3. g[T] \in V
      BY <3>1, <3>2
    <3>. QED
      BY <3>3
  <2>. HIDE DEF G
  <2>3. \A T \in SUBSET S : T \in G
    BY <2>1, <2>2, PickInduction
  <2>. QED
    BY <2>3 DEF G
<1>2. \A U \in SUBSET S :
        g[U] = IF U = {} THEN base ELSE op[<<Picked(U), g[U \ {Picked(U)}]>>]
  <2>1. ASSUME NEW U \in SUBSET S, U # {}
        PROVE  g[U] = op[<<Picked(U), g[U \ {Picked(U)}]>>]
    <3>1. U \ {Picked(U)} \in SUBSET S
      OBVIOUS
    <3>. QED
      BY <1>1, <2>1, <3>1 DEF FoldingOver
  <2>. QED
    BY <2>1 DEF FoldingOver
<1>3. g = [U \in SUBSET S |->
             IF U = {} THEN base ELSE op[<<Picked(U), g[U \ {Picked(U)}]>>]]
  BY <1>2 DEF FoldingOver
<1>. QED
  BY <1>3 DEF Folding

-----------------------------------------------------------------------------
(* Sums of integers                                                        *)

Adding(f, S) == [p \in S \X Int |-> f[p[1]] + p[2]]
SumBody(f, S, sum) ==
  [T \in SUBSET S |-> IF T = {} THEN 0 ELSE f[Picked(T)] + sum[T \ {Picked(T)}]]

LEMMA SumExpanded ==
  ASSUME NEW f, NEW S
  PROVE  SumFunctionOnSet(f, S) = (CHOOSE sum : sum = SumBody(f, S, sum))[S]
BY DEF SumFunctionOnSet, FoldFunctionOnSet, MapThenFoldSet, SumBody, Picked

LEMMA AddingIs ==
  ASSUME NEW S, NEW f, \A x \in S : f[x] \in Int
  PROVE  Adding(f, S) \in [S \X Int -> Int]
BY DEF Adding

LEMMA Added ==
  ASSUME NEW S, NEW f, NEW x \in S, NEW v \in Int
  PROVE  Adding(f, S)[<<x, v>>] = f[x] + v
BY DEF Adding

\* The sum is a folding of S.
LEMMA SumFolding ==
  ASSUME NEW S, IsFiniteSet(S), NEW f, \A x \in S : f[x] \in Int
  PROVE  \E sum : /\ Folding(sum, S, 0, Adding(f, S))
                  /\ SumFunctionOnSet(f, S) = sum[S]
<1>. DEFINE add == Adding(f, S)
<1>1. add \in [S \X Int -> Int]
  BY AddingIs
<1>2. ASSUME NEW x \in S, NEW v \in Int PROVE add[<<x, v>>] = f[x] + v
  BY Added
<1>. HIDE DEF add
<1>3. PICK g : Folding(g, S, 0, add)
  BY FoldingExists
<1>4. \A T \in SUBSET S : g[T] \in Int
  BY <1>1, <1>3, FoldingValues
<1>5. g = SumBody(f, S, g)
  <2>1. ASSUME NEW T \in SUBSET S, T # {}
        PROVE  add[<<Picked(T), g[T \ {Picked(T)}]>>] = f[Picked(T)] + g[T \ {Picked(T)}]
    BY <1>2, <1>4, <2>1, PickedIn
  <2>. QED
    BY <1>3, <2>1 DEF Folding, SumBody
<1>. DEFINE sum == CHOOSE sum : sum = SumBody(f, S, sum)
<1>6. sum = SumBody(f, S, sum)
  BY <1>5
<1>. HIDE DEF sum
<1>7. /\ sum = [U \in SUBSET S |-> sum[U]] /\ sum[{}] = 0
      /\ \A U \in SUBSET S : U # {} => sum[U] = f[Picked(U)] + sum[U \ {Picked(U)}]
  BY <1>6 DEF SumBody
<1>8. ASSUME NEW U \in SUBSET S, U # {}, sum[U \ {Picked(U)}] \in Int
      PROVE  sum[U] = add[<<Picked(U), sum[U \ {Picked(U)}]>>]
  BY <1>2, <1>7, <1>8, PickedIn
<1>9. FoldingOver(sum, S, Int, 0, add)
  BY <1>7, <1>8 DEF FoldingOver
<1>10. Folding(sum, S, 0, add)
  BY <1>1, <1>9, FoldingTyped
<1>. QED
  BY <1>10, SumExpanded DEF sum, add

\* Restricting the function restricts the folding.
LEMMA SumFoldingPart ==
  ASSUME NEW S, IsFiniteSet(S), NEW f, \A x \in S : f[x] \in Int, NEW T \in SUBSET S, NEW sum,
         Folding(sum, S, 0, Adding(f, S))
  PROVE  SumFunctionOnSet(f, T) = sum[T] /\ sum[T] \in Int
<1>. DEFINE add == Adding(f, T)
<1>1. IsFiniteSet(T) /\ \A x \in T : f[x] \in Int
  BY FS_Subset
<1>2. add \in [T \X Int -> Int]
  BY <1>1, AddingIs
<1>3. ASSUME NEW x \in T, NEW v \in Int
      PROVE  add[<<x, v>>] = f[x] + v /\ Adding(f, S)[<<x, v>>] = f[x] + v
  BY Added
<1>4. PICK h : Folding(h, T, 0, add) /\ SumFunctionOnSet(f, T) = h[T]
  BY <1>1, SumFolding
<1>. HIDE DEF add
<1>5. \A U \in SUBSET T : h[U] \in Int
  <2>1. IsFiniteSet(T) /\ Folding(h, T, 0, add)
    BY <1>1, <1>4
  <2>. QED
    BY <1>2, <2>1, FoldingValues, Z3
<1>6. Folding(h, T, 0, Adding(f, S))
  <2>1. ASSUME NEW U \in SUBSET T, U # {}
        PROVE  add[<<Picked(U), h[U \ {Picked(U)}]>>]
                 = Adding(f, S)[<<Picked(U), h[U \ {Picked(U)}]>>]
    BY <1>3, <1>5, <2>1, PickedIn
  <2>. QED
    BY <1>4, <2>1 DEF Folding
<1>7. h[T] = sum[T]
  <2>1. T \in SUBSET (T \cap S)
    OBVIOUS
  <2>. QED
    BY <1>1, <1>6, <2>1, FoldingUnique
<1>. QED
  BY <1>4, <1>5, <1>7

\* What a sum is.
LEMMA SumStep ==
  ASSUME NEW S, IsFiniteSet(S), NEW f, \A x \in S : f[x] \in Int
  PROVE  /\ SumFunctionOnSet(f, S) \in Int
         /\ S = {} => SumFunctionOnSet(f, S) = 0
         /\ S # {} => SumFunctionOnSet(f, S) = f[Picked(S)] + SumFunctionOnSet(f, S \ {Picked(S)})
<1>1. PICK g : Folding(g, S, 0, Adding(f, S)) /\ SumFunctionOnSet(f, S) = g[S]
  BY SumFolding
<1>2. PICK Y : Y = S \ {Picked(S)}
  OBVIOUS
<1>3. Y \in SUBSET S /\ S \in SUBSET S
  BY <1>2
<1>4. SumFunctionOnSet(f, Y) = g[Y] /\ g[Y] \in Int /\ g[S] \in Int
  BY <1>1, <1>3, SumFoldingPart
<1>5. g[{}] = 0
  BY <1>1, FoldingBase
<1>6. S # {} => g[S] = f[Picked(S)] + g[Y]
  <2>. SUFFICES ASSUME S # {} PROVE g[S] = f[Picked(S)] + g[Y]
    OBVIOUS
  <2>2. g[S] = Adding(f, S)[<<Picked(S), g[Y]>>]
    BY <1>1, <1>2, FoldingNext
  <2>3. PICK x \in S, v \in Int : x = Picked(S) /\ v = g[Y]
    BY <1>4, PickedIn
  <2>4. Adding(f, S)[<<x, v>>] = f[x] + v
    BY Added
  <2>. QED
    BY <2>2, <2>3, <2>4
<1>. QED
  BY <1>1, <1>2, <1>4, <1>5, <1>6

-----------------------------------------------------------------------------
(* Fractions                                                               *)

Fraction == [num : Int, den : Nat \ {0}]
Same(a, b) == a.num * b.den = b.num * a.den

LEMMA MulCancel ==
  ASSUME NEW x \in Int, NEW y \in Int, NEW z \in Int, z > 0, x * z = y * z
  PROVE  x = y
OBVIOUS

LEMMA MulCancelLeq ==
  ASSUME NEW x \in Int, NEW y \in Int, NEW z \in Int, z > 0
  PROVE  x * z <= y * z <=> x <= y
OBVIOUS

LEMMA Exact ==
  ASSUME NEW x \in Int, NEW d \in Int, d > 0, x % d = 0
  PROVE  (x \div d) * d = x /\ x \div d \in Int
OBVIOUS

LEMMA DivOf ==
  ASSUME NEW k \in Int, NEW d \in Int, d > 0
  PROVE  (k * d) \div d = k /\ (k * d) % d = 0
OBVIOUS

\* Denominators that a fraction of this value can have.
Scales(r) == {d \in Nat \ {0} : \E k \in Int : r.num * d = k * r.den}

LEMMA ScalesSame ==
  ASSUME NEW a \in Fraction, NEW b \in Fraction, Same(a, b), NEW d \in Nat, NEW k \in Int,
         a.num * d = k * a.den
  PROVE  b.num * d = k * b.den
<1>1. a.num \in Int /\ a.den \in Int /\ a.den > 0 /\ b.num \in Int /\ b.den \in Int
  BY DEF Fraction
<1>2. (b.num * d) * a.den = (k * b.den) * a.den
  <2>1. (b.num * d) * a.den = (b.num * a.den) * d
    BY <1>1
  <2>2. (b.num * a.den) * d = (a.num * d) * b.den
    BY <1>1 DEF Same
  <2>3. (k * a.den) * b.den = (k * b.den) * a.den
    BY <1>1
  <2>. QED
    BY <2>1, <2>2, <2>3
<1>3. b.num * d \in Int /\ k * b.den \in Int
  BY <1>1
<1>. QED
  BY <1>1, <1>2, <1>3, MulCancel

LEMMA LowestIs ==
  ASSUME NEW r \in Fraction
  PROVE  \E d \in Nat \ {0}, k \in Int :
           /\ Lowest(r) = Rate(k, d) /\ d <= r.den
           /\ r.num * d = k * r.den
           /\ d \in Scales(r) /\ \A e \in Scales(r) : d <= e
<1>0. r.num \in Int /\ r.den \in Nat \ {0}
  BY DEF Fraction
<1>1. r.den \in Scales(r)
  BY <1>0 DEF Scales
<1>2. PICK m \in Scales(r) : \A e \in Scales(r) : m <= e
  BY <1>1, LeastNatural DEF Scales
<1>3. \A d \in Nat \ {0} : d \in Scales(r) <=> (r.num * d) % r.den = 0
  <2>1. ASSUME NEW d \in Nat \ {0}, d \in Scales(r) PROVE (r.num * d) % r.den = 0
    BY <1>0, <2>1, DivOf DEF Scales
  <2>2. ASSUME NEW d \in Nat \ {0}, (r.num * d) % r.den = 0 PROVE d \in Scales(r)
    <3>1. r.num * d \in Int
      BY <1>0
    <3>2. (r.num * d) \div r.den \in Int /\ ((r.num * d) \div r.den) * r.den = r.num * d
      BY <1>0, <2>2, <3>1, Exact
    <3>. QED
      BY <3>2 DEF Scales
  <2>. QED
    BY <2>1, <2>2
<1>. DEFINE Good(d) == /\ (r.num * d) % r.den = 0
                      /\ \A e \in 1 .. d - 1 : (r.num * e) % r.den # 0
           den == CHOOSE d \in 1 .. r.den : Good(d)
<1>4. m \in 1 .. r.den /\ Good(m)
  <2>1. m \in Nat \ {0} /\ m <= r.den
    BY <1>0, <1>1, <1>2 DEF Scales
  <2>2. ASSUME NEW e \in 1 .. m - 1 PROVE (r.num * e) % r.den # 0
    BY <2>1, <1>2, <1>3
  <2>. QED
    BY <1>0, <1>3, <2>1, <2>2
<1>5. \A d \in 1 .. r.den : Good(d) => d = m
  <2>. SUFFICES ASSUME NEW d \in 1 .. r.den, Good(d) PROVE d = m
    OBVIOUS
  <2>1. d \in Scales(r) /\ m <= d
    BY <1>0, <1>2, <1>3
  <2>2. m \in 1 .. d \ {d} => FALSE
    BY <1>4
  <2>. QED
    BY <1>0, <1>4, <2>1, <2>2
<1>6. den = m
  <2>. HIDE DEF Good
  <2>. QED BY <1>4, <1>5
<1>7. Lowest(r) = Rate((r.num * m) \div r.den, m)
  BY <1>0, <1>6 DEF Lowest, Defined
<1>8. (r.num * m) \div r.den \in Int /\ r.num * m = ((r.num * m) \div r.den) * r.den
  <2>1. r.num * m \in Int /\ (r.num * m) % r.den = 0
    BY <1>0, <1>4
  <2>. QED
    BY <1>0, <2>1, Exact
<1>. QED
  BY <1>2, <1>4, <1>7, <1>8 DEF Scales

LEMMA LowestSame ==
  ASSUME NEW r \in Fraction
  PROVE  Lowest(r) \in Fraction /\ Same(Lowest(r), r) /\ Defined(Lowest(r))
BY LowestIs DEF Fraction, Same, Rate, Defined

LEMMA LowestCanonical ==
  ASSUME NEW a \in Fraction, NEW b \in Fraction, Same(a, b)
  PROVE  Lowest(a) = Lowest(b)
<1>1. PICK d \in Nat \ {0}, k \in Int :
           /\ Lowest(a) = Rate(k, d)
           /\ a.num * d = k * a.den
           /\ d \in Scales(a) /\ \A e \in Scales(a) : d <= e
  BY LowestIs
<1>2. PICK d2 \in Nat \ {0}, k2 \in Int :
           /\ Lowest(b) = Rate(k2, d2)
           /\ b.num * d2 = k2 * b.den
           /\ d2 \in Scales(b) /\ \A e \in Scales(b) : d2 <= e
  BY LowestIs
<1>3. Same(b, a)
  BY DEF Same
<1>4. Scales(a) = Scales(b)
  BY <1>3, ScalesSame DEF Scales
<1>5. d = d2
  BY <1>1, <1>2, <1>4
<1>6. b.num * d = k * b.den
  BY <1>1, ScalesSame
<1>7. b.den > 0 /\ b.den \in Int
  BY DEF Fraction
<1>8. k = k2
  BY <1>2, <1>5, <1>6, <1>7, MulCancel
<1>. QED
  BY <1>1, <1>2, <1>5, <1>8

LEMMA SameTransitive ==
  ASSUME NEW a \in Fraction, NEW b \in Fraction, NEW c \in Fraction, Same(a, b), Same(b, c)
  PROVE  Same(a, c)
<1>1. /\ a.num \in Int /\ a.den \in Int /\ b.num \in Int /\ b.den \in Int /\ b.den > 0
      /\ c.num \in Int /\ c.den \in Int
  BY DEF Fraction
<1>2. (a.num * c.den) * b.den = (c.num * a.den) * b.den
  <2>1. (a.num * c.den) * b.den = (a.num * b.den) * c.den
    BY <1>1
  <2>2. (b.num * a.den) * c.den = (b.num * c.den) * a.den
    BY <1>1
  <2>3. (c.num * b.den) * a.den = (c.num * a.den) * b.den
    BY <1>1
  <2>. QED
    BY <2>1, <2>2, <2>3 DEF Same
<1>3. a.num * c.den \in Int /\ c.num * a.den \in Int
  BY <1>1
<1>. QED
  BY <1>1, <1>2, <1>3, MulCancel DEF Same

\* The sum of two fractions before it is reduced.
PlainSum(a, b) == Rate(a.num * b.den + b.num * a.den, a.den * b.den)

LEMMA PlainSumIs ==
  ASSUME NEW a \in Fraction, NEW b \in Fraction
  PROVE  PlainSum(a, b) \in Fraction
<1>1. /\ a.num \in Int /\ a.den \in Int /\ b.num \in Int /\ b.den \in Int /\ a.den > 0 /\ b.den > 0
  BY DEF Fraction
<1>2. a.num * b.den \in Int /\ b.num * a.den \in Int /\ a.den * b.den \in Int /\ a.den * b.den > 0
  BY <1>1
<1>3. a.num * b.den + b.num * a.den \in Int /\ a.den * b.den \in Nat \ {0}
  BY <1>2
<1>. QED
  BY <1>3 DEF PlainSum, Rate, Fraction

LEMMA PlusIs ==
  ASSUME NEW a \in Fraction, NEW b \in Fraction
  PROVE  Plus(a, b) \in Fraction /\ Same(Plus(a, b), PlainSum(a, b))
<1>1. Plus(a, b) = Lowest(PlainSum(a, b))
  BY DEF Plus, PlainSum
<1>. QED
  BY <1>1, PlainSumIs, LowestSame

LEMMA MinusIs ==
  ASSUME NEW a \in Fraction, NEW b \in Fraction
  PROVE  /\ Negative(b) \in Fraction /\ Minus(a, b) \in Fraction
         /\ Same(Minus(a, b), PlainSum(a, Negative(b)))
<1>1. Negative(b) \in Fraction
  BY DEF Fraction, Negative, Rate
<1>. QED
  BY <1>1, PlusIs DEF Minus

-----------------------------------------------------------------------------
(* Order                                                                   *)

LEMMA LeqTransitive ==
  ASSUME NEW a \in Fraction, NEW b \in Fraction, NEW c \in Fraction, Leq(a, b), Leq(b, c)
  PROVE  Leq(a, c)
<1>1. /\ a.num \in Int /\ a.den \in Int /\ a.den > 0 /\ b.num \in Int /\ b.den \in Int /\ b.den > 0
      /\ c.num \in Int /\ c.den \in Int /\ c.den > 0
  BY DEF Fraction
<1>2. (a.num * c.den) * b.den <= (c.num * a.den) * b.den
  <2>1. (a.num * c.den) * b.den = (a.num * b.den) * c.den
    BY <1>1
  <2>2. (a.num * b.den) * c.den <= (b.num * a.den) * c.den
    <3>1. a.num * b.den \in Int /\ b.num * a.den \in Int /\ a.num * b.den <= b.num * a.den
      BY <1>1 DEF Leq
    <3>. QED
      BY <1>1, <3>1, MulCancelLeq
  <2>3. (b.num * a.den) * c.den = (b.num * c.den) * a.den
    BY <1>1
  <2>4. (b.num * c.den) * a.den <= (c.num * b.den) * a.den
    <3>1. b.num * c.den \in Int /\ c.num * b.den \in Int /\ b.num * c.den <= c.num * b.den
      BY <1>1 DEF Leq
    <3>. QED
      BY <1>1, <3>1, MulCancelLeq
  <2>5. (c.num * b.den) * a.den = (c.num * a.den) * b.den
    BY <1>1
  <2>6. /\ (a.num * b.den) * c.den \in Int /\ (b.num * a.den) * c.den \in Int
        /\ (b.num * c.den) * a.den \in Int /\ (c.num * b.den) * a.den \in Int
    BY <1>1
  <2>. QED
    BY <2>1, <2>2, <2>3, <2>4, <2>5, <2>6
<1>3. a.num * c.den \in Int /\ c.num * a.den \in Int
  BY <1>1
<1>. QED
  BY <1>1, <1>2, <1>3, MulCancelLeq DEF Leq

LEMMA LeqTotal ==
  ASSUME NEW a \in Fraction, NEW b \in Fraction
  PROVE  Leq(a, a) /\ (Leq(a, b) \/ Leq(b, a)) /\ (Same(a, b) <=> Leq(a, b) /\ Leq(b, a))
<1>1. /\ a.num * b.den \in Int /\ b.num * a.den \in Int /\ a.num * a.den \in Int
  BY DEF Fraction
<1>. QED
  BY <1>1 DEF Leq, Same

\* A finite set of fractions has a largest one.
LEMMA LargestExists ==
  ASSUME NEW S \in SUBSET Fraction, IsFiniteSet(S), S # {}
  PROVE  LargestOf(S) \in S /\ \A x \in S : Leq(x, LargestOf(S))
<1>. DEFINE Has(T) == \E r \in T : \A x \in T : Leq(x, r)
            G == {T \in SUBSET S : T = {} \/ Has(T)}
<1>1. {} \in G
  OBVIOUS
<1>2. ASSUME NEW T \in SUBSET S, T # {}, T \ {Picked(T)} \in G
      PROVE  T \in G
  <2>1. Picked(T) \in T /\ T \subseteq Fraction
    BY <1>2, PickedIn
  <2>2. CASE T \ {Picked(T)} = {}
    <3>1. \A x \in T : x = Picked(T)
      BY <2>2
    <3>2. Has(T)
      BY <2>1, <3>1, LeqTotal
    <3>. QED
      BY <3>2
  <2>3. CASE T \ {Picked(T)} # {}
    <3>1. PICK r \in T \ {Picked(T)} : \A x \in T \ {Picked(T)} : Leq(x, r)
      BY <1>2, <2>3
    <3>2. CASE Leq(Picked(T), r)
      <4>1. \A x \in T : Leq(x, r)
        BY <3>1, <3>2
      <4>2. Has(T)
        BY <3>1, <4>1
      <4>. QED
        BY <4>2
    <3>3. CASE Leq(r, Picked(T))
      <4>1. ASSUME NEW x \in T PROVE Leq(x, Picked(T))
        <5>1. CASE x = Picked(T)
          BY <2>1, <5>1, LeqTotal
        <5>2. CASE x # Picked(T)
          <6>1. Leq(x, r) /\ x \in Fraction /\ r \in Fraction
            BY <3>1, <5>2, <2>1
          <6>. QED
            BY <6>1, <3>3, <2>1, LeqTransitive
        <5>. QED
          BY <5>1, <5>2
      <4>2. Has(T)
        BY <2>1, <4>1
      <4>. QED
        BY <4>2
    <3>4. r \in Fraction /\ Picked(T) \in Fraction
      BY <2>1, <3>1
    <3>. QED
      BY <3>2, <3>3, <3>4, LeqTotal
  <2>. QED
    BY <2>2, <2>3
<1>3. S \in G
  <2>. HIDE DEF G
  <2>. QED
    BY <1>1, <1>2, PickInduction
<1>4. Has(S)
  BY <1>3
<1>. QED
  BY <1>4 DEF LargestOf

-----------------------------------------------------------------------------
(* Rates between zero and one                                              *)

LEMMA UnitFraction ==
  ASSUME NEW r, InUnit(r)
  PROVE  /\ r \in Fraction /\ Defined(r)
         /\ r.num \in Nat /\ r.den \in Nat \ {0} /\ r.num <= r.den
BY DEF InUnit, Fraction, Defined

\* The difference of two fractions is that of the smaller from the larger.
LEMMA DifferenceSymmetric ==
  ASSUME NEW a \in Fraction, NEW b \in Fraction
  PROVE  /\ Difference(a, b) \in Fraction /\ Difference(a, b).num >= 0
         /\ Leq(b, a) => Same(Difference(a, b), PlainSum(a, Negative(b)))
         /\ Leq(a, b) => Same(Difference(a, b), PlainSum(b, Negative(a)))
<1>. DEFINE m == Minus(a, b)  p == a.num * b.den  q == b.num * a.den  d == a.den * b.den
<1>1. m \in Fraction /\ Same(m, PlainSum(a, Negative(b)))
  BY MinusIs
<1>2. /\ a.num \in Int /\ a.den \in Int /\ a.den > 0 /\ b.num \in Int /\ b.den \in Int /\ b.den > 0
      /\ m.num \in Int /\ m.den \in Int /\ m.den > 0
  BY <1>1 DEF Fraction
<1>3. p \in Int /\ q \in Int /\ d \in Int /\ d > 0 /\ b.den * a.den = d
  BY <1>2
<1>4. (-b.num) * a.den = -q /\ (-a.num) * b.den = -p
  BY <1>2
<1>5. PlainSum(a, Negative(b)) = Rate(p - q, d) /\ PlainSum(b, Negative(a)) = Rate(q - p, d)
  BY <1>3, <1>4 DEF PlainSum, Negative, Rate
<1>6. m.num * d = (p - q) * m.den
  BY <1>1, <1>5 DEF Same, Rate
<1>7. Difference(a, b) = Rate(Abs(m.num), m.den)
  BY <1>2 DEF Difference, Magnitude, Defined
<1>. HIDE DEF m, p, q, d
<1>8. q <= p => m.num >= 0
  BY <1>2, <1>3, <1>6
<1>9. p <= q => m.num <= 0
  BY <1>2, <1>3, <1>6
<1>10. p <= q => (-m.num) * d = (q - p) * m.den
  BY <1>2, <1>3, <1>6
<1>11. Abs(m.num) >= 0 /\ Abs(m.num) \in Int
       /\ (q <= p => Abs(m.num) = m.num) /\ (p <= q => Abs(m.num) = -m.num)
  BY <1>2, <1>8, <1>9 DEF Abs
<1>12. Difference(a, b) \in Fraction /\ Difference(a, b).num >= 0
  BY <1>2, <1>7, <1>11 DEF Fraction, Rate
<1>13. ASSUME Leq(b, a) PROVE Same(Difference(a, b), PlainSum(a, Negative(b)))
  <2>1. q <= p
    BY <1>13 DEF Leq, p, q
  <2>. QED
    BY <2>1, <1>5, <1>6, <1>7, <1>11 DEF Same, Rate
<1>14. ASSUME Leq(a, b) PROVE Same(Difference(a, b), PlainSum(b, Negative(a)))
  <2>1. p <= q
    BY <1>14 DEF Leq, p, q
  <2>. QED
    BY <2>1, <1>5, <1>10, <1>7, <1>11 DEF Same, Rate
<1>. QED
  BY <1>12, <1>13, <1>14

\* Two rates differ by a rate.
LEMMA DifferenceInUnit ==
  ASSUME NEW a, InUnit(a), NEW b, InUnit(b)
  PROVE  InUnit(Difference(a, b))
<1>. DEFINE e == Difference(a, b)  p == a.num * b.den  q == b.num * a.den  d == a.den * b.den
<1>1. /\ a \in Fraction /\ b \in Fraction
      /\ a.num \in Nat /\ a.den \in Nat \ {0} /\ a.num <= a.den
      /\ b.num \in Nat /\ b.den \in Nat \ {0} /\ b.num <= b.den
  BY UnitFraction
<1>2. /\ e \in Fraction /\ e.num >= 0
      /\ (Leq(b, a) => Same(e, PlainSum(a, Negative(b))))
      /\ (Leq(a, b) => Same(e, PlainSum(b, Negative(a))))
  BY <1>1, DifferenceSymmetric
<1>3. /\ p \in Nat /\ q \in Nat /\ d \in Nat /\ d > 0 /\ b.den * a.den = d
      /\ p <= d /\ q <= d
  BY <1>1
<1>4. (-b.num) * a.den = -q /\ (-a.num) * b.den = -p
  BY <1>1
<1>5. PlainSum(a, Negative(b)) = Rate(p - q, d) /\ PlainSum(b, Negative(a)) = Rate(q - p, d)
  BY <1>3, <1>4 DEF PlainSum, Negative, Rate
<1>6. e.num * d = (p - q) * e.den \/ e.num * d = (q - p) * e.den
  BY <1>1, <1>2, <1>5, LeqTotal DEF Same, Rate
<1>7. e.num \in Int /\ e.den \in Int /\ e.den > 0 /\ e = [num |-> e.num, den |-> e.den]
  BY <1>2 DEF Fraction
<1>. HIDE DEF e, p, q, d
<1>8. \A k \in Int : k <= d => k * e.den <= d * e.den
  BY <1>3, <1>7
<1>9. e.num * d <= d * e.den
  <2>1. p - q \in Int /\ q - p \in Int /\ p - q <= d /\ q - p <= d
    BY <1>3
  <2>. QED
    BY <1>6, <1>8, <2>1
<1>10. e.num <= e.den
  BY <1>3, <1>7, <1>9, MulCancelLeq
<1>. QED
  BY <1>2, <1>7, <1>10 DEF InUnit, e

\* What is at most half a unit of the scale s above b is within rounding of b.
LEMMA DifferenceBounded ==
  ASSUME NEW a \in Fraction, NEW b \in Fraction, Leq(b, a), NEW s \in Nat \ {0},
         (2 * s) * (a.num * b.den - b.num * a.den) <= a.den * b.den
  PROVE  Leq(Difference(a, b), Rate(1, 2 * s)) /\ Leq(Difference(b, a), Rate(1, 2 * s))
<1>. SUFFICES ASSUME NEW e \in {Difference(a, b), Difference(b, a)}
              PROVE  Leq(e, Rate(1, 2 * s))
  OBVIOUS
<1>. DEFINE k == a.num * b.den - b.num * a.den  d == a.den * b.den
<1>1. /\ a.num \in Int /\ a.den \in Int /\ a.den > 0 /\ b.num \in Int /\ b.den \in Int /\ b.den > 0
  BY DEF Fraction
<1>2. e \in Fraction /\ Same(e, PlainSum(a, Negative(b)))
  BY DifferenceSymmetric
<1>3. k \in Int /\ d \in Int /\ d > 0 /\ e.num \in Int /\ e.den \in Int /\ e.den > 0
  BY <1>1, <1>2 DEF Fraction
<1>4. a.num * b.den + (-b.num) * a.den = k
  BY <1>1
<1>5. e.num * d = k * e.den
  BY <1>2, <1>4 DEF Same, PlainSum, Negative, Rate
<1>6. (2 * s) * k <= d
  OBVIOUS
<1>. HIDE DEF k, d
<1>7. (e.num * (2 * s)) * d <= e.den * d
  <2>1. (e.num * (2 * s)) * d = ((2 * s) * k) * e.den
    <3>1. (e.num * (2 * s)) * d = (2 * s) * (e.num * d)
      BY <1>3
    <3>2. (2 * s) * (k * e.den) = ((2 * s) * k) * e.den
      BY <1>3
    <3>. QED
      BY <1>5, <3>1, <3>2
  <2>2. ((2 * s) * k) * e.den <= d * e.den
    <3>1. (2 * s) * k \in Int
      BY <1>3
    <3>. QED
      BY <1>3, <1>6, <3>1, MulCancelLeq
  <2>3. d * e.den = e.den * d /\ d * e.den \in Int /\ ((2 * s) * k) * e.den \in Int
    BY <1>3
  <2>. QED
    BY <2>1, <2>2, <2>3
<1>8. e.num * (2 * s) <= e.den
  <2>1. e.num * (2 * s) \in Int
    BY <1>3
  <2>. QED
    BY <1>3, <1>7, <2>1, MulCancelLeq
<1>. QED
  BY <1>3, <1>8 DEF Leq, Rate

-----------------------------------------------------------------------------
(* Sums of naturals                                                        *)

LEMMA SumMonotone ==
  ASSUME NEW S, IsFiniteSet(S), NEW f, NEW g,
         \A x \in S : f[x] \in Nat /\ g[x] \in Nat /\ f[x] <= g[x]
  PROVE  /\ SumFunctionOnSet(f, S) \in Nat /\ SumFunctionOnSet(g, S) \in Nat
         /\ SumFunctionOnSet(f, S) <= SumFunctionOnSet(g, S)
<1>. DEFINE F(T) == SumFunctionOnSet(f, T)
            H(T) == SumFunctionOnSet(g, T)
            G == {T \in SUBSET S : F(T) \in Nat /\ H(T) \in Nat /\ F(T) <= H(T)}
<1>1. ASSUME NEW T \in SUBSET S
      PROVE  /\ T = {} => F(T) = 0 /\ H(T) = 0
             /\ T # {} => /\ F(T) = f[Picked(T)] + F(T \ {Picked(T)})
                          /\ H(T) = g[Picked(T)] + H(T \ {Picked(T)})
  <2>1. IsFiniteSet(T) /\ \A x \in T : f[x] \in Int /\ g[x] \in Int
    BY FS_Subset
  <2>. QED
    BY <2>1, SumStep
<1>. HIDE DEF F, H
<1>2. {} \in G
  <2>1. {} \in SUBSET S
    OBVIOUS
  <2>2. F({}) = 0 /\ H({}) = 0
    BY <2>1, <1>1
  <2>. QED
    BY <2>1, <2>2
<1>3. ASSUME NEW T \in SUBSET S, T # {}, T \ {Picked(T)} \in G
      PROVE  T \in G
  <2>1. PICK x \in S : x = Picked(T)
    BY <1>3, PickedIn
  <2>2. /\ F(T \ {x}) \in Nat /\ H(T \ {x}) \in Nat /\ F(T \ {x}) <= H(T \ {x})
        /\ f[x] \in Nat /\ g[x] \in Nat /\ f[x] <= g[x]
        /\ F(T) = f[x] + F(T \ {x}) /\ H(T) = g[x] + H(T \ {x})
    BY <1>1, <1>3, <2>1
  <2>3. F(T) \in Nat /\ H(T) \in Nat /\ F(T) <= H(T)
    BY <2>2
  <2>. QED
    BY <2>3
<1>4. S \in G
  <2>. HIDE DEF G
  <2>. QED
    BY <1>2, <1>3, PickInduction
<1>. QED
  BY <1>4 DEF F, H

LEMMA SumPositive ==
  ASSUME NEW S, IsFiniteSet(S), NEW f, \A x \in S : f[x] \in Nat, NEW y \in S, f[y] > 0
  PROVE  SumFunctionOnSet(f, S) > 0
<1>. DEFINE F(T) == SumFunctionOnSet(f, T)
            G == {T \in SUBSET S : F(T) \in Nat /\ (y \in T => F(T) > 0)}
<1>1. ASSUME NEW T \in SUBSET S
      PROVE  /\ T = {} => F(T) = 0
             /\ T # {} => F(T) = f[Picked(T)] + F(T \ {Picked(T)})
  <2>1. IsFiniteSet(T) /\ \A x \in T : f[x] \in Int
    BY FS_Subset
  <2>. QED
    BY <2>1, SumStep
<1>. HIDE DEF F
<1>2. {} \in G
  BY <1>1
<1>3. ASSUME NEW T \in SUBSET S, T # {}, T \ {Picked(T)} \in G
      PROVE  T \in G
  <2>1. PICK x \in S : x = Picked(T)
    BY <1>3, PickedIn
  <2>2. /\ F(T \ {x}) \in Nat /\ f[x] \in Nat /\ F(T) = f[x] + F(T \ {x})
        /\ y \in T => y = x \/ F(T \ {x}) > 0
    BY <1>1, <1>3, <2>1
  <2>3. F(T) \in Nat /\ (y \in T => F(T) > 0)
    BY <2>2
  <2>. QED
    BY <2>3
<1>4. S \in G
  <2>. HIDE DEF G
  <2>. QED
    BY <1>2, <1>3, PickInduction
<1>. QED
  BY <1>4 DEF F

-----------------------------------------------------------------------------
(* The arithmetic of fractions                                             *)

\* Identities of integers that the laws below stand on.
LEMMA CrossSum ==
  ASSUME NEW x \in Int, NEW d \in Int, NEW e \in Int, NEW y \in Int, NEW f \in Int
  PROVE  (x * f + y * d) * (e * f) = (x * e) * (f * f) + (y * f) * (d * e)
OBVIOUS

LEMMA MulExchange ==
  ASSUME NEW x \in Int, NEW y \in Int, NEW z \in Int, NEW w \in Int
  PROVE  (x * y) * (z * w) = (x * z) * (y * w)
OBVIOUS

LEMMA CrossAssociates ==
  ASSUME NEW x \in Int, NEW d \in Int, NEW y \in Int, NEW e \in Int, NEW z \in Int, NEW f \in Int
  PROVE  (x * e + y * d) * f + z * (d * e) = x * (e * f) + (y * f + z * e) * d
OBVIOUS

LEMMA MulSum ==
  ASSUME NEW x \in Int, NEW y \in Int, NEW z \in Int, NEW e \in Int, NEW f \in Int
  PROVE  x * (y * f + z * e) = (x * y) * f + (x * z) * e
OBVIOUS

PlainProduct(a, b) == Rate(a.num * b.num, a.den * b.den)

LEMMA FractionParts ==
  ASSUME NEW a \in Fraction
  PROVE  a.num \in Int /\ a.den \in Int /\ a.den \in Nat /\ a.den > 0
BY DEF Fraction

LEMMA PlainProductIs ==
  ASSUME NEW a \in Fraction, NEW b \in Fraction
  PROVE  PlainProduct(a, b) \in Fraction
<1>1. /\ a.num \in Int /\ a.den \in Int /\ b.num \in Int /\ b.den \in Int /\ a.den > 0 /\ b.den > 0
  BY DEF Fraction
<1>2. a.num * b.num \in Int /\ a.den * b.den \in Int /\ a.den * b.den > 0
  BY <1>1
<1>3. a.den * b.den \in Nat \ {0}
  BY <1>2
<1>. QED
  BY <1>2, <1>3 DEF PlainProduct, Rate, Fraction

LEMMA TimesIs ==
  ASSUME NEW a \in Fraction, NEW b \in Fraction
  PROVE  /\ Times(a, b) \in Fraction /\ Same(Times(a, b), PlainProduct(a, b))
         /\ Times(a, b) = Lowest(PlainProduct(a, b))
<1>1. Times(a, b) = Lowest(PlainProduct(a, b))
  BY DEF Times, PlainProduct
<1>. QED
  BY <1>1, PlainProductIs, LowestSame

LEMMA PlusLowest ==
  ASSUME NEW a \in Fraction, NEW b \in Fraction
  PROVE  Plus(a, b) = Lowest(PlainSum(a, b))
BY DEF Plus, PlainSum

LEMMA SameSymmetric ==
  ASSUME NEW a, NEW b, Same(a, b)
  PROVE  Same(b, a)
BY DEF Same

\* Sum and product depend on values only.
LEMMA SumSame ==
  ASSUME NEW a \in Fraction, NEW b \in Fraction, NEW c \in Fraction, Same(a, b)
  PROVE  Same(PlainSum(a, c), PlainSum(b, c))
<1>1. PICK an \in Int, ad \in Int, bn \in Int, bd \in Int, cn \in Int, cd \in Int :
        /\ an = a.num /\ ad = a.den /\ bn = b.num /\ bd = b.den /\ cn = c.num /\ cd = c.den
  BY FractionParts
<1>2. an * bd = bn * ad
  BY <1>1 DEF Same
<1>3. (an * cd + cn * ad) * (bd * cd) = (bn * cd + cn * bd) * (ad * cd)
  <2>1. (an * cd + cn * ad) * (bd * cd) = (an * bd) * (cd * cd) + (cn * cd) * (ad * bd)
    BY CrossSum
  <2>2. (bn * cd + cn * bd) * (ad * cd) = (bn * ad) * (cd * cd) + (cn * cd) * (bd * ad)
    BY CrossSum
  <2>3. ad * bd = bd * ad
    OBVIOUS
  <2>. QED
    BY <1>2, <2>1, <2>2, <2>3
<1>. QED
  BY <1>1, <1>3 DEF Same, PlainSum, Rate

LEMMA ProductSame ==
  ASSUME NEW a \in Fraction, NEW b \in Fraction, NEW c \in Fraction, Same(a, b)
  PROVE  Same(PlainProduct(c, a), PlainProduct(c, b))
<1>1. PICK an \in Int, ad \in Int, bn \in Int, bd \in Int, cn \in Int, cd \in Int :
        /\ an = a.num /\ ad = a.den /\ bn = b.num /\ bd = b.den /\ cn = c.num /\ cd = c.den
  BY FractionParts
<1>2. an * bd = bn * ad
  BY <1>1 DEF Same
<1>3. (cn * an) * (cd * bd) = (cn * bn) * (cd * ad)
  <2>1. (cn * an) * (cd * bd) = (cn * cd) * (an * bd)
    BY MulExchange
  <2>2. (cn * bn) * (cd * ad) = (cn * cd) * (bn * ad)
    BY MulExchange
  <2>. QED
    BY <1>2, <2>1, <2>2
<1>. QED
  BY <1>1, <1>3 DEF Same, PlainProduct, Rate

LEMMA SumCommutes ==
  ASSUME NEW a \in Fraction, NEW b \in Fraction
  PROVE  PlainSum(a, b) = PlainSum(b, a)
<1>1. PICK an \in Int, ad \in Int, bn \in Int, bd \in Int :
        an = a.num /\ ad = a.den /\ bn = b.num /\ bd = b.den
  BY FractionParts
<1>2. an * bd + bn * ad = bn * ad + an * bd /\ ad * bd = bd * ad
  BY <1>1
<1>. QED
  BY <1>1, <1>2 DEF PlainSum, Rate

LEMMA SumAssociates ==
  ASSUME NEW a \in Fraction, NEW b \in Fraction, NEW c \in Fraction
  PROVE  PlainSum(PlainSum(a, b), c) = PlainSum(a, PlainSum(b, c))
<1>1. PICK an \in Int, ad \in Int, bn \in Int, bd \in Int, cn \in Int, cd \in Int :
        /\ an = a.num /\ ad = a.den /\ bn = b.num /\ bd = b.den /\ cn = c.num /\ cd = c.den
  BY FractionParts
<1>2. (an * bd + bn * ad) * cd + cn * (ad * bd) = an * (bd * cd) + (bn * cd + cn * bd) * ad
  BY CrossAssociates
<1>3. (ad * bd) * cd = ad * (bd * cd)
  BY <1>1
<1>. QED
  BY <1>1, <1>2, <1>3 DEF PlainSum, Rate

LEMMA ProductDistributes ==
  ASSUME NEW a \in Fraction, NEW b \in Fraction, NEW c \in Fraction
  PROVE  Same(PlainProduct(a, PlainSum(b, c)), PlainSum(PlainProduct(a, b), PlainProduct(a, c)))
<1>1. PICK an \in Int, ad \in Int, bn \in Int, bd \in Int, cn \in Int, cd \in Int :
        /\ an = a.num /\ ad = a.den /\ bn = b.num /\ bd = b.den /\ cn = c.num /\ cd = c.den
  BY FractionParts
<1>2. (an * (bn * cd + cn * bd)) * ((ad * bd) * (ad * cd))
        = ((an * bn) * (ad * cd) + (an * cn) * (ad * bd)) * (ad * (bd * cd))
  <2>. DEFINE p == an * bn  q == an * cn
  <2>1. p \in Int /\ q \in Int
    BY <1>1
  <2>2. an * (bn * cd + cn * bd) = p * cd + q * bd
    BY MulSum
  <2>. HIDE DEF p, q
  <2>3. p * (ad * cd) + q * (ad * bd) = ad * (p * cd + q * bd)
    BY <1>1, <2>1
  <2>4. (ad * bd) * (ad * cd) = ad * (ad * (bd * cd))
    BY <1>1
  <2>. DEFINE k == p * cd + q * bd  l == ad * (bd * cd)
  <2>5. k \in Int /\ l \in Int
    BY <1>1, <2>1
  <2>. HIDE DEF k, l
  <2>6. k * (ad * l) = (ad * k) * l
    BY <1>1, <2>5
  <2>. QED
    BY <2>2, <2>3, <2>4, <2>6 DEF k, l, p, q
<1>. QED
  BY <1>1, <1>2 DEF Same, PlainProduct, PlainSum, Rate

-----------------------------------------------------------------------------
(* Laws of the reduced operations                                          *)

LEMMA PlusCommutes ==
  ASSUME NEW a \in Fraction, NEW b \in Fraction
  PROVE  Plus(a, b) = Plus(b, a)
BY PlusLowest, SumCommutes

\* What has the same value as a sum has the same reduced sum.
LEMMA PlusSame ==
  ASSUME NEW a \in Fraction, NEW b \in Fraction, NEW c \in Fraction, Same(a, b)
  PROVE  Plus(a, c) = Plus(b, c) /\ Plus(c, a) = Plus(c, b)
<1>1. /\ Same(PlainSum(a, c), PlainSum(b, c))
      /\ PlainSum(a, c) \in Fraction /\ PlainSum(b, c) \in Fraction
  BY SumSame, PlainSumIs
<1>2. Plus(a, c) = Plus(b, c)
  BY <1>1, PlusLowest, LowestCanonical
<1>. QED
  BY <1>2, PlusCommutes

LEMMA PlusAssociates ==
  ASSUME NEW a \in Fraction, NEW b \in Fraction, NEW c \in Fraction
  PROVE  Plus(Plus(a, b), c) = Plus(a, Plus(b, c))
<1>. DEFINE ab == PlainSum(a, b)  bc == PlainSum(b, c)
<1>1. /\ ab \in Fraction /\ bc \in Fraction /\ Plus(a, b) \in Fraction /\ Plus(b, c) \in Fraction
      /\ Same(Plus(a, b), ab) /\ Same(Plus(b, c), bc)
  BY PlainSumIs, PlusIs
<1>2. PlainSum(ab, c) = PlainSum(a, bc)
  BY SumAssociates
<1>. HIDE DEF ab, bc
<1>3. Plus(Plus(a, b), c) = Plus(ab, c)
  BY <1>1, PlusSame
<1>4. Plus(a, Plus(b, c)) = Plus(a, bc)
  BY <1>1, PlusSame
<1>. QED
  BY <1>1, <1>2, <1>3, <1>4, PlusLowest

LEMMA TimesSame ==
  ASSUME NEW a \in Fraction, NEW b \in Fraction, NEW c \in Fraction, Same(a, b)
  PROVE  Times(c, a) = Times(c, b)
<1>1. /\ Same(PlainProduct(c, a), PlainProduct(c, b))
      /\ PlainProduct(c, a) \in Fraction /\ PlainProduct(c, b) \in Fraction
  BY ProductSame, PlainProductIs
<1>. QED
  BY <1>1, TimesIs, LowestCanonical

LEMMA TimesDistributes ==
  ASSUME NEW a \in Fraction, NEW b \in Fraction, NEW c \in Fraction
  PROVE  Times(a, Plus(b, c)) = Plus(Times(a, b), Times(a, c))
<1>. DEFINE bc == PlainSum(b, c)  ab == PlainProduct(a, b)  ac == PlainProduct(a, c)
<1>1. /\ bc \in Fraction /\ ab \in Fraction /\ ac \in Fraction /\ Plus(b, c) \in Fraction
      /\ Times(a, b) \in Fraction /\ Times(a, c) \in Fraction
      /\ Same(Plus(b, c), bc) /\ Same(Times(a, b), ab) /\ Same(Times(a, c), ac)
  BY PlainSumIs, PlainProductIs, PlusIs, TimesIs
<1>2. Same(PlainProduct(a, bc), PlainSum(ab, ac))
  BY ProductDistributes
<1>. HIDE DEF bc, ab, ac
<1>3. Times(a, Plus(b, c)) = Times(a, bc)
  BY <1>1, TimesSame
<1>4. Plus(Times(a, b), Times(a, c)) = Plus(ab, ac)
  BY <1>1, PlusSame
<1>5. PlainProduct(a, bc) \in Fraction /\ PlainSum(ab, ac) \in Fraction
  BY <1>1, PlainProductIs, PlainSumIs
<1>6. Lowest(PlainProduct(a, bc)) = Lowest(PlainSum(ab, ac))
  BY <1>2, <1>5, LowestCanonical
<1>. QED
  BY <1>1, <1>3, <1>4, <1>6, TimesIs, PlusLowest

\* Canonical: a fraction in its lowest form.
Reduced(r) == r \in Fraction /\ Lowest(r) = r

LEMMA LowestReduced ==
  ASSUME NEW r \in Fraction
  PROVE  Reduced(Lowest(r))
<1>1. Lowest(r) \in Fraction /\ Same(Lowest(r), r)
  BY LowestSame
<1>2. Lowest(Lowest(r)) = Lowest(r)
  BY <1>1, LowestCanonical
<1>. QED
  BY <1>1, <1>2 DEF Reduced

LEMMA WholeIs ==
  ASSUME NEW n \in Int
  PROVE  Whole(n) \in Fraction /\ Reduced(Whole(n)) /\ Whole(n).num = n /\ Whole(n).den = 1
<1>1. Whole(n) \in Fraction /\ Whole(n).num = n /\ Whole(n).den = 1
  BY DEF Whole, Rate, Fraction
<1>2. PICK d \in Nat \ {0}, k \in Int :
        Lowest(Whole(n)) = Rate(k, d) /\ d <= Whole(n).den /\ Whole(n).num * d = k * Whole(n).den
  BY <1>1, LowestIs
<1>3. d = 1 /\ k = n
  BY <1>1, <1>2
<1>. QED
  BY <1>1, <1>2, <1>3 DEF Reduced, Whole

LEMMA PlusZero ==
  ASSUME NEW a \in Fraction
  PROVE  Plus(a, Whole(0)) = Lowest(a) /\ Plus(Whole(0), a) = Lowest(a)
<1>1. a.num \in Int /\ a.den \in Int /\ a = [num |-> a.num, den |-> a.den]
  BY DEF Fraction
<1>2. a.num * 1 + 0 * a.den = a.num /\ a.den * 1 = a.den
  BY <1>1
<1>3. PlainSum(a, Whole(0)) = a
  BY <1>1, <1>2 DEF PlainSum, Whole, Rate
<1>4. Whole(0) \in Fraction
  BY WholeIs
<1>. QED
  BY <1>3, <1>4, PlusLowest, PlusCommutes

LEMMA PlusOpposite ==
  ASSUME NEW a \in Fraction
  PROVE  Negative(a) \in Fraction /\ Plus(a, Negative(a)) = Whole(0)
<1>1. a.num \in Int /\ a.den \in Int /\ a.den > 0
  BY DEF Fraction
<1>2. Negative(a) \in Fraction
  BY DEF Fraction, Negative, Rate
<1>3. a.num * a.den + (-a.num) * a.den = 0
  BY <1>1
<1>4. Same(PlainSum(a, Negative(a)), Whole(0))
  BY <1>1, <1>3 DEF Same, PlainSum, Negative, Whole, Rate
<1>5. Lowest(PlainSum(a, Negative(a))) = Lowest(Whole(0))
  BY <1>2, <1>4, PlainSumIs, WholeIs, LowestCanonical
<1>. QED
  BY <1>2, <1>5, PlusLowest, WholeIs DEF Reduced

LEMMA OppositeIs ==
  ASSUME NEW a \in Fraction
  PROVE  Same(Negative(a), Times(Whole(-1), a))
<1>1. a.num \in Int /\ a.den \in Int /\ a.den > 0
  BY DEF Fraction
<1>2. Whole(-1) \in Fraction /\ Whole(-1).num = -1 /\ Whole(-1).den = 1
  BY WholeIs
<1>3. Negative(a) \in Fraction
  BY DEF Fraction, Negative, Rate
<1>4. Same(Negative(a), PlainProduct(Whole(-1), a))
  <2>1. (-a.num) * (1 * a.den) = ((-1) * a.num) * a.den
    BY <1>1
  <2>. QED
    BY <1>2, <2>1 DEF Same, Negative, PlainProduct, Rate
<1>5. /\ Times(Whole(-1), a) \in Fraction /\ PlainProduct(Whole(-1), a) \in Fraction
      /\ Same(PlainProduct(Whole(-1), a), Times(Whole(-1), a))
  BY <1>2, TimesIs, PlainProductIs, SameSymmetric
<1>. QED
  BY <1>3, <1>4, <1>5, SameTransitive

-----------------------------------------------------------------------------
(* Sums of fractions                                                       *)

AddingFractions(f, S) == [p \in S \X Fraction |-> Plus(f[p[1]], p[2])]

FractionBody(f, S, sum) ==
  [T \in SUBSET S |-> IF T = {} THEN Whole(0) ELSE Plus(f[Picked(T)], sum[T \ {Picked(T)}])]

LEMMA SumOverExpanded ==
  ASSUME NEW f, NEW S
  PROVE  SumOver(f, S) = (CHOOSE sum : sum = FractionBody(f, S, sum))[S]
BY DEF SumOver, FoldFunctionOnSet, MapThenFoldSet, FractionBody, Picked

LEMMA AddingFractionsIs ==
  ASSUME NEW S, NEW f, \A x \in S : f[x] \in Fraction
  PROVE  AddingFractions(f, S) \in [S \X Fraction -> Fraction]
<1>1. ASSUME NEW x \in S, NEW v \in Fraction PROVE Plus(f[x], v) \in Fraction
  BY PlusIs
<1>. QED
  BY <1>1 DEF AddingFractions

LEMMA AddedFraction ==
  ASSUME NEW S, NEW f, NEW x \in S, NEW v \in Fraction
  PROVE  AddingFractions(f, S)[<<x, v>>] = Plus(f[x], v)
BY DEF AddingFractions

\* The sum is a folding of S.
LEMMA SumOverFolding ==
  ASSUME NEW S, IsFiniteSet(S), NEW f, \A x \in S : f[x] \in Fraction
  PROVE  \E sum : /\ Folding(sum, S, Whole(0), AddingFractions(f, S))
                  /\ SumOver(f, S) = sum[S]
<1>. DEFINE add == AddingFractions(f, S)
<1>0. Whole(0) \in Fraction
  BY WholeIs
<1>1. add \in [S \X Fraction -> Fraction]
  BY AddingFractionsIs
<1>2. ASSUME NEW x \in S, NEW v \in Fraction PROVE add[<<x, v>>] = Plus(f[x], v)
  BY AddedFraction
<1>. HIDE DEF add
<1>3. PICK g : Folding(g, S, Whole(0), add)
  BY FoldingExists
<1>4. \A T \in SUBSET S : g[T] \in Fraction
  BY <1>0, <1>1, <1>3, FoldingValues
<1>5. g = FractionBody(f, S, g)
  <2>1. ASSUME NEW T \in SUBSET S, T # {}
        PROVE  add[<<Picked(T), g[T \ {Picked(T)}]>>] = Plus(f[Picked(T)], g[T \ {Picked(T)}])
    BY <1>2, <1>4, <2>1, PickedIn
  <2>. QED
    BY <1>3, <2>1 DEF Folding, FractionBody
<1>. DEFINE sum == CHOOSE sum : sum = FractionBody(f, S, sum)
<1>6. sum = FractionBody(f, S, sum)
  BY <1>5
<1>. HIDE DEF sum
<1>7. /\ sum = [U \in SUBSET S |-> sum[U]] /\ sum[{}] = Whole(0)
      /\ \A U \in SUBSET S : U # {} => sum[U] = Plus(f[Picked(U)], sum[U \ {Picked(U)}])
  BY <1>6 DEF FractionBody
<1>8. ASSUME NEW U \in SUBSET S, U # {}, sum[U \ {Picked(U)}] \in Fraction
      PROVE  sum[U] = add[<<Picked(U), sum[U \ {Picked(U)}]>>]
  BY <1>2, <1>7, <1>8, PickedIn
<1>9. FoldingOver(sum, S, Fraction, Whole(0), add)
  BY <1>7, <1>8 DEF FoldingOver
<1>10. Folding(sum, S, Whole(0), add)
  BY <1>0, <1>1, <1>9, FoldingTyped
<1>. QED
  BY <1>10, SumOverExpanded DEF sum, add

\* Restricting the function restricts the folding.
LEMMA SumOverFoldingPart ==
  ASSUME NEW S, IsFiniteSet(S), NEW f, \A x \in S : f[x] \in Fraction, NEW T \in SUBSET S, NEW sum,
         Folding(sum, S, Whole(0), AddingFractions(f, S))
  PROVE  SumOver(f, T) = sum[T] /\ sum[T] \in Fraction
<1>. DEFINE add == AddingFractions(f, T)
<1>0. Whole(0) \in Fraction
  BY WholeIs
<1>1. IsFiniteSet(T) /\ \A x \in T : f[x] \in Fraction
  BY FS_Subset
<1>2. add \in [T \X Fraction -> Fraction]
  BY <1>1, AddingFractionsIs
<1>3. ASSUME NEW x \in T, NEW v \in Fraction
      PROVE  add[<<x, v>>] = Plus(f[x], v) /\ AddingFractions(f, S)[<<x, v>>] = Plus(f[x], v)
  BY AddedFraction
<1>4. PICK h : Folding(h, T, Whole(0), add) /\ SumOver(f, T) = h[T]
  BY <1>1, SumOverFolding
<1>. HIDE DEF add
<1>5. \A U \in SUBSET T : h[U] \in Fraction
  <2>1. PICK zero \in Fraction : zero = Whole(0)
    BY <1>0
  <2>2. IsFiniteSet(T) /\ Folding(h, T, zero, add)
    BY <1>1, <1>4, <2>1
  <2>. QED
    BY <1>2, <2>2, FoldingValues, Z3
<1>6. Folding(h, T, Whole(0), AddingFractions(f, S))
  <2>1. ASSUME NEW U \in SUBSET T, U # {}
        PROVE  add[<<Picked(U), h[U \ {Picked(U)}]>>]
                 = AddingFractions(f, S)[<<Picked(U), h[U \ {Picked(U)}]>>]
    BY <1>3, <1>5, <2>1, PickedIn
  <2>. QED
    BY <1>4, <2>1 DEF Folding
<1>7. h[T] = sum[T]
  <2>1. T \in SUBSET (T \cap S)
    OBVIOUS
  <2>. QED
    BY <1>1, <1>6, <2>1, FoldingUnique
<1>. QED
  BY <1>4, <1>5, <1>7

\* What a sum is.
LEMMA SumOverStep ==
  ASSUME NEW S, IsFiniteSet(S), NEW f, \A x \in S : f[x] \in Fraction
  PROVE  /\ SumOver(f, S) \in Fraction
         /\ S = {} => SumOver(f, S) = Whole(0)
         /\ S # {} => SumOver(f, S) = Plus(f[Picked(S)], SumOver(f, S \ {Picked(S)}))
<1>1. PICK g : Folding(g, S, Whole(0), AddingFractions(f, S)) /\ SumOver(f, S) = g[S]
  BY SumOverFolding
<1>2. PICK Y : Y = S \ {Picked(S)}
  OBVIOUS
<1>3. Y \in SUBSET S /\ S \in SUBSET S
  BY <1>2
<1>4. SumOver(f, Y) = g[Y] /\ g[Y] \in Fraction /\ g[S] \in Fraction
  BY <1>1, <1>3, SumOverFoldingPart
<1>5. g[{}] = Whole(0)
  BY <1>1, FoldingBase
<1>6. S # {} => g[S] = Plus(f[Picked(S)], g[Y])
  <2>. SUFFICES ASSUME S # {} PROVE g[S] = Plus(f[Picked(S)], g[Y])
    OBVIOUS
  <2>2. g[S] = AddingFractions(f, S)[<<Picked(S), g[Y]>>]
    BY <1>1, <1>2, FoldingNext
  <2>3. PICK x \in S, v \in Fraction : x = Picked(S) /\ v = g[Y]
    BY <1>4, PickedIn
  <2>4. AddingFractions(f, S)[<<x, v>>] = Plus(f[x], v)
    BY AddedFraction
  <2>. QED
    BY <2>2, <2>3, <2>4
<1>. QED
  BY <1>1, <1>2, <1>4, <1>5, <1>6

\* Functions whose values on S are fractions.
Fractional(f, S) == \A x \in S : f[x] \in Fraction

LEMMA PlusReduced ==
  ASSUME NEW a \in Fraction, NEW b \in Fraction
  PROVE  Reduced(Plus(a, b))
<1>1. PlainSum(a, b) \in Fraction
  BY PlainSumIs
<1>. QED
  BY <1>1, LowestReduced, PlusLowest

LEMMA SumOverReduced ==
  ASSUME NEW S, IsFiniteSet(S), NEW f, \A x \in S : f[x] \in Fraction
  PROVE  Reduced(SumOver(f, S))
<1>1. CASE S = {}
  BY <1>1, SumOverStep, WholeIs
<1>2. CASE S # {}
  <2>1. PICK x \in S : x = Picked(S)
    BY <1>2, PickedIn
  <2>2. PICK T : T = S \ {x}
    OBVIOUS
  <2>3. IsFiniteSet(T) /\ \A y \in T : f[y] \in Fraction
    BY <2>2, FS_Subset
  <2>4. SumOver(f, T) \in Fraction
    BY <2>3, SumOverStep
  <2>5. SumOver(f, S) = Plus(f[x], SumOver(f, T))
    BY <1>2, <2>1, <2>2, SumOverStep
  <2>. QED
    BY <2>4, <2>5, PlusReduced
<1>. QED
  BY <1>1, <1>2

\* The steps of a sum over any subset of S.
LEMMA SumOverSteps ==
  ASSUME NEW S, IsFiniteSet(S), NEW f, Fractional(f, S), NEW T \in SUBSET S
  PROVE  /\ SumOver(f, T) \in Fraction
         /\ T = {} => SumOver(f, T) = Whole(0)
         /\ T # {} => SumOver(f, T) = Plus(f[Picked(T)], SumOver(f, T \ {Picked(T)}))
<1>1. IsFiniteSet(T) /\ \A x \in T : f[x] \in Fraction
  BY FS_Subset DEF Fractional
<1>. QED
  BY <1>1, SumOverStep

LEMMA PlusInterchange ==
  ASSUME NEW a \in Fraction, NEW b \in Fraction, NEW c \in Fraction, NEW d \in Fraction
  PROVE  Plus(Plus(a, b), Plus(c, d)) = Plus(Plus(a, c), Plus(b, d))
<1>1. /\ Plus(a, b) \in Fraction /\ Plus(c, d) \in Fraction /\ Plus(b, d) \in Fraction
      /\ Plus(b, Plus(c, d)) \in Fraction /\ Plus(c, b) \in Fraction /\ Plus(b, c) \in Fraction
  <2>1. Plus(a, b) \in Fraction /\ Plus(c, d) \in Fraction /\ Plus(b, d) \in Fraction
    BY PlusIs
  <2>2. Plus(c, b) \in Fraction /\ Plus(b, c) \in Fraction
    BY PlusIs
  <2>. QED
    BY <2>1, <2>2, PlusIs
<1>2. Plus(Plus(a, b), Plus(c, d)) = Plus(a, Plus(b, Plus(c, d)))
  BY <1>1, PlusAssociates
<1>3. Plus(b, Plus(c, d)) = Plus(Plus(b, c), d)
  BY PlusAssociates
<1>4. Plus(Plus(b, c), d) = Plus(Plus(c, b), d)
  BY PlusCommutes
<1>5. Plus(Plus(c, b), d) = Plus(c, Plus(b, d))
  BY PlusAssociates
<1>6. Plus(a, Plus(c, Plus(b, d))) = Plus(Plus(a, c), Plus(b, d))
  BY <1>1, PlusAssociates
<1>. QED
  BY <1>2, <1>3, <1>4, <1>5, <1>6

\* A sum of sums is the sum of the sums.
LEMMA SumOverPlus ==
  ASSUME NEW S, IsFiniteSet(S), NEW f, NEW g, NEW h,
         \A x \in S : f[x] \in Fraction /\ g[x] \in Fraction /\ h[x] = Plus(f[x], g[x])
  PROVE  SumOver(h, S) = Plus(SumOver(f, S), SumOver(g, S))
<1>. DEFINE F(T) == SumOver(f, T)
            K(T) == SumOver(g, T)
            H(T) == SumOver(h, T)
            G == {T \in SUBSET S : H(T) = Plus(F(T), K(T))}
<1>1. Fractional(f, S) /\ Fractional(g, S)
  BY DEF Fractional
<1>2. Fractional(h, S)
  BY PlusIs DEF Fractional
<1>3. ASSUME NEW T \in SUBSET S
      PROVE  /\ F(T) \in Fraction /\ (T = {} => F(T) = Whole(0))
             /\ T # {} => F(T) = Plus(f[Picked(T)], F(T \ {Picked(T)}))
  BY <1>1, SumOverSteps
<1>4. ASSUME NEW T \in SUBSET S
      PROVE  /\ K(T) \in Fraction /\ (T = {} => K(T) = Whole(0))
             /\ T # {} => K(T) = Plus(g[Picked(T)], K(T \ {Picked(T)}))
  BY <1>1, SumOverSteps
<1>5. ASSUME NEW T \in SUBSET S
      PROVE  /\ H(T) \in Fraction /\ (T = {} => H(T) = Whole(0))
             /\ T # {} => H(T) = Plus(h[Picked(T)], H(T \ {Picked(T)}))
  BY <1>2, SumOverSteps
<1>. HIDE DEF F, K, H
<1>6. {} \in G
  <2>1. F({}) = Whole(0) /\ K({}) = Whole(0) /\ H({}) = Whole(0)
    BY <1>3, <1>4, <1>5
  <2>2. Plus(Whole(0), Whole(0)) = Whole(0)
    BY WholeIs, PlusZero DEF Reduced
  <2>. QED
    BY <2>1, <2>2
<1>7. ASSUME NEW T \in SUBSET S, T # {}, T \ {Picked(T)} \in G
      PROVE  T \in G
  <2>1. PICK x \in S : x = Picked(T)
    BY <1>7, PickedIn
  <2>2. PICK U \in SUBSET S : U = T \ {x}
    OBVIOUS
  <2>3. H(U) = Plus(F(U), K(U)) /\ F(U) \in Fraction /\ K(U) \in Fraction
    BY <1>3, <1>4, <1>7, <2>1, <2>2
  <2>4. F(T) = Plus(f[x], F(U)) /\ K(T) = Plus(g[x], K(U)) /\ H(T) = Plus(h[x], H(U))
    BY <1>3, <1>4, <1>5, <1>7, <2>1, <2>2
  <2>5. H(T) = Plus(F(T), K(T))
    BY <1>1, <2>3, <2>4, PlusInterchange DEF Fractional
  <2>. QED
    BY <2>5
<1>8. S \in G
  <2>. HIDE DEF G
  <2>. QED
    BY <1>6, <1>7, PickInduction
<1>. QED
  BY <1>8 DEF F, K, H

LEMMA TimesZero ==
  ASSUME NEW k \in Fraction
  PROVE  Times(k, Whole(0)) = Whole(0)
<1>1. /\ k.num \in Int /\ k.den \in Int /\ k.den > 0
      /\ Whole(0) \in Fraction /\ Whole(0).num = 0 /\ Whole(0).den = 1
  BY WholeIs DEF Fraction
<1>2. /\ PlainProduct(k, Whole(0)) \in Fraction
      /\ Times(k, Whole(0)) = Lowest(PlainProduct(k, Whole(0)))
  BY <1>1, PlainProductIs, TimesIs
<1>3. k.num * 0 = 0 /\ k.den * 1 \in Int
  BY <1>1
<1>4. Same(PlainProduct(k, Whole(0)), Whole(0))
  BY <1>1, <1>3 DEF Same, PlainProduct, Rate
<1>. QED
  BY <1>1, <1>2, <1>4, LowestCanonical, WholeIs DEF Reduced

\* A factor can be taken out of a sum.
LEMMA SumOverTimes ==
  ASSUME NEW S, IsFiniteSet(S), NEW f, NEW h, NEW k \in Fraction,
         \A x \in S : f[x] \in Fraction /\ h[x] = Times(k, f[x])
  PROVE  SumOver(h, S) = Times(k, SumOver(f, S))
<1>. DEFINE F(T) == SumOver(f, T)
            H(T) == SumOver(h, T)
            G == {T \in SUBSET S : H(T) = Times(k, F(T))}
<1>1. Fractional(f, S)
  BY DEF Fractional
<1>2. Fractional(h, S)
  BY TimesIs DEF Fractional
<1>3. ASSUME NEW T \in SUBSET S
      PROVE  /\ F(T) \in Fraction /\ (T = {} => F(T) = Whole(0))
             /\ T # {} => F(T) = Plus(f[Picked(T)], F(T \ {Picked(T)}))
  BY <1>1, SumOverSteps
<1>4. ASSUME NEW T \in SUBSET S
      PROVE  /\ H(T) \in Fraction /\ (T = {} => H(T) = Whole(0))
             /\ T # {} => H(T) = Plus(h[Picked(T)], H(T \ {Picked(T)}))
  BY <1>2, SumOverSteps
<1>. HIDE DEF F, H
<1>5. {} \in G
  <2>1. F({}) = Whole(0) /\ H({}) = Whole(0)
    BY <1>3, <1>4
  <2>. QED
    BY <2>1, TimesZero
<1>6. ASSUME NEW T \in SUBSET S, T # {}, T \ {Picked(T)} \in G
      PROVE  T \in G
  <2>1. PICK x \in S : x = Picked(T)
    BY <1>6, PickedIn
  <2>2. PICK U \in SUBSET S : U = T \ {x}
    OBVIOUS
  <2>3. H(U) = Times(k, F(U)) /\ F(U) \in Fraction
    BY <1>3, <1>6, <2>1, <2>2
  <2>4. F(T) = Plus(f[x], F(U)) /\ H(T) = Plus(h[x], H(U)) /\ h[x] = Times(k, f[x])
    BY <1>3, <1>4, <1>6, <2>1, <2>2
  <2>5. H(T) = Times(k, F(T))
    BY <1>1, <2>3, <2>4, TimesDistributes DEF Fractional
  <2>. QED
    BY <2>5
<1>7. S \in G
  <2>. HIDE DEF G
  <2>. QED
    BY <1>5, <1>6, PickInduction
<1>. QED
  BY <1>7 DEF F, H

LEMMA PlusWhole ==
  ASSUME NEW m \in Int, NEW n \in Int
  PROVE  Plus(Whole(m), Whole(n)) = Whole(m + n)
<1>1. /\ Whole(m) \in Fraction /\ Whole(m).num = m /\ Whole(m).den = 1
      /\ Whole(n) \in Fraction /\ Whole(n).num = n /\ Whole(n).den = 1
  BY WholeIs
<1>2. m * 1 + n * 1 = m + n /\ 1 * 1 = 1
  OBVIOUS
<1>3. PlainSum(Whole(m), Whole(n)) = Whole(m + n)
  BY <1>1, <1>2 DEF PlainSum, Whole
<1>4. Lowest(Whole(m + n)) = Whole(m + n)
  BY WholeIs DEF Reduced
<1>. QED
  BY <1>1, <1>3, <1>4, PlusLowest

\* Functions whose values on S are naturals.
Natural(f, S) == \A x \in S : f[x] \in Nat

\* The sum of whole numbers is their sum.
LEMMA SumOverWholes ==
  ASSUME NEW S, IsFiniteSet(S), NEW f, NEW h, Natural(f, S), \A x \in S : h[x] = Whole(f[x])
  PROVE  SumOver(h, S) = Whole(SumFunctionOnSet(f, S)) /\ SumFunctionOnSet(f, S) \in Nat
<1>. DEFINE F(T) == SumFunctionOnSet(f, T)
            H(T) == SumOver(h, T)
            G == {T \in SUBSET S : F(T) \in Nat /\ H(T) = Whole(F(T))}
<1>1. \A x \in S : f[x] \in Nat /\ h[x] = Whole(f[x])
  BY DEF Natural
<1>2. Fractional(h, S)
  BY <1>1, WholeIs DEF Fractional
<1>3. ASSUME NEW T \in SUBSET S
      PROVE  /\ T = {} => F(T) = 0
             /\ T # {} => F(T) = f[Picked(T)] + F(T \ {Picked(T)})
  <2>1. IsFiniteSet(T) /\ \A x \in T : f[x] \in Int
    BY <1>1, FS_Subset
  <2>. QED
    BY <2>1, SumStep
<1>4. ASSUME NEW T \in SUBSET S
      PROVE  /\ H(T) \in Fraction /\ (T = {} => H(T) = Whole(0))
             /\ T # {} => H(T) = Plus(h[Picked(T)], H(T \ {Picked(T)}))
  BY <1>2, SumOverSteps
<1>. HIDE DEF F, H
<1>5. {} \in G
  <2>1. {} \in SUBSET S
    OBVIOUS
  <2>2. F({}) = 0
    BY <1>3, <2>1
  <2>3. H({}) = Whole(0)
    BY <1>4, <2>1
  <2>. QED
    BY <2>1, <2>2, <2>3
<1>6. ASSUME NEW T \in SUBSET S, T # {}, T \ {Picked(T)} \in G
      PROVE  T \in G
  <2>1. PICK x \in S : x = Picked(T)
    BY <1>6, PickedIn
  <2>2. PICK U \in SUBSET S : U = T \ {x}
    OBVIOUS
  <2>3. F(U) \in Nat /\ H(U) = Whole(F(U)) /\ f[x] \in Nat /\ h[x] = Whole(f[x])
    BY <1>1, <1>6, <2>1, <2>2
  <2>4. F(T) = f[x] + F(U) /\ H(T) = Plus(h[x], H(U))
    BY <1>3, <1>4, <1>6, <2>1, <2>2
  <2>5. F(T) \in Nat /\ H(T) = Whole(F(T))
    <3>1. PICK m \in Nat, n \in Nat : m = f[x] /\ n = F(U)
      BY <2>3
    <3>2. H(T) = Plus(Whole(m), Whole(n)) /\ F(T) = m + n
      BY <2>3, <2>4, <3>1
    <3>3. Plus(Whole(m), Whole(n)) = Whole(m + n)
      BY PlusWhole
    <3>. QED
      BY <3>2, <3>3
  <2>. QED
    BY <2>5
<1>7. S \in G
  <2>. HIDE DEF G
  <2>. QED
    BY <1>5, <1>6, PickInduction
<1>. QED
  BY <1>7 DEF F, H

LEMMA SumOfOnes ==
  ASSUME NEW S, IsFiniteSet(S), NEW f, \A x \in S : f[x] = 1
  PROVE  SumFunctionOnSet(f, S) = Cardinality(S)
<1>. DEFINE F(T) == SumFunctionOnSet(f, T)
            G == {T \in SUBSET S : F(T) = Cardinality(T)}
<1>1. ASSUME NEW T \in SUBSET S
      PROVE  /\ T = {} => F(T) = 0
             /\ T # {} => F(T) = f[Picked(T)] + F(T \ {Picked(T)})
  <2>1. IsFiniteSet(T) /\ \A x \in T : f[x] \in Int
    BY FS_Subset
  <2>. QED
    BY <2>1, SumStep
<1>. HIDE DEF F
<1>2. {} \in G
  BY <1>1, FS_EmptySet
<1>3. ASSUME NEW T \in SUBSET S, T # {}, T \ {Picked(T)} \in G
      PROVE  T \in G
  <2>1. PICK x \in T : x = Picked(T)
    BY <1>3, PickedIn
  <2>2. F(T) = 1 + Cardinality(T \ {x})
    BY <1>1, <1>3, <2>1
  <2>3. IsFiniteSet(T)
    BY FS_Subset
  <2>4. Cardinality(T) \in Nat /\ Cardinality(T \ {x}) = Cardinality(T) - 1
    BY <2>3, FS_CardinalityType, FS_RemoveElement
  <2>5. F(T) = Cardinality(T)
    BY <2>2, <2>4
  <2>. QED
    BY <2>5
<1>4. S \in G
  <2>. HIDE DEF G
  <2>. QED
    BY <1>2, <1>3, PickInduction
<1>. QED
  BY <1>4 DEF F

LEMMA TimesCommutes ==
  ASSUME NEW a \in Fraction, NEW b \in Fraction
  PROVE  Times(a, b) = Times(b, a)
<1>1. PICK an \in Int, ad \in Int, bn \in Int, bd \in Int :
        an = a.num /\ ad = a.den /\ bn = b.num /\ bd = b.den
  BY FractionParts
<1>2. an * bn = bn * an /\ ad * bd = bd * ad
  OBVIOUS
<1>3. PlainProduct(a, b) = PlainProduct(b, a)
  BY <1>1, <1>2 DEF PlainProduct
<1>. QED
  BY <1>3, TimesIs

LEMMA TimesOne ==
  ASSUME NEW a \in Fraction
  PROVE  Times(a, Whole(1)) = Lowest(a)
<1>1. a.num \in Int /\ a.den \in Int /\ a = [num |-> a.num, den |-> a.den]
  BY DEF Fraction
<1>2. a.num * 1 = a.num /\ a.den * 1 = a.den
  BY <1>1
<1>3. PlainProduct(a, Whole(1)) = a
  BY <1>1, <1>2 DEF PlainProduct, Whole, Rate
<1>4. Whole(1) \in Fraction
  BY WholeIs
<1>. QED
  BY <1>3, <1>4, TimesIs

\* A sum of one value is that many times the value.
LEMMA SumOverConstant ==
  ASSUME NEW S, IsFiniteSet(S), NEW k, Reduced(k), NEW h, \A x \in S : h[x] = k
  PROVE  SumOver(h, S) = Times(Whole(Cardinality(S)), k) /\ Cardinality(S) \in Nat
<1>. DEFINE ones == [x \in S |-> 1]
            wholes == [x \in S |-> Whole(1)]
<1>1. k \in Fraction /\ Times(k, Whole(1)) = k /\ Whole(1) \in Fraction
  BY TimesOne, WholeIs DEF Reduced
<1>2. \A x \in S : wholes[x] \in Fraction /\ h[x] = Times(k, wholes[x])
  BY <1>1
<1>3. /\ \A x \in S : ones[x] = 1
      /\ Natural(ones, S) /\ \A x \in S : wholes[x] = Whole(ones[x])
  BY DEF Natural
<1>. HIDE DEF ones, wholes
<1>4. SumOver(h, S) = Times(k, SumOver(wholes, S))
  BY <1>1, <1>2, SumOverTimes
<1>5. SumOver(wholes, S) = Whole(SumFunctionOnSet(ones, S))
  BY <1>3, SumOverWholes
<1>6. SumFunctionOnSet(ones, S) = Cardinality(S)
  BY <1>3, SumOfOnes
<1>7. Cardinality(S) \in Nat
  BY FS_CardinalityType
<1>8. Whole(Cardinality(S)) \in Fraction
  BY <1>7, WholeIs
<1>. QED
  BY <1>1, <1>4, <1>5, <1>6, <1>7, <1>8, TimesCommutes

\* Division by a positive whole number.
LEMMA OverIs ==
  ASSUME NEW a \in Fraction, NEW n \in Nat, n > 0
  PROVE  /\ Rate(1, n) \in Fraction
         /\ Over(a, Whole(n)) = Times(Rate(1, n), a)
         /\ Over(a, Whole(n)) \in Fraction
         /\ Same(Over(a, Whole(n)), Rate(a.num, a.den * n)) /\ Rate(a.num, a.den * n) \in Fraction
<1>1. /\ a.num \in Int /\ a.den \in Int /\ a.den > 0
      /\ Whole(n).num = n /\ Whole(n).den = 1
  BY WholeIs DEF Fraction
<1>2. Rate(1, n) \in Fraction /\ Rate(1, n).num = 1 /\ Rate(1, n).den = n
  BY DEF Rate, Fraction
<1>3. a.num * 1 = a.num /\ 1 * a.num = a.num /\ n * a.den = a.den * n /\ ~(n < 0)
  BY <1>1
<1>4. PlainProduct(Rate(1, n), a) = Rate(a.num, a.den * n)
  BY <1>2, <1>3 DEF PlainProduct
<1>5. Over(a, Whole(n)) = Lowest(Rate(a.num, a.den * n))
  BY <1>1, <1>3 DEF Over
<1>6. PlainProduct(Rate(1, n), a) \in Fraction
  BY <1>2, PlainProductIs
<1>. QED
  BY <1>2, <1>4, <1>5, <1>6, TimesIs, LowestSame

LEMMA OverReduced ==
  ASSUME NEW a \in Fraction, NEW n \in Nat, n > 0
  PROVE  Reduced(Over(a, Whole(n)))
<1>1. Rate(1, n) \in Fraction /\ Over(a, Whole(n)) = Times(Rate(1, n), a)
  BY OverIs
<1>2. PlainProduct(Rate(1, n), a) \in Fraction
  BY <1>1, PlainProductIs
<1>. QED
  BY <1>1, <1>2, TimesIs, LowestReduced

LEMMA TimesOver ==
  ASSUME NEW a \in Fraction, NEW n \in Nat, n > 0
  PROVE  Times(Whole(n), Over(a, Whole(n))) = Lowest(a)
<1>1. /\ a.num \in Int /\ a.den \in Int /\ a.den > 0
      /\ Whole(n) \in Fraction /\ Whole(n).num = n /\ Whole(n).den = 1
  BY WholeIs DEF Fraction
<1>2. PICK q \in Fraction : q = Rate(a.num, a.den * n)
  BY OverIs
<1>3. Over(a, Whole(n)) \in Fraction /\ Same(Over(a, Whole(n)), q)
  BY <1>2, OverIs
<1>4. Times(Whole(n), Over(a, Whole(n))) = Times(Whole(n), q)
  BY <1>1, <1>3, TimesSame
<1>5. (n * a.num) * a.den = a.num * (1 * (a.den * n))
  <2>1. \A x \in Int, y \in Int : (n * x) * y = x * (1 * (y * n))
    OBVIOUS
  <2>. QED
    BY <1>1, <2>1
<1>6. Same(PlainProduct(Whole(n), q), a)
  BY <1>1, <1>2, <1>5 DEF Same, PlainProduct, Rate
<1>7. PlainProduct(Whole(n), q) \in Fraction
  BY <1>1, PlainProductIs
<1>. QED
  BY <1>1, <1>4, <1>6, <1>7, TimesIs, LowestCanonical

LEMMA MinusOpposite ==
  ASSUME NEW a \in Fraction, NEW b \in Fraction
  PROVE  Minus(a, b) = Plus(a, Times(Whole(-1), b)) /\ Times(Whole(-1), b) \in Fraction
<1>1. Whole(-1) \in Fraction /\ Negative(b) \in Fraction
  BY WholeIs, PlusOpposite
<1>2. Times(Whole(-1), b) \in Fraction
  BY <1>1, TimesIs
<1>3. Same(Negative(b), Times(Whole(-1), b))
  BY OppositeIs
<1>. QED
  BY <1>1, <1>2, <1>3, PlusSame DEF Minus

\* Distances from the mean cancel out.
LEMMA CentredCancel ==
  ASSUME NEW S, IsFiniteSet(S), S # {}, NEW d, Fractional(d, S), NEW mean,
         mean = Over(SumOver(d, S), Whole(Cardinality(S))),
         NEW h, \A x \in S : h[x] = Minus(d[x], mean)
  PROVE  SumOver(h, S) = Whole(0)
<1>. DEFINE minus == Times(Whole(-1), mean)
            offsets == [x \in S |-> minus]
            n == Cardinality(S)
            sum == SumOver(d, S)
<1>1. n \in Nat /\ n > 0
  <2>1. n \in Nat /\ n # 0
    BY FS_CardinalityType, FS_EmptySet
  <2>. QED
    BY <2>1
<1>2. sum \in Fraction /\ Reduced(sum)
  <2>1. \A x \in S : d[x] \in Fraction
    BY DEF Fractional
  <2>. QED
    BY <2>1, SumOverStep, SumOverReduced
<1>3. Whole(-1) \in Fraction /\ Whole(n) \in Fraction
  BY <1>1, WholeIs
<1>. HIDE DEF n, sum
<1>4. mean \in Fraction /\ Times(Whole(n), mean) = sum
  BY <1>1, <1>2, OverIs, TimesOver DEF Reduced, n, sum
<1>5. minus \in Fraction /\ Reduced(minus)
  <2>1. PlainProduct(Whole(-1), mean) \in Fraction
    BY <1>3, <1>4, PlainProductIs
  <2>. QED
    BY <1>3, <1>4, <2>1, TimesIs, LowestReduced
<1>6. SumOver(offsets, S) = Times(Whole(n), minus)
  <2>1. \A x \in S : offsets[x] = minus
    OBVIOUS
  <2>. HIDE DEF offsets, minus
  <2>. QED
    BY <1>5, <2>1, SumOverConstant DEF n
<1>7. Times(Whole(n), minus) = Times(Whole(-1), sum)
  <2>1. SumOver([x \in S |-> mean], S) = sum
    <3>1. Reduced(mean)
      BY <1>1, <1>2, OverReduced DEF n, sum
    <3>. DEFINE means == [x \in S |-> mean]
    <3>2. \A x \in S : means[x] = mean
      OBVIOUS
    <3>. HIDE DEF means
    <3>3. SumOver(means, S) = Times(Whole(n), mean)
      BY <3>1, <3>2, SumOverConstant DEF n
    <3>. QED
      BY <1>4, <3>3 DEF means
  <2>2. SumOver(offsets, S) = Times(Whole(-1), SumOver([x \in S |-> mean], S))
    <3>. DEFINE means == [x \in S |-> mean]
    <3>1. \A x \in S : means[x] \in Fraction /\ offsets[x] = Times(Whole(-1), means[x])
      BY <1>4
    <3>. HIDE DEF means, offsets
    <3>2. SumOver(offsets, S) = Times(Whole(-1), SumOver(means, S))
      BY <1>3, <3>1, SumOverTimes
    <3>. QED
      BY <3>2 DEF means
  <2>. HIDE DEF offsets, minus
  <2>. QED
    BY <1>6, <2>1, <2>2
<1>8. SumOver(h, S) = Plus(sum, SumOver(offsets, S))
  <2>1. \A x \in S : d[x] \in Fraction /\ offsets[x] \in Fraction /\ h[x] = Plus(d[x], offsets[x])
    BY <1>4, <1>5, MinusOpposite DEF Fractional
  <2>. HIDE DEF offsets
  <2>. QED
    BY <2>1, SumOverPlus DEF sum
<1>9. Plus(sum, Times(Whole(-1), sum)) = Minus(sum, sum)
  BY <1>2, MinusOpposite
<1>. HIDE DEF offsets, minus
<1>. QED
  BY <1>2, <1>6, <1>7, <1>8, <1>9, PlusOpposite DEF Minus

-----------------------------------------------------------------------------
(* The order of sums and products                                          *)

LEMMA SumOfNaturals ==
  ASSUME NEW S, IsFiniteSet(S), NEW f, Natural(f, S)
  PROVE  SumFunctionOnSet(f, S) \in Nat
<1>1. \A x \in S : f[x] \in Nat /\ f[x] \in Nat /\ f[x] <= f[x]
  BY DEF Natural
<1>. QED
  BY <1>1, SumMonotone

LEMMA LeqSame ==
  ASSUME NEW a \in Fraction, NEW b \in Fraction, NEW c \in Fraction, Same(a, b)
  PROVE  (Leq(a, c) <=> Leq(b, c)) /\ (Leq(c, a) <=> Leq(c, b))
<1>1. Leq(a, b) /\ Leq(b, a)
  BY LeqTotal
<1>. QED
  BY <1>1, LeqTransitive

LEMMA MulMonotone ==
  ASSUME NEW x \in Int, NEW y \in Int, NEW z \in Int, z >= 0, x <= y
  PROVE  x * z <= y * z /\ z * x <= z * y
OBVIOUS

LEMMA ProductTyped ==
  ASSUME NEW x \in Int, NEW y \in Int
  PROVE  x * y \in Int /\ (x >= 0 /\ y >= 0 => x * y >= 0)
OBVIOUS

LEMMA PlusMonotoneLeft ==
  ASSUME NEW a \in Fraction, NEW b \in Fraction, NEW c \in Fraction, Leq(a, b)
  PROVE  Leq(Plus(a, c), Plus(b, c))
<1>1. PICK an \in Int, ad \in Int, bn \in Int, bd \in Int, cn \in Int, cd \in Int :
        /\ an = a.num /\ ad = a.den /\ bn = b.num /\ bd = b.den /\ cn = c.num /\ cd = c.den
        /\ cd > 0
  BY FractionParts
<1>2. an * bd <= bn * ad
  BY <1>1 DEF Leq
<1>3. (an * cd + cn * ad) * (bd * cd) <= (bn * cd + cn * bd) * (ad * cd)
  <2>1. (an * cd + cn * ad) * (bd * cd) = (an * bd) * (cd * cd) + (cn * cd) * (ad * bd)
    BY CrossSum
  <2>2. (bn * cd + cn * bd) * (ad * cd) = (bn * ad) * (cd * cd) + (cn * cd) * (bd * ad)
    BY CrossSum
  <2>3. ad * bd = bd * ad
    OBVIOUS
  <2>4. PICK p \in Int, q \in Int, k \in Int, l \in Int :
          p = an * bd /\ q = bn * ad /\ k = cd * cd /\ l = (cn * cd) * (ad * bd)
    OBVIOUS
  <2>5. k >= 0
    BY <1>1, <2>4, ProductTyped
  <2>6. p * k <= q * k /\ p * k \in Int /\ q * k \in Int
    BY <1>2, <2>4, <2>5, MulMonotone, ProductTyped
  <2>7. p * k + l <= q * k + l
    BY <2>6
  <2>. QED
    BY <2>1, <2>2, <2>3, <2>4, <2>7
<1>4. Leq(PlainSum(a, c), PlainSum(b, c))
  BY <1>1, <1>3 DEF Leq, PlainSum, Rate
<1>5. PlainSum(a, c) \in Fraction /\ PlainSum(b, c) \in Fraction
  BY PlainSumIs
<1>6. /\ Plus(a, c) \in Fraction /\ Same(Plus(a, c), PlainSum(a, c))
      /\ Plus(b, c) \in Fraction /\ Same(Plus(b, c), PlainSum(b, c))
  BY PlusIs
<1>. QED
  BY <1>4, <1>5, <1>6, LeqSame

LEMMA PlusMonotone ==
  ASSUME NEW a \in Fraction, NEW b \in Fraction, NEW c \in Fraction, NEW d \in Fraction,
         Leq(a, b), Leq(c, d)
  PROVE  Leq(Plus(a, c), Plus(b, d))
<1>1. /\ Plus(a, c) \in Fraction /\ Plus(b, c) \in Fraction /\ Plus(b, d) \in Fraction
  <2>1. Plus(a, c) \in Fraction
    BY PlusIs
  <2>2. Plus(b, c) \in Fraction
    BY PlusIs
  <2>3. Plus(b, d) \in Fraction
    BY PlusIs
  <2>. QED
    BY <2>1, <2>2, <2>3
<1>2. Leq(Plus(a, c), Plus(b, c))
  BY PlusMonotoneLeft
<1>3. Leq(Plus(c, b), Plus(d, b))
  BY PlusMonotoneLeft
<1>4. Plus(c, b) = Plus(b, c) /\ Plus(d, b) = Plus(b, d)
  BY PlusCommutes
<1>. QED
  BY <1>1, <1>2, <1>3, <1>4, LeqTransitive

LEMMA TimesMonotone ==
  ASSUME NEW k \in Fraction, k.num >= 0, NEW a \in Fraction, NEW b \in Fraction, Leq(a, b)
  PROVE  Leq(Times(k, a), Times(k, b))
<1>1. PICK an \in Int, ad \in Int, bn \in Int, bd \in Int, kn \in Int, kd \in Int :
        /\ an = a.num /\ ad = a.den /\ bn = b.num /\ bd = b.den /\ kn = k.num /\ kd = k.den
        /\ kd > 0
  BY FractionParts
<1>2. an * bd <= bn * ad
  BY <1>1 DEF Leq
<1>3. (kn * an) * (kd * bd) <= (kn * bn) * (kd * ad)
  <2>1. (kn * an) * (kd * bd) = (kn * kd) * (an * bd)
    BY MulExchange
  <2>2. (kn * bn) * (kd * ad) = (kn * kd) * (bn * ad)
    BY MulExchange
  <2>3. PICK p \in Int, q \in Int, z \in Int : p = an * bd /\ q = bn * ad /\ z = kn * kd
    OBVIOUS
  <2>4. z >= 0
    BY <1>1, <2>3, ProductTyped
  <2>5. z * p <= z * q
    BY <1>2, <2>3, <2>4, MulMonotone
  <2>. QED
    BY <2>1, <2>2, <2>3, <2>5
<1>4. Leq(PlainProduct(k, a), PlainProduct(k, b))
  BY <1>1, <1>3 DEF Leq, PlainProduct, Rate
<1>5. PlainProduct(k, a) \in Fraction /\ PlainProduct(k, b) \in Fraction
  BY PlainProductIs
<1>6. /\ Times(k, a) \in Fraction /\ Same(Times(k, a), PlainProduct(k, a))
      /\ Times(k, b) \in Fraction /\ Same(Times(k, b), PlainProduct(k, b))
  BY TimesIs
<1>. QED
  BY <1>4, <1>5, <1>6, LeqSame

LEMMA SumOverMonotone ==
  ASSUME NEW S, IsFiniteSet(S), NEW f, NEW g, Fractional(f, S), Fractional(g, S),
         \A x \in S : Leq(f[x], g[x])
  PROVE  Leq(SumOver(f, S), SumOver(g, S))
<1>. DEFINE F(T) == SumOver(f, T)
            K(T) == SumOver(g, T)
            G == {T \in SUBSET S : Leq(F(T), K(T))}
<1>1. ASSUME NEW T \in SUBSET S
      PROVE  /\ F(T) \in Fraction /\ (T = {} => F(T) = Whole(0))
             /\ T # {} => F(T) = Plus(f[Picked(T)], F(T \ {Picked(T)}))
  BY SumOverSteps
<1>2. ASSUME NEW T \in SUBSET S
      PROVE  /\ K(T) \in Fraction /\ (T = {} => K(T) = Whole(0))
             /\ T # {} => K(T) = Plus(g[Picked(T)], K(T \ {Picked(T)}))
  BY SumOverSteps
<1>. HIDE DEF F, K
<1>3. {} \in G
  <2>1. F({}) = Whole(0) /\ K({}) = Whole(0) /\ F({}) \in Fraction
    BY <1>1, <1>2
  <2>. QED
    BY <2>1, LeqTotal
<1>4. ASSUME NEW T \in SUBSET S, T # {}, T \ {Picked(T)} \in G
      PROVE  T \in G
  <2>1. PICK x \in S : x = Picked(T)
    BY <1>4, PickedIn
  <2>2. PICK U \in SUBSET S : U = T \ {x}
    OBVIOUS
  <2>3. Leq(F(U), K(U)) /\ F(U) \in Fraction /\ K(U) \in Fraction
    BY <1>1, <1>2, <1>4, <2>1, <2>2
  <2>4. F(T) = Plus(f[x], F(U)) /\ K(T) = Plus(g[x], K(U))
    BY <1>1, <1>2, <1>4, <2>1, <2>2
  <2>5. f[x] \in Fraction /\ g[x] \in Fraction /\ Leq(f[x], g[x])
    BY DEF Fractional
  <2>6. Leq(F(T), K(T))
    BY <2>3, <2>4, <2>5, PlusMonotone
  <2>. QED
    BY <2>6
<1>5. S \in G
  <2>. HIDE DEF G
  <2>. QED
    BY <1>3, <1>4, PickInduction
<1>. QED
  BY <1>5 DEF F, K

\* To compare with a quotient, compare the product.
LEMMA LeqOver ==
  ASSUME NEW a \in Fraction, NEW b \in Fraction, NEW n \in Nat, n > 0
  PROVE  /\ Leq(a, Over(b, Whole(n))) <=> Leq(Times(Whole(n), a), b)
         /\ Leq(Over(b, Whole(n)), a) <=> Leq(b, Times(Whole(n), a))
<1>1. PICK an \in Int, ad \in Int, bn \in Int, bd \in Int :
        an = a.num /\ ad = a.den /\ bn = b.num /\ bd = b.den
  BY FractionParts
<1>2. Whole(n) \in Fraction /\ Whole(n).num = n /\ Whole(n).den = 1
  BY WholeIs
<1>3. PICK q \in Fraction : q = Rate(bn, bd * n)
  BY <1>1, OverIs
<1>4. Over(b, Whole(n)) \in Fraction /\ Same(Over(b, Whole(n)), q)
  BY <1>1, <1>3, OverIs
<1>5. PICK p \in Fraction : p = Rate(n * an, 1 * ad)
  BY <1>1, <1>2, PlainProductIs DEF PlainProduct
<1>6. Times(Whole(n), a) \in Fraction /\ Same(Times(Whole(n), a), p)
  BY <1>1, <1>2, <1>5, TimesIs DEF PlainProduct
<1>7. an * (bd * n) = (n * an) * bd /\ bn * ad = bn * (1 * ad)
  OBVIOUS
<1>8. Leq(a, q) <=> Leq(p, b)
  BY <1>1, <1>3, <1>5, <1>7 DEF Leq, Rate
<1>9. Leq(q, a) <=> Leq(b, p)
  BY <1>1, <1>3, <1>5, <1>7 DEF Leq, Rate
<1>10. Leq(a, Over(b, Whole(n))) <=> Leq(a, q)
  BY <1>4, LeqSame
<1>11. Leq(Over(b, Whole(n)), a) <=> Leq(q, a)
  BY <1>4, LeqSame
<1>12. Leq(Times(Whole(n), a), b) <=> Leq(p, b)
  BY <1>6, LeqSame
<1>13. Leq(b, Times(Whole(n), a)) <=> Leq(b, p)
  BY <1>6, LeqSame
<1>. QED
  BY <1>8, <1>9, <1>10, <1>11, <1>12, <1>13

\* A finite set of fractions has a smallest one.
LEMMA SmallestExists ==
  ASSUME NEW S \in SUBSET Fraction, IsFiniteSet(S), S # {}
  PROVE  \E r \in S : \A x \in S : Leq(r, x)
<1>. DEFINE Has(T) == \E r \in T : \A x \in T : Leq(r, x)
            G == {T \in SUBSET S : T = {} \/ Has(T)}
<1>1. {} \in G
  OBVIOUS
<1>2. ASSUME NEW T \in SUBSET S, T # {}, T \ {Picked(T)} \in G
      PROVE  T \in G
  <2>1. Picked(T) \in T /\ T \subseteq Fraction
    BY <1>2, PickedIn
  <2>2. CASE T \ {Picked(T)} = {}
    <3>1. \A x \in T : x = Picked(T)
      BY <2>2
    <3>2. Has(T)
      BY <2>1, <3>1, LeqTotal
    <3>. QED
      BY <3>2
  <2>3. CASE T \ {Picked(T)} # {}
    <3>1. PICK r \in T \ {Picked(T)} : \A x \in T \ {Picked(T)} : Leq(r, x)
      BY <1>2, <2>3
    <3>2. CASE Leq(r, Picked(T))
      <4>1. \A x \in T : Leq(r, x)
        BY <3>1, <3>2
      <4>2. Has(T)
        BY <3>1, <4>1
      <4>. QED
        BY <4>2
    <3>3. CASE Leq(Picked(T), r)
      <4>1. ASSUME NEW x \in T PROVE Leq(Picked(T), x)
        <5>1. CASE x = Picked(T)
          BY <2>1, <5>1, LeqTotal
        <5>2. CASE x # Picked(T)
          <6>1. Leq(r, x) /\ x \in Fraction /\ r \in Fraction
            BY <3>1, <5>2, <2>1
          <6>. QED
            BY <6>1, <3>3, <2>1, LeqTransitive
        <5>. QED
          BY <5>1, <5>2
      <4>2. Has(T)
        BY <2>1, <4>1
      <4>. QED
        BY <4>2
    <3>4. r \in Fraction /\ Picked(T) \in Fraction
      BY <2>1, <3>1
    <3>. QED
      BY <3>2, <3>3, <3>4, LeqTotal
  <2>. QED
    BY <2>2, <2>3
<1>3. S \in G
  <2>. HIDE DEF G
  <2>. QED
    BY <1>1, <1>2, PickInduction
<1>4. Has(S)
  BY <1>3
<1>. QED
  BY <1>4

LEMMA Twice ==
  ASSUME NEW a \in Fraction
  PROVE  Times(Whole(2), a) = Plus(a, a)
<1>1. Whole(1) \in Fraction /\ Whole(2) \in Fraction
  BY WholeIs
<1>2. Whole(2) = Plus(Whole(1), Whole(1))
  BY PlusWhole
<1>3. Times(a, Whole(2)) = Plus(Times(a, Whole(1)), Times(a, Whole(1)))
  BY <1>1, <1>2, TimesDistributes
<1>4. Times(a, Whole(1)) = Lowest(a)
  BY TimesOne
<1>5. PICK l \in Fraction : l = Lowest(a) /\ Same(l, a)
  BY LowestSame
<1>6. Plus(l, l) = Plus(a, l)
  BY <1>5, PlusSame
<1>7. Plus(a, l) = Plus(a, a)
  BY <1>5, PlusSame
<1>. QED
  BY <1>1, <1>3, <1>4, <1>5, <1>6, <1>7, TimesCommutes

\* The midpoint lies between.
LEMMA MidBetween ==
  ASSUME NEW a \in Fraction, NEW b \in Fraction, Leq(a, b)
  PROVE  /\ Over(Plus(a, b), Whole(2)) \in Fraction
         /\ Leq(a, Over(Plus(a, b), Whole(2))) /\ Leq(Over(Plus(a, b), Whole(2)), b)
<1>1. PICK s \in Fraction : s = Plus(a, b)
  BY PlusIs
<1>2. Leq(Plus(a, a), s)
  <2>1. Leq(a, a)
    BY LeqTotal
  <2>. QED
    BY <1>1, <2>1, PlusMonotone
<1>3. Leq(s, Plus(b, b))
  <2>1. Leq(b, b)
    BY LeqTotal
  <2>. QED
    BY <1>1, <2>1, PlusMonotone
<1>4. Leq(a, Over(s, Whole(2)))
  BY <1>2, Twice, LeqOver
<1>5. Leq(Over(s, Whole(2)), b)
  BY <1>3, Twice, LeqOver
<1>6. Over(s, Whole(2)) \in Fraction
  BY OverIs
<1>. QED
  BY <1>1, <1>4, <1>5, <1>6
=============================================================================
