--------------------------- MODULE Eligibility_proofs ---------------------------
(***************************************************************************)
(* One client's way to a verified binding, for any groups, counts, rate    *)
(* thresholds, fabricated reports and scale: metrics lose their value in   *)
(* one order, what the policy approves has a witness, and the verifier of  *)
(* the artifacts decides like the adapter up to the rounding of a metric.  *)
(*                                                                         *)
(* The inductive invariant is ClientInv.  Its heart is arithmetic: scaling *)
(* and rounding half to even keeps the order of rates (ScaledMonotone).    *)
(***************************************************************************)
EXTENDS Eligibility, Fractions_proofs

-----------------------------------------------------------------------------
(* Rounding                                                                *)

\* v is the integer nearest to n / d, the even one of two.
Nearest(v, n, d) ==
  /\ v \in Nat
  /\ 2 * (d * v) - d <= 2 * n /\ 2 * n <= 2 * (d * v) + d
  /\ 2 * n = 2 * (d * v) - d \/ 2 * n = 2 * (d * v) + d => v % 2 = 0

LEMMA RoundIsNearest ==
  ASSUME NEW n \in Nat, NEW d \in Nat \ {0}
  PROVE  Nearest(RoundHalfEven(Rate(n, d)), n, d)
<1>. DEFINE f == n \div d
<1>1. f \in Int /\ n % d \in Int /\ n = d * f + (n % d) /\ 0 <= n % d /\ n % d < d
  OBVIOUS
<1>2. f \in Nat /\ d * f \in Nat /\ f * d = d * f
  BY <1>1
<1>3. d * (f + 1) = d * f + d
  BY <1>1
<1>4. RoundHalfEven(Rate(n, d)) =
        IF 2 * (n - f * d) > d \/ (2 * (n - f * d) = d /\ f % 2 = 1) THEN f + 1 ELSE f
  BY DEF RoundHalfEven, Rate
<1>. DEFINE g == d * f
<1>5. /\ g \in Nat /\ d \in Nat /\ n \in Nat /\ n = g + (n % d) /\ n % d \in Int
      /\ 0 <= n % d /\ n % d < d /\ d * (f + 1) = g + d /\ f * d = g /\ f \in Nat
  BY <1>1, <1>2, <1>3
<1>. HIDE DEF f, g
<1>6. CASE 2 * (n - g) > d \/ (2 * (n - g) = d /\ f % 2 = 1)
  <2>1. RoundHalfEven(Rate(n, d)) = f + 1
    BY <1>4, <1>5, <1>6
  <2>2. 2 * (g + d) - d <= 2 * n /\ 2 * n <= 2 * (g + d) + d
    BY <1>5, <1>6
  <2>3. 2 * n = 2 * (g + d) - d \/ 2 * n = 2 * (g + d) + d => (f + 1) % 2 = 0
    BY <1>5, <1>6
  <2>. QED
    BY <1>5, <2>1, <2>2, <2>3 DEF Nearest
<1>7. CASE ~(2 * (n - g) > d \/ (2 * (n - g) = d /\ f % 2 = 1))
  <2>1. RoundHalfEven(Rate(n, d)) = f
    BY <1>4, <1>5, <1>7
  <2>2. 2 * g - d <= 2 * n /\ 2 * n <= 2 * g + d
    BY <1>5, <1>7
  <2>3. 2 * n = 2 * g - d \/ 2 * n = 2 * g + d => f % 2 = 0
    BY <1>5, <1>7
  <2>. QED
    BY <1>5, <2>1, <2>2, <2>3 DEF Nearest, g
<1>. QED
  BY <1>6, <1>7

LEMMA NearestMonotone ==
  ASSUME NEW n \in Nat, NEW d \in Nat \ {0}, NEW v, Nearest(v, n, d),
         NEW k \in Nat, NEW e \in Nat \ {0}, NEW w, Nearest(w, k, e),
         n * e <= k * d
  PROVE  v <= w
<1>. SUFFICES ASSUME v > w PROVE FALSE
  BY DEF Nearest
<1>1. v \in Nat /\ w \in Nat /\ w + 1 <= v
  BY DEF Nearest
<1>. DEFINE c == d * e
<1>2. c \in Nat /\ c > 0
  OBVIOUS
<1>3. c * v >= c * w + c
  BY <1>1, <1>2
<1>4. 2 * (n * e) >= 2 * (c * v) - c
  <2>1. (2 * (d * v) - d) * e <= (2 * n) * e
    BY <1>1 DEF Nearest
  <2>2. (2 * (d * v) - d) * e = 2 * (c * v) - c /\ (2 * n) * e = 2 * (n * e)
    BY <1>1
  <2>. QED
    BY <2>1, <2>2
<1>5. 2 * (k * d) <= 2 * (c * w) + c
  <2>1. (2 * k) * d <= (2 * (e * w) + e) * d
    BY <1>1 DEF Nearest
  <2>2. (2 * (e * w) + e) * d = 2 * (c * w) + c /\ (2 * k) * d = 2 * (k * d)
    BY <1>1
  <2>. QED
    BY <2>1, <2>2
<1>6. n * e \in Nat /\ k * d \in Nat /\ c * v \in Nat /\ c * w \in Nat
  BY <1>1, <1>2
<1>. HIDE DEF c
<1>7. /\ 2 * (n * e) = 2 * (c * v) - c /\ 2 * (k * d) = 2 * (c * w) + c
      /\ c * v = c * w + c
  BY <1>2, <1>3, <1>4, <1>5, <1>6
<1>8. v = w + 1
  <2>1. c * v = c * (w + 1)
    BY <1>1, <1>2, <1>7
  <2>2. v * c = (w + 1) * c
    BY <1>1, <1>2, <2>1
  <2>. QED
    BY <1>1, <1>2, <2>2, MulCancel
<1>9. 2 * n = 2 * (d * v) - d
  <2>1. (2 * n) * e = (2 * (d * v) - d) * e
    <3>1. (2 * (d * v) - d) * e = 2 * (c * v) - c /\ (2 * n) * e = 2 * (n * e)
      BY <1>1 DEF c
    <3>. QED
      BY <1>7, <3>1
  <2>2. 2 * n \in Int /\ 2 * (d * v) - d \in Int
    BY <1>1
  <2>. QED
    BY <2>1, <2>2, MulCancel
<1>10. 2 * k = 2 * (e * w) + e
  <2>1. (2 * k) * d = (2 * (e * w) + e) * d
    <3>1. (2 * (e * w) + e) * d = 2 * (c * w) + c /\ (2 * k) * d = 2 * (k * d)
      BY <1>1 DEF c
    <3>. QED
      BY <1>7, <3>1
  <2>2. 2 * k \in Int /\ 2 * (e * w) + e \in Int
    BY <1>1
  <2>. QED
    BY <2>1, <2>2, MulCancel
<1>11. v % 2 = 0 /\ w % 2 = 0
  BY <1>9, <1>10 DEF Nearest
<1>. QED
  BY <1>1, <1>8, <1>11

\* Scaling and rounding keeps the order of rates and maps them into 0 .. Scale.
LEMMA ScaledIsNearest ==
  ASSUME NEW r \in Fraction, r.num \in Nat
  PROVE  r.num * Scale \in Nat /\ Nearest(ScaledValue(r), r.num * Scale, r.den)
<1>1. r.num * Scale \in Nat /\ r.den \in Nat \ {0}
  BY ScaleAssumption DEF Fraction
<1>. QED
  BY <1>1, RoundIsNearest DEF ScaledValue

LEMMA ScaledMonotone ==
  ASSUME NEW a \in Fraction, a.num \in Nat, NEW b \in Fraction, b.num \in Nat, Leq(a, b)
  PROVE  ScaledValue(a) <= ScaledValue(b)
<1>. DEFINE n == a.num * Scale  k == b.num * Scale
<1>1. /\ n \in Nat /\ k \in Nat /\ a.den \in Nat \ {0} /\ b.den \in Nat \ {0} /\ Scale \in Nat
      /\ a.num \in Nat /\ b.num \in Nat /\ Nearest(ScaledValue(a), n, a.den)
      /\ Nearest(ScaledValue(b), k, b.den)
  BY ScaledIsNearest, ScaleAssumption DEF Fraction
<1>2. n * b.den <= k * a.den
  <2>1. n * b.den = (a.num * b.den) * Scale /\ k * a.den = (b.num * a.den) * Scale
    BY <1>1
  <2>2. a.num * b.den <= b.num * a.den /\ a.num * b.den \in Nat /\ b.num * a.den \in Nat
    BY <1>1 DEF Leq
  <2>3. \A x, y \in Nat : x <= y => x * Scale <= y * Scale
    BY <1>1
  <2>. QED
    BY <2>1, <2>2, <2>3
<1>. HIDE DEF n, k
<1>. QED
  BY <1>1, <1>2, NearestMonotone

LEMMA ScaledBounded ==
  ASSUME NEW r, InUnit(r)
  PROVE  ScaledValue(r) \in 0 .. Scale
<1>1. /\ r \in Fraction /\ r.num \in Nat /\ r.den \in Nat \ {0} /\ r.num <= r.den
      /\ Scale \in Nat \ {0}
  BY UnitFraction, ScaleAssumption
<1>. DEFINE n == r.num * Scale
<1>2. n \in Nat /\ Nearest(ScaledValue(r), n, r.den) /\ ScaledValue(r) \in Nat
  BY <1>1, ScaledIsNearest DEF Nearest
<1>3. Nearest(Scale, Scale, 1)
  BY <1>1 DEF Nearest
<1>4. n * 1 <= Scale * r.den
  BY <1>1
<1>. HIDE DEF n
<1>5. ScaledValue(r) <= Scale
  BY <1>1, <1>2, <1>3, <1>4, NearestMonotone
<1>. QED
  BY <1>1, <1>2, <1>5

-----------------------------------------------------------------------------
(* Group fairness                                                          *)

\* The value of a metric is undefined or a rate.
MetricValue(r) == r = Undefined \/ InUnit(r)

LEMMA RateIs ==
  ASSUME NEW n \in Nat, NEW d \in Nat, n <= d
  PROVE  /\ MetricValue(Rate(n, d)) /\ (Defined(Rate(n, d)) <=> d > 0)
         /\ d > 0 => InUnit(Rate(n, d))
<1>1. CASE d > 0
  BY <1>1 DEF InUnit, MetricValue, Rate, Defined
<1>2. CASE d = 0
  BY <1>2 DEF Undefined, MetricValue, Rate, Defined
<1>. QED
  BY <1>1, <1>2

LEMMA MetricValueIs ==
  ASSUME NEW r, MetricValue(r)
  PROVE  /\ Defined(r) => InUnit(r)
         /\ ~Defined(r) => r = Undefined
BY DEF MetricValue, Defined, Undefined, Rate, InUnit

CountsOf == [tp : Nat, fn : Nat, fp : Nat, tn : Nat]

LEMMA RatesOfCounts ==
  ASSUME NEW c \in CountsOf
  PROVE  /\ Count(c) \in Nat /\ c.tp + c.tn \in Nat /\ c.tp + c.tn <= Count(c)
         /\ MetricValue(PositiveRate(c)) /\ (Defined(PositiveRate(c)) <=> Count(c) > 0)
         /\ MetricValue(TruePositiveRate(c)) /\ (Defined(TruePositiveRate(c)) => Count(c) > 0)
         /\ MetricValue(FalsePositiveRate(c))
         /\ Count(c) > 0 => InUnit(Accuracy(c))
<1>1. c.tp \in Nat /\ c.fn \in Nat /\ c.fp \in Nat /\ c.tn \in Nat
  BY DEF CountsOf
<1>2. /\ Count(c) \in Nat /\ c.tp + c.tn \in Nat /\ c.tp + c.tn <= Count(c)
      /\ c.tp + c.fp \in Nat /\ c.tp + c.fp <= Count(c)
      /\ c.tp + c.fn \in Nat /\ c.tp + c.fn <= Count(c) /\ c.tp <= c.tp + c.fn
      /\ c.fp + c.tn \in Nat /\ c.fp <= c.fp + c.tn
  BY <1>1 DEF Count
<1>3. MetricValue(PositiveRate(c)) /\ (Defined(PositiveRate(c)) <=> Count(c) > 0)
  BY <1>1, <1>2, RateIs DEF PositiveRate
<1>4. MetricValue(TruePositiveRate(c)) /\ (Defined(TruePositiveRate(c)) <=> c.tp + c.fn > 0)
  BY <1>1, <1>2, RateIs DEF TruePositiveRate
<1>5. MetricValue(FalsePositiveRate(c))
  BY <1>1, <1>2, RateIs DEF FalsePositiveRate
<1>6. Count(c) > 0 => InUnit(Accuracy(c))
  BY <1>1, <1>2, RateIs DEF Accuracy
<1>7. Defined(TruePositiveRate(c)) => Count(c) > 0
  BY <1>1, <1>2, <1>4
<1>. QED
  BY <1>2, <1>3, <1>4, <1>5, <1>6, <1>7

\* The difference between the two groups, undefined unless they can be compared.
Gapped(comparable, a, b) == IF comparable THEN Difference(a, b) ELSE Undefined

LEMMA GappedIs ==
  ASSUME NEW comparable \in BOOLEAN, NEW a, MetricValue(a), NEW b, MetricValue(b)
  PROVE  /\ MetricValue(Gapped(comparable, a, b))
         /\ Defined(Gapped(comparable, a, b)) <=> comparable /\ Defined(a) /\ Defined(b)
<1>1. ~Defined(Undefined) /\ MetricValue(Undefined)
  BY DEF Defined, Undefined, Rate, MetricValue
<1>2. CASE comparable /\ Defined(a) /\ Defined(b)
  <2>1. InUnit(Difference(a, b))
    BY <1>2, MetricValueIs, DifferenceInUnit
  <2>2. Gapped(comparable, a, b) = Difference(a, b)
    BY <1>2 DEF Gapped
  <2>3. Defined(Difference(a, b))
    BY <2>1, UnitFraction
  <2>. QED
    BY <1>2, <2>1, <2>2, <2>3 DEF MetricValue
<1>3. CASE ~(comparable /\ Defined(a) /\ Defined(b))
  <2>1. Gapped(comparable, a, b) = Undefined
    BY <1>3 DEF Gapped, Difference
  <2>. QED
    BY <1>1, <1>3, <2>1
<1>. QED
  BY <1>2, <1>3

Comparable(counts, minimum) ==
  \A g \in {Privileged, Unprivileged} : LargeEnough(counts[g], minimum)
SizedGroups(counts, minimum) == {g \in Group : Count(counts[g]) >= minimum}
Spreads(counts, minimum) ==
  {Difference(Accuracy(counts[g]), Accuracy(counts[h])) :
     g, h \in SizedGroups(counts, minimum)}

\* The metrics of evaluate_group_fairness, one by one.
LEMMA FairnessParts ==
  ASSUME NEW counts, NEW minimum
  PROVE  LET fair == GroupFairness(counts, minimum)
             both == Comparable(counts, minimum)
             tpr == Gapped(both, TruePositiveRate(counts[Unprivileged]), TruePositiveRate(counts[Privileged]))
             fpr == Gapped(both, FalsePositiveRate(counts[Unprivileged]), FalsePositiveRate(counts[Privileged]))
         IN  /\ DOMAIN fair = Metric
             /\ fair["accuracy"] =
                  Rate(SumFunction([g \in Group |-> counts[g].tp + counts[g].tn]),
                       SumFunction([g \in Group |-> Count(counts[g])]))
             /\ fair["demographic_parity_gap"] =
                  Gapped(both, PositiveRate(counts[Unprivileged]), PositiveRate(counts[Privileged]))
             /\ fair["equal_opportunity_gap"] = tpr
             /\ fair["equalized_odds_gap"] =
                  IF Defined(tpr) /\ Defined(fpr) THEN LargestOf({tpr, fpr}) ELSE Undefined
<1>. DEFINE both == Comparable(counts, minimum)
            tpr == Gapped(both, TruePositiveRate(counts[Unprivileged]), TruePositiveRate(counts[Privileged]))
            fpr == Gapped(both, FalsePositiveRate(counts[Unprivileged]), FalsePositiveRate(counts[Privileged]))
<1>1. DOMAIN GroupFairness(counts, minimum) = Metric
  BY DEF GroupFairness
<1>2. GroupFairness(counts, minimum)["accuracy"] =
        Rate(SumFunction([g \in Group |-> counts[g].tp + counts[g].tn]),
             SumFunction([g \in Group |-> Count(counts[g])]))
  BY DEF GroupFairness, Metric, Gaps
<1>3. GroupFairness(counts, minimum)["demographic_parity_gap"] =
        Gapped(both, PositiveRate(counts[Unprivileged]), PositiveRate(counts[Privileged]))
  BY DEF GroupFairness, Metric, Gaps, Gapped, Comparable
<1>4. GroupFairness(counts, minimum)["equal_opportunity_gap"] = tpr
  BY DEF GroupFairness, Metric, Gaps, Gapped, Comparable
<1>5. GroupFairness(counts, minimum)["equalized_odds_gap"] =
        IF Defined(tpr) /\ Defined(fpr) THEN LargestOf({tpr, fpr}) ELSE Undefined
  BY DEF GroupFairness, Metric, Gaps, Gapped, Comparable
<1>. QED
  BY <1>1, <1>2, <1>3, <1>4, <1>5

LEMMA SubgroupPart ==
  ASSUME NEW counts, NEW minimum
  PROVE  GroupFairness(counts, minimum)["subgroup_accuracy_gap"] =
           IF Cardinality(SizedGroups(counts, minimum)) < 2 THEN Undefined
           ELSE LargestOf(Spreads(counts, minimum))
<1>1. GroupFairness(counts, minimum)["subgroup_accuracy_gap"] =
        IF Cardinality({g \in Group : Count(counts[g]) >= minimum}) < 2 THEN Undefined
        ELSE LargestOf({Difference([x \in Group |-> Accuracy(counts[x])][g],
                                   [x \in Group |-> Accuracy(counts[x])][h]) :
                          g, h \in {x \in Group : Count(counts[x]) >= minimum}})
  BY DEF GroupFairness, Metric, Gaps
<1>2. {Difference([x \in Group |-> Accuracy(counts[x])][g],
                  [x \in Group |-> Accuracy(counts[x])][h]) :
         g, h \in {x \in Group : Count(counts[x]) >= minimum}} = Spreads(counts, minimum)
  BY DEF Spreads, SizedGroups
<1>. QED
  BY <1>1, <1>2 DEF SizedGroups

LEMMA Pair ==
  ASSUME NEW a, NEW b
  PROVE  IsFiniteSet({a, b}) /\ (a # b => Cardinality({a, b}) = 2)
<1>. DEFINE A == {a}
<1>1. IsFiniteSet(A) /\ Cardinality(A) = 1
  BY FS_Singleton
<1>2. {a, b} = A \cup {b} /\ (a # b => b \notin A)
  OBVIOUS
<1>. HIDE DEF A
<1>3. IsFiniteSet(A \cup {b}) /\ (b \notin A => Cardinality(A \cup {b}) = Cardinality(A) + 1)
  BY <1>1, FS_AddElement
<1>. QED
  BY <1>1, <1>2, <1>3

\* What evaluate_group_fairness reports of a client with samples: every metric is
\* undefined or a rate, and they lose their value in one order.
LEMMA FairnessIs ==
  ASSUME NEW counts \in Confusions, NEW minimum \in MinimumSamples,
         \E g \in Group : Count(counts[g]) > 0
  PROVE  LET fair == GroupFairness(counts, minimum) IN
         /\ DOMAIN fair = Metric /\ \A m \in Metric : MetricValue(fair[m])
         /\ Defined(fair["equalized_odds_gap"]) => Defined(fair["equal_opportunity_gap"])
         /\ Defined(fair["equal_opportunity_gap"]) => Defined(fair["demographic_parity_gap"])
         /\ Defined(fair["demographic_parity_gap"]) => Defined(fair["subgroup_accuracy_gap"])
         /\ Defined(fair["accuracy"])
<1>. DEFINE fair == GroupFairness(counts, minimum)
            both == Comparable(counts, minimum)
            unpr == counts[Unprivileged]
            priv == counts[Privileged]
            tpr == Gapped(both, TruePositiveRate(unpr), TruePositiveRate(priv))
            fpr == Gapped(both, FalsePositiveRate(unpr), FalsePositiveRate(priv))
<1>1. /\ DOMAIN fair = Metric
      /\ fair["accuracy"] =
           Rate(SumFunction([g \in Group |-> counts[g].tp + counts[g].tn]),
                SumFunction([g \in Group |-> Count(counts[g])]))
      /\ fair["demographic_parity_gap"] = Gapped(both, PositiveRate(unpr), PositiveRate(priv))
      /\ fair["equal_opportunity_gap"] = tpr
      /\ fair["equalized_odds_gap"] =
           IF Defined(tpr) /\ Defined(fpr) THEN LargestOf({tpr, fpr}) ELSE Undefined
  BY FairnessParts
<1>2. /\ \A g \in Group : counts[g] \in CountsOf
      /\ Privileged \in Group /\ Unprivileged \in Group /\ Privileged # Unprivileged
      /\ IsFiniteSet(Group) /\ minimum \in Nat /\ minimum > 0
  BY CountsAssumption, GroupAssumption, MinimumAssumption DEF CountsOf
<1>3. \A g \in Group : /\ Count(counts[g]) \in Nat /\ counts[g].tp + counts[g].tn \in Nat
                       /\ counts[g].tp + counts[g].tn <= Count(counts[g])
  BY <1>2, RatesOfCounts
<1>4. InUnit(fair["accuracy"])
  <2>. DEFINE f == [g \in Group |-> counts[g].tp + counts[g].tn]
              h == [g \in Group |-> Count(counts[g])]
  <2>1. fair["accuracy"] = Rate(SumFunctionOnSet(f, Group), SumFunctionOnSet(h, Group))
    BY <1>1 DEF SumFunction
  <2>2. \A g \in Group : f[g] \in Nat /\ h[g] \in Nat /\ f[g] <= h[g]
    BY <1>3
  <2>3. PICK y \in Group : h[y] > 0
    OBVIOUS
  <2>. HIDE DEF f, h
  <2>4. /\ SumFunctionOnSet(f, Group) \in Nat /\ SumFunctionOnSet(h, Group) \in Nat
        /\ SumFunctionOnSet(f, Group) <= SumFunctionOnSet(h, Group)
    BY <1>2, <2>2, SumMonotone
  <2>5. SumFunctionOnSet(h, Group) > 0
    BY <1>2, <2>2, <2>3, SumPositive
  <2>. QED
    BY <2>1, <2>4, <2>5, RateIs
<1>5. both \in BOOLEAN /\ unpr \in CountsOf /\ priv \in CountsOf
  BY <1>2 DEF Comparable
<1>6. /\ MetricValue(PositiveRate(unpr)) /\ MetricValue(PositiveRate(priv))
      /\ MetricValue(TruePositiveRate(unpr)) /\ MetricValue(TruePositiveRate(priv))
      /\ MetricValue(FalsePositiveRate(unpr)) /\ MetricValue(FalsePositiveRate(priv))
      /\ Defined(TruePositiveRate(unpr)) => Defined(PositiveRate(unpr))
      /\ Defined(TruePositiveRate(priv)) => Defined(PositiveRate(priv))
  BY <1>5, RatesOfCounts
<1>. HIDE DEF fair, both, unpr, priv
<1>7. /\ MetricValue(fair["demographic_parity_gap"])
      /\ Defined(fair["demographic_parity_gap"]) =>
           both /\ Defined(PositiveRate(unpr)) /\ Defined(PositiveRate(priv))
      /\ both /\ Defined(PositiveRate(unpr)) /\ Defined(PositiveRate(priv)) =>
           Defined(fair["demographic_parity_gap"])
  BY <1>1, <1>5, <1>6, GappedIs
<1>8. /\ MetricValue(tpr) /\ MetricValue(fpr)
      /\ Defined(tpr) => both /\ Defined(TruePositiveRate(unpr)) /\ Defined(TruePositiveRate(priv))
  BY <1>5, <1>6, GappedIs
<1>. HIDE DEF tpr, fpr
<1>9. MetricValue(Undefined) /\ ~Defined(Undefined)
  BY DEF MetricValue, Defined, Undefined, Rate
<1>10. MetricValue(fair["equalized_odds_gap"]) /\ (Defined(fair["equalized_odds_gap"]) => Defined(tpr))
  <2>1. CASE Defined(tpr) /\ Defined(fpr)
    <3>1. InUnit(tpr) /\ InUnit(fpr) /\ tpr \in Fraction /\ fpr \in Fraction
      BY <1>8, <2>1, MetricValueIs, UnitFraction
    <3>2. PICK S : S = {tpr, fpr}
      OBVIOUS
    <3>3. S \in SUBSET Fraction /\ S # {} /\ IsFiniteSet(S)
      BY <3>1, <3>2, Pair
    <3>4. LargestOf(S) \in S
      BY <3>3, LargestExists
    <3>5. fair["equalized_odds_gap"] \in {tpr, fpr}
      BY <1>1, <2>1, <3>2, <3>4
    <3>. QED
      BY <2>1, <3>1, <3>5 DEF MetricValue
  <2>2. CASE ~(Defined(tpr) /\ Defined(fpr))
    <3>1. fair["equalized_odds_gap"] = Undefined
      BY <1>1, <2>2
    <3>. QED
      BY <1>9, <3>1
  <2>. QED
    BY <2>1, <2>2
<1>11. /\ MetricValue(fair["subgroup_accuracy_gap"])
       /\ Cardinality(SizedGroups(counts, minimum)) >= 2 => Defined(fair["subgroup_accuracy_gap"])
       /\ IsFiniteSet(SizedGroups(counts, minimum))
  <2>. DEFINE Sz == SizedGroups(counts, minimum)
              D == Spreads(counts, minimum)
  <2>1. fair["subgroup_accuracy_gap"] = IF Cardinality(Sz) < 2 THEN Undefined ELSE LargestOf(D)
    BY SubgroupPart DEF fair
  <2>2. Sz \in SUBSET Group /\ IsFiniteSet(Sz)
    BY <1>2, FS_Subset DEF SizedGroups
  <2>3. Cardinality(Sz) \in Nat /\ (Cardinality(Sz) = 0 <=> Sz = {})
    BY <2>2, FS_CardinalityType, FS_EmptySet
  <2>4. \A g \in Sz : InUnit(Accuracy(counts[g]))
    <3>1. \A g \in Sz : counts[g] \in CountsOf /\ Count(counts[g]) > 0
      BY <1>2, <1>3 DEF SizedGroups
    <3>. QED
      BY <3>1, RatesOfCounts
  <2>5. D = {Difference(Accuracy(counts[g]), Accuracy(counts[h])) : g, h \in Sz}
    BY DEF Spreads
  <2>. HIDE DEF Sz, D
  <2>6. \A r \in D : InUnit(r)
    BY <2>4, <2>5, DifferenceInUnit
  <2>7. IsFiniteSet(D)
    <3>. DEFINE f == [p \in Sz \X Sz |-> Difference(Accuracy(counts[p[1]]), Accuracy(counts[p[2]]))]
    <3>1. IsFiniteSet(Sz \X Sz)
      BY <2>2, FS_Product
    <3>2. f \in Surjection(Sz \X Sz, D)
      <4>1. f \in [Sz \X Sz -> D]
        BY <2>5
      <4>2. ASSUME NEW r \in D PROVE \E p \in Sz \X Sz : f[p] = r
        <5>1. PICK g \in Sz, h \in Sz : r = Difference(Accuracy(counts[g]), Accuracy(counts[h]))
          BY <2>5
        <5>2. <<g, h>> \in Sz \X Sz /\ f[<<g, h>>] = r
          BY <5>1
        <5>. QED
          BY <5>2
      <4>. HIDE DEF f
      <4>. QED
        BY <4>1, <4>2 DEF Surjection
    <3>. HIDE DEF f
    <3>. QED
      BY <3>1, <3>2, FS_Surjection
  <2>8. CASE Cardinality(Sz) < 2
    BY <1>9, <2>1, <2>2, <2>3, <2>8 DEF Sz
  <2>9. CASE ~(Cardinality(Sz) < 2)
    <3>1. D # {}
      <4>1. PICK g \in Sz : TRUE
        BY <2>3, <2>9
      <4>2. Difference(Accuracy(counts[g]), Accuracy(counts[g])) \in D
        BY <2>5
      <4>. QED
        BY <4>2
    <3>2. D \in SUBSET Fraction
      BY <2>6, UnitFraction
    <3>3. LargestOf(D) \in D
      BY <2>7, <3>1, <3>2, LargestExists
    <3>4. InUnit(fair["subgroup_accuracy_gap"])
      BY <2>1, <2>6, <2>9, <3>3
    <3>. QED
      BY <2>2, <3>4, UnitFraction DEF MetricValue, Sz
  <2>. QED
    BY <2>8, <2>9
<1>12. both => Cardinality(SizedGroups(counts, minimum)) >= 2
  <2>. SUFFICES ASSUME both PROVE Cardinality(SizedGroups(counts, minimum)) >= 2
    OBVIOUS
  <2>. DEFINE P == {Privileged, Unprivileged}
  <2>1. P \in SUBSET SizedGroups(counts, minimum)
    BY <1>2 DEF both, Comparable, LargeEnough, SizedGroups
  <2>2. Cardinality(P) = 2
    BY <1>2, Pair
  <2>. HIDE DEF P
  <2>3. Cardinality(P) <= Cardinality(SizedGroups(counts, minimum))
    BY <1>11, <2>1, FS_Subset
  <2>4. Cardinality(SizedGroups(counts, minimum)) \in Nat
    BY <1>11, FS_CardinalityType
  <2>. QED
    BY <2>2, <2>3, <2>4
<1>13. \A m \in Metric : MetricValue(fair[m])
  <2>1. MetricValue(fair["accuracy"]) /\ MetricValue(fair["equal_opportunity_gap"])
    BY <1>1, <1>4, <1>8 DEF MetricValue
  <2>. QED
    BY <2>1, <1>7, <1>10, <1>11 DEF Metric, Gaps
<1>14. Defined(fair["accuracy"])
  BY <1>4, UnitFraction
<1>15. Defined(fair["equalized_odds_gap"]) => Defined(fair["equal_opportunity_gap"])
  BY <1>1, <1>10
<1>16. Defined(fair["equal_opportunity_gap"]) => Defined(fair["demographic_parity_gap"])
  BY <1>1, <1>6, <1>7, <1>8
<1>17. Defined(fair["demographic_parity_gap"]) => Defined(fair["subgroup_accuracy_gap"])
  BY <1>7, <1>11, <1>12
<1>. QED
  BY <1>1, <1>13, <1>14, <1>15, <1>16, <1>17 DEF fair

-----------------------------------------------------------------------------
(* Policy and circuit                                                      *)

LEMMA PolicyIs ==
  ASSUME NEW policy \in Policies
  PROVE  /\ \A m \in Metric : /\ InUnit(policy.threshold[m]) /\ policy.threshold[m] \in Fraction
                              /\ policy.threshold[m].num \in Nat
         /\ policy.enabled \subseteq Metric
BY PoliciesValid, UnitFraction DEF PolicyAssumption

\* The metrics a client can report.
Reported(ms) == DOMAIN ms = Metric /\ \A m \in Metric : MetricValue(ms[m])

LEMMA ScaledIs ==
  ASSUME NEW ms, Reported(ms), NEW m \in Metric
  PROVE  /\ Defined(ms[m]) =>
              /\ InUnit(ms[m]) /\ ms[m] \in Fraction /\ ms[m].num \in Nat
              /\ Scaled(ms)[m] = Rate(ScaledValue(ms[m]), Scale)
              /\ Scaled(ms)[m].num = ScaledValue(ms[m]) /\ Defined(Scaled(ms)[m])
         /\ ~Defined(ms[m]) => Scaled(ms)[m].num = 0 /\ ~Defined(Scaled(ms)[m])
<1>1. Defined(ms[m]) => InUnit(ms[m]) /\ ms[m] \in Fraction /\ ms[m].num \in Nat
  BY MetricValueIs, UnitFraction DEF Reported
<1>2. Defined(ms[m]) => /\ Scaled(ms)[m] = Rate(ScaledValue(ms[m]), Scale)
                        /\ Scaled(ms)[m].num = ScaledValue(ms[m]) /\ Defined(Scaled(ms)[m])
  BY ScaleAssumption DEF Scaled, Rate, Defined
<1>3. ~Defined(ms[m]) => Scaled(ms)[m].num = 0 /\ ~Defined(Scaled(ms)[m])
  BY DEF Scaled, Rate, Defined, Undefined
<1>. QED
  BY <1>1, <1>2, <1>3

\* What the policy approves has a witness.
LEMMA ApprovedSatisfiable ==
  ASSUME NEW policy \in Policies, NEW ms, Reported(ms), Defined(ms["accuracy"]),
         NEW r, Approved(ms, policy, r)
  PROVE  Satisfiable(CircuitInput(ms, policy))
<1>. DEFINE top == 2 ^ MetricBits  in == CircuitInput(ms, policy)
<1>1. /\ \A m \in Metric : in.value[m] = Scaled(ms)[m].num
      /\ \A m \in Metric : in.threshold[m] = ScaledValue(policy.threshold[m])
      /\ in.enabled = policy.enabled
  BY DEF CircuitInput, ScaledThreshold
<1>2. top \in Nat /\ Scale \in Nat /\ Scale < top
  BY ScaleAssumption
<1>. HIDE DEF top, in
<1>3. 0 .. Scale \subseteq 0 .. top - 1
  BY <1>2
<1>4. \A m \in Metric : in.value[m] \in 0 .. Scale /\ in.threshold[m] \in 0 .. Scale
  <2>. SUFFICES ASSUME NEW m \in Metric
                PROVE  in.value[m] \in 0 .. Scale /\ in.threshold[m] \in 0 .. Scale
    OBVIOUS
  <2>1. in.threshold[m] \in 0 .. Scale
    BY <1>1, PolicyIs, ScaledBounded
  <2>2. CASE Defined(ms[m])
    BY <1>1, <2>1, <2>2, ScaledIs, ScaledBounded
  <2>3. CASE ~Defined(ms[m])
    <3>1. in.value[m] = 0
      BY <1>1, <2>3, ScaledIs
    <3>. QED
      BY <1>2, <2>1, <3>1
  <2>. QED
    BY <2>2, <2>3
<1>5. ASSUME NEW m \in policy.enabled \cap Gaps
      PROVE  in.value[m] <= in.threshold[m]
  <2>1. m \in Metric /\ m # "accuracy" /\ Passes(m, ms, policy)
    BY DEF Metric, Gaps, Approved
  <2>2. CASE Defined(ms[m])
    <3>1. Leq(ms[m], policy.threshold[m])
      BY <2>1, <2>2 DEF Passes
    <3>2. ms[m] \in Fraction /\ ms[m].num \in Nat /\ in.value[m] = ScaledValue(ms[m])
      BY <1>1, <2>1, <2>2, ScaledIs
    <3>3. policy.threshold[m] \in Fraction /\ policy.threshold[m].num \in Nat
      BY <2>1, PolicyIs
    <3>. QED
      BY <1>1, <2>1, <3>1, <3>2, <3>3, ScaledMonotone
  <2>3. CASE ~Defined(ms[m])
    <3>1. in.value[m] = 0
      BY <1>1, <2>1, <2>3, ScaledIs
    <3>. QED
      BY <1>4, <2>1, <3>1
  <2>. QED
    BY <2>2, <2>3
<1>6. ASSUME "accuracy" \in policy.enabled
      PROVE  in.threshold["accuracy"] <= in.value["accuracy"]
  <2>1. Passes("accuracy", ms, policy) /\ "accuracy" \in Metric
    BY <1>6 DEF Approved, Metric
  <2>2. Leq(policy.threshold["accuracy"], ms["accuracy"])
    BY <2>1 DEF Passes
  <2>3. /\ ms["accuracy"] \in Fraction /\ ms["accuracy"].num \in Nat
        /\ in.value["accuracy"] = ScaledValue(ms["accuracy"])
    BY <1>1, <2>1, ScaledIs
  <2>4. policy.threshold["accuracy"] \in Fraction /\ policy.threshold["accuracy"].num \in Nat
    BY <2>1, PolicyIs
  <2>. QED
    BY <1>1, <2>1, <2>2, <2>3, <2>4, ScaledMonotone
<1>7. \A m \in Metric : {in.value[m], in.threshold[m]} \subseteq 0 .. 2 ^ MetricBits - 1
  BY <1>3, <1>4 DEF top
<1>. QED
  BY <1>1, <1>5, <1>6, <1>7 DEF Satisfiable, in

\* With thresholds on the grid of the scale, what passes exactly passes rounded.
LEMMA PassesRounded ==
  ASSUME NEW policy \in Policies, OnGrid(policy), NEW ms, Reported(ms),
         NEW m \in Metric, Passes(m, ms, policy)
  PROVE  Passes(m, Scaled(ms), policy)
<1>1. CASE ~Defined(ms[m])
  BY <1>1, ScaledIs DEF Passes
<1>2. CASE Defined(ms[m])
  <2>. DEFINE x == ms[m]  t == policy.threshold[m]  v == ScaledValue(x)
              q == (t.num * Scale) \div t.den
  <2>1. /\ x \in Fraction /\ x.num \in Nat /\ Scaled(ms)[m] = Rate(v, Scale)
        /\ Defined(Scaled(ms)[m])
    BY <1>2, ScaledIs
  <2>2. /\ t \in Fraction /\ t.num \in Nat /\ t.den \in Nat \ {0} /\ x.den \in Nat \ {0}
        /\ Scale \in Nat \ {0}
    BY <2>1, PolicyIs, ScaleAssumption DEF Fraction
  <2>3. Nearest(v, x.num * Scale, x.den) /\ x.num * Scale \in Nat /\ v \in Nat
    BY <2>1, ScaledIsNearest DEF Nearest
  <2>4. t.num * Scale \in Nat /\ q * t.den = t.num * Scale /\ q \in Int
    <3>1. PICK n \in Int : n = t.num * Scale
      BY <2>2
    <3>2. n % t.den = 0
      BY <3>1 DEF OnGrid
    <3>3. (n \div t.den) * t.den = n /\ n \div t.den \in Int
      BY <2>2, <3>2, Exact
    <3>. QED
      BY <2>2, <3>1, <3>3
  <2>. HIDE DEF x, t, v, q
  <2>5. q \in Nat /\ t.den * q = t.num * Scale
    BY <2>2, <2>4
  <2>6. Nearest(q, t.num * Scale, t.den)
    BY <2>2, <2>4, <2>5 DEF Nearest
  <2>7. \A i, j \in Nat : i <= j => i * Scale <= j * Scale
    BY <2>2
  <2>8. /\ (x.num * Scale) * t.den = (x.num * t.den) * Scale
        /\ (t.num * Scale) * x.den = (t.num * x.den) * Scale
        /\ x.num * t.den \in Nat /\ t.num * x.den \in Nat
    BY <2>1, <2>2
  <2>9. CASE m = "accuracy"
    <3>1. t.num * x.den <= x.num * t.den
      BY <1>2, <2>9 DEF Passes, Leq, x, t
    <3>2. (t.num * Scale) * x.den <= (x.num * Scale) * t.den
      BY <2>7, <2>8, <3>1
    <3>3. q <= v
      BY <2>2, <2>3, <2>4, <2>6, <3>2, NearestMonotone
    <3>4. q * t.den <= v * t.den
      BY <2>2, <2>3, <2>5, <3>3
    <3>5. Leq(t, Rate(v, Scale))
      BY <2>4, <3>4 DEF Leq, Rate
    <3>. QED
      BY <2>1, <2>9, <3>5 DEF Passes, t
  <2>10. CASE m # "accuracy"
    <3>1. x.num * t.den <= t.num * x.den
      BY <1>2, <2>10 DEF Passes, Leq, x, t
    <3>2. (x.num * Scale) * t.den <= (t.num * Scale) * x.den
      BY <2>7, <2>8, <3>1
    <3>3. v <= q
      BY <2>2, <2>3, <2>4, <2>6, <3>2, NearestMonotone
    <3>4. v * t.den <= q * t.den
      BY <2>2, <2>3, <2>5, <3>3
    <3>5. Leq(Rate(v, Scale), t)
      BY <2>4, <3>4 DEF Leq, Rate
    <3>. QED
      BY <2>1, <2>10, <3>5 DEF Passes, t
  <2>. QED
    BY <2>9, <2>10
<1>. QED
  BY <1>1, <1>2

\* What passes rounded passes exactly, or for less than the rounding.
LEMMA PassesNearly ==
  ASSUME NEW policy \in Policies, NEW ms, Reported(ms),
         NEW m \in Metric, Passes(m, Scaled(ms), policy)
  PROVE  Passes(m, ms, policy) \/ WithinRounding(ms[m], policy.threshold[m])
<1>1. CASE ~Defined(ms[m])
  BY <1>1, ScaledIs DEF Passes
<1>2. CASE Defined(ms[m])
  <2>. DEFINE x == ms[m]  t == policy.threshold[m]  v == ScaledValue(x)
  <2>. SUFFICES ASSUME ~Passes(m, ms, policy)
                PROVE  WithinRounding(x, t)
    OBVIOUS
  <2>1. /\ x \in Fraction /\ x.num \in Nat /\ Scaled(ms)[m] = Rate(v, Scale)
        /\ Defined(Scaled(ms)[m])
    BY <1>2, ScaledIs
  <2>2. /\ t \in Fraction /\ t.num \in Nat /\ t.den \in Nat \ {0} /\ x.den \in Nat \ {0}
        /\ Scale \in Nat \ {0}
    BY <2>1, PolicyIs, ScaleAssumption DEF Fraction
  <2>3. Nearest(v, x.num * Scale, x.den) /\ v \in Nat
    BY <2>1, ScaledIsNearest DEF Nearest
  <2>4. m = "accuracy" => ~Leq(t, x) /\ Leq(t, Rate(v, Scale))
    BY <1>2, <2>1 DEF Passes
  <2>5. m # "accuracy" => ~Leq(x, t) /\ Leq(Rate(v, Scale), t)
    BY <1>2, <2>1 DEF Passes
  <2>. HIDE DEF x, t, v
  <2>6. PICK n \in Nat, d \in Nat, a \in Nat, b \in Nat :
          n = x.num /\ d = x.den /\ a = t.num /\ b = t.den /\ d > 0 /\ b > 0
    BY <2>1, <2>2
  <2>7. 2 * (d * v) - d <= 2 * (n * Scale) /\ 2 * (n * Scale) <= 2 * (d * v) + d
    BY <2>3, <2>6 DEF Nearest
  <2>8. /\ n * b \in Nat /\ a * d \in Nat /\ v * b \in Nat /\ a * Scale \in Nat /\ d * b \in Nat
        /\ n * Scale \in Nat /\ d * v \in Nat
    BY <2>2, <2>3, <2>6
  <2>9. /\ (2 * (n * Scale)) * b = (2 * Scale) * (n * b)
        /\ (2 * (d * v) + d) * b = (2 * d) * (v * b) + d * b
        /\ (2 * (d * v) - d) * b = (2 * d) * (v * b) - d * b
        /\ (2 * d) * (a * Scale) = (2 * Scale) * (a * d)
    BY <2>2, <2>3, <2>6
  <2>10. CASE m = "accuracy"
    <3>1. ~(a * d <= n * b) /\ a * Scale <= v * b
      BY <2>4, <2>6, <2>10 DEF Leq, Rate
    <3>2. (2 * d) * (a * Scale) <= (2 * d) * (v * b)
      BY <2>6, <2>8, <3>1
    <3>3. (2 * (d * v) - d) * b <= (2 * (n * Scale)) * b
      BY <2>6, <2>7, <2>8
    <3>4. (2 * Scale) * (a * d) - (2 * Scale) * (n * b) <= d * b
      BY <2>2, <2>6, <2>8, <2>9, <3>2, <3>3
    <3>5. (2 * Scale) * (a * d - n * b) = (2 * Scale) * (a * d) - (2 * Scale) * (n * b)
      BY <2>2, <2>8
    <3>6. b * d = d * b
      BY <2>6
    <3>7. Leq(x, t)
      BY <2>6, <2>8, <3>1 DEF Leq
    <3>8. (2 * Scale) * (t.num * x.den - x.num * t.den) <= t.den * x.den
      BY <2>6, <3>4, <3>5, <3>6
    <3>9. Leq(Difference(x, t), Rate(1, 2 * Scale))
      BY <2>1, <2>2, <3>7, <3>8, DifferenceBounded
    <3>. QED
      BY <3>9 DEF WithinRounding
  <2>11. CASE m # "accuracy"
    <3>1. ~(n * b <= a * d) /\ v * b <= a * Scale
      BY <2>5, <2>6, <2>11 DEF Leq, Rate
    <3>2. (2 * d) * (v * b) <= (2 * d) * (a * Scale)
      BY <2>6, <2>8, <3>1
    <3>3. (2 * (n * Scale)) * b <= (2 * (d * v) + d) * b
      BY <2>6, <2>7, <2>8
    <3>4. (2 * Scale) * (n * b) - (2 * Scale) * (a * d) <= d * b
      BY <2>2, <2>6, <2>8, <2>9, <3>2, <3>3
    <3>5. (2 * Scale) * (n * b - a * d) = (2 * Scale) * (n * b) - (2 * Scale) * (a * d)
      BY <2>2, <2>8
    <3>7. Leq(t, x)
      BY <2>6, <2>8, <3>1 DEF Leq
    <3>8. (2 * Scale) * (x.num * t.den - t.num * x.den) <= x.den * t.den
      BY <2>6, <3>4, <3>5
    <3>9. Leq(Difference(x, t), Rate(1, 2 * Scale))
      BY <2>1, <2>2, <3>7, <3>8, DifferenceBounded
    <3>. QED
      BY <3>9 DEF WithinRounding
  <2>. QED
    BY <2>10, <2>11
<1>. QED
  BY <1>1, <1>2

-----------------------------------------------------------------------------
(* The invariant                                                           *)

\* What is known of a client at each step: its metrics are rates or undefined, its
\* accuracy is a rate from the first evaluation on, and decision, signals and
\* binding are those of the metrics it reports.
ClientInv ==
  /\ input \in [counts : Confusions, minimum : MinimumSamples, policy : Policies, round : Round]
  /\ \E g \in Group : Count(input.counts[g]) > 0
  /\ Reported(metrics)
  /\ progress # "trained" => Defined(metrics["accuracy"])
  /\ progress = "measured" => metrics = GroupFairness(input.counts, input.minimum)
  /\ progress \in {"decided", "submitted", "verified"} =>
       approved <=> Approved(metrics, input.policy, input.round)
  /\ progress \in {"submitted", "verified"} => signals = CircuitInput(metrics, input.policy)
  /\ progress = "verified" =>
       binding = Binding(Scaled(metrics), signals, input.policy, input.round)
  /\ ApprovedIsProvable

LEMMA ClientInitInv == ClientInit => ClientInv
<1>. SUFFICES ASSUME ClientInit PROVE ClientInv
  OBVIOUS
<1>1. Reported(metrics)
  BY DEF ClientInit, Reported, MetricValue
<1>. QED
  BY <1>1 DEF ClientInit, ClientInv, ApprovedIsProvable

LEMMA EvaluateInv ==
  ASSUME ClientInv, Evaluate
  PROVE  ClientInv'
<1>1. /\ input.counts \in Confusions /\ input.minimum \in MinimumSamples
      /\ \E g \in Group : Count(input.counts[g]) > 0
  BY DEF ClientInv
<1>2. PICK counts \in Confusions, minimum \in MinimumSamples :
        counts = input.counts /\ minimum = input.minimum /\ \E g \in Group : Count(counts[g]) > 0
  BY <1>1
<1>3. PICK fair : fair = GroupFairness(counts, minimum)
  OBVIOUS
<1>4. /\ DOMAIN fair = Metric /\ \A m \in Metric : MetricValue(fair[m])
      /\ Defined(fair["accuracy"])
  BY <1>2, <1>3, FairnessIs
<1>5. metrics' = fair /\ progress' = "measured" /\ input' = input
  BY <1>2, <1>3 DEF Evaluate
<1>6. Reported(fair)
  BY <1>4 DEF Reported
<1>. QED
  BY <1>1, <1>2, <1>3, <1>4, <1>5, <1>6 DEF ClientInv, ApprovedIsProvable

LEMMA FabricateInv ==
  ASSUME ClientInv, Fabricate
  PROVE  ClientInv'
<1>1. progress = "measured" /\ input' = input /\ Reported(metrics) /\ Defined(metrics["accuracy"])
  BY DEF Fabricate, ClientInv
<1>2. PICK f \in Fabrications :
        \/ /\ metrics' = [m \in Metric |-> IF m \in DOMAIN f THEN f[m] ELSE metrics[m]]
           /\ progress' = "fabricated"
        \/ metrics' = metrics /\ progress' = "raised"
  BY DEF Fabricate
<1>3. CASE metrics' = metrics /\ progress' = "raised"
  BY <1>1, <1>3 DEF ClientInv, ApprovedIsProvable
<1>4. CASE /\ metrics' = [m \in Metric |-> IF m \in DOMAIN f THEN f[m] ELSE metrics[m]]
           /\ progress' = "fabricated"
  <2>1. PICK ms, new : /\ ms = metrics /\ new = metrics'
                       /\ new = [m \in Metric |-> IF m \in DOMAIN f THEN f[m] ELSE ms[m]]
    BY <1>4
  <2>2. \A m \in Metric : m \in DOMAIN f => InUnit(f[m]) /\ Defined(f[m])
    BY FabricationAssumption, UnitFraction
  <2>3. \A m \in Metric : MetricValue(ms[m])
    BY <1>1, <2>1 DEF Reported
  <2>4. Reported(new)
    BY <2>1, <2>2, <2>3 DEF Reported, MetricValue
  <2>5. Defined(new["accuracy"])
    BY <1>1, <2>1, <2>2 DEF Metric
  <2>. QED
    BY <1>1, <1>4, <2>1, <2>4, <2>5 DEF ClientInv, ApprovedIsProvable
<1>. QED
  BY <1>2, <1>3, <1>4

LEMMA DecideInv ==
  ASSUME ClientInv, Decide
  PROVE  ClientInv'
BY DEF ClientInv, Decide, ApprovedIsProvable

LEMMA SubmitInv ==
  ASSUME ClientInv, Submit
  PROVE  ClientInv'
<1>1. /\ progress = "decided" /\ UNCHANGED <<input, metrics, approved, binding>>
      /\ signals' = CircuitInput(metrics, input.policy)
      /\ progress' = IF approved /\ ~ProofMade(signals') THEN "unprovable" ELSE "submitted"
  BY DEF Submit
<1>2. /\ input.policy \in Policies /\ Reported(metrics) /\ Defined(metrics["accuracy"])
      /\ approved <=> Approved(metrics, input.policy, input.round)
  BY <1>1 DEF ClientInv
<1>3. PICK policy, ms, r :
        /\ policy \in Policies /\ policy = input.policy /\ ms = metrics /\ r = input.round
  BY <1>2
<1>4. Approved(ms, policy, r) => Satisfiable(CircuitInput(ms, policy))
  BY <1>2, <1>3, ApprovedSatisfiable
<1>5. progress' = "submitted"
  BY <1>1, <1>2, <1>3, <1>4 DEF ProofMade
<1>. QED
  BY <1>1, <1>5 DEF ClientInv, ApprovedIsProvable

LEMMA VerifyInv ==
  ASSUME ClientInv, Verify
  PROVE  ClientInv'
BY DEF ClientInv, Verify, ApprovedIsProvable

LEMMA ClientStep == ClientInv /\ [ClientNext]_clientVars => ClientInv'
<1>. SUFFICES ASSUME ClientInv, [ClientNext]_clientVars PROVE ClientInv'
  OBVIOUS
<1>1. CASE Evaluate
  BY <1>1, EvaluateInv
<1>2. CASE Fabricate
  BY <1>2, FabricateInv
<1>3. CASE Decide
  BY <1>3, DecideInv
<1>4. CASE Submit
  BY <1>4, SubmitInv
<1>5. CASE Verify
  BY <1>5, VerifyInv
<1>6. CASE UNCHANGED clientVars
  BY <1>6 DEF clientVars, ClientInv, ApprovedIsProvable
<1>. QED
  BY <1>1, <1>2, <1>3, <1>4, <1>5, <1>6 DEF ClientNext

-----------------------------------------------------------------------------
(* Theorems                                                                *)

LEMMA ClientAlways == ClientSpec => []ClientInv
BY ClientInitInv, ClientStep, PTL DEF ClientSpec

\* A client that the policy approves on its exact metrics never fails to prove it on
\* the scaled ones, for any scale that the metric width holds: rounding keeps the
\* order, so an approved gap stays below its threshold (prove in prepare_round).
THEOREM ApprovedAlwaysProvable == ClientSpec => []ApprovedIsProvable
<1>1. ClientInv => ApprovedIsProvable
  BY DEF ClientInv
<1>. QED
  BY <1>1, ClientAlways, PTL

\* An approved client submits no zero for an undefined metric that is enabled,
\* unless the policy ignores undefined metrics (_circuit_input, evaluate_policy).
THEOREM SubmittedZerosMeasured == ClientSpec => []ZerosAreMeasured
<1>1. ClientInv => ZerosAreMeasured
  BY DEF ClientInv, ZerosAreMeasured, Approved, Passes
<1>. QED
  BY <1>1, ClientAlways, PTL

\* Whatever the groups of a validation set, metrics become undefined in one order:
\* equalized odds first, then equal opportunity, demographic parity and the subgroup
\* gap, and accuracy never (evaluate_group_fairness).
THEOREM MetricsUndefinedInOrder == ClientSpec => []UndefinedInOrder
<1>1. ClientInv => UndefinedInOrder
  <2>. SUFFICES ASSUME ClientInv, progress = "measured" PROVE UndefinedInOrder
    BY DEF UndefinedInOrder
  <2>1. PICK counts \in Confusions, minimum \in MinimumSamples :
          /\ counts = input.counts /\ minimum = input.minimum
          /\ \E g \in Group : Count(counts[g]) > 0
    BY DEF ClientInv
  <2>2. metrics = GroupFairness(counts, minimum)
    BY <2>1 DEF ClientInv
  <2>. QED
    BY <2>1, <2>2, FairnessIs DEF UndefinedInOrder
<1>. QED
  BY <1>1, ClientAlways, PTL

\* The verifier of the artifacts finds the published values, thresholds and mask in
\* the signals; with thresholds on the grid of the scale it approves whom the adapter
\* approved, and whom else it approves was rejected for less than the rounding of a
\* metric (verify_v2_binding).
THEOREM BindingAlwaysAgrees == ClientSpec => []BindingAgrees
<1>1. ClientInv => BindingAgrees
  <2>. SUFFICES ASSUME ClientInv, progress = "verified" PROVE BindingAgrees
    BY DEF BindingAgrees
  <2>1. PICK policy, ms, r :
          /\ policy \in Policies /\ policy = input.policy /\ ms = metrics /\ r = input.round
    BY DEF ClientInv
  <2>2. /\ Reported(ms) /\ (approved <=> Approved(ms, policy, r))
        /\ signals = CircuitInput(ms, policy)
        /\ binding = Binding(Scaled(ms), signals, policy, r)
    BY <2>1 DEF ClientInv
  <2>3. binding.valid
    BY <2>2 DEF Binding, CircuitInput
  <2>4. binding.passed <=> Approved(Scaled(ms), policy, r)
    BY <2>2 DEF Binding
  <2>5. policy.enabled \subseteq Metric
    BY <2>1, PolicyIs
  <2>6. OnGrid(policy) /\ approved => binding.passed
    <3>. SUFFICES ASSUME OnGrid(policy), Approved(ms, policy, r)
                  PROVE  Approved(Scaled(ms), policy, r)
      BY <2>2, <2>4
    <3>1. ASSUME NEW m \in policy.enabled PROVE Passes(m, Scaled(ms), policy)
      <4>1. m \in Metric /\ Passes(m, ms, policy)
        BY <2>5 DEF Approved
      <4>. QED
        BY <2>1, <2>2, <4>1, PassesRounded
    <3>. QED
      BY <3>1 DEF Approved
  <2>7. ASSUME binding.passed, NEW m \in policy.enabled
        PROVE  Passes(m, ms, policy) \/ WithinRounding(ms[m], policy.threshold[m])
    <3>1. m \in Metric /\ Passes(m, Scaled(ms), policy)
      BY <2>4, <2>5, <2>7 DEF Approved
    <3>. QED
      BY <2>1, <2>2, <3>1, PassesNearly
  <2>. QED
    BY <2>1, <2>3, <2>6, <2>7 DEF BindingAgrees
<1>. QED
  BY <1>1, ClientAlways, PTL
=============================================================================
