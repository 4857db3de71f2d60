------------------------------ MODULE Eligibility ------------------------------
(***************************************************************************)
(* How methods B4 and B7 decide on one client, from its confusion counts   *)
(* to a verified binding: group fairness metrics, the metrics it reports,  *)
(* the policy on their exact values, the V2 circuit on values scaled and   *)
(* rounded, and the verifier of the published artifacts, which recomputes  *)
(* the decision from the scaled ones.                                      *)
(*                                                                         *)
(* A metric is an exact fraction; one with denominator 0 is undefined      *)
(* (None).  Digests are ideal: honest artifacts match, so the comparisons  *)
(* left of the binding are those of values, thresholds and masks.          *)
(***************************************************************************)
EXTENDS Integers, FiniteSets, FiniteSetsExt, Fractions

CONSTANTS
  Group,          \* values of the protected attribute
  Privileged, Unprivileged,
  Confusions,     \* confusion counts of a client's validation set, by group
  MinimumSamples, \* settings of minimum_group_samples
  Policies,       \* policies in force
  Fabrications,   \* reports of the false-metric experiment: functions on some metrics
  Scale,          \* 1 000 000 in the code
  MetricBits,     \* width of a metric in the circuit, 32 in the code
  Round

ASSUME GroupAssumption ==
  IsFiniteSet(Group) /\ {Privileged, Unprivileged} \subseteq Group /\ Privileged # Unprivileged
ASSUME CountsAssumption ==
  Confusions \subseteq [Group -> [tp : Nat, fn : Nat, fp : Nat, tn : Nat]]
ASSUME ScaleAssumption ==
  Scale \in Nat \ {0} /\ MetricBits \in Nat /\ 2 ^ MetricBits \in Nat /\ Scale < 2 ^ MetricBits
ASSUME MinimumAssumption == MinimumSamples \subseteq Nat \ {0}

Gaps == {"demographic_parity_gap", "equal_opportunity_gap", "equalized_odds_gap",
        "subgroup_accuracy_gap"}
Metric == {"accuracy"} \cup Gaps

\* validate_policy: one threshold in 0..1 per metric, a nonempty mask.
PolicyAssumption ==
  \A p \in Policies :
    /\ DOMAIN p.threshold = Metric
    /\ \A m \in Metric : InUnit(p.threshold[m])
    /\ p.enabled \subseteq Metric /\ p.enabled # {}
    /\ p.undefined \in {"reject", "ignore", "error"}
    /\ p.start \in Nat /\ p.end >= p.start
ASSUME PoliciesValid == PolicyAssumption

\* The reports configured for the experiment state rates.
ASSUME FabricationAssumption ==
  \A f \in Fabrications : DOMAIN f \subseteq Metric /\ \A m \in DOMAIN f : InUnit(f[m])

-----------------------------------------------------------------------------
(* Group fairness                                                          *)

Count(c) == c.tp + c.fn + c.fp + c.tn
PositiveRate(c) == Rate(c.tp + c.fp, Count(c))
TruePositiveRate(c) == Rate(c.tp, c.tp + c.fn)
FalsePositiveRate(c) == Rate(c.fp, c.fp + c.tn)
Accuracy(c) == Rate(c.tp + c.tn, Count(c))

\* Mutant of LargeEnough: one sample fewer will do for a comparison group.
NearlyLargeEnough(c, minimum) == Count(c) >= minimum - 1

LargeEnough(c, minimum) == Count(c) >= minimum

\* evaluate_group_fairness.  Groups without samples are absent.
GroupFairness(counts, minimum) ==
  LET comparable == \A g \in {Privileged, Unprivileged} : LargeEnough(counts[g], minimum)
      Compared(RateOf(_)) ==
        IF comparable THEN Difference(RateOf(counts[Unprivileged]), RateOf(counts[Privileged]))
        ELSE Undefined
      tprGap == Compared(TruePositiveRate)
      fprGap == Compared(FalsePositiveRate)
      sized == {g \in Group : Count(counts[g]) >= minimum}
      correct == [g \in Group |-> Accuracy(counts[g])]
      Total(Part(_)) == SumFunction([g \in Group |-> Part(counts[g])])
  IN [m \in Metric |->
       CASE m = "accuracy" -> LET Hits(c) == c.tp + c.tn IN Rate(Total(Hits), Total(Count))
         [] m = "demographic_parity_gap" -> Compared(PositiveRate)
         [] m = "equal_opportunity_gap" -> tprGap
         [] m = "equalized_odds_gap" ->
              IF Defined(tprGap) /\ Defined(fprGap) THEN LargestOf({tprGap, fprGap}) ELSE Undefined
         [] m = "subgroup_accuracy_gap" ->
              IF Cardinality(sized) < 2 THEN Undefined
              ELSE LargestOf({Difference(correct[g], correct[h]) : g, h \in sized})]

-----------------------------------------------------------------------------
(* Policy                                                                  *)

InForce(policy, r) == policy.start <= r /\ r <= policy.end

\* An enabled metric is undefined and the policy says to raise.
PolicyRaises(metrics, policy, r) ==
  /\ InForce(policy, r) /\ policy.undefined = "error"
  /\ \E m \in policy.enabled : ~Defined(metrics[m])

Passes(m, metrics, policy) ==
  IF ~Defined(metrics[m]) THEN policy.undefined = "ignore"
  ELSE IF m = "accuracy" THEN Leq(policy.threshold[m], metrics[m])
  ELSE Leq(metrics[m], policy.threshold[m])

\* Mutant of Approved: undefined metrics are skipped whatever the policy says.
ApprovedIfDefined(metrics, policy, r) ==
  /\ InForce(policy, r)
  /\ \A m \in policy.enabled : Defined(metrics[m]) => Passes(m, metrics, policy)

Approved(metrics, policy, r) ==
  InForce(policy, r) /\ \A m \in policy.enabled : Passes(m, metrics, policy)

-----------------------------------------------------------------------------
(* Scaled values, circuit and binding                                      *)

\* round(): to the nearest integer, ties to the even one.
RoundHalfEven(r) ==
  LET floor == r.num \div r.den
      twice == 2 * (r.num - floor * r.den)
  IN IF twice > r.den \/ (twice = r.den /\ floor % 2 = 1) THEN floor + 1 ELSE floor

\* Mutant of ScaledValue: int() in place of round().
TruncatedValue(r) == (r.num * Scale) \div r.den

ScaledValue(r) == RoundHalfEven(Rate(r.num * Scale, r.den))

\* Mutant of ScaledThreshold: int() in place of round().
TruncatedThreshold(r) == (r.num * Scale) \div r.den

ScaledThreshold(r) == ScaledValue(r)

\* _scaled_metrics: the published metrics artifact.
Scaled(metrics) ==
  [m \in Metric |-> IF Defined(metrics[m]) THEN Rate(ScaledValue(metrics[m]), Scale) ELSE Undefined]

\* _circuit_input: an undefined metric is a zero.
CircuitInput(metrics, policy) ==
  [value |-> [m \in Metric |-> Scaled(metrics)[m].num],
   threshold |-> [m \in Metric |-> ScaledThreshold(policy.threshold[m])],
   enabled |-> policy.enabled]

\* The constraints of FairnessEligibilityV2: a witness exists.
Satisfiable(signals) ==
  /\ \A m \in Metric : {signals.value[m], signals.threshold[m]} \subseteq 0 .. 2 ^ MetricBits - 1
  /\ \A m \in signals.enabled \cap Gaps : signals.value[m] <= signals.threshold[m]
  /\ "accuracy" \in signals.enabled => signals.threshold["accuracy"] <= signals.value["accuracy"]

\* verify_v2_binding on the published artifacts.
Binding(artifact, signals, policy, r) ==
  [valid |-> /\ \A m \in Metric : signals.value[m] = artifact[m].num
             /\ \A m \in Metric : signals.threshold[m] = ScaledThreshold(policy.threshold[m])
             /\ signals.enabled = policy.enabled,
   passed |-> Approved(artifact, policy, r)]

-----------------------------------------------------------------------------

VARIABLES
  progress,  \* where the client is: see Progress
  input,     \* its counts, the minimum, the policy and the round
  metrics,   \* the metrics it reports, once they are evaluated
  approved,  \* the policy's decision on them
  signals,   \* the public signals of its submission
  binding    \* what the verifier of the artifacts finds

clientVars == <<progress, input, metrics, approved, signals, binding>>

Progress == {"trained", "measured", "fabricated", "decided", "submitted", "verified", "raised", "unprovable"}

ClientInit ==
  /\ progress = "trained"
  /\ input \in [counts : Confusions, minimum : MinimumSamples,
                policy : Policies, round : Round]
  /\ \E g \in Group : Count(input.counts[g]) > 0
  /\ metrics = [m \in Metric |-> Undefined] /\ approved = FALSE
  /\ signals = <<>> /\ binding = <<>>

Evaluate ==
  /\ progress = "trained" /\ progress' = "measured"
  /\ metrics' = GroupFairness(input.counts, input.minimum)
  /\ UNCHANGED <<input, approved, signals, binding>>

\* The false-metric experiment: a client the policy rejects reports metrics it
\* approves; any other target is an error.
Fabricate ==
  /\ progress = "measured"
  /\ \E f \in Fabrications :
       LET reported == [m \in Metric |-> IF m \in DOMAIN f THEN f[m] ELSE metrics[m]]
           raises == PolicyRaises(metrics, input.policy, input.round)
                       \/ PolicyRaises(reported, input.policy, input.round)
       IN IF /\ ~raises
             /\ ~Approved(metrics, input.policy, input.round)
             /\ Approved(reported, input.policy, input.round)
          THEN metrics' = reported /\ progress' = "fabricated"
          ELSE metrics' = metrics /\ progress' = "raised"
  /\ UNCHANGED <<input, approved, signals, binding>>

Decide ==
  /\ progress \in {"measured", "fabricated"}
  /\ IF PolicyRaises(metrics, input.policy, input.round)
     THEN progress' = "raised" /\ UNCHANGED approved
     ELSE progress' = "decided" /\ approved' = Approved(metrics, input.policy, input.round)
  /\ UNCHANGED <<input, metrics, signals, binding>>

\* prove() has a witness generated, a proof made and verified, and raises when a
\* tool fails; the tools fail for a circuit without a witness.
ProofMade(inputs) == Satisfiable(inputs)

\* An approved client needs a proof, a rejected one submits its signals without.
Submit ==
  /\ progress = "decided"
  /\ signals' = CircuitInput(metrics, input.policy)
  /\ progress' = IF approved /\ ~ProofMade(signals') THEN "unprovable" ELSE "submitted"
  /\ UNCHANGED <<input, metrics, approved, binding>>

Verify ==
  /\ progress = "submitted"
  /\ IF PolicyRaises(Scaled(metrics), input.policy, input.round)
     THEN progress' = "raised" /\ UNCHANGED binding
     ELSE /\ progress' = "verified"
          /\ binding' = Binding(Scaled(metrics), signals, input.policy, input.round)
  /\ UNCHANGED <<input, metrics, approved, signals>>

ClientNext == Evaluate \/ Fabricate \/ Decide \/ Submit \/ Verify

ClientSpec == ClientInit /\ [][ClientNext]_clientVars

-----------------------------------------------------------------------------

\* A client the policy approves on exact metrics can always prove it on rounded
\* ones: prepare_round never fails in prove() because the circuit disagrees.
ApprovedIsProvable == progress # "unprovable"

OnGrid(policy) ==
  \A m \in Metric : (policy.threshold[m].num * Scale) % policy.threshold[m].den = 0
WithinRounding(a, b) == Leq(Difference(a, b), Rate(1, 2 * Scale))

\* The verifier's decision from the published artifacts is the adapter's.  With
\* thresholds that are multiples of 1/Scale it can differ in one way: a client
\* rejected for less than the rounding of a metric looks approved.
BindingAgrees ==
  progress = "verified" =>
    /\ binding.valid
    /\ OnGrid(input.policy) /\ approved => binding.passed
    /\ binding.passed /\ ~approved =>
         \A m \in input.policy.enabled :
           Passes(m, metrics, input.policy)
             \/ WithinRounding(metrics[m], input.policy.threshold[m])

\* The zero that stands for an undefined metric passes every maximum of the
\* circuit.  A proof is made for one only under a policy that ignores it.
ZerosAreMeasured ==
  progress \in {"submitted", "verified"} /\ approved /\ input.policy.undefined # "ignore" =>
    \A m \in input.policy.enabled : Defined(metrics[m])

\* Metrics lose their value in one order: when groups are too small or lack a
\* class, no metric is defined without those that need less data.
UndefinedInOrder ==
  progress = "measured" =>
    /\ Defined(metrics["equalized_odds_gap"]) => Defined(metrics["equal_opportunity_gap"])
    /\ Defined(metrics["equal_opportunity_gap"]) => Defined(metrics["demographic_parity_gap"])
    /\ Defined(metrics["demographic_parity_gap"]) => Defined(metrics["subgroup_accuracy_gap"])
    /\ Defined(metrics["accuracy"])
=============================================================================
