------------------------------- MODULE Aggregation -------------------------------
(***************************************************************************)
(* Eligibility per method and the three aggregation rules of               *)
(* aggregation.py.  The parameters of a model are one coordinate; one that *)
(* is not finite is Undefined.  Updates are a function on clients, and     *)
(* checks holds the flags of an update that are True.                      *)
(***************************************************************************)
EXTENDS Fractions, FiniteSets

Check == {"policy_approved", "proof_verified", "artifact_binding_valid", "decision_signed",
          "on_chain_approved"}

\* BASELINE_SPECS
Aggregator(method) ==
  CASE method \in {"B6", "B7"} -> "coordinate_median"
    [] method = "B5" -> "fairfed"
    [] OTHER -> "fedavg"
Required(method) ==
  CASE method = "B3" -> {"policy_approved"}
    [] method \in {"B4", "B7"} -> Check
    [] OTHER -> {}

Eligible(method, updates) ==
  {c \in DOMAIN updates : updates[c].valid /\ Required(method) \subseteq updates[c].checks}

\* _validate_updates, for updates of one shape.
Aggregable(updates, S) ==
  S # {} /\ \A c \in S : updates[c].samples >= 1 /\ Defined(updates[c].parameters)

-----------------------------------------------------------------------------

Samples(updates, S) == SumOver([c \in S |-> Whole(updates[c].samples)], S)

FedAvg(updates, S) ==
  Over(SumOver([c \in S |-> Times(Whole(updates[c].samples), updates[c].parameters)], S),
       Samples(updates, S))

WeightedAverage(updates, S, weights) ==
  SumOver([c \in S |-> Times(weights[c], updates[c].parameters)], S)

\* The k-th smallest parameter of S.
Ranked(updates, S, k) ==
  CHOOSE v \in {updates[c].parameters : c \in S} :
    /\ Cardinality({c \in S : Less(updates[c].parameters, v)}) < k
    /\ Cardinality({c \in S : Leq(updates[c].parameters, v)}) >= k

\* Mutant of CoordinateMedian: the largest of the two middle values or above.
CoordinateUpper(updates, S) ==
  LET n == Cardinality(S) IN
    Over(Plus(Ranked(updates, S, (n + 2) \div 2),
              Ranked(updates, S, IF n \div 2 + 2 > n THEN n ELSE n \div 2 + 2)), Whole(2))

CoordinateMedian(updates, S) ==
  LET n == Cardinality(S) IN
    Over(Plus(Ranked(updates, S, (n + 1) \div 2), Ranked(updates, S, n \div 2 + 1)), Whole(2))

-----------------------------------------------------------------------------
(* FairFed.  An evaluation is that of the global model on the client's own *)
(* data: true positive rates of the two groups, accuracy, and whether the  *)
(* groups are large enough to be compared.                                 *)

\* _aggregate_rate: counts are summed over clients, whatever the group sizes.
PooledRate(evaluations, S, group) ==
  Rate(SumFunctionOnSet([c \in S |-> evaluations[c].tpr[group].num], S),
       SumFunctionOnSet([c \in S |-> evaluations[c].tpr[group].den], S))

Gap(unprivileged, privileged) ==
  IF Defined(unprivileged) /\ Defined(privileged) THEN Minus(unprivileged, privileged)
  ELSE Undefined
GlobalEOD(evaluations, S) ==
  Gap(PooledRate(evaluations, S, "unprivileged"), PooledRate(evaluations, S, "privileged"))
LocalEOD(e) ==
  IF e.comparable THEN Gap(e.tpr["unprivileged"], e.tpr["privileged"]) ELSE Undefined
GlobalAccuracy(evaluations, S) ==
  Rate(SumFunctionOnSet([c \in S |-> evaluations[c].accuracy.num], S),
       SumFunctionOnSet([c \in S |-> evaluations[c].accuracy.den], S))

\* The distance of a client's fairness from the global one, or of its accuracy
\* where either fairness is undefined.
Delta(evaluations, S, c) ==
  LET gap == Difference(GlobalEOD(evaluations, S), LocalEOD(evaluations[c])) IN
    IF Defined(gap) THEN gap
    ELSE Difference(GlobalAccuracy(evaluations, S), evaluations[c].accuracy)

SampleShares(updates, S) ==
  [c \in S |-> Over(Whole(updates[c].samples), Samples(updates, S))]

\* Mutant of RawWeights: the distance is not taken from the mean one.
RawWeightsUncentred(previous, deltas, beta) ==
  [c \in DOMAIN previous |-> Minus(previous[c], Times(beta, deltas[c]))]

RawWeights(previous, deltas, beta) ==
  LET S == DOMAIN previous
      mean == Over(SumOver(deltas, S), Whole(Cardinality(S)))
  IN [c \in S |-> Minus(previous[c], Times(beta, Minus(deltas[c], mean)))]

Normalizer(raw) == SumOver(raw, DOMAIN raw)
Normalized(raw) == [c \in DOMAIN raw |-> Over(raw[c], Normalizer(raw))]
=============================================================================
