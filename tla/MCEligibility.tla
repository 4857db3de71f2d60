----------------------------- MODULE MCEligibility -----------------------------
(* Instance of Eligibility for TLC: every confusion matrix of up to three    *)
(* samples in the two comparison groups, a third group of at most one, and   *)
(* policies with thresholds on and off the grid of the scale, that sit on    *)
(* values the metrics take.                                                  *)
EXTENDS Eligibility, TLC

MCGroup == {"priv", "unpriv", "other"}
Counts(n) ==
  {c \in [tp : 0 .. n, fn : 0 .. n, fp : 0 .. n, tn : 0 .. n] : Count(c) <= n}
MCConfusions ==
  {counts \in [MCGroup -> Counts(3)] : counts["other"] \in {c \in Counts(1) : c.tp = 0 /\ c.fn = 0}}
MCMinimum == {1, 2}
MCRound == {1}

Thresholds(acc, gap) == [m \in Metric |-> IF m = "accuracy" THEN acc ELSE gap]
Policy(threshold, enabled, undefined, start) ==
  [threshold |-> threshold, enabled |-> enabled, undefined |-> undefined,
   start |-> start, end |-> 9]
MCPolicies ==
  {Policy(Thresholds(Rate(5, 10), Rate(1, 10)), {"accuracy", "demographic_parity_gap"}, "reject", 1),
   Policy(Thresholds(Rate(6, 10), Rate(7, 10)), Metric, "reject", 1),
   Policy(Thresholds(Rate(2, 3), Rate(2, 3)), Metric, "ignore", 1),
   Policy(Thresholds(Rate(1, 4), Rate(1, 4)), Gaps, "error", 1),
   Policy(Thresholds(Rate(0, 10), Rate(10, 10)), Metric, "reject", 2)}
MCFabrications ==
  {[m \in {"accuracy"} |-> Rate(1, 1)],
   [m \in {"accuracy", "demographic_parity_gap"} |-> IF m = "accuracy" THEN Rate(2, 3) ELSE Rate(1, 8)]}
=============================================================================
