-------------------------- MODULE MCExperimentMatrix --------------------------
(* Instance of ExperimentMatrix for TLC: three attempts in one directory by  *)
(* any of four configurations: one that expects the fault it injects, one    *)
(* whose every execution fails as expected, one that expects a failure which *)
(* may or may not happen, and one that does not expect the failure.          *)
EXTENDS ExperimentMatrix, TLC

MCConfig ==
  {[methods |-> <<"B0", "B4">>, injects |-> TRUE, expects |-> TRUE],
   [methods |-> <<"B4">>, injects |-> TRUE, expects |-> TRUE],
   [methods |-> <<"B4", "B2">>, injects |-> FALSE, expects |-> TRUE],
   [methods |-> <<"B4">>, injects |-> FALSE, expects |-> FALSE]}
MCSummary == [kind |-> "summary"]
MCFile == {Model(1), Model(2), Rows, Negative, MCSummary}
MCContent == SUBSET (1 .. 2)
=============================================================================
