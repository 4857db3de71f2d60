---------------------------- MODULE ExperimentMatrix ----------------------------
(***************************************************************************)
(* The executor federated_core inside the run driver: it goes through the  *)
(* executions of a configuration (every seed, client count, partition,     *)
(* policy, attack and method, in one order), each with adapters of its own,*)
(* collects their rows in memory and writes the result files.  An approved *)
(* artifact that cannot be retrieved ends an execution; a configuration    *)
(* that expects this failure goes on with the next one.                    *)
(***************************************************************************)
EXTENDS RunManifest, Sequences, FiniteSets

VARIABLES
  at,         \* execution in hand; beyond the last one, result files to write
  succeeded,  \* executions whose rows were collected
  expected    \* expected_failure_rows

matrixVars == <<at, succeeded, expected>>
vars == <<driverVars, matrixVars>>

\* A configuration names the methods of its executions in order, and says
\* whether fault_injection and expected_failure are set.
MatrixConfigs(method) ==
  [methods : Seq(method), injects : BOOLEAN, expects : BOOLEAN]
Method == {"B0", "B2", "B4"}
ASSUME ConfigAssumption == \A c \in Config : c \in MatrixConfigs(Method) /\ c.methods # <<>>

Model(e) == [kind |-> "model", execution |-> e]  \* final_parameters.npz
Rows == [kind |-> "rows"]                        \* the four files under metrics/
Negative == [kind |-> "negative"]                \* approved_artifact_unavailable.json
ExecutionsOf(c) == DOMAIN c.methods

\* The files have names of their own and hold rows or models of executions.
ASSUME FilesAssumption ==
  \A c \in Config :
    LET models == {Model(e) : e \in ExecutionsOf(c)} IN
    /\ models \cup {Rows, Negative} \subseteq File
    /\ Summary \notin models \cup {Rows, Negative}
    /\ SUBSET ExecutionsOf(c) \subseteq Content

MatrixTypeOK ==
  /\ ManifestTypeOK
  /\ at \in 1 .. Len(config.methods) + 3
  /\ succeeded \subseteq ExecutionsOf(config) /\ expected \subseteq ExecutionsOf(config)

MatrixInit == DriverInit /\ at = 1 /\ succeeded = {} /\ expected = {}

-----------------------------------------------------------------------------

InExecutions == at \in ExecutionsOf(config)
MethodInHand == config.methods[at]

\* run_federated_method returns: the rows are collected and the model saved.  An
\* injected fault leaves a B4 execution no way to succeed.
ExecutionSucceeds ==
  /\ InExecutions /\ ~(MethodInHand = "B4" /\ config.injects)
  /\ Produce(Model(at), {at})
  /\ succeeded' = succeeded \cup {at} /\ at' = at + 1
  /\ UNCHANGED expected

\* Mutant of ExecutionUnavailable: the rows of the rounds before the failure stay.
ExecutionUnavailableKeepsRows ==
  /\ pc = "executing" /\ InExecutions /\ MethodInHand = "B4"
  /\ config.expects
  /\ expected' = expected \cup {at} /\ at' = at + 1
  /\ succeeded' = succeeded \cup {at}
  /\ UNCHANGED driverVars

\* ApprovedArtifactUnavailable, by the injected fault or a real one.
ExecutionUnavailable ==
  /\ pc = "executing" /\ InExecutions /\ MethodInHand = "B4"
  /\ config.expects
  /\ expected' = expected \cup {at} /\ at' = at + 1
  /\ UNCHANGED <<driverVars, succeeded>>

\* Any other failure anywhere, an unavailable artifact that nobody expects, or no
\* row to take the columns from.
MatrixRaises == Raise /\ UNCHANGED matrixVars

WriteRows ==
  /\ at = Len(config.methods) + 1 /\ succeeded # {}
  /\ Produce(Rows, succeeded)
  /\ at' = at + 1 /\ UNCHANGED <<succeeded, expected>>

WriteNegative ==
  /\ at = Len(config.methods) + 2
  /\ IF expected = {} THEN UNCHANGED driverVars ELSE Produce(Negative, expected)
  /\ pc = "executing"
  /\ at' = at + 1 /\ UNCHANGED <<succeeded, expected>>

MatrixReturns ==
  at = Len(config.methods) + 3 /\ ExecutorReturns /\ UNCHANGED matrixVars

MatrixStart ==
  /\ \E c \in Config, resume \in BOOLEAN : Start(c, resume)
  /\ at' = 1 /\ succeeded' = {} /\ expected' = {}

MatrixNext ==
  \/ MatrixStart
  \/ ExecutionSucceeds \/ ExecutionUnavailable \/ MatrixRaises
  \/ WriteRows \/ WriteNegative \/ MatrixReturns
  \/ /\ \/ WriteResolved \/ WriteRunning
        \/ WriteSummary(succeeded) \/ WriteFailureLog \/ Interrupt \/ WriteFinal
        \/ \E how \in {"killed", "raised"} : Abandon(how)
     /\ UNCHANGED matrixVars

MatrixSpec == MatrixInit /\ [][MatrixNext]_vars

-----------------------------------------------------------------------------

Fresh(file) == IsWhole(file) /\ file.attempt = manifest.attempt

\* The files of a completed run account for each of its executions exactly once:
\* one that succeeded has a model and rows, one that failed as expected has
\* neither and is named in the negative evidence, and the rows, the summary and
\* the models all come from the attempt that completed, after any number of
\* attempts that were cut off or failed.
ExecutionsAccounted ==
  Completed(manifest) =>
    LET c == manifest.config
        saved == {e \in ExecutionsOf(c) : Fresh(outputs[Model(e)])}
        failed == IF Fresh(outputs[Negative]) THEN outputs[Negative].said ELSE {}
    IN /\ Fresh(outputs[Rows]) /\ Fresh(outputs[Summary])
       /\ outputs[Rows].said = saved /\ outputs[Summary].said = saved
       /\ saved \cup failed = ExecutionsOf(c) /\ saved \cap failed = {}
       /\ failed # {} => c.expects
=============================================================================
