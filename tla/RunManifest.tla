------------------------------ MODULE RunManifest ------------------------------
(***************************************************************************)
(* One output directory of the run driver: attempts to execute a           *)
(* configuration in it, each a call of execute() in a process of its own,  *)
(* what they leave on disk and what the manifest says of it.  Files are    *)
(* truncated and rewritten in place, so a process that is killed may leave *)
(* a torn file; nothing is ever removed.                                   *)
(*                                                                         *)
(* Attempts do not overlap: the driver takes no lock, and two processes    *)
(* given one run identifier are outside this module.  A call that is       *)
(* refused, or answered with a completed manifest, changes nothing and is  *)
(* a stutter.  The executor may write any of its files in any order and    *)
(* then return, raise or be interrupted; ExperimentMatrix gives the one of *)
(* federated_core.                                                         *)
(***************************************************************************)
EXTENDS Naturals

CONSTANTS
  Config,      \* resolved configurations (equal exactly when their hashes are)
  File,        \* files that the executor and the driver write as results
  Summary,     \* derived/summary.json, one of them
  Content,     \* what a result file says
  MaxAttempts  \* bound on the attempts in one directory

ASSUME SummaryAssumption == Summary \in File
ASSUME AttemptsAssumption == MaxAttempts \in Nat

VARIABLES
  manifest,  \* manifests/run_manifest.json
  resolved,  \* config/resolved_config.json
  outputs,   \* the result files
  log,       \* logs/failure.log is there
  pc,        \* where the attempt in progress is
  config,    \* its configuration
  attempt,   \* its number; 0 before the first
  status,    \* completion_status of the manifest in its memory
  fate       \* fate[n]: how attempt n ended (history)

diskVars == <<manifest, resolved, outputs, log>>
attemptVars == <<pc, config, attempt, status, fate>>
driverVars == <<diskVars, attemptVars>>

Attempt == 1 .. MaxAttempts
Status == {"running", "completed", "failed"}
Fate == {"none", "completed", "failed", "interrupted", "raised", "killed"}
Absent == [state |-> "absent"]
Torn == [state |-> "torn"]
Whole(c, n, said) == [state |-> "whole", config |-> c, attempt |-> n, said |-> said]
WholeFiles(Said) ==
  [state : {"whole"}, config : Config, attempt : Attempt, said : Said]
Manifests == WholeFiles(Status \X BOOLEAN)
Disk(Said) == {Absent, Torn} \cup WholeFiles(Said)

IsWhole(file) == file.state = "whole"
StatusOf(m) == m.said[1]
Ended(m) == m.said[2]
Completed(m) == IsWhole(m) /\ StatusOf(m) = "completed"

ManifestTypeOK ==
  /\ manifest \in Disk(Status \X BOOLEAN)
  /\ resolved \in Disk({"config"})
  /\ outputs \in [File -> Disk(Content)]
  /\ log \in BOOLEAN
  /\ pc \in {"idle", "resolving", "announcing", "executing", "summarizing", "logging", "closing"}
  /\ config \in Config /\ attempt \in 0 .. MaxAttempts
  /\ status \in Status /\ fate \in [Attempt -> Fate]

DriverInit ==
  /\ manifest = Absent /\ resolved = Absent /\ log = FALSE
  /\ outputs = [f \in File |-> Absent]
  /\ pc = "idle" /\ config \in Config /\ attempt = 0 /\ status = "running"
  /\ fate = [n \in Attempt |-> "none"]

-----------------------------------------------------------------------------

\* Mutant of MayStart: --resume continues with whatever configuration it is given.
MayStartAnyConfig(c, resume) ==
  manifest = Absent \/ (IsWhole(manifest) /\ resume /\ ~Completed(manifest))

\* Mutant of MayStart: --resume runs a completed run again.
MayStartAgain(c, resume) ==
  manifest = Absent \/ (IsWhole(manifest) /\ resume /\ manifest.config = c)

\* The test of an existing manifest.  A completed one of this configuration is
\* returned as it is; one that cannot be parsed makes every call raise.
MayStart(c, resume) ==
  \/ manifest = Absent
  \/ IsWhole(manifest) /\ resume /\ manifest.config = c /\ ~Completed(manifest)

Start(c, resume) ==
  /\ pc = "idle" /\ attempt < MaxAttempts
  /\ MayStart(c, resume)
  /\ pc' = "resolving" /\ config' = c /\ attempt' = attempt + 1 /\ status' = "running"
  /\ UNCHANGED <<diskVars, fate>>

WriteResolved ==
  /\ pc = "resolving" /\ pc' = "announcing"
  /\ resolved' = Whole(config, attempt, "config")
  /\ UNCHANGED <<manifest, outputs, log, config, attempt, status, fate>>

WriteRunning ==
  /\ pc = "announcing" /\ pc' = "executing"
  /\ manifest' = Whole(config, attempt, <<"running", FALSE>>)
  /\ UNCHANGED <<resolved, outputs, log, config, attempt, status, fate>>

\* The executor writes one result.
Produce(f, said) ==
  /\ pc = "executing"
  /\ outputs' = [outputs EXCEPT ![f] = Whole(config, attempt, said)]
  /\ UNCHANGED <<manifest, resolved, log, attemptVars>>

ExecutorReturns ==
  /\ pc = "executing" /\ pc' = "summarizing"
  /\ UNCHANGED <<diskVars, config, attempt, status, fate>>

WriteSummary(said) ==
  /\ pc = "summarizing" /\ pc' = "closing"
  /\ status' = "completed" /\ fate' = [fate EXCEPT ![attempt] = "completed"]
  /\ outputs' = [outputs EXCEPT ![Summary] = Whole(config, attempt, said)]
  /\ UNCHANGED <<manifest, resolved, log, config, attempt>>

\* Mutant of Raise: the exception is logged, the status stays as it was.
RaiseUnnoticed ==
  /\ pc \in {"executing", "summarizing"} /\ pc' = "logging"
  /\ fate' = [fate EXCEPT ![attempt] = "failed"]
  /\ UNCHANGED <<diskVars, config, attempt, status>>

\* except Exception: from the executor or from writing the summary.
Raise ==
  /\ pc \in {"executing", "summarizing"} /\ pc' = "logging"
  /\ status' = "failed" /\ fate' = [fate EXCEPT ![attempt] = "failed"]
  /\ UNCHANGED <<diskVars, config, attempt>>

WriteFailureLog ==
  /\ pc = "logging" /\ pc' = "closing" /\ log' = TRUE
  /\ UNCHANGED <<manifest, resolved, outputs, config, attempt, status, fate>>

\* KeyboardInterrupt and SystemExit are no Exceptions: only finally runs, as it
\* does when the handler itself raises.
Interrupt ==
  /\ pc \in {"executing", "summarizing", "logging"} /\ pc' = "closing"
  /\ fate' = [fate EXCEPT ![attempt] = "interrupted"]
  /\ UNCHANGED <<diskVars, config, attempt, status>>

\* finally: the only write of the manifest after the first.
WriteFinal ==
  /\ pc = "closing" /\ pc' = "idle"
  /\ manifest' = Whole(config, attempt, <<status, TRUE>>)
  /\ UNCHANGED <<resolved, outputs, log, config, attempt, status, fate>>

\* The process is gone, in the middle of the write it was at or not: killed at
\* any time, or by an exception of a write outside the try block.
Abandon(how) ==
  /\ IF how = "killed" THEN pc # "idle" ELSE pc \in {"resolving", "announcing", "closing"}
  /\ pc' = "idle" /\ fate' = [fate EXCEPT ![attempt] = how]
  /\ \/ UNCHANGED diskVars
     \/ pc = "resolving" /\ resolved' = Torn /\ UNCHANGED <<manifest, outputs, log>>
     \/ pc \in {"announcing", "closing"} /\ manifest' = Torn /\ UNCHANGED <<resolved, outputs, log>>
     \/ /\ pc \in {"executing", "summarizing"}
        /\ \E f \in File : outputs' = [outputs EXCEPT ![f] = Torn]
        /\ UNCHANGED <<manifest, resolved, log>>
     \/ pc = "logging" /\ log' = TRUE /\ UNCHANGED <<manifest, resolved, outputs>>
  /\ UNCHANGED <<config, attempt, status>>

DriverStep ==
  \/ \E c \in Config, resume \in BOOLEAN : Start(c, resume)
  \/ WriteResolved \/ WriteRunning
  \/ ExecutorReturns \/ Raise \/ WriteFailureLog \/ Interrupt \/ WriteFinal
  \/ \E how \in {"killed", "raised"} : Abandon(how)

DriverNext ==
  \/ DriverStep
  \/ \E f \in File, said \in Content : Produce(f, said)
  \/ \E said \in Content : WriteSummary(said)

DriverSpec == DriverInit /\ [][DriverNext]_driverVars

-----------------------------------------------------------------------------

\* No file of a directory comes from another configuration than the one its
\* manifest names, whatever attempts were made, resumed, killed or refused:
\* execute() compares hashes before it prepares the directory.
OneConfiguration ==
  IsWhole(manifest) =>
    /\ IsWhole(resolved) => resolved.config = manifest.config
    /\ \A f \in File : IsWhole(outputs[f]) => outputs[f].config = manifest.config

\* A run once completed is final: no later call changes its manifest or any of
\* its files, with --resume or without.
CompletedIsFinal == [][Completed(manifest) => UNCHANGED diskVars]_driverVars

\* With no attempt in progress, the manifest tells how the attempt that wrote it
\* ended: completed and failed are true, running and ended was interrupted,
\* running and not ended was cut off.
StatusTellsTheEnd ==
  pc = "idle" /\ IsWhole(manifest) =>
    LET how == fate[manifest.attempt] IN
      \/ how = "completed" /\ manifest.said = <<"completed", TRUE>>
      \/ how = "failed" /\ manifest.said = <<"failed", TRUE>> /\ log
      \/ how = "interrupted" /\ StatusOf(manifest) # "completed" /\ Ended(manifest)
      \/ how \in {"killed", "raised"} /\ manifest.said = <<"running", FALSE>>
=============================================================================
