------------------------- MODULE RunManifest_proofs -------------------------
(***************************************************************************)
(* The directory of a run, for any configurations, any result files and    *)
(* any number of attempts: it holds one configuration, its manifest tells  *)
(* how the attempt that wrote it ended, and it is final once completed.    *)
(* This holds with any executor (DriverSpec).  The executor federated_core *)
(* (MatrixSpec) is one of them, and the files that a completed run has of  *)
(* it account for every execution of its configuration.                    *)
(***************************************************************************)
EXTENDS ExperimentMatrix, TLAPS

\* An attempt in progress has a number.
TypedInv == ManifestTypeOK /\ (pc # "idle" => attempt \in Attempt)

\* Types are kept by every step: they say in particular that a file is absent,
\* torn, or whole and the work of one attempt of one configuration.
LEMMA DriverTyped ==
  (DriverInit => TypedInv) /\ (TypedInv /\ [DriverNext]_driverVars => TypedInv')
<1>1. ASSUME NEW S PROVE Absent \in Disk(S) /\ Torn \in Disk(S)
  BY DEF Disk
<1>2. ASSUME NEW S, NEW c \in Config, NEW n \in Attempt, NEW said \in S
      PROVE  Whole(c, n, said) \in Disk(S)
  BY DEF Disk, WholeFiles, Whole
<1>3. DriverInit => TypedInv
  <2> SUFFICES ASSUME DriverInit PROVE ManifestTypeOK /\ pc = "idle"
    BY DEF TypedInv
  <2>1. /\ manifest \in Disk(Status \X BOOLEAN) /\ resolved \in Disk({"config"})
        /\ outputs \in [File -> Disk(Content)]
    BY <1>1 DEF DriverInit
  <2>2. attempt \in 0 .. MaxAttempts
    BY AttemptsAssumption DEF DriverInit
  <2>3. status \in Status /\ fate \in [Attempt -> Fate]
    BY DEF DriverInit, Status, Fate
  <2> QED
    BY <2>1, <2>2, <2>3 DEF DriverInit, ManifestTypeOK
<1>4. TypedInv /\ [DriverNext]_driverVars => TypedInv'
  <2> SUFFICES ASSUME TypedInv, [DriverNext]_driverVars PROVE TypedInv'
    OBVIOUS
  <2> USE DEF ManifestTypeOK, TypedInv
  <2>1. ASSUME NEW c \in Config, NEW resume \in BOOLEAN, Start(c, resume) PROVE TypedInv'
    <3>1. attempt' \in 0 .. MaxAttempts /\ attempt' \in Attempt
      BY <2>1, AttemptsAssumption DEF Start, Attempt
    <3> QED
      BY <2>1, <3>1 DEF Start, diskVars, Status
  <2>2. CASE WriteResolved
    BY <2>2, <1>2 DEF WriteResolved
  <2>3. CASE WriteRunning
    <3>1. <<"running", FALSE>> \in Status \X BOOLEAN
      BY DEF Status
    <3> QED
      BY <2>3, <3>1, <1>2 DEF WriteRunning
  <2>4. ASSUME NEW f \in File, NEW said \in Content, Produce(f, said) PROVE TypedInv'
    <3>1. Whole(config, attempt, said) \in Disk(Content)
      BY <2>4, <1>2 DEF Produce
    <3> QED
      BY <2>4, <3>1 DEF Produce, attemptVars
  <2>5. CASE ExecutorReturns
    BY <2>5 DEF ExecutorReturns, diskVars
  <2>6. ASSUME NEW said \in Content, WriteSummary(said) PROVE TypedInv'
    <3>1. Whole(config, attempt, said) \in Disk(Content)
      BY <2>6, <1>2 DEF WriteSummary
    <3> QED
      BY <2>6, <3>1, SummaryAssumption DEF WriteSummary, Status, Fate
  <2>7. CASE Raise \/ Interrupt
    BY <2>7 DEF Raise, Interrupt, diskVars, Status, Fate
  <2>8. CASE WriteFailureLog
    BY <2>8 DEF WriteFailureLog
  <2>9. CASE WriteFinal
    <3>1. <<status, TRUE>> \in Status \X BOOLEAN
      OBVIOUS
    <3> QED
      BY <2>9, <3>1, <1>2 DEF WriteFinal
  <2>10. ASSUME NEW how \in {"killed", "raised"}, Abandon(how) PROVE TypedInv'
    <3>1. /\ manifest' \in Disk(Status \X BOOLEAN) /\ resolved' \in Disk({"config"})
          /\ log' \in BOOLEAN
      BY <2>10, <1>1 DEF Abandon, diskVars
    <3>2. outputs' \in [File -> Disk(Content)]
      BY <2>10, <1>1 DEF Abandon, diskVars
    <3>3. fate' \in [Attempt -> Fate]
      BY <2>10 DEF Abandon, Fate
    <3> QED
      BY <2>10, <3>1, <3>2, <3>3 DEF Abandon
  <2>11. CASE UNCHANGED driverVars
    BY <2>11 DEF driverVars, diskVars, attemptVars
  <2> QED
    BY <2>1, <2>2, <2>3, <2>4, <2>5, <2>6, <2>7, <2>8, <2>9, <2>10, <2>11
    DEF DriverNext, DriverStep
<1> QED
  BY <1>3, <1>4

\* Whatever executor is used, every variable of the driver and every file keeps
\* its type (execute()).
THEOREM ManifestTypeCorrect == DriverSpec => []TypedInv
BY DriverTyped, PTL DEF DriverSpec

Announced == pc \in {"executing", "summarizing", "logging", "closing"}

\* What StatusTellsTheEnd says of the manifest, attempt in progress or not.
EndTold ==
  LET how == fate[manifest.attempt] IN
    \/ how = "completed" /\ manifest.said = <<"completed", TRUE>>
    \/ how = "failed" /\ manifest.said = <<"failed", TRUE>> /\ log
    \/ how = "interrupted" /\ StatusOf(manifest) # "completed" /\ Ended(manifest)
    \/ how \in {"killed", "raised"} /\ manifest.said = <<"running", FALSE>>

\* An attempt in progress works in a directory without manifest, where there is
\* no result yet, or in one that its own configuration left unfinished.
ConfigInv ==
  /\ OneConfiguration
  /\ manifest = Absent => \A f \in File : ~IsWhole(outputs[f])
  /\ pc # "idle" => \/ manifest = Absent
                    \/ IsWhole(manifest) /\ manifest.config = config /\ ~Completed(manifest)
  /\ pc \notin {"idle", "resolving"} => IsWhole(resolved) /\ resolved.config = config
  /\ Announced => IsWhole(manifest)

\* The manifest is that of an earlier attempt until this one announces itself;
\* then it says running, and the status in memory goes with the attempt's fate.
StatusInv ==
  /\ pc # "idle" => attempt \in Attempt
  /\ IsWhole(manifest) => manifest.attempt <= attempt
  /\ pc \in {"resolving", "announcing"} /\ IsWhole(manifest) => manifest.attempt < attempt
  /\ ~Announced /\ IsWhole(manifest) => EndTold
  /\ Announced => manifest.attempt = attempt /\ manifest.said = <<"running", FALSE>>
  /\ pc \in {"resolving", "announcing", "executing", "summarizing"} => status = "running"
  /\ pc = "logging" => status = "failed" /\ fate[attempt] = "failed"
  /\ pc = "closing" =>
       \/ fate[attempt] = "completed" /\ status = "completed"
       \/ fate[attempt] = "failed" /\ status = "failed" /\ log
       \/ fate[attempt] = "interrupted" /\ status # "completed"

\* A step keeps the two invariants of the directory.
LEMMA DirectoryStep ==
  ASSUME TypedInv, ConfigInv, StatusInv, [DriverNext]_driverVars
  PROVE  ConfigInv' /\ StatusInv'
<1> USE DEF IsWhole, Whole, Absent, Torn, Completed
<1>0. /\ outputs \in [File -> Disk(Content)] /\ fate \in [Attempt -> Fate]
      /\ attempt \in Nat
      /\ pc # "idle" => attempt \in Attempt
      /\ IsWhole(manifest) => manifest.attempt \in Attempt /\ manifest.attempt \in Nat
  BY AttemptsAssumption DEF TypedInv, ManifestTypeOK, Attempt, Disk, WholeFiles
<1>1. ASSUME NEW c \in Config, NEW resume \in BOOLEAN, Start(c, resume)
      PROVE  ConfigInv' /\ StatusInv'
  <2>1. ConfigInv'
    BY <1>1 DEF Start, MayStart, diskVars, ConfigInv, OneConfiguration, Announced
  <2>2. StatusInv'
    <3>1. attempt' = attempt + 1 /\ attempt' \in Attempt
      BY <1>1, <1>0, AttemptsAssumption DEF Start, Attempt
    <3>2. pc' = "resolving" /\ status' = "running" /\ UNCHANGED <<diskVars, fate>> /\ pc = "idle"
      BY <1>1 DEF Start
    <3>3. IsWhole(manifest)' => EndTold' /\ manifest'.attempt < attempt'
      <4> SUFFICES ASSUME IsWhole(manifest)' PROVE EndTold' /\ manifest'.attempt < attempt'
        OBVIOUS
      <4>1. IsWhole(manifest) /\ UNCHANGED <<manifest, fate, log>>
        BY <3>2 DEF diskVars
      <4>2. EndTold /\ manifest.attempt <= attempt
        BY <3>2, <4>1 DEF StatusInv, Announced
      <4>3. EndTold'
        <5>1. manifest' = manifest /\ log' = log /\ fate'[manifest'.attempt] = fate[manifest.attempt]
          BY <4>1
        <5> QED
          BY <4>2, <5>1, Zenon DEF EndTold
      <4> QED
        BY <1>0, <3>1, <4>1, <4>2, <4>3
    <3> QED
      BY <1>0, <3>1, <3>2, <3>3 DEF StatusInv, Announced, diskVars
  <2> QED
    BY <2>1, <2>2
<1>2. CASE WriteResolved
  <2>1. ConfigInv'
    BY <1>2 DEF WriteResolved, ConfigInv, OneConfiguration, Announced
  <2>2. StatusInv'
    BY <1>2 DEF WriteResolved, StatusInv, Announced, EndTold
  <2> QED
    BY <2>1, <2>2
<1>3. CASE WriteRunning
  <2>1. ConfigInv'
    BY <1>3 DEF WriteRunning, ConfigInv, OneConfiguration, Announced, StatusOf
  <2>2. StatusInv'
    <3>1. /\ manifest' = Whole(config, attempt, <<"running", FALSE>>) /\ pc' = "executing"
          /\ status = "running" /\ attempt \in Attempt /\ UNCHANGED <<log, attempt, status, fate>>
      BY <1>3, <1>0 DEF WriteRunning, StatusInv
    <3>2. manifest'.attempt = attempt /\ manifest'.said = <<"running", FALSE>>
      BY <3>1
    <3>3. manifest'.attempt <= attempt' /\ attempt' \in Attempt
      BY <1>0, <3>1, <3>2
    <3>4. status' = "running" /\ Announced' /\ pc' \notin {"idle", "resolving", "announcing", "logging", "closing"}
      BY <3>1 DEF Announced
    <3> HIDE DEF Whole, IsWhole
    <3> QED
      BY <3>1, <3>2, <3>3, <3>4 DEF StatusInv
  <2> QED
    BY <2>1, <2>2
<1>4. ASSUME NEW f \in File, NEW said, Produce(f, said) \/ (f = Summary /\ WriteSummary(said))
      PROVE  ConfigInv'
  BY <1>4, <1>0 DEF Produce, WriteSummary, attemptVars, ConfigInv, OneConfiguration, Announced
<1>5. ASSUME NEW f \in File, NEW said, Produce(f, said) PROVE StatusInv'
  BY <1>5 DEF Produce, attemptVars, StatusInv, Announced, EndTold
<1>6. CASE ExecutorReturns
  BY <1>6 DEF ExecutorReturns, diskVars, ConfigInv, OneConfiguration, StatusInv, Announced, EndTold
<1>7. ASSUME NEW said, WriteSummary(said) PROVE StatusInv'
  BY <1>7, <1>0 DEF WriteSummary, StatusInv, Announced, EndTold
<1>8. CASE Raise \/ Interrupt
  <2>1. ConfigInv'
    BY <1>8 DEF Raise, Interrupt, diskVars, ConfigInv, OneConfiguration, Announced
  <2>2. StatusInv'
    BY <1>8, <1>0 DEF Raise, Interrupt, diskVars, StatusInv, Announced, EndTold
  <2> QED
    BY <2>1, <2>2
<1>9. CASE WriteFailureLog
  BY <1>9 DEF WriteFailureLog, ConfigInv, OneConfiguration, StatusInv, Announced, EndTold
<1>10. CASE WriteFinal
  <2>1. ConfigInv'
    BY <1>10 DEF WriteFinal, ConfigInv, OneConfiguration, Announced
  <2>2. StatusInv'
    <3>1. /\ manifest' = Whole(config, attempt, <<status, TRUE>>) /\ pc = "closing" /\ pc' = "idle"
          /\ attempt \in Attempt /\ UNCHANGED <<log, attempt, status, fate>>
      BY <1>10, <1>0 DEF WriteFinal
    <3>2. manifest'.attempt = attempt /\ manifest'.said = <<status, TRUE>>
      BY <3>1
    <3>3. manifest'.said[1] = status /\ manifest'.said[2] = TRUE
      BY <3>2
    <3>4. EndTold'
      BY <3>1, <3>2, <3>3 DEF StatusInv, EndTold, StatusOf, Ended
    <3> QED
      BY <1>0, <3>1, <3>2, <3>4 DEF StatusInv, Announced
  <2> QED
    BY <2>1, <2>2
<1>11. ASSUME NEW how \in {"killed", "raised"}, Abandon(how)
       PROVE  ConfigInv' /\ StatusInv'
  <2>1. ConfigInv'
    BY <1>11, <1>0 DEF Abandon, diskVars, ConfigInv, OneConfiguration, Announced
  <2>2. StatusInv'
    <3>1. /\ pc # "idle" /\ pc' = "idle" /\ fate' = [fate EXCEPT ![attempt] = how]
          /\ UNCHANGED <<attempt, status>> /\ attempt \in Attempt
      BY <1>11, <1>0 DEF Abandon
    <3>2. UNCHANGED manifest \/ ~IsWhole(manifest)'
      BY <1>11 DEF Abandon, diskVars
    <3>3. ~Announced => UNCHANGED log
      BY <1>11 DEF Abandon, diskVars, Announced
    <3>4. ASSUME IsWhole(manifest)' PROVE manifest'.attempt <= attempt /\ EndTold'
      <4>1. CASE Announced
        BY <1>0, <3>1, <3>2, <3>4, <4>1, <1>11 DEF StatusInv, EndTold
      <4>2. CASE ~Announced
        <5>1. pc \in {"resolving", "announcing"}
          BY <3>1, <4>2 DEF TypedInv, ManifestTypeOK, Announced
        <5>2. UNCHANGED <<manifest, log>> /\ IsWhole(manifest)
          BY <3>2, <3>3, <3>4, <4>2
        <5>3. EndTold /\ manifest.attempt < attempt
          BY <4>2, <5>1, <5>2 DEF StatusInv
        <5>4. fate'[manifest.attempt] = fate[manifest.attempt]
          BY <1>0, <3>1, <5>2, <5>3
        <5>5. EndTold'
          <6>1. manifest' = manifest /\ log' = log /\ fate'[manifest'.attempt] = fate[manifest.attempt]
            BY <5>2, <5>4
          <6> QED
            BY <5>3, <6>1, Zenon DEF EndTold
        <5> QED
          BY <1>0, <3>1, <5>2, <5>3, <5>5
      <4> QED
        BY <4>1, <4>2
    <3> QED
      BY <1>0, <3>1, <3>4 DEF StatusInv, Announced
  <2> QED
    BY <2>1, <2>2
<1>12. CASE UNCHANGED driverVars
  BY <1>12 DEF driverVars, diskVars, attemptVars, ConfigInv, OneConfiguration, StatusInv,
               Announced, EndTold
<1> QED
  BY <1>1, <1>2, <1>3, <1>4, <1>5, <1>6, <1>7, <1>8, <1>9, <1>10, <1>11, <1>12, SummaryAssumption
  DEF DriverNext, DriverStep

\* A directory holds the files of one configuration, and its manifest tells how the
\* attempt that wrote it ended, after any number of attempts.
THEOREM ManifestTruthful == DriverSpec => [](OneConfiguration /\ StatusTellsTheEnd)
<1>1. DriverInit => ConfigInv /\ StatusInv
  BY DEF DriverInit, ConfigInv, OneConfiguration, StatusInv, Announced, IsWhole, Absent
<1>2. TypedInv /\ ConfigInv /\ StatusInv /\ [DriverNext]_driverVars => (ConfigInv /\ StatusInv)'
  BY DirectoryStep
<1>3. ConfigInv /\ StatusInv => OneConfiguration /\ StatusTellsTheEnd
  BY DEF ConfigInv, StatusInv, StatusTellsTheEnd, Announced, EndTold
<1> QED
  BY <1>1, <1>2, <1>3, ManifestTypeCorrect, PTL DEF DriverSpec

\* Once a manifest says completed, no later call changes a file of the directory.
THEOREM CompletedStaysFinal == DriverSpec => CompletedIsFinal
<1>1. DriverInit => ConfigInv /\ StatusInv
  BY DEF DriverInit, ConfigInv, OneConfiguration, StatusInv, Announced, IsWhole, Absent
<1>2. TypedInv /\ ConfigInv /\ StatusInv /\ [DriverNext]_driverVars => (ConfigInv /\ StatusInv)'
  BY DirectoryStep
<1>3. ConfigInv /\ [DriverNext]_driverVars
        => [Completed(manifest) => UNCHANGED diskVars]_driverVars
  <2> SUFFICES ASSUME ConfigInv, DriverNext, Completed(manifest) PROVE UNCHANGED diskVars
    OBVIOUS
  <2>1. pc = "idle"
    BY DEF ConfigInv, Completed, IsWhole, Absent
  <2> QED
    BY <2>1 DEF DriverNext, DriverStep, Start, WriteResolved, WriteRunning, ExecutorReturns, Raise,
                WriteFailureLog, Interrupt, WriteFinal, Abandon, Produce, WriteSummary
<1> QED
  BY <1>1, <1>2, <1>3, ManifestTypeCorrect, PTL DEF DriverSpec, CompletedIsFinal

-----------------------------------------------------------------------------
(***************************************************************************)
(* The executor federated_core in the driver: what is proved of a          *)
(* directory for any executor holds of its directories, and the files of a *)
(* completed run account for every execution.                              *)
(***************************************************************************)

\* The executor got as far as at: each execution before it succeeded or failed as
\* expected.
Progressed ==
  /\ at \in 1 .. Len(config.methods) + 3
  /\ succeeded \subseteq ExecutionsOf(config) /\ expected \subseteq ExecutionsOf(config)
  /\ succeeded \cup expected = {e \in ExecutionsOf(config) : e < at}
  /\ succeeded \cap expected = {}
  /\ expected # {} => config.expects

\* A file of the attempt in progress.
New(f) == IsWhole(outputs[f]) /\ outputs[f].attempt = attempt

\* What the attempt in progress has written is what it has got done.
Written ==
  /\ \A e \in ExecutionsOf(config) : New(Model(e)) <=> e \in succeeded
  /\ at > Len(config.methods) + 1 => New(Rows) /\ outputs[Rows].said = succeeded
  /\ New(Negative) <=> at > Len(config.methods) + 2 /\ expected # {}
  /\ New(Negative) => outputs[Negative].said = expected

\* Files are older than an attempt that has not begun to execute; one that closes
\* as completed has written them all.
MatrixInv ==
  /\ Progressed
  /\ \A f \in File : IsWhole(outputs[f]) => outputs[f].attempt <= attempt
  /\ pc \in {"resolving", "announcing"} =>
       /\ at = 1
       /\ \A f \in File : IsWhole(outputs[f]) => outputs[f].attempt < attempt
  /\ pc \in {"executing", "summarizing"} => Written
  /\ pc = "summarizing" => at = Len(config.methods) + 3
  /\ pc = "closing" /\ status = "completed" =>
       /\ Written /\ at = Len(config.methods) + 3
       /\ New(Summary) /\ outputs[Summary].said = succeeded
  /\ ExecutionsAccounted

\* Executions are numbered, and each result file has a name of its own.
LEMMA MatrixFiles ==
  ASSUME NEW c \in Config
  PROVE  /\ Len(c.methods) \in Nat /\ ExecutionsOf(c) = 1 .. Len(c.methods)
         /\ {Rows, Negative, Summary} \subseteq File
         /\ Rows # Negative /\ Summary \notin {Rows, Negative}
         /\ \A e \in ExecutionsOf(c) :
              /\ Model(e) \in File /\ Model(e) \notin {Rows, Negative, Summary}
              /\ \A d \in ExecutionsOf(c) : Model(d) = Model(e) => d = e
         /\ SUBSET ExecutionsOf(c) \subseteq Content
<1>1. c.methods \in Seq(Method)
  BY ConfigAssumption DEF MatrixConfigs
<1>2. Rows # Negative /\ \A e : Model(e) # Rows /\ Model(e) # Negative
  BY DEF Rows, Negative, Model
<1>3. \A d, e : Model(d) = Model(e) => d = e
  <2> TAKE d, e
  <2>1. Model(d).execution = d /\ Model(e).execution = e
    BY DEF Model
  <2> QED
    BY <2>1
<1> QED
  BY <1>1, <1>2, <1>3, FilesAssumption, SummaryAssumption DEF ExecutionsOf

\* A step of the executor is a step the driver allows to any executor.
LEMMA MatrixStepIsDriverStep ==
  TypedInv /\ Progressed /\ [MatrixNext]_vars => [DriverNext]_driverVars
<1> SUFFICES ASSUME config \in Config, Progressed, [MatrixNext]_vars
             PROVE  [DriverNext]_driverVars
  BY DEF TypedInv, ManifestTypeOK
<1>1. \A said \in SUBSET ExecutionsOf(config) : said \in Content
  BY MatrixFiles
<1>2. CASE ExecutionSucceeds
  BY <1>1, <1>2, MatrixFiles DEF ExecutionSucceeds, InExecutions, DriverNext
<1>3. CASE WriteRows
  BY <1>1, <1>3, MatrixFiles DEF WriteRows, Progressed, DriverNext
<1>4. CASE WriteNegative
  BY <1>1, <1>4, MatrixFiles DEF WriteNegative, Progressed, DriverNext
<1>5. ASSUME WriteSummary(succeeded) PROVE DriverNext
  BY <1>1, <1>5 DEF Progressed, DriverNext
<1>6. CASE ExecutionUnavailable
  BY <1>6 DEF ExecutionUnavailable
<1>7. CASE UNCHANGED vars
  BY <1>7 DEF vars
<1> QED
  BY <1>2, <1>3, <1>4, <1>5, <1>6, <1>7
  DEF MatrixNext, MatrixStart, MatrixRaises, MatrixReturns, DriverNext, DriverStep

\* The account of a completed run depends on the manifest and the files alone.
LEMMA AccountKept ==
  ASSUME ExecutionsAccounted, UNCHANGED <<manifest, outputs>> \/ ~Completed(manifest)'
  PROVE  ExecutionsAccounted'
BY DEF ExecutionsAccounted, Completed, IsWhole, StatusOf, Fresh

\* A write of one more result, or the note of one more failure.
LEMMA ExecutorStepInv ==
  ASSUME TypedInv, ConfigInv, MatrixInv,
         ExecutionSucceeds \/ ExecutionUnavailable \/ WriteRows \/ WriteNegative
  PROVE  MatrixInv'
<1> DEFINE n == Len(config.methods)
<1>1. /\ pc = "executing" /\ ~Completed(manifest) /\ attempt \in Nat /\ config \in Config
      /\ outputs \in [File -> Disk(Content)]
      /\ UNCHANGED <<manifest, resolved, log, pc, config, attempt, status, fate>>
  <2>1. pc = "executing" /\ UNCHANGED <<manifest, resolved, log, pc, config, attempt, status, fate>>
    BY DEF ExecutionSucceeds, ExecutionUnavailable, WriteRows, WriteNegative, Produce,
           attemptVars, driverVars, diskVars
  <2> QED
    BY <2>1, AttemptsAssumption DEF TypedInv, ManifestTypeOK, Attempt, ConfigInv, Completed, Absent, IsWhole
<1>2. /\ n \in Nat /\ ExecutionsOf(config) = 1 .. n /\ at \in 1 .. n + 3 /\ at \in Nat
      /\ {Rows, Negative, Summary} \subseteq File
      /\ Rows # Negative /\ Summary \notin {Rows, Negative}
      /\ \A e \in 1 .. n :
           /\ Model(e) \in File /\ Model(e) \notin {Rows, Negative, Summary}
           /\ \A d \in 1 .. n : Model(d) = Model(e) => d = e
  BY <1>1, MatrixFiles DEF MatrixInv, Progressed
<1>3. ExecutionsAccounted' /\ Written
  BY <1>1, AccountKept DEF MatrixInv, Completed, IsWhole, StatusOf
\* One file is written by the attempt in progress, or none.
<1>4. ASSUME NEW f \in File, NEW said, Produce(f, said)
      PROVE  /\ New(f)' /\ outputs'[f].said = said
             /\ \A g \in File \ {f} : outputs'[g] = outputs[g] /\ (New(g)' <=> New(g))
             /\ \A g \in File : IsWhole(outputs'[g]) => outputs'[g].attempt <= attempt
  <2>1. outputs' = [outputs EXCEPT ![f] = Whole(config, attempt, said)] /\ UNCHANGED attempt
    BY <1>1, <1>4 DEF Produce
  <2>2. /\ outputs'[f] = Whole(config, attempt, said)
        /\ \A g \in File \ {f} : outputs'[g] = outputs[g]
    BY <1>1, <2>1
  <2> QED
    BY <1>1, <2>1, <2>2 DEF New, IsWhole, Whole, MatrixInv
<1>5. Progressed' /\ Written' /\ \A f \in File : IsWhole(outputs'[f]) => outputs'[f].attempt <= attempt
  <2>1. CASE ExecutionSucceeds
    <3>1. at \in 1 .. n /\ Produce(Model(at), {at}) /\ at' = at + 1
          /\ succeeded' = succeeded \cup {at} /\ UNCHANGED expected
      BY <1>2, <2>1 DEF ExecutionSucceeds, InExecutions
    <3>2. Progressed'
      BY <1>1, <1>2, <3>1 DEF MatrixInv, Progressed
    <3>3. Written'
      BY <1>1, <1>2, <1>3, <1>4, <3>1 DEF MatrixInv, Progressed, Written
    <3> QED
      BY <1>2, <1>4, <3>1, <3>2, <3>3
  <2>2. CASE ExecutionUnavailable
    <3>1. at \in 1 .. n /\ UNCHANGED outputs /\ config.expects /\ at' = at + 1
          /\ expected' = expected \cup {at} /\ UNCHANGED succeeded
      BY <1>2, <2>2 DEF ExecutionUnavailable, InExecutions, driverVars, diskVars
    <3>2. Progressed'
      BY <1>1, <1>2, <3>1 DEF MatrixInv, Progressed
    <3>3. Written'
      BY <1>1, <1>2, <1>3, <3>1 DEF MatrixInv, Progressed, Written, New
    <3> QED
      BY <1>1, <3>1, <3>2, <3>3 DEF MatrixInv
  <2>3. CASE WriteRows
    <3>1. at = n + 1 /\ Produce(Rows, succeeded) /\ at' = at + 1 /\ UNCHANGED <<succeeded, expected>>
      BY <2>3 DEF WriteRows
    <3>2. Progressed'
      BY <1>1, <1>2, <3>1 DEF MatrixInv, Progressed
    <3>3. Written'
      BY <1>1, <1>2, <1>3, <1>4, <3>1 DEF MatrixInv, Progressed, Written
    <3> QED
      BY <1>2, <1>4, <3>1, <3>2, <3>3
  <2>4. CASE WriteNegative
    <3>1. at = n + 2 /\ at' = at + 1 /\ UNCHANGED <<succeeded, expected>>
      BY <2>4 DEF WriteNegative
    <3>2. Progressed'
      BY <1>1, <1>2, <3>1 DEF MatrixInv, Progressed
    <3>3. CASE expected = {}
      <4>1. UNCHANGED outputs
        BY <2>4, <3>3 DEF WriteNegative, driverVars, diskVars
      <4>2. Written'
        BY <1>1, <1>2, <1>3, <3>1, <3>3, <4>1 DEF Written, New
      <4> QED
        BY <1>1, <3>2, <4>1, <4>2 DEF MatrixInv
    <3>4. CASE expected # {}
      <4>1. Produce(Negative, expected)
        BY <2>4, <3>4 DEF WriteNegative
      <4>2. Written'
        BY <1>1, <1>2, <1>3, <1>4, <3>1, <3>4, <4>1 DEF Written
      <4> QED
        BY <1>2, <1>4, <3>2, <4>1, <4>2
    <3> QED
      BY <3>3, <3>4
  <2> QED
    BY <2>1, <2>2, <2>3, <2>4
<1> QED
  BY <1>1, <1>3, <1>5 DEF MatrixInv

\* The driver's own steps write no result but the summary.
LEMMA DriverStepInv ==
  ASSUME TypedInv, ConfigInv, StatusInv, MatrixInv, [MatrixNext]_vars,
         ~(ExecutionSucceeds \/ ExecutionUnavailable \/ WriteRows \/ WriteNegative)
  PROVE  MatrixInv'
<1>1. /\ attempt \in Nat /\ config \in Config /\ outputs \in [File -> Disk(Content)]
      /\ \A c \in Config : Len(c.methods) \in Nat /\ ExecutionsOf(c) = 1 .. Len(c.methods)
      /\ pc # "idle" => ~Completed(manifest)
  BY AttemptsAssumption, MatrixFiles
  DEF TypedInv, ManifestTypeOK, Attempt, ConfigInv, Completed, IsWhole, Absent
<1>2. CASE MatrixStart
  <2>1. PICK c \in Config, resume \in BOOLEAN : Start(c, resume)
    BY <1>2 DEF MatrixStart
  <2>2. /\ pc' = "resolving" /\ config' = c /\ attempt' = attempt + 1
        /\ UNCHANGED <<manifest, outputs>>
        /\ at' = 1 /\ succeeded' = {} /\ expected' = {}
    BY <1>2, <2>1 DEF MatrixStart, Start, diskVars
  <2>3. Progressed'
    BY <1>1, <2>2 DEF Progressed
  <2>4. \A f \in File : IsWhole(outputs[f]) => outputs[f].attempt \in Nat
    BY <1>1, AttemptsAssumption DEF Disk, WholeFiles, Attempt, IsWhole, Absent, Torn
  <2>5. \A f \in File : IsWhole(outputs'[f]) =>
          outputs'[f].attempt < attempt' /\ outputs'[f].attempt <= attempt'
    BY <1>1, <2>2, <2>4 DEF MatrixInv
  <2>6. ExecutionsAccounted'
    BY <2>2, AccountKept DEF MatrixInv
  <2> QED
    BY <2>2, <2>3, <2>5, <2>6 DEF MatrixInv
<1>3. CASE WriteSummary(succeeded) /\ UNCHANGED matrixVars
  <2>1. /\ pc = "summarizing" /\ pc' = "closing" /\ status' = "completed"
        /\ outputs' = [outputs EXCEPT ![Summary] = Whole(config, attempt, succeeded)]
        /\ UNCHANGED <<manifest, config, attempt, at, succeeded, expected>>
    BY <1>3 DEF WriteSummary, matrixVars
  <2>2. /\ outputs'[Summary] = Whole(config, attempt, succeeded)
        /\ \A g \in File \ {Summary} : outputs'[g] = outputs[g]
    BY <1>1, <2>1, SummaryAssumption
  <2>3. /\ New(Summary)' /\ outputs'[Summary].said = succeeded
        /\ \A f \in File : IsWhole(outputs'[f]) => outputs'[f].attempt <= attempt
    BY <1>1, <2>1, <2>2 DEF New, IsWhole, Whole, MatrixInv
  <2>4. Written' /\ Progressed'
    <3>1. \A e \in ExecutionsOf(config) : Model(e) \in File \ {Summary}
      BY <1>1, MatrixFiles
    <3>2. Rows \in File \ {Summary} /\ Negative \in File \ {Summary}
      BY <1>1, MatrixFiles
    <3> QED
      BY <2>1, <2>2, <3>1, <3>2 DEF MatrixInv, Written, Progressed, New
  <2>5. ExecutionsAccounted'
    BY <1>1, <2>1, AccountKept DEF MatrixInv, Completed, IsWhole, StatusOf
  <2> QED
    BY <2>1, <2>3, <2>4, <2>5 DEF MatrixInv
\* The run is completed: what it accounts for is what this attempt has done.
<1>4. CASE WriteFinal /\ UNCHANGED matrixVars
  <2>1. /\ pc = "closing" /\ pc' = "idle" /\ manifest' = Whole(config, attempt, <<status, TRUE>>)
        /\ UNCHANGED <<outputs, config, attempt, status, at, succeeded, expected>>
    BY <1>4 DEF WriteFinal, matrixVars
  <2>2. ASSUME status = "completed" PROVE ExecutionsAccounted'
    <3>1. manifest'.config = config /\ manifest'.attempt = attempt
      BY <2>1 DEF Whole
    <3>2. /\ Written /\ Progressed /\ at = Len(config.methods) + 3
          /\ New(Summary) /\ outputs[Summary].said = succeeded
      BY <2>1, <2>2 DEF MatrixInv
    <3>3. \A f : Fresh(outputs[f])' <=> New(f)
      BY <2>1, <3>1 DEF Fresh, New, IsWhole
    <3>4. {e \in ExecutionsOf(config) : Fresh(outputs[Model(e)])'} = succeeded
      BY <3>2, <3>3 DEF Written, Progressed
    <3>5. (IF Fresh(outputs[Negative])' THEN outputs[Negative].said ELSE {}) = expected
      BY <1>1, <3>2, <3>3 DEF Written
    <3>6. /\ Fresh(outputs[Rows])' /\ Fresh(outputs[Summary])'
          /\ outputs[Rows].said = succeeded /\ outputs[Summary].said = succeeded
      BY <1>1, <3>2, <3>3 DEF Written
    <3>7. /\ succeeded \cup expected = ExecutionsOf(config) /\ succeeded \cap expected = {}
          /\ expected # {} => config.expects
      BY <1>1, <3>2 DEF Progressed
    <3> QED
      BY <2>1, <3>1, <3>4, <3>5, <3>6, <3>7 DEF ExecutionsAccounted
  <2>3. ASSUME status # "completed" PROVE ExecutionsAccounted'
    <3>1. ~Completed(manifest)'
      BY <2>1, <2>3 DEF Completed, StatusOf, Whole
    <3> QED
      BY <3>1, AccountKept DEF MatrixInv
  <2>4. Progressed'
    BY <2>1 DEF MatrixInv, Progressed
  <2> QED
    BY <2>1, <2>2, <2>3, <2>4 DEF MatrixInv
\* A whole file is one that was there before: a cut-off write leaves a torn one.
<1>5. CASE /\ \E how \in {"killed", "raised"} : Abandon(how)
           /\ UNCHANGED matrixVars
  <2>1. /\ pc # "idle" /\ pc' = "idle" /\ UNCHANGED <<config, attempt, at, succeeded, expected>>
        /\ UNCHANGED manifest \/ manifest' = Torn
        /\ \/ UNCHANGED outputs
           \/ \E f \in File : outputs' = [outputs EXCEPT ![f] = Torn]
    BY <1>5 DEF Abandon, diskVars, matrixVars
  <2>2. \A f \in File : IsWhole(outputs'[f]) => outputs'[f] = outputs[f]
    BY <1>1, <2>1 DEF IsWhole, Torn
  <2>3. ~Completed(manifest)'
    BY <1>1, <2>1 DEF Completed, IsWhole, Torn, StatusOf
  <2>4. Progressed'
    BY <2>1 DEF MatrixInv, Progressed
  <2> QED
    BY <2>1, <2>2, <2>3, <2>4, AccountKept DEF MatrixInv
\* The rest leaves the files alone.
<1>6. CASE \/ MatrixRaises \/ MatrixReturns
           \/ (WriteResolved \/ WriteRunning \/ WriteFailureLog \/ Interrupt) /\ UNCHANGED matrixVars
           \/ UNCHANGED vars
  <2>1. /\ UNCHANGED <<outputs, config, attempt, at, succeeded, expected>>
        /\ UNCHANGED manifest \/ ~Completed(manifest)'
    <3>1. CASE WriteRunning /\ UNCHANGED matrixVars
      <4>1. manifest'.said[1] = "running"
        BY <3>1 DEF WriteRunning, Whole
      <4> QED
        BY <3>1, <4>1 DEF WriteRunning, matrixVars, Completed, StatusOf
    <3>2. CASE ~WriteRunning
      BY <1>6, <3>2
      DEF MatrixRaises, MatrixReturns, Raise, ExecutorReturns, WriteResolved,
          WriteFailureLog, Interrupt, diskVars, attemptVars, driverVars, matrixVars, vars
    <3> QED
      BY <1>6, <3>1, <3>2
      DEF MatrixRaises, MatrixReturns, Raise, ExecutorReturns, WriteRunning, driverVars,
          attemptVars, diskVars, matrixVars, vars
  <2>2. Progressed' /\ ExecutionsAccounted'
    BY <2>1, AccountKept DEF MatrixInv, Progressed
  <2>3. /\ pc' \in {"resolving", "announcing"} => pc \in {"resolving", "announcing"}
        /\ pc' = "executing" => pc \in {"executing", "announcing"}
        /\ pc' = "summarizing" => \/ pc = "summarizing"
                                  \/ pc = "executing" /\ at = Len(config.methods) + 3
        /\ pc' = "closing" /\ status' = "completed" => pc = "closing" /\ status = "completed"
    BY <1>6
    DEF MatrixRaises, MatrixReturns, Raise, ExecutorReturns, WriteResolved, WriteRunning,
        WriteFailureLog, Interrupt, attemptVars, driverVars, vars, StatusInv
  <2>4. Written' <=> Written
    BY <2>1 DEF Written, New
  <2>5. pc = "announcing" => Written
    <3> SUFFICES ASSUME pc = "announcing" PROVE Written
      OBVIOUS
    <3>1. at = 1 /\ \A f \in File : ~New(f)
      BY <1>1 DEF MatrixInv, New
    <3>2. succeeded = {}
      BY <1>1, <3>1 DEF MatrixInv, Progressed
    <3> QED
      BY <1>1, <3>1, <3>2, MatrixFiles DEF Written
  <2> QED
    BY <2>1, <2>2, <2>3, <2>4, <2>5 DEF MatrixInv, New
<1> QED
  BY <1>2, <1>3, <1>4, <1>5, <1>6 DEF MatrixNext

LEMMA MatrixInitInv == MatrixInit => TypedInv /\ ConfigInv /\ StatusInv /\ MatrixInv
<1> SUFFICES ASSUME MatrixInit PROVE TypedInv /\ ConfigInv /\ StatusInv /\ MatrixInv
  OBVIOUS
<1>1. TypedInv
  BY DriverTyped DEF MatrixInit
<1>2. ConfigInv /\ StatusInv
  BY DEF MatrixInit, DriverInit, ConfigInv, OneConfiguration, StatusInv, Announced, IsWhole, Absent
<1>3. config \in Config /\ Len(config.methods) \in Nat /\ ExecutionsOf(config) = 1 .. Len(config.methods)
  BY MatrixFiles DEF MatrixInit, DriverInit
<1>4. Progressed
  BY <1>3 DEF MatrixInit, Progressed
<1>5. /\ pc = "idle" /\ \A f \in File : ~IsWhole(outputs[f])
      /\ ExecutionsAccounted
  BY DEF MatrixInit, DriverInit, IsWhole, Absent, Completed, ExecutionsAccounted
<1> QED
  BY <1>1, <1>2, <1>4, <1>5 DEF MatrixInv

\* The inductive invariant of an experiment: what the attempt in progress has
\* written is what it has got done (federated_core in execute()).
THEOREM MatrixInvariant == MatrixSpec => [](TypedInv /\ ConfigInv /\ StatusInv /\ MatrixInv)
<1>1. TypedInv /\ ConfigInv /\ StatusInv /\ MatrixInv /\ [MatrixNext]_vars
        => (TypedInv /\ ConfigInv /\ StatusInv /\ MatrixInv)'
  <2> SUFFICES ASSUME TypedInv, ConfigInv, StatusInv, MatrixInv, [MatrixNext]_vars
               PROVE  (TypedInv /\ ConfigInv /\ StatusInv /\ MatrixInv)'
    OBVIOUS
  <2>1. [DriverNext]_driverVars
    BY MatrixStepIsDriverStep DEF MatrixInv
  <2>2. TypedInv' /\ ConfigInv' /\ StatusInv'
    BY <2>1, DriverTyped, DirectoryStep
  <2>3. MatrixInv'
    BY ExecutorStepInv, DriverStepInv
  <2> QED
    BY <2>2, <2>3
<1> QED
  BY <1>1, MatrixInitInv, PTL DEF MatrixSpec

\* The files of a completed run account for each execution exactly once, after any
\* number of attempts that were killed, failed or resumed.
THEOREM EveryExecutionAccounted == MatrixSpec => []ExecutionsAccounted
<1>1. MatrixInv => ExecutionsAccounted
  BY DEF MatrixInv
<1> QED
  BY <1>1, MatrixInvariant, PTL

\* The executor federated_core does nothing that the driver does not allow any
\* executor, so the directories of experiments are directories of the driver.
THEOREM MatrixImplementsDriver == MatrixSpec => DriverSpec
<1>1. MatrixInit => DriverInit
  BY DEF MatrixInit
<1>2. TypedInv /\ MatrixInv /\ [MatrixNext]_vars => [DriverNext]_driverVars
  BY MatrixStepIsDriverStep DEF MatrixInv
<1> QED
  BY <1>1, <1>2, MatrixInvariant, PTL DEF MatrixSpec, DriverSpec

\* In particular an experiment's directory is of one configuration, its manifest
\* tells the truth, and nothing in it changes once it is completed.
THEOREM ExperimentDirectories ==
  MatrixSpec => [](OneConfiguration /\ StatusTellsTheEnd) /\ CompletedIsFinal
BY MatrixImplementsDriver, ManifestTruthful, CompletedStaysFinal, PTL
=============================================================================
