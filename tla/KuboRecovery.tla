------------------------------ MODULE KuboRecovery ------------------------------
(***************************************************************************)
(* benchmark_native_kubo_recovery: two Kubo daemons as child processes, of *)
(* which the publisher is stopped and restarted in every repetition while  *)
(* the consumer keeps serving what it retrieved.  A daemon may die, take   *)
(* too long to start, or not go away when it is killed; any call may fail. *)
(* An earlier benchmark that was killed may have left daemons behind, which*)
(* answer on the same ports.                                               *)
(***************************************************************************)
EXTENDS Naturals, Sequences

CONSTANT Repetitions
ASSUME RepetitionsAssumption == Repetitions \in Nat \ {0}

Peer == {"publisher", "consumer"}

VARIABLES
  leftover,    \* nodes whose ports are answered by a daemon of an earlier benchmark
  daemon,      \* the child process of a node: none, starting, ready or dead
  handle,      \* nodes whose process attribute is set
  spawned,     \* daemons started for a node so far
  stuck,       \* nodes whose daemon outlived SIGKILL
  step,        \* where the benchmark is
  repetition,
  linked,      \* the peers are connected
  holds,       \* artifacts each node has
  peer,        \* original_publisher_id
  absent,      \* no publisher answered at the outage retrieval (history)
  rows

processVars == <<leftover, daemon, handle, spawned, stuck>>
recoveryVars == <<processVars, step, repetition, linked, holds, peer, absent, rows>>

Artifact == {"outage", "recovery"} \X (1 .. Repetitions)
Alive(n) == daemon[n] \in {"starting", "ready"}
Answers(n) == daemon[n] = "ready" \/ n \in leftover
Identity(n) == IF n \in leftover THEN "earlier" ELSE "own"

RecoveryInit ==
  /\ leftover \in SUBSET Peer
  /\ daemon = [n \in Peer |-> "none"] /\ handle = {} /\ stuck = {}
  /\ spawned = [n \in Peer |-> 0]
  /\ step = "initialize" /\ repetition = 1 /\ linked = FALSE
  /\ holds = [n \in Peer |-> {}] /\ peer = "none" /\ absent = FALSE /\ rows = <<>>

-----------------------------------------------------------------------------

Then(next) == step' = next
Stay == UNCHANGED <<repetition, linked, holds, peer, absent, rows>>
Ended == step \in {"returned", "raised"}
InCleanup == step \in {"cleanup_publisher", "cleanup_consumer", "fail_publisher", "fail_consumer"}

\* An exception of the try block: finally runs.
Fails == step' = "fail_publisher" /\ Stay

\* repo init, refused where a repository is, and configuration.
Initialize ==
  /\ step = "initialize" /\ Then("start_publisher")
  /\ UNCHANGED processVars /\ Stay

Starting(n) ==
  \/ n = "publisher" /\ step \in {"start_publisher", "restart"}
  \/ n = "consumer" /\ step = "start_consumer"
Polling(n) == IF n = "consumer" THEN "poll_consumer"
              ELSE IF step = "restart" THEN "poll_restart" ELSE "poll_publisher"

\* start(): refused while the process attribute is set, which it never is here
\* (DaemonsStopped).
Spawn(n) ==
  /\ Starting(n) /\ n \notin handle
  /\ daemon' = [daemon EXCEPT ![n] = "starting"] /\ handle' = handle \cup {n}
  /\ spawned' = [spawned EXCEPT ![n] = @ + 1]
  /\ Then(Polling(n)) /\ UNCHANGED <<leftover, stuck>> /\ Stay

AfterPoll(n) ==
  CASE step = "poll_publisher" -> "start_consumer"
    [] step = "poll_consumer" -> "connect"
    [] step = "poll_restart" -> "reconnect"
PollsFor(n) ==
  step \in (IF n = "consumer" THEN {"poll_consumer"} ELSE {"poll_publisher", "poll_restart"})

\* The version answers on the node's port, whoever answers.
PollAnswered(n) ==
  /\ PollsFor(n) /\ daemon[n] # "dead" /\ Answers(n)
  /\ Then(AfterPoll(n)) /\ UNCHANGED processVars /\ Stay

PollExited(n) == PollsFor(n) /\ daemon[n] = "dead" /\ UNCHANGED processVars /\ Fails

\* Mutant of Stopped: the process attribute is cleared, the process is not waited for.
StoppedForgotten(n) ==
  handle' = handle \ {n} /\ UNCHANGED <<leftover, daemon, spawned, stuck>>

\* stop(): SIGTERM, after ten seconds SIGKILL, and the process is gone.
Stopped(n) ==
  /\ daemon' = [daemon EXCEPT ![n] = "none"] /\ handle' = handle \ {n}
  /\ UNCHANGED <<leftover, spawned, stuck>>

\* The second wait times out as well: stop() raises and keeps the attribute.
StopHangs(n) ==
  /\ Alive(n) /\ stuck' = stuck \cup {n}
  /\ UNCHANGED <<leftover, daemon, handle, spawned>>

PollTimesOut(n) ==
  PollsFor(n) /\ daemon[n] = "starting" /\ (Stopped(n) \/ StopHangs(n)) /\ Fails

-----------------------------------------------------------------------------

\* connect_two_peers, at the start and after a restart, when the identity of the
\* publisher is compared.
Connect ==
  /\ step \in {"connect", "reconnect"}
  /\ \A n \in Peer : Answers(n)
  /\ linked' = TRUE
  /\ IF step = "connect"
     THEN peer' = Identity("publisher") /\ Then("add")
     ELSE UNCHANGED peer
            /\ Then(IF peer = Identity("publisher") THEN "add_recovery" ELSE "fail_publisher")
  /\ UNCHANGED <<processVars, repetition, holds, absent, rows>>

Adds == [s \in {"add", "add_recovery"} |-> IF s = "add" THEN "outage" ELSE "recovery"]
Add ==
  /\ step \in DOMAIN Adds /\ Answers("publisher")
  /\ holds' = [holds EXCEPT !["publisher"] = @ \cup {<<Adds[step], repetition>>}]
  /\ Then(IF step = "add" THEN "cat" ELSE "cat_recovery")
  /\ UNCHANGED <<processVars, repetition, linked, peer, absent, rows>>

CanCat(a) ==
  /\ Answers("consumer")
  /\ a \in holds["consumer"] \/ (linked /\ Answers("publisher") /\ a \in holds["publisher"])

\* The consumer retrieves the artifact, verified byte by byte, and pins it.
CatAndPin ==
  /\ step = "cat" /\ CanCat(<<"outage", repetition>>)
  /\ holds' = [holds EXCEPT !["consumer"] = @ \cup {<<"outage", repetition>>}]
  /\ Then("stop")
  /\ UNCHANGED <<processVars, repetition, linked, peer, absent, rows>>

StopPublisher ==
  /\ step = "stop"
  /\ \/ /\ Stopped("publisher") /\ Then("cat_in_outage")
        /\ linked' = (linked /\ "publisher" \in leftover)
        /\ UNCHANGED <<repetition, holds, peer, absent, rows>>
     \/ StopHangs("publisher") /\ Fails

CatInOutage ==
  /\ step = "cat_in_outage" /\ CanCat(<<"outage", repetition>>)
  /\ absent' = ~Answers("publisher") /\ Then("restart")
  /\ UNCHANGED <<processVars, repetition, linked, holds, peer, rows>>

CatRecovery ==
  /\ step = "cat_recovery" /\ CanCat(<<"recovery", repetition>>)
  /\ holds' = [holds EXCEPT !["consumer"] = @ \cup {<<"recovery", repetition>>}]
  /\ rows' = Append(rows, [absent |-> absent, daemon |-> spawned["publisher"]])
  /\ IF repetition < Repetitions THEN repetition' = repetition + 1 /\ Then("add")
     ELSE UNCHANGED repetition /\ Then("cleanup_publisher")
  /\ UNCHANGED <<processVars, linked, peer, absent>>

\* Before the process is there start() raises when it cannot be spawned; while it is
\* polled, for an answer that is no version.  The latter leaves the process running.
CallSteps == {"initialize", "start_publisher", "start_consumer", "restart", "poll_publisher",
              "poll_consumer", "poll_restart", "connect", "reconnect", "add", "add_recovery", "cat",
              "cat_in_outage", "cat_recovery"}
CallFails == step \in CallSteps /\ UNCHANGED processVars /\ Fails

\* Mutant of AfterCleanup: only the publisher is stopped.
AfterCleanupNone == IF step = "cleanup_publisher" THEN "returned" ELSE "raised"

AfterCleanup ==
  CASE step = "cleanup_publisher" -> "cleanup_consumer"
    [] step = "cleanup_consumer" -> "returned"
    [] step = "fail_publisher" -> "fail_consumer"
    [] step = "fail_consumer" -> "raised"

\* finally: the publisher, then the consumer; an exception of the first stop skips
\* the second.
Cleanup ==
  /\ InCleanup
  /\ LET n == IF step \in {"cleanup_publisher", "fail_publisher"} THEN "publisher" ELSE "consumer" IN
       \/ Stopped(n) /\ Then(AfterCleanup)
       \/ StopHangs(n) /\ Then("raised")
  /\ Stay

DaemonReady(n) ==
  /\ daemon[n] = "starting" /\ n \notin leftover
  /\ daemon' = [daemon EXCEPT ![n] = "ready"]
  /\ UNCHANGED <<leftover, handle, spawned, stuck, step>> /\ Stay

\* By itself, or because its ports are taken.
DaemonDies(n) ==
  /\ Alive(n) /\ daemon' = [daemon EXCEPT ![n] = "dead"]
  /\ linked' = (linked /\ n \in leftover)
  /\ UNCHANGED <<leftover, handle, spawned, stuck, step, repetition, holds, peer, absent, rows>>

RecoveryNext ==
  \/ Initialize
  \/ \E n \in Peer : Spawn(n) \/ PollAnswered(n) \/ PollExited(n) \/ PollTimesOut(n)
  \/ Connect \/ Add \/ CatAndPin \/ StopPublisher \/ CatInOutage \/ CatRecovery
  \/ CallFails \/ Cleanup
  \/ \E n \in Peer : DaemonReady(n) \/ DaemonDies(n)

RecoverySpec == RecoveryInit /\ [][RecoveryNext]_recoveryVars

-----------------------------------------------------------------------------

\* The benchmark leaves no daemon behind, however it ends, unless one did not go
\* away when it was killed, and never starts a node over a daemon it has.
DaemonsStopped ==
  /\ Ended /\ stuck = {} => handle = {} /\ \A n \in Peer : ~Alive(n)
  /\ \A n \in Peer : Starting(n) => n \notin handle /\ ~Alive(n)

\* A row is measured on a real outage: nobody answered for the publisher when the
\* consumer was read, and a daemon started in that repetition served the recovery.
\* A daemon that an earlier benchmark left on the publisher's ports voids this: it
\* answers the poll before the new one has found its ports taken.
OutageIsReal ==
  "publisher" \notin leftover =>
    \A r \in DOMAIN rows : rows[r].absent /\ rows[r].daemon = r + 1
=============================================================================
