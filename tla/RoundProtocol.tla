---------------------------- MODULE RoundProtocol ----------------------------
(***************************************************************************)
(* A run of methods B4 and B7: the federated loop with its Kubo and ledger *)
(* adapter (one Python process), the Hardhat bridge it drives through      *)
(* pipes (one Node process), the ledger contract the bridge calls, and the *)
(* IPFS peers.                                                             *)
(*                                                                         *)
(* The adapter sends one command and reads until the reply, so the fields  *)
(* of a command are the adapter's own variables, which do not change while *)
(* it waits.  The bridge turns a command into several ledger transactions  *)
(* and then replies.  Any of these steps may fail and the bridge may die   *)
(* before any of them, so that a command may be done and its reply lost.   *)
(* Nothing is retried: what the adapter does about each failure is         *)
(* modelled as it is, including where it does nothing.                     *)
(*                                                                         *)
(* The chain lives in the bridge's process and nobody else calls it.  The  *)
(* ledger's actions are those of EthicalLedger, as the bridge calls them.  *)
(* A client and its node identifier are one thing here (node = client + 1),*)
(* and Node is the clients whose training split has both classes: others   *)
(* submit nothing in any round.                                            *)
(***************************************************************************)
EXTENDS EthicalLedger

CONSTANTS
  LastRound,    \* number of rounds of the run
  Submitter,    \* account that holds VERIFIER, besides the deployer
  Aggregator,   \* account that holds AGGREGATOR, besides the deployer
  Composite,    \* the composite verifier that deploy() installs
  FaultRounds   \* fault_injection settings: a round, or 0 for none

\* Content identifiers are hashes of payloads that name their round, their
\* node and their kind, so each artifact has an identifier of its own.
ArtifactCid(r, node, artifact) == <<"node", r, node, artifact>>
GlobalCid(r) == <<"global", r>>
ReportCid(r) == <<"report", r>>

ASSUME RoundsAssumption == LastRound \in Nat \ {0} /\ Round = 1 .. LastRound
ASSUME AccountsAssumption == {Submitter, Aggregator} \subseteq Account
ASSUME CompositeAssumption == Composite \in Verifier
ASSUME FaultAssumption == FaultRounds \subseteq 0 .. LastRound
ASSUME CidAssumption ==
  /\ \A r \in Round : {GlobalCid(r), ReportCid(r)} \subseteq Cid
  /\ \A r \in Round, node \in Node, a \in Artifact : ArtifactCid(r, node, a) \in Cid

VARIABLES
  pc,           \* where the adapter is
  round,        \* the round in hand
  remaining,    \* clients of this round not yet prepared
  submissions,  \* prepared submissions of this round, in order
  eligible,     \* model identifiers the ledger reported as eligible
  included,     \* included[r]: clients whose models were aggregated in round r
  base,         \* round whose aggregate the global parameters are; 0: initial
  reason,       \* reason of the cancellation requested last
  rows,         \* self.rounds: what the adapter will write as evidence
  evidence,     \* v2_evidence.json as last written
  faultRound,   \* the run's fault injection
  stored,       \* artifacts the IPFS peers hold
  retrieved,    \* model identifiers read back after the ledger approved them
  bridge,       \* the bridge process: "up" or "down"
  command,      \* the command the bridge is executing, or "none"
  progress,     \* transactions of the command done so far
  reply         \* the line the adapter is about to read

adapterVars ==
  <<pc, round, remaining, submissions, eligible, included, base, reason, rows, evidence>>
storeVars == <<faultRound, stored, retrieved>>
bridgeVars == <<bridge, command, progress, reply>>
vars == <<ledgerVars, adapterVars, storeVars, bridgeVars>>

Prepared == [node : Node, approved : BOOLEAN]
Waiting == {"submitting", "cancelling", "publishing", "closing"}
Stopped == {"completed", "unavailable", "failed"}
Control ==
  {"preparing", "retrieving", "aggregating", "recording", "finalizing"}
    \cup Waiting \cup Stopped
Reason ==
  {"none", "ELIGIBILITY_MISMATCH", "APPROVED_ARTIFACT_UNAVAILABLE",
   "AGGREGATION_SET_MISMATCH", "NO_ELIGIBLE_MODELS"}
Row == [round : Round, final : {"Archived", "Cancelled"}, eligible : SUBSET Cid]
Reply == [status : {"none", "ok", "error"}, eligible : SUBSET Cid]

NoReply == [status |-> "none", eligible |-> {}]
ErrorReply == [status |-> "error", eligible |-> {}]
OkReply(cids) == [status |-> "ok", eligible |-> cids]

ModelCid(node) == ArtifactCid(round, node, "model")
SubmittedNodes == {submissions[i].node : i \in DOMAIN submissions}
ApprovedModels ==
  {ModelCid(submissions[i].node) : i \in {j \in DOMAIN submissions : submissions[j].approved}}

ProtocolTypeOK ==
  /\ TypeOK
  /\ pc \in Control /\ round \in Round /\ remaining \subseteq Node
  /\ submissions \in Seq(Prepared)
  /\ eligible \subseteq Cid /\ included \in [Round -> SUBSET Node]
  /\ base \in 0 .. LastRound /\ reason \in Reason
  /\ rows \in Seq(Row) /\ evidence \in Seq(Row)
  /\ faultRound \in FaultRounds /\ stored \subseteq Cid /\ retrieved \subseteq Cid
  /\ bridge \in {"up", "down"} /\ command \in {"none", "submit", "cancel", "publish", "close"}
  /\ progress \in Nat /\ reply \in Reply

-----------------------------------------------------------------------------

\* deploy(): the contracts exist, the verifier is installed and the two roles
\* are granted before the adapter sees the bridge as ready.
ProtocolInit ==
  /\ roles = [role \in Role |->
       CASE role = "VERIFIER" -> {Deployer, Submitter}
         [] role = "AGGREGATOR" -> {Deployer, Aggregator}
         [] role \in ContractRole \ {"VERIFIER", "AGGREGATOR"} -> {Deployer}
         [] OTHER -> {}]
  /\ adminCount = 1
  /\ verifierContract = Composite
  /\ registeredNodes = {} /\ usedCids = {}
  /\ roundStates = [r \in Round |-> "Uncreated"]
  /\ records = [k \in {} |-> {}] /\ globalModels = [r \in {} |-> {}]
  /\ roundRecordKeys = [r \in Round |-> <<>>]
  /\ approvedModelCidsByRound = [r \in Round |-> {}]
  /\ pc = "preparing" /\ round = 1 /\ remaining = Node /\ submissions = <<>>
  /\ eligible = {} /\ included = [r \in Round |-> {}] /\ base = 0 /\ reason = "none"
  /\ rows = <<>> /\ evidence = <<>>
  /\ faultRound \in FaultRounds /\ stored = {} /\ retrieved = {}
  /\ bridge = "up" /\ command = "none" /\ progress = 0 /\ reply = NoReply

-----------------------------------------------------------------------------
(***************************************************************************)
(* The bridge                                                              *)
(***************************************************************************)

Executing(action, done) == bridge = "up" /\ command = action /\ progress = done

Advance ==
  /\ progress' = progress + 1
  /\ UNCHANGED <<bridge, command, reply>>

Respond(line) ==
  /\ reply' = line
  /\ command' = "none"
  /\ UNCHANGED <<bridge, progress>>

BridgeCreate ==
  /\ Executing("submit", 0)
  /\ CreateRound(Deployer, round)
  /\ Advance

\* The bridge's set of registered nodes mirrors the ledger's, which only it
\* extends.
BridgeRegister ==
  /\ progress \in DOMAIN submissions /\ Executing("submit", progress)
  /\ submissions[progress].node \notin registeredNodes
  /\ RegisterNode(Deployer, submissions[progress].node)
  /\ UNCHANGED bridgeVars

\* The decision's three flags are the submission's, and the adapter sends a
\* proof only with an approved one, so the composite verifier answers with the
\* flag or reverts (VerifiedLedger); a revert is a BridgeError.
BridgeSubmit ==
  /\ progress \in DOMAIN submissions /\ Executing("submit", progress)
  /\ LET s == submissions[progress]
         cids == [a \in Artifact |-> ArtifactCid(round, s.node, a)]
     IN  SubmitModel(Submitter, s.node, round, cids, <<s.node, round>>, s.approved)
  /\ Advance

BridgeClose ==
  /\ Executing("submit", Len(submissions) + 1)
  /\ CloseSubmissions(Deployer, round)
  /\ Advance

\* The round is closed: the ledger is asked for its eligible models, which are
\* the reply.
BridgeReplyEligible ==
  /\ Executing("submit", Len(submissions) + 2)
  /\ LET cids == EligibleModelCids(round)
     IN  Respond(OkReply({cids[i] : i \in DOMAIN cids}))
  /\ UNCHANGED ledgerVars

\* The adapter publishes the models of the clients it aggregated.
Participants ==
  {ModelCid(node) : node \in included[round] \cap SubmittedNodes}

BridgeStartAggregation ==
  /\ Executing("publish", 0)
  /\ StartAggregation(Aggregator, round)
  /\ Advance

BridgePublish ==
  /\ Executing("publish", 1)
  /\ PublishGlobalModel(Aggregator, round, GlobalCid(round), ReportCid(round), Participants)
  /\ Advance

BridgeArchive ==
  /\ Executing("publish", 2)
  /\ ArchiveRound(Deployer, round)
  /\ Advance

BridgeCancel ==
  /\ Executing("cancel", 0)
  /\ CancelRound(Deployer, round)
  /\ Advance

\* What is archived or cancelled is reported.
BridgeReply ==
  /\ Executing("publish", 3) \/ Executing("cancel", 1)
  /\ Respond(OkReply({}))
  /\ UNCHANGED ledgerVars

\* The reply to "close", after which the process ends.
BridgeExit ==
  /\ Executing("close", 0)
  /\ reply' = OkReply({}) /\ command' = "none" /\ bridge' = "down"
  /\ UNCHANGED <<progress, ledgerVars>>

\* A transaction reverts or cannot be sent, or a call of the ledger fails: the
\* rest of the command is skipped.  After its last transaction, the command is
\* done and reported as failed.
BridgeError ==
  /\ bridge = "up" /\ command \notin {"none", "close"}
  /\ Respond(ErrorReply)
  /\ UNCHANGED ledgerVars

\* The process ends between two steps, the last transaction and the reply
\* included.  A line already written stays readable.
BridgeDies ==
  /\ bridge = "up"
  /\ bridge' = "down" /\ command' = "none"
  /\ UNCHANGED <<progress, reply, ledgerVars>>

BridgeTransaction ==
  \/ BridgeCreate \/ BridgeRegister \/ BridgeSubmit \/ BridgeClose
  \/ BridgeStartAggregation \/ BridgePublish \/ BridgeArchive
  \/ BridgeCancel

BridgeAnswer == BridgeReplyEligible \/ BridgeReply \/ BridgeExit

BridgeStep == (BridgeTransaction \/ BridgeAnswer) /\ UNCHANGED <<adapterVars, storeVars>>

BridgeFailure == (BridgeError \/ BridgeDies) /\ UNCHANGED <<adapterVars, storeVars>>

-----------------------------------------------------------------------------
(***************************************************************************)
(* The adapter and the federated loop around it                            *)
(***************************************************************************)

\* request(): write the command and read lines until the reply.
Send(action) ==
  /\ command' = IF bridge = "up" THEN action ELSE "none"
  /\ progress' = 0 /\ reply' = NoReply
  /\ UNCHANGED bridge

Succeeded == reply.status = "ok"

\* The bridge says so, or its output ended without a reply.
RequestFailed ==
  \/ reply.status = "error"
  \/ reply.status = "none" /\ bridge = "down"

\* bridge.close(force=True) after an exception.
Kill == bridge' = "down" /\ command' = "none" /\ UNCHANGED <<progress, reply>>

\* An exception nobody catches: the run stops where it is.
Fail == pc' = "failed" /\ UNCHANGED <<round, remaining, submissions, eligible, included,
                                     base, reason, rows, evidence>>

\* Train a client, publish its artifacts through both peers, decide on the
\* policy and, if it passes, prove it.  The code takes the clients by number;
\* here any order will do.
PrepareClient(node, approved) ==
  /\ pc = "preparing" /\ node \in remaining
  /\ remaining' = remaining \ {node}
  /\ submissions' = Append(submissions, [node |-> node, approved |-> approved])
  /\ stored' = stored \cup {ArtifactCid(round, node, a) : a \in Artifact}
  /\ UNCHANGED <<pc, round, eligible, included, base, reason, rows, evidence,
                 faultRound, retrieved, bridgeVars>>

\* A peer does not answer, the policy raises for an undefined metric, or the
\* prover refuses what the policy approved.
PrepareFails ==
  /\ pc = "preparing" /\ remaining # {}
  /\ Fail
  /\ UNCHANGED <<storeVars, bridgeVars>>

RequestSubmission ==
  /\ pc = "preparing" /\ remaining = {}
  /\ pc' = "submitting"
  /\ Send("submit")
  /\ UNCHANGED <<round, remaining, submissions, eligible, included, base, reason, rows,
                 evidence, storeVars>>

SubmissionFailed ==
  /\ pc = "submitting" /\ RequestFailed
  /\ Fail /\ Kill
  /\ UNCHANGED storeVars

Cancel(why) ==
  /\ pc' = "cancelling" /\ reason' = why
  /\ Send("cancel")

\* An approved model is taken from both peers.  The client the experiment names
\* may have none approved: then the run fails.
InjectFailure(models) ==
  \/ pc' = "failed" /\ UNCHANGED stored
  \/ \E target \in models : pc' = "retrieving" /\ stored' = stored \ {target}

\* The ledger's eligible models must be those the policy approved.
SubmissionSucceeded ==
  /\ pc = "submitting" /\ Succeeded
  /\ eligible' = reply.eligible
  /\ IF reply.eligible # ApprovedModels
     THEN Cancel("ELIGIBILITY_MISMATCH") /\ UNCHANGED stored
     ELSE /\ UNCHANGED <<reason, bridgeVars>>
          /\ IF faultRound = round THEN InjectFailure(reply.eligible)
             ELSE pc' = "retrieving" /\ UNCHANGED stored
  /\ UNCHANGED <<round, remaining, submissions, included, base, rows, evidence,
                 faultRound, retrieved>>

\* Mutant: what the peers do not hold is taken from the local update.
LocalCopy(cid) == TRUE

Available(cid) == cid \in stored

RetrieveModel(cid) ==
  /\ pc = "retrieving" /\ cid \in eligible \ retrieved
  /\ Available(cid)
  /\ retrieved' = retrieved \cup {cid}
  /\ UNCHANGED <<adapterVars, faultRound, stored, bridgeVars>>

RetrievalFails ==
  /\ pc = "retrieving" /\ eligible \ retrieved # {}
  /\ Cancel("APPROVED_ARTIFACT_UNAVAILABLE")
  /\ UNCHANGED <<round, remaining, submissions, eligible, included, base, rows, evidence,
                 storeVars>>

\* Mutant: the aggregation starts before every approved model was read.
AggregateEarly ==
  /\ pc = "retrieving"
  /\ pc' = "aggregating"
  /\ UNCHANGED <<round, remaining, submissions, eligible, included, base, reason, rows,
                 evidence, storeVars, bridgeVars>>

RetrievalDone ==
  /\ pc = "retrieving" /\ eligible \subseteq retrieved
  /\ pc' = "aggregating"
  /\ UNCHANGED <<round, remaining, submissions, eligible, included, base, reason, rows,
                 evidence, storeVars, bridgeVars>>

\* Mutant: the flags set from approved_clients are not asked for.
ValidUpdates == SubmittedNodes

\* eligible_updates of methods B4 and B7: the flags are all set from
\* approved_clients.
EligibleUpdates == {node \in SubmittedNodes : ModelCid(node) \in eligible}

\* Mutant: the global parameters are replaced even if nothing was aggregated.
AggregateNothing ==
  /\ pc = "aggregating"
  /\ included' = [included EXCEPT ![round] = EligibleUpdates]
  /\ base' = round
  /\ pc' = "recording"
  /\ UNCHANGED <<round, remaining, submissions, eligible, reason, rows, evidence,
                 storeVars, bridgeVars>>

\* An empty set leaves the global parameters as they were.
Aggregate ==
  /\ pc = "aggregating"
  /\ included' = [included EXCEPT ![round] = EligibleUpdates]
  /\ base' = IF EligibleUpdates = {} THEN base ELSE round
  /\ pc' = "recording"
  /\ UNCHANGED <<round, remaining, submissions, eligible, reason, rows, evidence,
                 storeVars, bridgeVars>>

\* record_round: cancel, or publish the global model and its report to the
\* peers and ask the bridge to publish them on the ledger.
RecordRound ==
  /\ pc = "recording"
  /\ IF Participants # eligible
     THEN Cancel("AGGREGATION_SET_MISMATCH") /\ UNCHANGED stored
     ELSE IF Participants = {}
     THEN Cancel("NO_ELIGIBLE_MODELS") /\ UNCHANGED stored
     ELSE /\ pc' = "publishing" /\ UNCHANGED reason
          /\ stored' = stored \cup {GlobalCid(round), ReportCid(round)}
          /\ Send("publish")
  /\ UNCHANGED <<round, remaining, submissions, eligible, included, base, rows, evidence,
                 faultRound, retrieved>>

\* A peer does not answer while the global model is published: the round stays
\* SubmissionClosed.
RecordFails ==
  /\ pc = "recording" /\ Participants = eligible /\ eligible # {}
  /\ Fail
  /\ UNCHANGED <<storeVars, bridgeVars>>

\* Mutant: the evidence is written before the row of the round is appended.
WriteStaleEvidence(final) ==
  /\ rows' = Append(rows, [round |-> round, final |-> final, eligible |-> eligible])
  /\ evidence' = rows

\* self.rounds.append and _write_evidence.
WriteEvidence(final) ==
  /\ rows' = Append(rows, [round |-> round, final |-> final, eligible |-> eligible])
  /\ evidence' = rows'

\* Mutant: one round too many.
NextRoundTooFar ==
  /\ pc' = "preparing" /\ round' = round + 1 /\ remaining' = Node
  /\ submissions' = <<>> /\ eligible' = {}
  /\ UNCHANGED <<included, base, reason>>

\* The next iteration of the loop over rounds.
NextRound ==
  /\ IF round < LastRound
     THEN /\ pc' = "preparing" /\ round' = round + 1 /\ remaining' = Node
          /\ submissions' = <<>> /\ eligible' = {}
     ELSE pc' = "finalizing" /\ UNCHANGED <<round, remaining, submissions, eligible>>
  /\ UNCHANGED <<included, base, reason>>

\* Mutant: the loop goes on after a request that failed.
RequestFailureIgnored ==
  /\ pc \in {"cancelling", "publishing"} /\ RequestFailed
  /\ NextRound
  /\ UNCHANGED <<rows, evidence, storeVars, bridgeVars>>

\* Mutant: a request that failed is taken for a round without a publication.
FailureRecordedAsCancelled ==
  /\ pc \in {"cancelling", "publishing"} /\ RequestFailed
  /\ pc' = "failed" /\ WriteEvidence("Cancelled")
  /\ UNCHANGED <<round, remaining, submissions, eligible, included, base, reason,
                 storeVars, bridgeVars>>

\* Neither _cancel_round nor record_round catches the bridge's errors.
RequestToLedgerFailed ==
  /\ pc \in {"cancelling", "publishing"} /\ RequestFailed
  /\ Fail
  /\ UNCHANGED <<storeVars, bridgeVars>>

CancellationSucceeded ==
  /\ pc = "cancelling" /\ Succeeded
  /\ WriteEvidence("Cancelled")
  /\ IF reason = "NO_ELIGIBLE_MODELS"
     THEN NextRound /\ UNCHANGED bridgeVars
     ELSE /\ pc' = IF reason = "APPROVED_ARTIFACT_UNAVAILABLE" THEN "unavailable" ELSE "failed"
          /\ Kill
          /\ UNCHANGED <<round, remaining, submissions, eligible, included, base, reason>>
  /\ UNCHANGED storeVars

PublicationSucceeded ==
  /\ pc = "publishing" /\ Succeeded
  /\ WriteEvidence("Archived")
  /\ NextRound
  /\ UNCHANGED <<storeVars, bridgeVars>>

\* finalize(): the bridge is asked to end if it still runs.
Finalize ==
  /\ pc = "finalizing"
  /\ evidence' = rows
  /\ IF bridge = "up" THEN pc' = "closing" /\ Send("close")
                      ELSE pc' = "completed" /\ UNCHANGED bridgeVars
  /\ UNCHANGED <<round, remaining, submissions, eligible, included, base, reason, rows,
                 storeVars>>

\* Mutant: an output that ends is read again.
BridgeClosedUnnoticed == pc = "closing" /\ Succeeded

BridgeClosed == pc = "closing" /\ (Succeeded \/ RequestFailed)

\* A bridge that ended without the last reply fails the run that had completed.
CloseBridge ==
  /\ BridgeClosed
  /\ pc' = IF Succeeded THEN "completed" ELSE "failed"
  /\ UNCHANGED <<round, remaining, submissions, eligible, included, base, reason, rows,
                 evidence, storeVars, bridgeVars>>

AdapterStep ==
  /\ \/ \E node \in Node, approved \in BOOLEAN : PrepareClient(node, approved)
     \/ PrepareFails \/ RequestSubmission \/ SubmissionFailed \/ SubmissionSucceeded
     \/ \E cid \in eligible : RetrieveModel(cid)
     \/ RetrievalFails \/ RetrievalDone \/ Aggregate \/ RecordRound \/ RecordFails
     \/ RequestToLedgerFailed \/ CancellationSucceeded \/ PublicationSucceeded
     \/ Finalize \/ CloseBridge
  /\ UNCHANGED ledgerVars

\* The adapter's process is killed.  The bridge finishes its command.
AdapterCrashes ==
  /\ pc \notin Stopped
  /\ Fail
  /\ UNCHANGED <<storeVars, bridgeVars, ledgerVars>>

ProtocolNext == AdapterStep \/ AdapterCrashes \/ BridgeStep \/ BridgeFailure

\* The adapter's work comes to an end: requests to the peers have a timeout.
\* A bridge that neither died nor failed goes on with its command; nothing
\* else is asked of failures.  A bridge that hangs is excluded: request() has
\* no timeout and would block the adapter for ever.
Fairness == WF_vars(AdapterStep) /\ WF_vars(BridgeStep)

ProtocolSpec == ProtocolInit /\ [][ProtocolNext]_vars /\ Fairness

-----------------------------------------------------------------------------
(***************************************************************************)
(* Properties                                                              *)
(***************************************************************************)

\* What is published for a round is what the adapter aggregated, and that is
\* every model the ledger approved in the round, each read back from the peers
\* after its approval.  The ledger alone would accept any non-empty part of the
\* approved models (prepare_round, record_round, publishGlobalModel).
PublishedAsAggregated ==
  \A r \in DOMAIN globalModels :
    LET models == {ArtifactCid(r, node, "model") : node \in included[r]} IN
    /\ globalModels[r].participants = models
    /\ models = approvedModelCidsByRound[r]
    /\ models \subseteq retrieved

\* The evidence on disk tells the ledger's truth: row by row the final state and
\* the eligible models of the ledger, one row for every round before the one in
\* hand, and for every round once the run is completed, however the bridge and
\* the run ended (_write_evidence and its callers).
EvidenceTruthful ==
  /\ \A i \in DOMAIN evidence :
       /\ evidence[i].round = i
       /\ roundStates[i] = evidence[i].final
       /\ approvedModelCidsByRound[i] = evidence[i].eligible
  /\ Len(evidence) \in {round - 1, round}
  /\ pc \in {"unavailable", "completed"} => Len(evidence) = round
  /\ pc = "completed" => round = LastRound

\* A failure leaves at most the round in hand unresolved on the ledger, and no
\* round is begun while an earlier one is (prepare_round, record_round and the
\* loop over rounds in run_federated_method).
RoundsInOrder ==
  \A r \in Round :
    /\ r < round => roundStates[r] \in {"Archived", "Cancelled"}
    /\ r > round => roundStates[r] = "Uncreated"

\* Every round's training starts from the global model the ledger published
\* last, also when rounds between were cancelled (run_federated_method).
TrainsFromLastPublished ==
  pc = "preparing" =>
    /\ base \in {0} \cup DOMAIN globalModels
    /\ \A r \in DOMAIN globalModels : r <= base

\* The round whose approved model was made unavailable is never published, and
\* a run that stops because of an unavailable model stops with the round
\* cancelled and without a global model (EXECUTION_RUNBOOK.md lines 143-144).
FaultFailsClosed ==
  /\ faultRound \notin DOMAIN globalModels
  /\ pc = "unavailable" =>
       /\ reason = "APPROVED_ARTIFACT_UNAVAILABLE"
       /\ roundStates[round] = "Cancelled"
       /\ round \notin DOMAIN globalModels
       /\ eligible \ retrieved # {}

\* The defensive cancellations are never needed: the ledger's verdicts, the
\* policy's decisions and the aggregated clients agree (prepare_round and
\* record_round, eligible_updates).
ViewsNeverDiverge ==
  reason \notin {"ELIGIBILITY_MISMATCH", "AGGREGATION_SET_MISMATCH"}

\* Whatever fails, the run ends: no failure leaves the adapter waiting, and no
\* command it sends waits for a transaction that cannot be made (request and
\* its callers, submitRound, publishRound, cancelRound).
RunEnds == <>(pc \in Stopped)
=============================================================================
