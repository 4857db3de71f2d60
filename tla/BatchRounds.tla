----------------------------- MODULE BatchRounds -----------------------------
(***************************************************************************)
(* Method B2: rounds without policy or proof.  The adapter publishes the   *)
(* artifacts of a round through two Kubo peers when the round has been     *)
(* aggregated, and keeps what belongs on the ledger in memory.  Only when  *)
(* all rounds are over does finalize have a script deploy a ledger and     *)
(* replay the whole batch on it.  Nothing is retried: a call that fails    *)
(* raises, and the execution is lost.                                      *)
(*                                                                         *)
(* The ledger's actions are those of EthicalLedger, as the script calls    *)
(* them.  It lives in the process of the script, and nobody else calls it. *)
(***************************************************************************)
EXTENDS EthicalLedger

CONSTANTS
  NumNodes, LastRound,
  Kinds,        \* the artifacts of a submission, in the order they are published
  Submitter,    \* account that is granted VERIFIER
  Aggregator,   \* account that is granted AGGREGATOR
  Passthrough   \* FairAIInfrastructureVerifier: verifies anything

ASSUME BatchAssumption ==
  /\ NumNodes \in Nat \ {0} /\ Node = 1 .. NumNodes
  /\ LastRound \in Nat \ {0} /\ Round = 1 .. LastRound
  /\ Kinds \in Seq(Artifact) /\ Artifact = {Kinds[i] : i \in DOMAIN Kinds}
  /\ Artifact \cap {"global_model", "report"} = {}
  /\ {Submitter, Aggregator} \subseteq Account /\ Passthrough \in Verifier

\* The client that the artifacts of the aggregate are published under.
Global == NumNodes + 1
GlobalKinds == <<"global_model", "report">>

\* A payload is told by the round, the client and the kind it names, and has a CID.
ASSUME PayloadAssumption ==
  Round \X (1 .. Global) \X (Artifact \cup {"global_model", "report"}) \subseteq Cid

VARIABLES
  stage, reason,
  round,           \* round in hand, of the loop and then of the script
  included,        \* clients included in the aggregate of the round in hand
  client,          \* client whose artifacts are being published
  position, call,  \* which of them, and the call on it that comes next
  publisherPins,   \* CIDs the publisher holds
  consumerPins,    \* CIDs the consumer has retrieved and pinned
  batch,           \* self.rounds: included clients of the rounds recorded
  submitted        \* clients of the script's round whose models it has submitted

batchVars ==
  <<stage, reason, round, included, client, position, call, publisherPins, consumerPins, batch,
    submitted>>
vars == <<ledgerVars, batchVars>>

\* Mutant of CidOf: the placeholder of a proof does not name its round.
CidOfAnyRound(r, c, kind) ==
  IF kind = "proof" THEN <<1, c, kind>> ELSE <<r, c, kind>>

\* CIDs are hashes of payloads that name round, client and kind.
CidOf(r, c, kind) == <<r, c, kind>>

SubmissionOf(r, n) == [a \in Artifact |-> CidOf(r, n, a)]
Participants(r) == {CidOf(r, n, "model") : n \in batch[r]}

BatchInit ==
  /\ Init
  /\ stage = "training" /\ reason = "none" /\ round = 1 /\ included = {}
  /\ client = 1 /\ position = 1 /\ call = "add"
  /\ publisherPins = {} /\ consumerPins = {} /\ batch = <<>> /\ submitted = {}

-----------------------------------------------------------------------------
(* record_round, called after every round of the loop                      *)

\* The loop over the updates passes over the clients that are not included; the
\* artifacts of the aggregate come last.
Follows(next, c, clients) ==
  /\ next \in clients \cup {Global} /\ next > c
  /\ \A other \in clients \cup {Global} : other > c => next <= other

\* Clients whose update is valid are included, and that may be none.
Aggregate ==
  /\ stage = "training"
  /\ included' \in SUBSET Node
  /\ client' \in 1 .. Global /\ Follows(client', 0, included')
  /\ stage' = "publishing" /\ position' = 1 /\ call' = "add"
  /\ UNCHANGED <<ledgerVars, reason, round, publisherPins, consumerPins, batch, submitted>>

KindsOf(c) == IF c = Global THEN GlobalKinds ELSE Kinds

CidInHand == CidOf(round, client, KindsOf(client)[position])
Publishing(c) == stage = "publishing" /\ call = c /\ position \in DOMAIN KindsOf(client)

Add ==
  /\ Publishing("add")
  /\ publisherPins' = publisherPins \cup {CidInHand} /\ call' = "cat"
  /\ UNCHANGED <<ledgerVars, stage, reason, round, included, client, position, consumerPins, batch, submitted>>

\* The consumer reads the artifact from the publisher, and it is the one added.
Retrieve ==
  /\ Publishing("cat") /\ CidInHand \in publisherPins
  /\ call' = "pin"
  /\ UNCHANGED <<ledgerVars, stage, reason, round, included, client, position, publisherPins,
                 consumerPins, batch, submitted>>

\* The next artifact of the client, or the first of the next client.
Advance ==
  /\ call' = "add"
  /\ IF position < Len(KindsOf(client)) \/ client = Global
     THEN position' = position + 1 /\ UNCHANGED client
     ELSE position' = 1 /\ client' \in 1 .. Global /\ Follows(client', client, included)

\* Mutant of Pin: the artifacts of the aggregate are retrieved and not pinned.
PinOfClients ==
  /\ Publishing("pin")
  /\ consumerPins' = IF client = Global THEN consumerPins ELSE consumerPins \cup {CidInHand}
  /\ Advance
  /\ UNCHANGED <<ledgerVars, stage, reason, round, included, publisherPins, batch, submitted>>

Pin ==
  /\ Publishing("pin")
  /\ consumerPins' = consumerPins \cup {CidInHand}
  /\ Advance
  /\ UNCHANGED <<ledgerVars, stage, reason, round, included, publisherPins, batch, submitted>>

\* A peer does not answer, or answers with other content.
CallFails ==
  /\ stage = "publishing" /\ position \in DOMAIN KindsOf(client)
  /\ stage' = "raised" /\ reason' = "ipfs"
  /\ UNCHANGED <<ledgerVars, round, included, client, position, call, publisherPins,
                 consumerPins, batch, submitted>>

\* A round that includes nobody is recorded like any other.
RecordRound ==
  /\ stage = "publishing" /\ client = Global /\ position = Len(GlobalKinds) + 1
  /\ batch' = Append(batch, included)
  /\ IF round < LastRound THEN round' = round + 1 /\ stage' = "training"
     ELSE round' = 1 /\ stage' = "deploying"
  /\ UNCHANGED <<ledgerVars, reason, included, client, position, call, publisherPins, consumerPins,
                 submitted>>

-----------------------------------------------------------------------------
(* finalize and run_infrastructure_rounds.js                               *)

FinalizeUnchanged == UNCHANGED <<included, client, position, call, publisherPins, consumerPins, batch>>

\* The ledger is deployed with the passthrough verifier, roles and nodes.
Deploy ==
  /\ stage = "deploying" /\ stage' = "creating"
  /\ verifierContract' = Passthrough
  /\ roles' = [roles EXCEPT !["VERIFIER"] = @ \cup {Submitter},
                            !["AGGREGATOR"] = @ \cup {Aggregator}]
  /\ registeredNodes' = UNION {batch[r] : r \in DOMAIN batch}
  /\ UNCHANGED <<adminCount, roundStates, evidenceVars, reason, round, submitted>>
  /\ FinalizeUnchanged

ScriptCreate ==
  /\ stage = "creating" /\ stage' = "submitting" /\ submitted' = {}
  /\ CreateRound(Deployer, round)
  /\ UNCHANGED <<reason, round>> /\ FinalizeUnchanged

Unsubmitted == batch[round] \ submitted
NextNode(n) == n \in Unsubmitted /\ \A m \in Unsubmitted : n <= m

ScriptSubmit ==
  /\ stage = "submitting"
  /\ \E n \in Node :
       /\ NextNode(n) /\ submitted' = submitted \cup {n}
       /\ SubmitModel(Submitter, n, round, SubmissionOf(round, n), NoContext, TRUE)
  /\ UNCHANGED <<stage, reason, round>> /\ FinalizeUnchanged

\* The eligible models are compared before submissions are closed.
ScriptClose ==
  /\ stage = "submitting" /\ Unsubmitted = {} /\ stage' = "starting"
  /\ {EligibleModelCids(round)[i] : i \in DOMAIN EligibleModelCids(round)} = Participants(round)
  /\ CloseSubmissions(Deployer, round)
  /\ UNCHANGED <<reason, round, submitted>> /\ FinalizeUnchanged

ScriptStart ==
  /\ stage = "starting" /\ stage' = "posting"
  /\ StartAggregation(Aggregator, round)
  /\ UNCHANGED <<reason, round, submitted>> /\ FinalizeUnchanged

GlobalModelCid == CidOf(round, Global, "global_model")
ReportCid == CidOf(round, Global, "report")

ScriptPublish ==
  /\ stage = "posting" /\ stage' = "archiving"
  /\ PublishGlobalModel(Aggregator, round, GlobalModelCid, ReportCid, Participants(round))
  /\ UNCHANGED <<reason, round, submitted>> /\ FinalizeUnchanged

\* After the last round the script writes its result, finalize compares it with the
\* batch (rounds, final states, eligible models) and writes the evidence.
ScriptArchive ==
  /\ stage = "archiving"
  /\ ArchiveRound(Deployer, round)
  /\ IF round < LastRound THEN round' = round + 1 /\ stage' = "creating"
     ELSE stage' = "evidence" /\ UNCHANGED round
  /\ UNCHANGED <<reason, submitted>> /\ FinalizeUnchanged

\* What the ledger refuses, the script does not survive.
ScriptReverts ==
  /\ \/ /\ stage = "submitting"
        /\ \E n \in Node :
             NextNode(n) /\ ~SubmissionAccepted(Submitter, n, round, SubmissionOf(round, n), NoContext)
     \/ /\ stage = "posting"
        /\ ~PublicationAccepted(Aggregator, round, GlobalModelCid, ReportCid, Participants(round))
  /\ stage' = "raised" /\ reason' = "reverted"
  /\ UNCHANGED <<ledgerVars, round, submitted>> /\ FinalizeUnchanged

\* The process of the script dies: there is no result, and the ledger is gone.
ScriptDies ==
  /\ stage \in {"deploying", "creating", "submitting", "starting", "posting", "archiving"}
  /\ stage' = "raised" /\ reason' = "script"
  /\ UNCHANGED <<ledgerVars, round, submitted>> /\ FinalizeUnchanged

BatchNext ==
  \/ Aggregate \/ Add \/ Retrieve \/ Pin \/ CallFails \/ RecordRound
  \/ Deploy \/ ScriptCreate \/ ScriptSubmit \/ ScriptClose \/ ScriptStart \/ ScriptPublish
  \/ ScriptArchive \/ ScriptReverts \/ ScriptDies

BatchSpec == BatchInit /\ [][BatchNext]_vars

-----------------------------------------------------------------------------

\* The ledger hears of the first round only after the last, when all training is
\* done, and refuses nothing but the publication of a round that included nobody: in
\* particular every artifact of every round has an identifier of its own.  (The
\* loop skips such a round and goes on; the batch is lost over it at the end.)
OnlyEmptyRoundsRevert == reason = "reverted" => batch[round] = {}

\* If there is evidence, the ledger holds all rounds as archived, the models published
\* in each are those of the clients included in its aggregate, and every identifier
\* on the ledger can be retrieved from the consumer, whatever calls failed before.
EvidenceComplete ==
  stage = "evidence" =>
    /\ \A r \in Round :
         /\ roundStates[r] = "Archived"
         /\ globalModels[r].participants = {CidOf(r, n, "model") : n \in batch[r]}
         /\ {key[1] : key \in {k \in DOMAIN records : k[2] = r}} = batch[r]
    /\ usedCids \subseteq consumerPins
=============================================================================
