------------------------ MODULE RoundProtocol_proofs ------------------------
(***************************************************************************)
(* A run of methods B4 and B7, for any clients, rounds, accounts and       *)
(* faults, with a failure at any step: what is published is what was       *)
(* aggregated and read back, the evidence tells the ledger's truth, rounds *)
(* are settled in order, and a fault closes the round it hits.             *)
(*                                                                         *)
(* Every transaction of the bridge is a step of the ledger, so LedgerInv   *)
(* carries over.  The rest of the invariant relates three views of the     *)
(* round in hand, the adapter's variables, the command the bridge is       *)
(* executing and the ledger: a command and a reply are those of the place  *)
(* where the adapter waits (CommandInv), the ledger holds the part of the  *)
(* submissions that the bridge has got to (SubmittingInv), and what the    *)
(* adapter decided later stands on the ledger's verdicts (DecidedInv,      *)
(* RecordedInv).  A crashed adapter leaves the bridge to finish its        *)
(* command, so what publication relies on is tied to the command and not   *)
(* to the adapter's place.                                                 *)
(***************************************************************************)
EXTENDS RoundProtocol, Contracts_proofs

-----------------------------------------------------------------------------
(***************************************************************************)
(* The invariant                                                           *)
(***************************************************************************)

Approved == approvedModelCidsByRound[round]

AwaitedBy(place) ==
  CASE place = "submitting" -> "submit"
    [] place = "cancelling" -> "cancel"
    [] place = "publishing" -> "publish"
    [] place = "closing" -> "close"
    [] OTHER -> "none"

\* The bridge executes what the adapter waits for, or what it waited for when it
\* was killed, until it replies.
CommandInv ==
  command # "none" => reply = NoReply /\ (pc = "failed" \/ command = AwaitedBy(pc))

\* Models that the first transactions of a submission have had approved.
ApprovedBefore(p) ==
  {ModelCid(submissions[i].node) :
     i \in {j \in DOMAIN submissions : j < p /\ submissions[j].approved}}

\* The ledger holds the part of the submissions that the bridge has got to.
SubmittingInv ==
  /\ \A r \in Round : roundStates[r] = "Uncreated" => approvedModelCidsByRound[r] = {}
  /\ command = "submit" /\ progress > 0 => Approved = ApprovedBefore(progress)
  /\ pc = "submitting" /\ Succeeded =>
       /\ roundStates[round] = "SubmissionClosed"
       /\ reply.eligible = ApprovedModels /\ Approved = ApprovedModels

\* A command whose transactions are all done has settled the round as the reply
\* will say, whether or not the reply is ever written or read.
SettledInv ==
  /\ command = "submit" /\ progress = Len(submissions) + 2 =>
       roundStates[round] = "SubmissionClosed"
  /\ command = "publish" /\ progress = 3 => roundStates[round] = "Archived"
  /\ command = "cancel" /\ progress = 1 => roundStates[round] = "Cancelled"

\* Everything publication relies on.
Publishable ==
  /\ eligible = ApprovedModels /\ Approved = eligible
  /\ eligible \subseteq retrieved
  /\ included[round] = EligibleUpdates
  /\ faultRound # round

\* Once the ledger has answered, the adapter's view of eligibility is the
\* ledger's; a fault leaves an eligible model that cannot be read.
DecidedInv ==
  /\ pc \in {"retrieving", "aggregating", "recording"} =>
       /\ roundStates[round] = "SubmissionClosed"
       /\ eligible = ApprovedModels
  /\ pc \in {"retrieving", "aggregating", "recording", "cancelling", "publishing"} =>
       Approved = eligible
  /\ pc = "retrieving" /\ faultRound = round => ~(eligible \subseteq stored \cup retrieved)
  /\ pc = "aggregating" => eligible \subseteq retrieved /\ faultRound # round
  /\ pc \in {"recording", "publishing"} \/ command = "publish" => Publishable
  /\ pc = "publishing" => eligible # {}

\* What the last request of a round has made of it.
ResolvedInv ==
  /\ pc = "cancelling" =>
       \/ reason = "APPROVED_ARTIFACT_UNAVAILABLE" /\ ~(eligible \subseteq retrieved)
       \/ reason = "NO_ELIGIBLE_MODELS" /\ eligible = {}
  /\ pc = "cancelling" /\ Succeeded => roundStates[round] = "Cancelled"
  /\ pc = "publishing" /\ Succeeded => roundStates[round] = "Archived"
  /\ pc \in {"finalizing", "closing", "completed"} => round = LastRound
  /\ pc = "unavailable" =>
       /\ reason = "APPROVED_ARTIFACT_UNAVAILABLE" /\ ~(eligible \subseteq retrieved)
       /\ roundStates[round] = "Cancelled"

\* Nothing is read back before its round has been decided.
RetrievedInv ==
  \A cid \in retrieved : \E r \in Round, node \in Node :
    /\ cid = ArtifactCid(r, node, "model")
    /\ r <= round
    /\ pc \in {"preparing", "submitting"} => r < round

\* The rows and the file are the same, one row for every round that is over.
RecordedInv ==
  /\ evidence = rows
  /\ EvidenceTruthful
  /\ pc \notin {"finalizing", "closing", "failed"} \cup {"unavailable", "completed"} =>
       Len(rows) = round - 1
  /\ pc \in {"finalizing", "closing"} => Len(rows) = round

StartsFromLastPublished ==
  /\ base \in {0} \cup DOMAIN globalModels
  /\ \A r \in DOMAIN globalModels : r <= base

\* The global parameters are those of the last publication until a round's
\* aggregate replaces them, which is then published or ends the run.
BaseInv ==
  /\ \/ pc \in {"preparing", "submitting", "retrieving", "aggregating"}
     \/ pc \in {"recording", "cancelling"} /\ eligible = {}
     => StartsFromLastPublished
  /\ pc \in {"recording", "publishing"} /\ eligible # {} => base = round

ProtocolInv ==
  /\ LedgerInv /\ ProtocolTypeOK
  /\ CommandInv /\ SubmittingInv /\ DecidedInv /\ ResolvedInv /\ RetrievedInv
  /\ RoundsInOrder /\ RecordedInv /\ BaseInv
  /\ PublishedAsAggregated /\ faultRound \notin DOMAIN globalModels
  /\ ViewsNeverDiverge
-----------------------------------------------------------------------------
(***************************************************************************)
(* Initial states                                                          *)
(***************************************************************************)

\* deploy() leaves the ledger as its constructor did but for two roles and the
\* verifier; the deployer is its administrator.
LEMMA ProtocolInitInv == ProtocolInit => ProtocolInv
<1> SUFFICES ASSUME ProtocolInit PROVE ProtocolInv
  OBVIOUS
<1>1. 1 \in Round /\ LastRound \in Nat /\ Round \subseteq Nat
  BY RoundsAssumption
<1>2. LedgerInv
  <2>1. ACLTypeOK
    BY DeployerAssumption, AccountsAssumption DEF ProtocolInit, ACLTypeOK
  <2>2. Admins = {Deployer}
    BY RoleAssumption DEF ProtocolInit, Admins, ContractRole
  <2>3. AdminAccounting
    BY <2>2, FS_Singleton DEF ProtocolInit, AdminAccounting
  <2>4. DOMAIN records = {} /\ DOMAIN globalModels = {}
    BY DEF ProtocolInit
  <2>5. TypeOK
    BY <2>1, <2>4, CompositeAssumption DEF ProtocolInit, TypeOK, RoundState
  <2>6. EvidenceInv
    BY <2>4 DEF ProtocolInit, EvidenceInv, ApprovedFromRecords, KeysListed, ApprovedKeys,
         CidsUsedOnce, SubmittedCidsDistinct, PublishedCidsDistinct, RegistryExact
  <2>7. PublicationSound
    BY <2>4 DEF ProtocolInit, PublicationSound
  <2> QED
    BY <2>3, <2>5, <2>6, <2>7 DEF LedgerInv
<1>3. ProtocolTypeOK
  BY <1>1, <1>2, FaultAssumption
  DEF ProtocolInit, LedgerInv, ProtocolTypeOK, Control, Reason, Reply, NoReply
<1>4. CommandInv /\ SubmittingInv /\ DecidedInv /\ ResolvedInv /\ RetrievedInv
  BY DEF ProtocolInit, CommandInv, SubmittingInv, DecidedInv, ResolvedInv, RetrievedInv
<1>5. DOMAIN globalModels = {}
  BY DEF ProtocolInit
<1>6. RoundsInOrder /\ RecordedInv /\ BaseInv
  BY <1>1, <1>5, RoundsAssumption
  DEF ProtocolInit, RoundsInOrder, RecordedInv, EvidenceTruthful, BaseInv, StartsFromLastPublished
<1>7. PublishedAsAggregated /\ faultRound \notin DOMAIN globalModels /\ ViewsNeverDiverge
  BY <1>5 DEF ProtocolInit, PublishedAsAggregated, ViewsNeverDiverge
<1> QED
  BY <1>2, <1>3, <1>4, <1>6, <1>7 DEF ProtocolInv

-----------------------------------------------------------------------------
(***************************************************************************)
(* Steps of the adapter                                                    *)
(***************************************************************************)

\* What depends on the round, its submissions and the ledger alone.
LEMMA ViewsKept ==
  ASSUME UNCHANGED <<round, submissions, eligible, ledgerVars>>
  PROVE  /\ Approved' = Approved /\ ApprovedModels' = ApprovedModels
         /\ EligibleUpdates' = EligibleUpdates
         /\ \A p : ApprovedBefore(p)' = ApprovedBefore(p)
BY DEF ledgerVars, Approved, ApprovedModels, EligibleUpdates, ApprovedBefore, ModelCid,
       SubmittedNodes

\* A step that leaves the ledger alone keeps the ledger's invariant.
LEMMA LedgerKept ==
  ASSUME LedgerInv, UNCHANGED ledgerVars
  PROVE  LedgerInv' /\ TypeOK'
BY LedgerNextInv DEF LedgerInv

\* The models in hand are those of clients that submitted.
LEMMA SubmittedModels ==
  ASSUME ProtocolTypeOK
  PROVE  /\ round \in Round /\ SubmittedNodes \subseteq Node
         /\ \A i \in DOMAIN submissions : submissions[i] \in Prepared
         /\ \A node \in Node : ModelCid(node) \in Cid
         /\ \A cid \in ApprovedModels : \E node \in SubmittedNodes : cid = ModelCid(node)
<1>1. submissions \in Seq(Prepared) /\ round \in Round
  BY DEF ProtocolTypeOK
<1>2. \A i \in DOMAIN submissions : submissions[i] \in Prepared
  BY <1>1
<1>3. SubmittedNodes \subseteq Node
  BY <1>2 DEF Prepared, SubmittedNodes
<1>4. \A node \in Node : ModelCid(node) \in Cid
  BY <1>1, CidAssumption, ArtifactAssumption DEF ModelCid
<1> QED
  BY <1>1, <1>2, <1>3, <1>4 DEF ApprovedModels, SubmittedNodes

\* The run stops: what the bridge goes on doing was prepared before.
LEMMA FailInv ==
  ASSUME ProtocolInv, Fail, UNCHANGED <<storeVars, ledgerVars>>, Kill \/ UNCHANGED bridgeVars
  PROVE  ProtocolInv'
<1>1. /\ pc' = "failed"
      /\ UNCHANGED <<round, remaining, submissions, eligible, included, base, reason, rows,
                     evidence, faultRound, stored, retrieved, progress, reply>>
      /\ UNCHANGED <<roundStates, approvedModelCidsByRound, globalModels>>
      /\ command' \in {"none", command} /\ bridge' \in {"down", bridge}
  BY DEF Fail, storeVars, bridgeVars, Kill, ledgerVars
<1>2. LedgerInv' /\ TypeOK'
  BY LedgerKept DEF ProtocolInv
<1>3. ProtocolTypeOK'
  BY <1>1, <1>2 DEF ProtocolInv, ProtocolTypeOK, Control, Stopped
<1>4. /\ Approved' = Approved /\ ApprovedModels' = ApprovedModels
      /\ EligibleUpdates' = EligibleUpdates
      /\ \A p : ApprovedBefore(p)' = ApprovedBefore(p)
  BY <1>1, ViewsKept
<1>5. CommandInv' /\ SubmittingInv' /\ DecidedInv'
  BY <1>1, <1>4 DEF ProtocolInv, CommandInv, SubmittingInv, DecidedInv, Publishable
<1>6. ResolvedInv' /\ RetrievedInv'
  BY <1>1 DEF ProtocolInv, ResolvedInv, RetrievedInv
<1>7. RoundsInOrder' /\ RecordedInv' /\ BaseInv'
  BY <1>1 DEF ProtocolInv, RoundsInOrder, RecordedInv, EvidenceTruthful, BaseInv
<1>8. PublishedAsAggregated' /\ faultRound' \notin DOMAIN globalModels' /\ ViewsNeverDiverge'
  BY <1>1 DEF ProtocolInv, PublishedAsAggregated, ViewsNeverDiverge
<1> QED
  BY <1>2, <1>3, <1>5, <1>6, <1>7, <1>8 DEF ProtocolInv

\* Up to the request the bridge is idle and the ledger knows nothing of the round.
LEMMA PreparationInv ==
  ASSUME ProtocolInv, UNCHANGED ledgerVars,
         \/ \E node \in Node, approved \in BOOLEAN : PrepareClient(node, approved)
         \/ RequestSubmission
  PROVE  ProtocolInv'
<1>1. LedgerInv' /\ TypeOK'
  BY LedgerKept DEF ProtocolInv
<1>2. /\ pc = "preparing" /\ command = "none"
      /\ UNCHANGED <<round, eligible, included, base, reason, rows, evidence, faultRound,
                     retrieved, roundStates, approvedModelCidsByRound, globalModels>>
  <2>1. /\ pc = "preparing"
        /\ UNCHANGED <<round, eligible, included, base, reason, rows, evidence, faultRound,
                       retrieved>>
    BY DEF PrepareClient, RequestSubmission, storeVars
  <2> QED
    BY <2>1 DEF ProtocolInv, CommandInv, AwaitedBy, ledgerVars
<1>3. /\ pc' \in {"preparing", "submitting"}
      /\ command' # "none" => pc' = "submitting" /\ command' = "submit" /\ progress' = 0
      /\ command' # "none" \/ pc' = "submitting" => reply' = NoReply
  BY <1>2 DEF PrepareClient, RequestSubmission, Send, bridgeVars
<1>4. ProtocolTypeOK'
  <2>1. remaining' \subseteq Node /\ submissions' \in Seq(Prepared) /\ stored' \subseteq Cid
    <3>1. ASSUME NEW node \in Node, NEW approved \in BOOLEAN, PrepareClient(node, approved)
          PROVE  remaining' \subseteq Node /\ submissions' \in Seq(Prepared) /\ stored' \subseteq Cid
      <4>1. [node |-> node, approved |-> approved] \in Prepared
        BY DEF Prepared
      <4> QED
        BY <3>1, <4>1, CidAssumption DEF PrepareClient, ProtocolInv, ProtocolTypeOK
    <3>2. CASE RequestSubmission
      BY <3>2 DEF RequestSubmission, storeVars, ProtocolInv, ProtocolTypeOK
    <3> QED
      BY <3>1, <3>2
  <2>2. /\ bridge' \in {"up", "down"} /\ progress' \in Nat /\ reply' \in Reply
        /\ command' \in {"none", "submit", "cancel", "publish", "close"}
    <3>1. \/ UNCHANGED <<bridge, progress, reply, command>>
          \/ /\ UNCHANGED bridge /\ progress' = 0 /\ reply' = NoReply
             /\ command' \in {"none", "submit"}
      BY DEF PrepareClient, RequestSubmission, Send, bridgeVars
    <3>2. NoReply \in Reply
      BY DEF NoReply, Reply
    <3> QED
      BY <3>1, <3>2 DEF ProtocolInv, ProtocolTypeOK
  <2> QED
    BY <1>1, <1>2, <1>3, <2>1, <2>2 DEF ProtocolInv, ProtocolTypeOK, Control, Waiting
<1>5. CommandInv'
  BY <1>3 DEF CommandInv, AwaitedBy
<1>6. SubmittingInv' /\ DecidedInv' /\ ResolvedInv'
  BY <1>2, <1>3 DEF ProtocolInv, SubmittingInv, DecidedInv, ResolvedInv, Succeeded, NoReply
<1>7. RetrievedInv' /\ RoundsInOrder' /\ RecordedInv' /\ BaseInv'
  BY <1>2, <1>3
  DEF ProtocolInv, RetrievedInv, RoundsInOrder, RecordedInv, EvidenceTruthful, BaseInv,
      StartsFromLastPublished
<1>8. PublishedAsAggregated' /\ faultRound' \notin DOMAIN globalModels' /\ ViewsNeverDiverge'
  BY <1>2 DEF ProtocolInv, PublishedAsAggregated, ViewsNeverDiverge
<1> QED
  BY <1>1, <1>4, <1>5, <1>6, <1>7, <1>8 DEF ProtocolInv

\* The ledger's verdicts are the policy's decisions; an injected failure takes one
\* of the approved models, which nobody has read yet.
LEMMA SubmissionSucceededInv ==
  ASSUME ProtocolInv, UNCHANGED ledgerVars, SubmissionSucceeded
  PROVE  ProtocolInv'
<1>1. LedgerInv' /\ TypeOK'
  BY LedgerKept DEF ProtocolInv
<1>2. /\ pc = "submitting" /\ Succeeded
      /\ roundStates[round] = "SubmissionClosed"
      /\ reply.eligible = ApprovedModels /\ Approved = ApprovedModels
  BY DEF SubmissionSucceeded, ProtocolInv, SubmittingInv
<1>3. command = "none"
  BY <1>2 DEF Succeeded, NoReply, ProtocolInv, CommandInv
<1>4. /\ eligible' = ApprovedModels
      /\ UNCHANGED <<round, remaining, submissions, included, base, reason, rows, evidence,
                     faultRound, retrieved, bridge, command, progress, reply>>
      /\ UNCHANGED <<roundStates, approvedModelCidsByRound, globalModels>>
      /\ IF faultRound = round THEN InjectFailure(ApprovedModels)
         ELSE pc' = "retrieving" /\ UNCHANGED stored
  BY <1>2 DEF SubmissionSucceeded, bridgeVars, ledgerVars
<1>5. /\ pc' \in {"retrieving", "failed"}
      /\ stored' \subseteq stored
  BY <1>4 DEF InjectFailure
<1>6. ApprovedModels' = ApprovedModels /\ Approved' = Approved
  BY <1>4 DEF ApprovedModels, ModelCid, Approved
<1>7. \A cid \in ApprovedModels :
        cid \in Cid /\ \E node \in Node : cid = ArtifactCid(round, node, "model")
  BY SubmittedModels DEF ProtocolInv, ModelCid
<1>8. ProtocolTypeOK'
  <2>1. eligible' \subseteq Cid
    BY <1>4, <1>7
  <2> QED
    BY <1>1, <1>4, <1>5, <2>1 DEF ProtocolInv, ProtocolTypeOK, Control, Stopped
<1>9. ASSUME pc' = "retrieving", faultRound = round
      PROVE  ~(eligible' \subseteq stored' \cup retrieved')
  <2>1. PICK target \in ApprovedModels : stored' = stored \ {target}
    BY <1>4, <1>9 DEF InjectFailure
  <2>2. target \notin retrieved
    <3>1. \A cid \in retrieved : \E r \in Round, node \in Node :
            cid = ArtifactCid(r, node, "model") /\ r < round
      BY <1>2 DEF ProtocolInv, RetrievedInv
    <3>2. \A r \in Round : r < round => r # round
      BY RoundsAssumption
    <3> QED
      BY <1>7, <3>1, <3>2 DEF ArtifactCid
  <2> QED
    BY <1>4, <2>1, <2>2
<1>10. CommandInv'
  BY <1>3, <1>4 DEF CommandInv
<1>11. SubmittingInv' /\ DecidedInv' /\ ResolvedInv'
  BY <1>2, <1>3, <1>4, <1>5, <1>6, <1>9
  DEF ProtocolInv, SubmittingInv, DecidedInv, ResolvedInv
<1>12. RetrievedInv' /\ RoundsInOrder' /\ RecordedInv' /\ BaseInv'
  BY <1>2, <1>4, <1>5
  DEF ProtocolInv, RetrievedInv, RoundsInOrder, RecordedInv, EvidenceTruthful, BaseInv,
      StartsFromLastPublished
<1>13. PublishedAsAggregated' /\ faultRound' \notin DOMAIN globalModels' /\ ViewsNeverDiverge'
  BY <1>4 DEF ProtocolInv, PublishedAsAggregated, ViewsNeverDiverge
<1> QED
  BY <1>1, <1>8, <1>10, <1>11, <1>12, <1>13 DEF ProtocolInv

\* A model once read stays read; a model that is missing keeps the round from
\* being aggregated.
LEMMA RetrievalInv ==
  ASSUME ProtocolInv, UNCHANGED ledgerVars,
         \/ \E cid \in eligible : RetrieveModel(cid)
         \/ RetrievalFails \/ RetrievalDone
  PROVE  ProtocolInv'
<1>1. LedgerInv' /\ TypeOK'
  BY LedgerKept DEF ProtocolInv
<1>2. /\ pc = "retrieving"
      /\ UNCHANGED <<round, remaining, submissions, eligible, included, base, rows, evidence,
                     faultRound, stored, bridge>>
      /\ UNCHANGED <<roundStates, approvedModelCidsByRound, globalModels>>
  BY DEF RetrieveModel, RetrievalFails, RetrievalDone, Cancel, Send, adapterVars, storeVars,
         bridgeVars, ledgerVars
<1>3. command = "none" /\ eligible = ApprovedModels /\ Approved = eligible
  BY <1>2 DEF ProtocolInv, CommandInv, AwaitedBy, DecidedInv
<1>4. /\ Approved' = Approved /\ ApprovedModels' = ApprovedModels
      /\ EligibleUpdates' = EligibleUpdates
      /\ \A p : ApprovedBefore(p)' = ApprovedBefore(p)
  BY <1>2, ViewsKept
\* The three ways a step can go on.
<1>5. \/ /\ pc' = "retrieving" /\ retrieved \subseteq retrieved'
         /\ retrieved' \subseteq retrieved \cup (eligible \cap stored)
         /\ UNCHANGED <<reason, command, progress, reply>>
      \/ /\ pc' = "cancelling" /\ reason' = "APPROVED_ARTIFACT_UNAVAILABLE"
         /\ ~(eligible \subseteq retrieved) /\ UNCHANGED retrieved
         /\ command' \in {"none", "cancel"} /\ progress' = 0 /\ reply' = NoReply
      \/ /\ pc' = "aggregating" /\ eligible \subseteq retrieved
         /\ UNCHANGED <<retrieved, reason, command, progress, reply>>
  <2>1. ASSUME NEW cid \in eligible, RetrieveModel(cid)
        PROVE  /\ pc' = "retrieving" /\ retrieved \subseteq retrieved'
               /\ retrieved' \subseteq retrieved \cup (eligible \cap stored)
               /\ UNCHANGED <<reason, command, progress, reply>>
    BY <2>1, <1>2 DEF RetrieveModel, Available, adapterVars, bridgeVars
  <2>2. CASE RetrievalFails
    BY <2>2 DEF RetrievalFails, Cancel, Send, storeVars
  <2>3. CASE RetrievalDone
    BY <2>3 DEF RetrievalDone, storeVars, bridgeVars
  <2> QED
    BY <2>1, <2>2, <2>3
<1>6. ProtocolTypeOK'
  <2>1. NoReply \in Reply
    BY DEF NoReply, Reply
  <2> QED
    BY <1>1, <1>2, <1>5, <2>1 DEF ProtocolInv, ProtocolTypeOK, Control, Waiting, Reason
<1>7. CommandInv'
  BY <1>3, <1>5 DEF CommandInv, AwaitedBy
<1>8. SubmittingInv' /\ DecidedInv' /\ ResolvedInv'
  BY <1>2, <1>3, <1>4, <1>5
  DEF ProtocolInv, SubmittingInv, DecidedInv, ResolvedInv, Succeeded, NoReply
<1>9. RetrievedInv'
  <2>1. round \in Round /\ round <= round
    BY RoundsAssumption DEF ProtocolInv, ProtocolTypeOK
  <2>2. \A cid \in eligible : \E node \in Node : cid = ArtifactCid(round, node, "model")
    BY <1>3, SubmittedModels DEF ProtocolInv, ModelCid
  <2> QED
    BY <1>2, <1>5, <2>1, <2>2 DEF ProtocolInv, RetrievedInv
<1>10. RoundsInOrder' /\ RecordedInv' /\ BaseInv'
  BY <1>2, <1>5
  DEF ProtocolInv, RoundsInOrder, RecordedInv, EvidenceTruthful, BaseInv, StartsFromLastPublished
<1>11. PublishedAsAggregated' /\ faultRound' \notin DOMAIN globalModels'
  BY <1>2, <1>5 DEF ProtocolInv, PublishedAsAggregated
<1>12. ViewsNeverDiverge'
  BY <1>5 DEF ProtocolInv, ViewsNeverDiverge
<1> QED
  BY <1>1, <1>6, <1>7, <1>8, <1>9, <1>10, <1>11, <1>12 DEF ProtocolInv

\* The clients aggregated are those whose models are eligible.
LEMMA AggregateInv ==
  ASSUME ProtocolInv, UNCHANGED ledgerVars, Aggregate
  PROVE  ProtocolInv'
<1>1. LedgerInv' /\ TypeOK'
  BY LedgerKept DEF ProtocolInv
<1>2. /\ pc = "aggregating" /\ pc' = "recording"
      /\ included' = [included EXCEPT ![round] = EligibleUpdates]
      /\ base' = IF EligibleUpdates = {} THEN base ELSE round
      /\ UNCHANGED <<round, remaining, submissions, eligible, reason, rows, evidence,
                     faultRound, stored, retrieved, bridge, command, progress, reply>>
      /\ UNCHANGED <<roundStates, approvedModelCidsByRound, globalModels>>
  BY DEF Aggregate, storeVars, bridgeVars, ledgerVars
<1>3. /\ command = "none" /\ roundStates[round] = "SubmissionClosed"
      /\ eligible = ApprovedModels /\ Approved = eligible
      /\ eligible \subseteq retrieved /\ faultRound # round
  BY <1>2 DEF ProtocolInv, CommandInv, AwaitedBy, DecidedInv
<1>4. /\ Approved' = Approved /\ ApprovedModels' = ApprovedModels
      /\ EligibleUpdates' = EligibleUpdates
  BY <1>2, ViewsKept
<1>5. /\ round \in Round /\ EligibleUpdates \subseteq Node
      /\ EligibleUpdates = {} <=> eligible = {}
  BY <1>3, SubmittedModels DEF ProtocolInv, EligibleUpdates
<1>6. /\ included \in [Round -> SUBSET Node]
      /\ included' \in [Round -> SUBSET Node]
      /\ included'[round] = EligibleUpdates
      /\ \A r \in Round \ {round} : included'[r] = included[r]
  BY <1>2, <1>5 DEF ProtocolInv, ProtocolTypeOK
<1>7. ProtocolTypeOK'
  <2>1. base' \in 0 .. LastRound
    BY <1>2, <1>5, RoundsAssumption DEF ProtocolInv, ProtocolTypeOK
  <2> QED
    BY <1>1, <1>2, <1>6, <2>1 DEF ProtocolInv, ProtocolTypeOK, Control
<1>8. CommandInv'
  BY <1>2, <1>3 DEF CommandInv
<1>9. SubmittingInv' /\ DecidedInv' /\ ResolvedInv'
  BY <1>2, <1>3, <1>4, <1>6
  DEF ProtocolInv, SubmittingInv, DecidedInv, ResolvedInv, Publishable
<1>10. RetrievedInv' /\ RoundsInOrder' /\ RecordedInv'
  BY <1>2 DEF ProtocolInv, RetrievedInv, RoundsInOrder, RecordedInv, EvidenceTruthful
<1>11. BaseInv'
  BY <1>2, <1>5 DEF ProtocolInv, BaseInv, StartsFromLastPublished
<1>12. PublishedAsAggregated'
  <2>1. round \notin DOMAIN globalModels /\ DOMAIN globalModels \subseteq Round
    BY <1>3, <1>5 DEF ProtocolInv, LedgerInv, TypeOK, PublicationSound
  <2> QED
    BY <1>2, <1>6, <2>1 DEF ProtocolInv, PublishedAsAggregated
<1>13. faultRound' \notin DOMAIN globalModels' /\ ViewsNeverDiverge'
  BY <1>2 DEF ProtocolInv, ViewsNeverDiverge
<1> QED
  BY <1>1, <1>7, <1>8, <1>9, <1>10, <1>11, <1>12, <1>13 DEF ProtocolInv

\* What was aggregated is what is eligible, so the round is published unless
\* nothing was eligible.
LEMMA RecordRoundInv ==
  ASSUME ProtocolInv, UNCHANGED ledgerVars, RecordRound
  PROVE  ProtocolInv'
<1>1. LedgerInv' /\ TypeOK'
  BY LedgerKept DEF ProtocolInv
<1>2. /\ pc = "recording"
      /\ UNCHANGED <<round, remaining, submissions, eligible, included, base, rows, evidence,
                     faultRound, retrieved>>
      /\ UNCHANGED <<roundStates, approvedModelCidsByRound, globalModels>>
  BY DEF RecordRound, ledgerVars
<1>3. command = "none" /\ Publishable
  BY <1>2 DEF ProtocolInv, CommandInv, AwaitedBy, DecidedInv
<1>4. /\ Approved' = Approved /\ ApprovedModels' = ApprovedModels
      /\ EligibleUpdates' = EligibleUpdates
      /\ \A p : ApprovedBefore(p)' = ApprovedBefore(p)
  BY <1>2, ViewsKept
<1>5. Participants = eligible
  BY <1>3, SubmittedModels DEF ProtocolInv, Publishable, Participants, EligibleUpdates
<1>6. /\ \/ pc' = "cancelling" /\ reason' = "NO_ELIGIBLE_MODELS" /\ eligible = {}
            /\ command' \in {"none", "cancel"} /\ UNCHANGED stored
         \/ /\ pc' = "publishing" /\ eligible # {} /\ UNCHANGED reason
            /\ command' \in {"none", "publish"}
            /\ stored' = stored \cup {GlobalCid(round), ReportCid(round)}
      /\ progress' = 0 /\ reply' = NoReply /\ UNCHANGED bridge
  BY <1>5 DEF RecordRound, Cancel, Send
<1>7. ProtocolTypeOK'
  <2>1. NoReply \in Reply
    BY DEF NoReply, Reply
  <2>2. stored' \subseteq Cid
    BY <1>6, CidAssumption, SubmittedModels DEF ProtocolInv, ProtocolTypeOK
  <2> QED
    BY <1>1, <1>2, <1>6, <2>1, <2>2 DEF ProtocolInv, ProtocolTypeOK, Control, Waiting, Reason
<1>8. CommandInv'
  BY <1>6 DEF CommandInv, AwaitedBy
<1>9. SubmittingInv' /\ DecidedInv' /\ ResolvedInv'
  BY <1>2, <1>3, <1>4, <1>6
  DEF ProtocolInv, SubmittingInv, DecidedInv, ResolvedInv, Publishable, Succeeded, NoReply
<1>10. RetrievedInv' /\ RoundsInOrder' /\ RecordedInv' /\ BaseInv'
  BY <1>2, <1>6
  DEF ProtocolInv, RetrievedInv, RoundsInOrder, RecordedInv, EvidenceTruthful, BaseInv,
      StartsFromLastPublished
<1>11. PublishedAsAggregated' /\ faultRound' \notin DOMAIN globalModels' /\ ViewsNeverDiverge'
  BY <1>2, <1>6 DEF ProtocolInv, PublishedAsAggregated, ViewsNeverDiverge
<1> QED
  BY <1>1, <1>7, <1>8, <1>9, <1>10, <1>11 DEF ProtocolInv

\* A round is over: its row joins the evidence with the state and the models the
\* ledger has for it, and the loop goes on from the model published last.
LEMMA RoundOverInv ==
  ASSUME ProtocolInv, UNCHANGED ledgerVars, CancellationSucceeded \/ PublicationSucceeded
  PROVE  ProtocolInv'
<1> DEFINE final == IF pc = "cancelling" THEN "Cancelled" ELSE "Archived"
           row == [round |-> round, final |-> final, eligible |-> eligible]
<1>1. LedgerInv' /\ TypeOK'
  BY LedgerKept DEF ProtocolInv
<1>2. /\ pc \in {"cancelling", "publishing"} /\ Succeeded
      /\ rows' = Append(rows, row) /\ evidence' = rows'
      /\ UNCHANGED <<included, base, reason, faultRound, stored, retrieved, progress, reply>>
      /\ UNCHANGED <<roundStates, approvedModelCidsByRound, globalModels>>
  BY DEF CancellationSucceeded, PublicationSucceeded, WriteEvidence, NextRound, Kill,
         storeVars, bridgeVars, ledgerVars
<1>3. /\ command = "none" /\ Approved = eligible /\ Len(rows) = round - 1
      /\ roundStates[round] = final
      /\ pc = "publishing" => base = round
  BY <1>2
  DEF ProtocolInv, CommandInv, Succeeded, NoReply, DecidedInv, ResolvedInv, RecordedInv, BaseInv
\* The loop goes on, ends, or is left because of a missing model.
<1>4. \/ /\ pc' = "preparing" /\ round < LastRound /\ round' = round + 1
         /\ remaining' = Node /\ submissions' = <<>> /\ eligible' = {}
         /\ UNCHANGED <<bridge, command>>
         /\ pc = "publishing" \/ eligible = {}
      \/ /\ pc' = "finalizing" /\ ~(round < LastRound)
         /\ UNCHANGED <<round, remaining, submissions, eligible, bridge, command>>
      \/ /\ pc' = "unavailable" /\ pc = "cancelling"
         /\ reason = "APPROVED_ARTIFACT_UNAVAILABLE" /\ ~(eligible \subseteq retrieved)
         /\ bridge' = "down" /\ command' = "none"
         /\ UNCHANGED <<round, remaining, submissions, eligible>>
  <2>1. CASE CancellationSucceeded
    <3>1. \/ reason = "APPROVED_ARTIFACT_UNAVAILABLE" /\ ~(eligible \subseteq retrieved)
          \/ reason = "NO_ELIGIBLE_MODELS" /\ eligible = {}
      BY <2>1 DEF CancellationSucceeded, ProtocolInv, ResolvedInv
    <3> QED
      BY <2>1, <3>1 DEF CancellationSucceeded, NextRound, Kill, bridgeVars
  <2>2. CASE PublicationSucceeded
    BY <2>2 DEF PublicationSucceeded, NextRound, bridgeVars
  <2> QED
    BY <2>1, <2>2
<1>5. /\ round \in Round /\ round \in Nat /\ LastRound \in Nat /\ Round = 1 .. LastRound
      /\ round' \in Round /\ round <= round'
  BY <1>4, RoundsAssumption DEF ProtocolInv, ProtocolTypeOK
<1>6. /\ rows \in Seq(Row) /\ rows' \in Seq(Row) /\ Len(rows') = round
      /\ DOMAIN rows' = 1 .. round /\ DOMAIN rows = 1 .. round - 1
      /\ rows'[round] = row /\ \A i \in 1 .. round - 1 : rows'[i] = rows[i]
  <2>1. row \in Row /\ rows \in Seq(Row)
    BY <1>5 DEF Row, ProtocolInv, ProtocolTypeOK
  <2> HIDE DEF row
  <2> QED
    BY <1>2, <1>3, <1>5, <2>1
<1>7. ProtocolTypeOK'
  <2>1. remaining' \subseteq Node /\ eligible' \subseteq Cid
    BY <1>4 DEF ProtocolInv, ProtocolTypeOK
  <2>2. <<>> \in Seq(Prepared)
    OBVIOUS
  <2>3. submissions' \in Seq(Prepared)
    BY <1>4, <2>2 DEF ProtocolInv, ProtocolTypeOK
  <2>4. /\ pc' \in Control /\ bridge' \in {"up", "down"}
        /\ command' \in {"none", "submit", "cancel", "publish", "close"}
    BY <1>3, <1>4 DEF ProtocolInv, ProtocolTypeOK, Control, Stopped
  <2> QED
    BY <1>1, <1>2, <1>5, <1>6, <2>1, <2>3, <2>4 DEF ProtocolInv, ProtocolTypeOK
<1>8. CommandInv' /\ SubmittingInv' /\ DecidedInv' /\ ResolvedInv'
  BY <1>2, <1>3, <1>4, <1>5
  DEF ProtocolInv, CommandInv, SubmittingInv, DecidedInv, ResolvedInv
<1>9. RetrievedInv'
  BY <1>2, <1>4, <1>5 DEF ProtocolInv, RetrievedInv
<1>10. RoundsInOrder'
  BY <1>2, <1>3, <1>4, <1>5 DEF ProtocolInv, RoundsInOrder
<1>11. RecordedInv'
  <2>1. \A i \in DOMAIN evidence' :
          /\ evidence'[i].round = i
          /\ roundStates'[i] = evidence'[i].final
          /\ approvedModelCidsByRound'[i] = evidence'[i].eligible
    BY <1>2, <1>3, <1>5, <1>6 DEF ProtocolInv, RecordedInv, EvidenceTruthful, Approved
  <2> QED
    BY <1>2, <1>4, <1>5, <1>6, <2>1 DEF RecordedInv, EvidenceTruthful
<1>12. BaseInv'
  <2>1. ASSUME pc' = "preparing" PROVE StartsFromLastPublished
    <3>1. CASE pc = "publishing"
      <4>1. /\ round \in DOMAIN globalModels
            /\ \A r \in DOMAIN globalModels : r \in Round /\ ~(r > round)
        BY <1>3, <1>5, <3>1
        DEF ProtocolInv, LedgerInv, TypeOK, PublicationSound, RoundsInOrder
      <4> QED
        BY <1>3, <1>5, <3>1, <4>1 DEF StartsFromLastPublished
    <3>2. CASE pc = "cancelling"
      BY <1>4, <2>1, <3>2 DEF ProtocolInv, BaseInv
    <3> QED
      BY <1>2, <3>1, <3>2
  <2> QED
    BY <1>2, <1>4, <2>1 DEF BaseInv, StartsFromLastPublished
<1>13. PublishedAsAggregated' /\ faultRound' \notin DOMAIN globalModels' /\ ViewsNeverDiverge'
  BY <1>2 DEF ProtocolInv, PublishedAsAggregated, ViewsNeverDiverge
<1> QED
  BY <1>1, <1>7, <1>8, <1>9, <1>10, <1>11, <1>12, <1>13 DEF ProtocolInv

\* The end of the run writes the evidence again and closes the bridge.
LEMMA RunOverInv ==
  ASSUME ProtocolInv, UNCHANGED ledgerVars, Finalize \/ CloseBridge
  PROVE  ProtocolInv'
<1>1. LedgerInv' /\ TypeOK'
  BY LedgerKept DEF ProtocolInv
<1>2. /\ pc \in {"finalizing", "closing"}
      /\ UNCHANGED <<round, remaining, submissions, eligible, included, base, reason, rows,
                     faultRound, stored, retrieved, bridge>>
      /\ UNCHANGED <<roundStates, approvedModelCidsByRound, globalModels>>
  <2>1. CASE Finalize
    BY <2>1 DEF Finalize, Send, storeVars, bridgeVars, ledgerVars
  <2>2. CASE CloseBridge
    BY <2>2 DEF CloseBridge, BridgeClosed, storeVars, bridgeVars, ledgerVars
  <2> QED
    BY <2>1, <2>2
<1>3. /\ Approved' = Approved /\ ApprovedModels' = ApprovedModels
      /\ EligibleUpdates' = EligibleUpdates
      /\ \A p : ApprovedBefore(p)' = ApprovedBefore(p)
  BY <1>2, ViewsKept
<1>4. round = LastRound /\ Len(rows) = round
  BY <1>2 DEF ProtocolInv, ResolvedInv, RecordedInv
<1>5. /\ evidence' = rows' /\ evidence = rows
      /\ \/ pc' = "closing" /\ command' \in {"none", "close"} /\ progress' = 0 /\ reply' = NoReply
         \/ pc' \in {"completed", "failed"} /\ UNCHANGED <<command, progress, reply>>
      /\ pc' = "completed" => command = "none"
  BY <1>2
  DEF Finalize, CloseBridge, Send, bridgeVars, ProtocolInv, RecordedInv, CommandInv, AwaitedBy,
      Succeeded, NoReply
<1>6. ProtocolTypeOK'
  <2>1. NoReply \in Reply
    BY DEF NoReply, Reply
  <2>2. evidence' \in Seq(Row) /\ rows' \in Seq(Row)
    BY <1>2, <1>5 DEF ProtocolInv, ProtocolTypeOK
  <2> QED
    BY <1>1, <1>2, <1>5, <2>1, <2>2
    DEF ProtocolInv, ProtocolTypeOK, Control, Waiting, Stopped
<1>7. CommandInv'
  BY <1>5 DEF ProtocolInv, CommandInv, AwaitedBy
<1>8. SubmittingInv' /\ DecidedInv' /\ ResolvedInv'
  BY <1>2, <1>3, <1>4, <1>5
  DEF ProtocolInv, SubmittingInv, DecidedInv, Publishable, ResolvedInv
<1>9. RetrievedInv' /\ RoundsInOrder' /\ RecordedInv' /\ BaseInv'
  BY <1>2, <1>4, <1>5
  DEF ProtocolInv, RetrievedInv, RoundsInOrder, RecordedInv, EvidenceTruthful, BaseInv
<1>10. PublishedAsAggregated' /\ faultRound' \notin DOMAIN globalModels' /\ ViewsNeverDiverge'
  BY <1>2 DEF ProtocolInv, PublishedAsAggregated, ViewsNeverDiverge
<1> QED
  BY <1>1, <1>6, <1>7, <1>8, <1>9, <1>10 DEF ProtocolInv

-----------------------------------------------------------------------------
(***************************************************************************)
(* Steps of the bridge                                                     *)
(***************************************************************************)

\* Each transaction is a call the ledger offers, by an account and with values
\* the ledger knows; so it keeps what holds of the ledger whoever calls it.
LEMMA TransactionIsLedgerStep ==
  ASSUME ProtocolInv, BridgeTransaction
  PROVE  [Next]_ledgerVars
<1>1. /\ round \in Round /\ Deployer \in Account /\ Submitter \in Account
      /\ Aggregator \in Account
  BY DeployerAssumption, AccountsAssumption, SubmittedModels DEF ProtocolInv
<1>2. CASE BridgeCreate
  BY <1>1, <1>2 DEF BridgeCreate, Next, LifecycleAction
<1>3. CASE BridgeRegister
  <2>1. submissions[progress].node \in Node
    BY <1>3, SubmittedModels DEF BridgeRegister, Prepared, ProtocolInv
  <2> QED
    BY <1>1, <1>3, <2>1 DEF BridgeRegister, Next, AdminAction
<1>4. CASE BridgeSubmit
  <2> DEFINE s == submissions[progress]
             cids == [a \in Artifact |-> ArtifactCid(round, s.node, a)]
  <2>1. SubmitModel(Submitter, s.node, round, cids, <<s.node, round>>, s.approved)
    BY <1>4 DEF BridgeSubmit
  <2>2. s.node \in Node /\ s.approved \in BOOLEAN
    BY <1>4, SubmittedModels DEF BridgeSubmit, Prepared, ProtocolInv
  <2>3. cids \in [Artifact -> CidArgument]
    BY <1>1, <2>2, CidAssumption DEF CidArgument
  <2>4. <<s.node, round>> \in {NoContext} \cup Key
    BY <1>1, <2>2 DEF Key
  <2> HIDE DEF s, cids
  <2>5. Submission(Submitter, round)
    BY <2>1, <2>2, <2>3, <2>4 DEF Submission
  <2> QED
    BY <1>1, <2>5 DEF Next
<1>5. CASE BridgeClose
  BY <1>1, <1>5 DEF BridgeClose, Next, LifecycleAction
<1>6. CASE BridgeStartAggregation
  BY <1>1, <1>6 DEF BridgeStartAggregation, Next, LifecycleAction
<1>7. CASE BridgePublish
  <2>1. GlobalCid(round) \in CidArgument /\ ReportCid(round) \in CidArgument
    BY <1>1, CidAssumption DEF CidArgument
  <2>2. Participants \in SUBSET Cid
    BY SubmittedModels DEF ProtocolInv, Participants
  <2>3. Publication(Aggregator, round)
    BY <1>7, <2>1, <2>2 DEF BridgePublish, Publication
  <2> QED
    BY <1>1, <2>3 DEF Next
<1>8. CASE BridgeArchive
  BY <1>1, <1>8 DEF BridgeArchive, Next, LifecycleAction
<1>9. CASE BridgeCancel
  BY <1>1, <1>9 DEF BridgeCancel, Next, LifecycleAction
<1> QED
  BY <1>2, <1>3, <1>4, <1>5, <1>6, <1>7, <1>8, <1>9 DEF BridgeTransaction

\* All that the bridge does besides: it answers, fails or dies.
LEMMA OtherwiseLedgerKept ==
  ASSUME BridgeAnswer \/ BridgeFailure
  PROVE  UNCHANGED ledgerVars
BY DEF BridgeAnswer, BridgeReplyEligible, BridgeReply, BridgeExit, BridgeFailure, BridgeError,
       BridgeDies

\* What a transaction or a failure of the bridge may do to the rounds: nothing is
\* done to any but the round in hand, nor to that one once it is over.
RoundsEffect ==
  /\ \A r \in Round \ {round} :
       /\ roundStates'[r] = roundStates[r]
       /\ approvedModelCidsByRound'[r] = approvedModelCidsByRound[r]
  /\ \/ UNCHANGED <<roundStates, approvedModelCidsByRound>>
     \/ /\ command # "none"
        /\ roundStates[round] \notin {"Archived", "Cancelled"}
        /\ roundStates'[round] # "Uncreated"
  /\ \/ Approved' = Approved
     \/ command = "submit" /\ round \notin DOMAIN globalModels

\* What it may do to the command: nothing but end it, with an answer that is
\* true of the ledger.
CommandEffect ==
  /\ command' \in {"none", command}
  /\ bridge' \in {"down", bridge} /\ progress' \in Nat
  /\ command' = "submit" /\ progress' > 0 => Approved' = ApprovedBefore(progress')
  /\ \/ UNCHANGED reply
     \/ /\ command' = "none" /\ command # "none"
        /\ \/ reply' = ErrorReply
           \/ /\ command = "submit" /\ reply' = OkReply(ApprovedModels)
              /\ roundStates'[round] = "SubmissionClosed" /\ Approved' = ApprovedModels
           \/ /\ reply' = OkReply({})
              /\ \/ command = "cancel" /\ roundStates'[round] = "Cancelled"
                 \/ command = "publish" /\ roundStates'[round] = "Archived"
                 \/ command = "close"

\* What it may do to the published models: add the round in hand, as aggregated.
PublicationEffect ==
  \/ UNCHANGED globalModels
  \/ /\ command = "publish" /\ UNCHANGED approvedModelCidsByRound
     /\ DOMAIN globalModels' = DOMAIN globalModels \cup {round}
     /\ globalModels'[round].participants = Participants
     /\ \A r \in DOMAIN globalModels \ {round} : globalModels'[r] = globalModels[r]

LEMMA BridgeEffectInv ==
  ASSUME ProtocolInv, UNCHANGED <<adapterVars, storeVars>>, LedgerInv',
         RoundsEffect, CommandEffect, PublicationEffect
  PROVE  ProtocolInv'
<1>1. /\ UNCHANGED <<pc, round, remaining, submissions, eligible, included, base, reason,
                     rows, evidence>>
      /\ UNCHANGED <<faultRound, stored, retrieved>>
  BY DEF adapterVars, storeVars
<1>2. /\ ApprovedModels' = ApprovedModels /\ EligibleUpdates' = EligibleUpdates
      /\ \A p : ApprovedBefore(p)' = ApprovedBefore(p)
      /\ Participants = {ModelCid(node) : node \in included[round] \cap SubmittedNodes}
      /\ round \in Round /\ round \in Nat /\ Round = 1 .. LastRound /\ LastRound \in Nat
  BY <1>1, SubmittedModels, RoundsAssumption
  DEF ProtocolInv, ApprovedModels, EligibleUpdates, ApprovedBefore, ModelCid, SubmittedNodes,
      Participants
\* What the command tells of the adapter's place.
<1>3. command # "none" => reply = NoReply /\ (pc = "failed" \/ command = AwaitedBy(pc))
  BY DEF ProtocolInv, CommandInv
<1>4. ProtocolTypeOK'
  <2>1. /\ ErrorReply \in Reply /\ OkReply({}) \in Reply /\ OkReply(ApprovedModels) \in Reply
    <3>1. ApprovedModels \subseteq Cid
      BY SubmittedModels DEF ProtocolInv
    <3> QED
      BY <3>1 DEF ErrorReply, OkReply, Reply
  <2>2. reply' \in Reply
    BY <2>1 DEF CommandEffect, ProtocolInv, ProtocolTypeOK
  <2>3. TypeOK'
    BY DEF LedgerInv
  <2> QED
    BY <1>1, <2>2, <2>3 DEF CommandEffect, ProtocolInv, ProtocolTypeOK
<1>5. CommandInv'
  BY <1>1, <1>3 DEF CommandEffect, CommandInv
<1>6. SubmittingInv'
  <2>1. \A r \in Round : roundStates'[r] = "Uncreated" => approvedModelCidsByRound'[r] = {}
    BY <1>2 DEF RoundsEffect, ProtocolInv, SubmittingInv
  <2>2. ASSUME pc = "submitting", Succeeded'
        PROVE  /\ roundStates'[round] = "SubmissionClosed"
               /\ reply'.eligible = ApprovedModels /\ Approved' = ApprovedModels
    <3>1. CASE UNCHANGED reply
      <4>1. Succeeded /\ command = "none"
        BY <1>3, <2>2, <3>1 DEF Succeeded, NoReply
      <4> QED
        BY <2>2, <3>1, <4>1 DEF RoundsEffect, ProtocolInv, SubmittingInv
    <3>2. CASE ~UNCHANGED reply
      BY <1>3, <2>2, <3>2 DEF CommandEffect, Succeeded, ErrorReply, OkReply, AwaitedBy
    <3> QED
      BY <3>1, <3>2
  <2> QED
    BY <1>1, <1>2, <2>1, <2>2 DEF CommandEffect, SubmittingInv
<1>7. DecidedInv'
  <2>1. pc \in {"retrieving", "aggregating", "recording"} => command = "none"
    BY <1>3 DEF AwaitedBy
  <2>2. pc \in {"retrieving", "aggregating", "recording", "cancelling", "publishing"}
          \/ command' = "publish"
        => Approved' = Approved
    BY <1>3 DEF RoundsEffect, CommandEffect, AwaitedBy
  <2> QED
    BY <1>1, <1>2, <2>1, <2>2
    DEF RoundsEffect, CommandEffect, ProtocolInv, DecidedInv, Publishable
<1>8. ResolvedInv'
  <2>1. pc = "unavailable" => command = "none"
    BY <1>3 DEF AwaitedBy
  <2>2. ASSUME pc \in {"cancelling", "publishing"}, Succeeded'
        PROVE  roundStates'[round] = IF pc = "cancelling" THEN "Cancelled" ELSE "Archived"
    <3>1. CASE UNCHANGED reply
      <4>1. Succeeded /\ command = "none"
        BY <1>3, <2>2, <3>1 DEF Succeeded, NoReply
      <4> QED
        BY <2>2, <3>1, <4>1 DEF RoundsEffect, ProtocolInv, ResolvedInv
    <3>2. CASE ~UNCHANGED reply
      BY <1>3, <2>2, <3>2 DEF CommandEffect, Succeeded, ErrorReply, OkReply, AwaitedBy
    <3> QED
      BY <3>1, <3>2
  <2> QED
    BY <1>1, <2>1, <2>2 DEF RoundsEffect, ProtocolInv, ResolvedInv
<1>9. RetrievedInv'
  BY <1>1 DEF ProtocolInv, RetrievedInv
<1>10. RoundsInOrder'
  BY <1>1, <1>2 DEF RoundsEffect, ProtocolInv, RoundsInOrder
<1>11. RecordedInv'
  <2> SUFFICES ASSUME NEW i \in DOMAIN evidence
               PROVE  /\ roundStates'[i] = roundStates[i]
                      /\ approvedModelCidsByRound'[i] = approvedModelCidsByRound[i]
    BY <1>1 DEF ProtocolInv, RecordedInv, EvidenceTruthful
  <2>1. evidence[i] \in Row
    BY DEF ProtocolInv, ProtocolTypeOK
  <2>2. evidence[i].round = i /\ roundStates[i] = evidence[i].final
    BY DEF ProtocolInv, RecordedInv, EvidenceTruthful
  <2>3. i \in Round /\ roundStates[i] \in {"Archived", "Cancelled"}
    BY <2>1, <2>2 DEF Row
  <2> QED
    BY <2>3 DEF RoundsEffect
<1>12. BaseInv'
  <2>1. \/ UNCHANGED globalModels
        \/ pc \in {"publishing", "failed"}
    BY <1>3 DEF PublicationEffect, AwaitedBy
  <2> QED
    BY <1>1, <2>1 DEF ProtocolInv, BaseInv, StartsFromLastPublished
<1>13. PublishedAsAggregated'
  <2>1. DOMAIN globalModels \subseteq Round
    BY DEF ProtocolInv, LedgerInv, TypeOK
  <2>2. CASE UNCHANGED globalModels
    <3>1. \A r \in DOMAIN globalModels :
            approvedModelCidsByRound'[r] = approvedModelCidsByRound[r]
      BY <1>1, <2>1 DEF RoundsEffect, Approved
    <3> QED
      BY <1>1, <2>2, <3>1 DEF ProtocolInv, PublishedAsAggregated
  <2>3. CASE ~UNCHANGED globalModels
    <3>1. command = "publish" /\ Publishable
      BY <2>3 DEF PublicationEffect, ProtocolInv, DecidedInv
    <3>2. /\ Participants = eligible
          /\ Participants = {ArtifactCid(round, node, "model") : node \in included[round]}
      BY <1>2, <3>1, SubmittedModels
      DEF ProtocolInv, Publishable, EligibleUpdates, ModelCid
    <3>3. /\ globalModels'[round].participants = Participants
          /\ approvedModelCidsByRound'[round] = Participants
          /\ Participants \subseteq retrieved
      BY <2>3, <3>1, <3>2 DEF PublicationEffect, Publishable, Approved
    <3> QED
      BY <1>1, <2>1, <2>3, <3>2, <3>3
      DEF PublicationEffect, ProtocolInv, PublishedAsAggregated
  <2> QED
    BY <2>2, <2>3
<1>14. faultRound' \notin DOMAIN globalModels'
  BY <1>1 DEF PublicationEffect, ProtocolInv, DecidedInv, Publishable
<1>15. ViewsNeverDiverge'
  BY <1>1 DEF ProtocolInv, ViewsNeverDiverge
<1> QED
  BY <1>4, <1>5, <1>6, <1>7, <1>8, <1>9, <1>10, <1>11, <1>12, <1>13, <1>14, <1>15
  DEF ProtocolInv

\* Register, exit, error and death leave the rounds alone; the other transactions
\* move the round in hand along its states.
LEMMA BridgeInv ==
  ASSUME ProtocolInv, SettledInv, BridgeStep \/ BridgeFailure
  PROVE  ProtocolInv'
<1>1. UNCHANGED <<adapterVars, storeVars>> /\ UNCHANGED <<round, submissions, eligible>>
  BY DEF BridgeStep, BridgeFailure, adapterVars
<1>2. LedgerInv'
  <2>1. [Next]_ledgerVars
    BY TransactionIsLedgerStep, OtherwiseLedgerKept DEF BridgeStep
  <2> QED
    BY <2>1, LedgerNextInv DEF ProtocolInv
<1>3. /\ round \in Round /\ roundStates \in [Round -> RoundState]
      /\ approvedModelCidsByRound \in [Round -> SUBSET Cid]
      /\ progress \in Nat /\ submissions \in Seq(Prepared)
      /\ round \in DOMAIN globalModels <=> roundStates[round] \in {"Published", "Archived"}
      /\ \A p : ApprovedBefore(p)' = ApprovedBefore(p)
  BY <1>1 DEF ProtocolInv, ProtocolTypeOK, LedgerInv, TypeOK, PublicationSound, ApprovedBefore,
       ModelCid
<1>4. command = "submit" /\ progress > 0 => Approved = ApprovedBefore(progress)
  BY DEF ProtocolInv, SubmittingInv
\* A transition of the round in hand leaves everything but its state alone.
<1>5. ASSUME NEW role, NEW caller, NEW expected \in RoundState \ {"Archived", "Cancelled"},
             NEW next \in RoundState \ {"Uncreated"},
             RoundTransition(role, caller, round, expected, next), command # "none"
      PROVE  /\ RoundsEffect /\ UNCHANGED globalModels /\ UNCHANGED approvedModelCidsByRound
             /\ roundStates[round] = expected /\ roundStates'[round] = next
  BY <1>1, <1>3, <1>5 DEF RoundTransition, MoveRound, evidenceVars, RoundsEffect, Approved
<1>6. CASE BridgeCreate
  <2>1. /\ command = "submit" /\ progress = 0 /\ progress' = 1
        /\ UNCHANGED <<bridge, command, reply>>
        /\ RoundTransition("ADMIN", Deployer, round, "Uncreated", "Open")
    BY <1>6 DEF BridgeCreate, Executing, Advance, CreateRound
  <2>2. /\ RoundsEffect /\ UNCHANGED globalModels /\ UNCHANGED approvedModelCidsByRound
        /\ roundStates[round] = "Uncreated"
    BY <1>5, <2>1 DEF RoundState
  <2>3. ApprovedBefore(1) = {}
    BY <1>3 DEF ApprovedBefore
  <2>4. Approved' = {}
    BY <1>1, <1>3, <2>2 DEF Approved, ProtocolInv, SubmittingInv
  <2>5. CommandEffect /\ PublicationEffect
    BY <1>3, <2>1, <2>2, <2>3, <2>4 DEF CommandEffect, PublicationEffect
  <2> QED
    BY <1>1, <1>2, <2>2, <2>5, BridgeEffectInv
<1>7. CASE BridgeRegister
  <2>1. UNCHANGED <<roundStates, approvedModelCidsByRound, globalModels>>
        /\ UNCHANGED bridgeVars
    BY <1>7 DEF BridgeRegister, RegisterNode, evidenceVars
  <2>2. RoundsEffect /\ CommandEffect /\ PublicationEffect
    BY <1>1, <1>3, <1>4, <2>1
    DEF RoundsEffect, CommandEffect, PublicationEffect, bridgeVars, Approved
  <2> QED
    BY <1>1, <1>2, <2>2, BridgeEffectInv
<1>8. CASE BridgeSubmit
  <2> DEFINE s == submissions[progress]
  <2>1. /\ progress \in DOMAIN submissions /\ command = "submit" /\ progress' = progress + 1
        /\ UNCHANGED <<bridge, command, reply>>
    BY <1>8 DEF BridgeSubmit, Executing, Advance
  <2>2. /\ roundStates[round] = "Open" /\ UNCHANGED <<roundStates, globalModels>>
        /\ approvedModelCidsByRound' =
             [approvedModelCidsByRound EXCEPT
                ![round] = IF s.approved THEN @ \cup {ModelCid(s.node)} ELSE @]
    BY <1>8, ArtifactAssumption DEF BridgeSubmit, SubmitModel, SubmissionAccepted, ApproveModel, ModelCid
  <2>3. Approved' = Approved \cup (IF s.approved THEN {ModelCid(s.node)} ELSE {})
    BY <1>1, <1>3, <2>2 DEF Approved
  <2>4. progress > 0 /\ \A j \in DOMAIN submissions : j < progress + 1 <=> j < progress \/ j = progress
    BY <1>3, <2>1
  <2>5. ApprovedBefore(progress + 1) =
          ApprovedBefore(progress) \cup (IF s.approved THEN {ModelCid(s.node)} ELSE {})
    BY <2>1, <2>4 DEF ApprovedBefore
  <2>6. Approved' = ApprovedBefore(progress')
    BY <1>4, <2>1, <2>3, <2>4, <2>5
  <2>7. RoundsEffect
    BY <1>3, <2>1, <2>2 DEF RoundsEffect
  <2>8. CommandEffect /\ PublicationEffect
    BY <1>3, <2>1, <2>2, <2>6 DEF CommandEffect, PublicationEffect
  <2> QED
    BY <1>1, <1>2, <2>7, <2>8, BridgeEffectInv
<1>9. CASE BridgeClose
  <2>1. /\ command = "submit" /\ progress = Len(submissions) + 1 /\ progress' = progress + 1
        /\ RoundTransition("ADMIN", Deployer, round, "Open", "SubmissionClosed")
        /\ UNCHANGED <<bridge, command, reply>>
    BY <1>9 DEF BridgeClose, Executing, Advance, CloseSubmissions
  <2>2. /\ RoundsEffect /\ UNCHANGED globalModels /\ UNCHANGED approvedModelCidsByRound
    BY <1>5, <2>1 DEF RoundState
  <2>3. /\ progress > 0 /\ progress' > 0 /\ progress' \in Nat
        /\ \A j \in DOMAIN submissions : j < progress <=> j < progress'
    BY <1>3, <2>1
  <2>4. ApprovedBefore(progress) = ApprovedBefore(progress')
    BY <2>3 DEF ApprovedBefore
  <2>5. Approved' = ApprovedBefore(progress')
    BY <1>1, <1>4, <2>1, <2>2, <2>3, <2>4 DEF Approved
  <2>6. CommandEffect /\ PublicationEffect
    BY <1>3, <2>1, <2>2, <2>3, <2>5 DEF CommandEffect, PublicationEffect
  <2> QED
    BY <1>1, <1>2, <2>2, <2>6, BridgeEffectInv
<1>10. CASE BridgeStartAggregation
  <2>1. /\ command = "publish" /\ progress' = progress + 1
        /\ UNCHANGED <<bridge, command, reply>>
        /\ RoundTransition("AGGREGATOR", Aggregator, round, "SubmissionClosed", "AggregationStarted")
    BY <1>10 DEF BridgeStartAggregation, Executing, Advance, StartAggregation
  <2>2. RoundsEffect /\ UNCHANGED globalModels
    BY <1>5, <2>1 DEF RoundState
  <2>3. CommandEffect /\ PublicationEffect
    BY <1>3, <2>1, <2>2 DEF CommandEffect, PublicationEffect
  <2> QED
    BY <1>1, <1>2, <2>2, <2>3, BridgeEffectInv
<1>11. CASE BridgePublish
  <2>1. /\ command = "publish" /\ progress' = progress + 1
        /\ UNCHANGED <<bridge, command, reply>>
    BY <1>11 DEF BridgePublish, Executing, Advance
  <2>2. /\ roundStates[round] = "AggregationStarted"
        /\ roundStates' = [roundStates EXCEPT ![round] = "Published"]
        /\ UNCHANGED approvedModelCidsByRound
        /\ globalModels' = Store(globalModels, round,
             [globalModelCid |-> GlobalCid(round), reportCid |-> ReportCid(round),
              participants |-> Participants])
    BY <1>11 DEF BridgePublish, PublishGlobalModel, PublicationAccepted, MoveRound
  <2>3. RoundsEffect
    BY <1>1, <1>3, <2>1, <2>2 DEF RoundsEffect, Approved
  <2>4. PublicationEffect
    BY <2>1, <2>2 DEF PublicationEffect, Store
  <2>5. CommandEffect
    BY <1>3, <2>1 DEF CommandEffect
  <2> QED
    BY <1>1, <1>2, <2>3, <2>4, <2>5, BridgeEffectInv
<1>12. CASE BridgeArchive
  <2>1. /\ command = "publish" /\ progress' = progress + 1
        /\ UNCHANGED <<bridge, command, reply>>
        /\ RoundTransition("ADMIN", Deployer, round, "Published", "Archived")
    BY <1>12 DEF BridgeArchive, Executing, Advance, ArchiveRound
  <2>2. RoundsEffect /\ UNCHANGED globalModels
    BY <1>5, <2>1 DEF RoundState
  <2>3. CommandEffect /\ PublicationEffect
    BY <1>3, <2>1, <2>2 DEF CommandEffect, PublicationEffect
  <2> QED
    BY <1>1, <1>2, <2>2, <2>3, BridgeEffectInv
<1>13. CASE BridgeCancel
  <2>1. /\ command = "cancel" /\ progress' = progress + 1
        /\ UNCHANGED <<bridge, command, reply>>
        /\ RoundTransition("ADMIN", Deployer, round, "SubmissionClosed", "Cancelled")
    BY <1>13 DEF BridgeCancel, Executing, Advance, CancelRound
  <2>2. RoundsEffect /\ UNCHANGED globalModels
    BY <1>5, <2>1 DEF RoundState
  <2>3. CommandEffect /\ PublicationEffect
    BY <1>3, <2>1, <2>2 DEF CommandEffect, PublicationEffect
  <2> QED
    BY <1>1, <1>2, <2>2, <2>3, BridgeEffectInv
\* The list the ledger answers with names the models it approved, and those are
\* the ones that every submission of the command has had approved.
<1>14. CASE BridgeReplyEligible
  <2> DEFINE cids == EligibleModelCids(round)
             answer == {cids[i] : i \in DOMAIN cids}
  <2>1. /\ command = "submit" /\ progress = Len(submissions) + 2
        /\ reply' = OkReply(answer) /\ command' = "none" /\ UNCHANGED <<bridge, progress>>
        /\ UNCHANGED <<roundStates, approvedModelCidsByRound, globalModels>>
    BY <1>14 DEF BridgeReplyEligible, Executing, Respond, ledgerVars
  <2>2. roundStates[round] = "SubmissionClosed"
    BY <2>1 DEF SettledInv
  <2>3. answer = Approved
    BY <1>3, EligibleViews DEF ProtocolInv, EligibleViewsAgree, Approved
  <2>4. progress > 0 /\ \A j \in DOMAIN submissions : j < progress
    BY <1>3, <2>1
  <2>5. ApprovedBefore(progress) = ApprovedModels
    BY <2>4 DEF ApprovedBefore, ApprovedModels
  <2> HIDE DEF answer
  <2>6. Approved' = Approved /\ Approved = ApprovedModels
    BY <1>1, <1>4, <2>1, <2>4, <2>5 DEF Approved
  <2>7. RoundsEffect /\ CommandEffect /\ PublicationEffect
    BY <1>1, <1>3, <2>1, <2>2, <2>3, <2>6 DEF RoundsEffect, CommandEffect, PublicationEffect
  <2> QED
    BY <1>1, <1>2, <2>7, BridgeEffectInv
<1>15. CASE BridgeReply
  <2>1. /\ command' = "none" /\ reply' = OkReply({}) /\ UNCHANGED <<bridge, progress>>
        /\ UNCHANGED <<roundStates, approvedModelCidsByRound, globalModels>>
        /\ \/ command = "publish" /\ progress = 3
           \/ command = "cancel" /\ progress = 1
    BY <1>15 DEF BridgeReply, Executing, Respond, ledgerVars
  <2>2. \/ command = "publish" /\ roundStates'[round] = "Archived"
        \/ command = "cancel" /\ roundStates'[round] = "Cancelled"
    BY <2>1 DEF SettledInv
  <2>3. RoundsEffect /\ CommandEffect /\ PublicationEffect
    BY <1>1, <1>3, <2>1, <2>2 DEF RoundsEffect, CommandEffect, PublicationEffect, Approved
  <2> QED
    BY <1>1, <1>2, <2>3, BridgeEffectInv
<1>16. CASE BridgeExit \/ BridgeFailure
  <2>1. /\ UNCHANGED <<roundStates, approvedModelCidsByRound, globalModels, progress>>
        /\ command' = "none" /\ bridge' \in {"down", bridge}
        /\ \/ UNCHANGED reply
           \/ command # "none" /\ reply' = ErrorReply
           \/ command = "close" /\ reply' = OkReply({})
    BY <1>16
    DEF BridgeExit, BridgeFailure, BridgeError, BridgeDies, Executing, Respond, ledgerVars
  <2>2. RoundsEffect /\ CommandEffect /\ PublicationEffect
    BY <1>1, <1>3, <2>1 DEF RoundsEffect, CommandEffect, PublicationEffect, Approved
  <2> QED
    BY <1>1, <1>2, <2>2, BridgeEffectInv
<1> QED
  BY <1>6, <1>7, <1>8, <1>9, <1>10, <1>11, <1>12, <1>13, <1>14, <1>15, <1>16
  DEF BridgeStep, BridgeTransaction, BridgeAnswer

\* The last transaction of a command settles the round.
LEMMA BridgeSettledInv ==
  ASSUME ProtocolInv, SettledInv, BridgeStep \/ BridgeFailure
  PROVE  SettledInv'
<1>1. UNCHANGED <<round, submissions>>
  BY DEF BridgeStep, BridgeFailure, adapterVars
<1>2. /\ round \in Round /\ roundStates \in [Round -> RoundState]
      /\ progress \in Nat /\ Len(submissions) \in Nat
      /\ DOMAIN submissions = 1 .. Len(submissions)
  BY DEF ProtocolInv, ProtocolTypeOK, LedgerInv, TypeOK
\* No command has this transaction last.
<1>3. CASE BridgeCreate \/ BridgeSubmit
  <2>1. /\ command' = "submit" /\ progress \in 0 .. Len(submissions)
        /\ progress' = progress + 1
    BY <1>2, <1>3 DEF BridgeCreate, BridgeSubmit, Executing, Advance
  <2> QED
    BY <1>1, <1>2, <2>1 DEF SettledInv
<1>4. CASE BridgeStartAggregation \/ BridgePublish
  <2>1. command' = "publish" /\ progress' \in {1, 2}
    BY <1>4 DEF BridgeStartAggregation, BridgePublish, Executing, Advance
  <2> QED
    BY <2>1 DEF SettledInv
<1>5. CASE BridgeClose
  <2>1. command' = "submit" /\ roundStates' = [roundStates EXCEPT ![round] = "SubmissionClosed"]
    BY <1>5
    DEF BridgeClose, Executing, Advance, CloseSubmissions, RoundTransition, MoveRound
  <2> QED
    BY <1>1, <1>2, <2>1 DEF SettledInv
<1>6. CASE BridgeArchive
  <2>1. command' = "publish" /\ roundStates' = [roundStates EXCEPT ![round] = "Archived"]
    BY <1>6 DEF BridgeArchive, Executing, Advance, ArchiveRound, RoundTransition, MoveRound
  <2> QED
    BY <1>1, <1>2, <2>1 DEF SettledInv
<1>7. CASE BridgeCancel
  <2>1. command' = "cancel" /\ roundStates' = [roundStates EXCEPT ![round] = "Cancelled"]
    BY <1>7 DEF BridgeCancel, Executing, Advance, CancelRound, RoundTransition, MoveRound
  <2> QED
    BY <1>1, <1>2, <2>1 DEF SettledInv
<1>8. CASE BridgeRegister
  <2>1. UNCHANGED <<roundStates, command, progress>>
    BY <1>8 DEF BridgeRegister, RegisterNode, evidenceVars, bridgeVars
  <2> QED
    BY <1>1, <2>1 DEF SettledInv
<1>9. CASE BridgeAnswer \/ BridgeFailure
  <2>1. command' = "none"
    BY <1>9 DEF BridgeAnswer, BridgeReplyEligible, BridgeReply, BridgeExit, BridgeFailure,
                BridgeError, BridgeDies, Respond
  <2> QED
    BY <2>1 DEF SettledInv
<1> QED
  BY <1>3, <1>4, <1>5, <1>6, <1>7, <1>8, <1>9 DEF BridgeStep, BridgeTransaction

-----------------------------------------------------------------------------
(***************************************************************************)
(* The theorems                                                            *)
(***************************************************************************)

\* One lemma for each group of the adapter's steps; whatever stops the adapter is
\* a failure.
LEMMA AdapterInv ==
  ASSUME ProtocolInv, AdapterStep \/ AdapterCrashes
  PROVE  ProtocolInv'
<1>1. UNCHANGED ledgerVars
  BY DEF AdapterStep, AdapterCrashes
<1>2. CASE AdapterCrashes \/ PrepareFails \/ SubmissionFailed \/ RecordFails
             \/ RequestToLedgerFailed
  <2>1. Fail /\ UNCHANGED storeVars /\ (Kill \/ UNCHANGED bridgeVars)
    BY <1>2
    DEF AdapterCrashes, PrepareFails, SubmissionFailed, RecordFails, RequestToLedgerFailed
  <2> QED
    BY <1>1, <2>1, FailInv
<1>3. CASE \/ \E node \in Node, approved \in BOOLEAN : PrepareClient(node, approved)
           \/ RequestSubmission
  BY <1>1, <1>3, PreparationInv
<1>4. CASE SubmissionSucceeded
  BY <1>1, <1>4, SubmissionSucceededInv
<1>5. CASE (\E cid \in eligible : RetrieveModel(cid)) \/ RetrievalFails \/ RetrievalDone
  BY <1>1, <1>5, RetrievalInv
<1>6. CASE Aggregate
  BY <1>1, <1>6, AggregateInv
<1>7. CASE RecordRound
  BY <1>1, <1>7, RecordRoundInv
<1>8. CASE CancellationSucceeded \/ PublicationSucceeded
  BY <1>1, <1>8, RoundOverInv
<1>9. CASE Finalize \/ CloseBridge
  BY <1>1, <1>9, RunOverInv
<1> QED
  BY <1>2, <1>3, <1>4, <1>5, <1>6, <1>7, <1>8, <1>9 DEF AdapterStep

\* The adapter sends a command from its start and leaves one it waits for alone.
LEMMA AdapterSettledInv ==
  ASSUME ProtocolInv, SettledInv, AdapterStep \/ AdapterCrashes
  PROVE  SettledInv'
<1>1. UNCHANGED roundStates
  BY DEF AdapterStep, AdapterCrashes, ledgerVars
<1>2. /\ Len(submissions) \in Nat
      /\ command # "none" => reply = NoReply /\ (pc = "failed" \/ command = AwaitedBy(pc))
  BY DEF ProtocolInv, ProtocolTypeOK, CommandInv
<1>3. CASE \/ \E node \in Node, approved \in BOOLEAN : PrepareClient(node, approved)
           \/ Aggregate \/ RetrievalDone \/ (\E cid \in eligible : RetrieveModel(cid))
  <2>1. pc \in {"preparing", "retrieving", "aggregating"} /\ UNCHANGED command
    BY <1>3 DEF PrepareClient, Aggregate, RetrievalDone, RetrieveModel, bridgeVars
  <2> QED
    BY <1>2, <2>1 DEF AwaitedBy, SettledInv
<1>4. CASE \/ RequestSubmission \/ SubmissionSucceeded \/ RetrievalFails \/ RecordRound
           \/ CancellationSucceeded \/ PublicationSucceeded \/ Finalize
  <2>1. \/ progress' = 0 /\ UNCHANGED submissions
        \/ command' \in {"none", command} /\ (Succeeded \/ pc = "finalizing")
    BY <1>4 DEF RequestSubmission, SubmissionSucceeded, RetrievalFails, RecordRound, Cancel, Send,
                CancellationSucceeded, PublicationSucceeded, Finalize, Kill, bridgeVars
  <2>2. Succeeded \/ pc = "finalizing" => command = "none"
    BY <1>2 DEF Succeeded, NoReply, AwaitedBy
  <2> QED
    BY <1>2, <2>1, <2>2 DEF SettledInv
<1>5. CASE \/ AdapterCrashes \/ PrepareFails \/ SubmissionFailed \/ RecordFails
           \/ RequestToLedgerFailed \/ CloseBridge
  <2>1. /\ UNCHANGED <<round, submissions, progress>>
        /\ command' \in {"none", command}
    BY <1>5 DEF AdapterCrashes, PrepareFails, SubmissionFailed, RecordFails,
                RequestToLedgerFailed, CloseBridge, Fail, Kill, bridgeVars
  <2> QED
    BY <1>1, <2>1 DEF SettledInv
<1> QED
  BY <1>3, <1>4, <1>5 DEF AdapterStep

LEMMA ProtocolStepInv ==
  ProtocolInv /\ SettledInv /\ [ProtocolNext]_vars => ProtocolInv' /\ SettledInv'
<1>1. ASSUME ProtocolInv, UNCHANGED vars PROVE ProtocolInv'
  <2>1. UNCHANGED <<adapterVars, storeVars, bridgeVars, ledgerVars>>
    BY <1>1 DEF vars
  <2>2. LedgerInv'
    BY <1>1, <2>1, LedgerKept DEF ProtocolInv
  <2>3. UNCHANGED <<round, submissions, eligible>>
    BY <2>1 DEF adapterVars
  <2>4. Approved' = Approved /\ \A p : ApprovedBefore(p)' = ApprovedBefore(p)
    BY <2>1, <2>3, ViewsKept
  <2>5. RoundsEffect /\ CommandEffect /\ PublicationEffect
    BY <1>1, <2>1, <2>4
    DEF RoundsEffect, CommandEffect, PublicationEffect, bridgeVars, ledgerVars, ProtocolInv,
        ProtocolTypeOK, SubmittingInv
  <2> QED
    BY <1>1, <2>1, <2>2, <2>5, BridgeEffectInv
<1>2. ASSUME SettledInv, UNCHANGED vars PROVE SettledInv'
  BY <1>2 DEF vars, ledgerVars, adapterVars, bridgeVars, SettledInv
<1> QED
  BY <1>1, <1>2, AdapterInv, AdapterSettledInv, BridgeInv, BridgeSettledInv DEF ProtocolNext

\* In every state of a run, the ledger, the bridge's command and the adapter's
\* view of the round in hand fit together, whichever transaction fails, whenever a
\* process ends, and also when a command was done and its reply is lost (the
\* adapter, hardhat_bridge and FairAIEthicalLedger.sol, run_federated_method).
THEOREM ProtocolInvariant == ProtocolSpec => [](ProtocolInv /\ SettledInv)
<1>1. ProtocolInit => SettledInv
  BY DEF ProtocolInit, SettledInv
<1> QED
  BY <1>1, ProtocolInitInv, ProtocolStepInv, PTL DEF ProtocolSpec

\* Every variable of the run keeps its type, the counters of transactions and
\* rounds included.
THEOREM ProtocolTypeCorrect == ProtocolSpec => []ProtocolTypeOK
<1>1. ProtocolInv => ProtocolTypeOK
  BY DEF ProtocolInv
<1> QED
  BY <1>1, ProtocolInvariant, PTL

\* What is published for a round is what was aggregated, all that the ledger
\* approved in it, and each read back from the peers.
THEOREM PublicationMatchesAggregation == ProtocolSpec => []PublishedAsAggregated
<1>1. ProtocolInv => PublishedAsAggregated
  BY DEF ProtocolInv
<1> QED
  BY <1>1, ProtocolInvariant, PTL

\* The evidence file tells the ledger's truth however the run ends, also when it
\* ends because the reply to a command that was done is lost.
THEOREM EvidenceTellsTheLedger == ProtocolSpec => []EvidenceTruthful
<1>1. ProtocolInv => EvidenceTruthful
  BY DEF ProtocolInv, RecordedInv
<1> QED
  BY <1>1, ProtocolInvariant, PTL

\* At most the round in hand is left unresolved, and none after it is begun.
THEOREM RoundsSettledInOrder == ProtocolSpec => []RoundsInOrder
<1>1. ProtocolInv => RoundsInOrder
  BY DEF ProtocolInv
<1> QED
  BY <1>1, ProtocolInvariant, PTL

\* Training starts from the model published last, over cancelled rounds too.
THEOREM TrainingBase == ProtocolSpec => []TrainsFromLastPublished
<1>1. ProtocolInv => TrainsFromLastPublished
  BY DEF ProtocolInv, BaseInv, StartsFromLastPublished, TrainsFromLastPublished
<1> QED
  BY <1>1, ProtocolInvariant, PTL

\* A round hit by the fault is never published, and a run stopped by a missing
\* model leaves its round cancelled and without a global model.
THEOREM FaultsFailClosed == ProtocolSpec => []FaultFailsClosed
<1>1. ProtocolInv => FaultFailsClosed
  <2> SUFFICES ASSUME ProtocolInv PROVE FaultFailsClosed
    OBVIOUS
  <2>1. roundStates[round] = "Cancelled" => round \notin DOMAIN globalModels
    BY DEF ProtocolInv, ProtocolTypeOK, LedgerInv, PublicationSound
  <2> QED
    BY <2>1 DEF ProtocolInv, ResolvedInv, FaultFailsClosed
<1> QED
  BY <1>1, ProtocolInvariant, PTL

\* The adapter never cancels because its view of eligibility is not the ledger's.
THEOREM DefensiveCancelsUnused == ProtocolSpec => []ViewsNeverDiverge
<1>1. ProtocolInv => ViewsNeverDiverge
  BY DEF ProtocolInv
<1> QED
  BY <1>1, ProtocolInvariant, PTL

LEMMA ProtocolStepIsLedgerStep ==
  ProtocolInv /\ [ProtocolNext]_vars => [Next]_ledgerVars
<1>1. UNCHANGED vars => UNCHANGED ledgerVars
  BY DEF vars
<1> QED
  BY <1>1, TransactionIsLedgerStep, OtherwiseLedgerKept
  DEF ProtocolNext, AdapterStep, AdapterCrashes, BridgeStep

\* In a run as for any callers of the ledger, records and published models are
\* never replaced: the bridge makes only calls that the contract offers.
THEOREM VerdictsFinalInRun == ProtocolSpec => VerdictsFinal
<1>1. ProtocolInv /\ [ProtocolNext]_vars => [VerdictsKept]_ledgerVars
  BY ProtocolStepIsLedgerStep, LedgerNextInv DEF ProtocolInv
<1> QED
  BY <1>1, ProtocolInvariant, PTL DEF ProtocolSpec, VerdictsFinal

\* The rounds of a run are rounds of RoundLifecycle, although a run starts from a
\* ledger that deploy() has set up.
THEOREM RunImplementsLifecycle == ProtocolSpec => RefinesLifecycle
<1>1. ProtocolInit => Lifecycle!Init
  BY DEF ProtocolInit, Lifecycle!Init, phaseBar, aggregateBar, AbstractPhase
<1>2. ProtocolInv /\ [ProtocolNext]_vars => [Lifecycle!Next]_(Lifecycle!lifecycleVars)
  BY ProtocolStepIsLedgerStep, StepSimulated DEF ProtocolInv
<1> QED
  BY <1>1, <1>2, ProtocolInvariant, PTL DEF ProtocolSpec, RefinesLifecycle, Lifecycle!Spec
=============================================================================
