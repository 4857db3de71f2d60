---------------------------- MODULE EthicalLedger ----------------------------
(***************************************************************************)
(* The FairAIEthicalLedger contract: nodes submit models to rounds, a      *)
(* verifier contract decides on each submission, and the aggregator        *)
(* publishes a global model made from approved submissions.                *)
(*                                                                         *)
(* One action per external function.  A transaction is atomic and a revert *)
(* has no effect, so each require of the code is a conjunct and the order  *)
(* of the requires does not matter.  A mapping whose entry is "present     *)
(* when its timestamp is not zero" is a function on the keys present.      *)
(*                                                                         *)
(* A submission names several content identifiers (six in the contract);   *)
(* the contract treats them alike but for the model's, so the kinds of     *)
(* artifact are a parameter.  verificationStatus and approvalStatus are    *)
(* assigned together from one Boolean, and are one field here.             *)
(***************************************************************************)
EXTENDS AccessControl, Sequences

CONSTANTS
  Node,         \* node identifiers (bytes32)
  Round,        \* round identifiers
  Artifact,     \* kinds of artifact a submission names
  Cid,          \* content identifiers other than the empty string
  EmptyCid,     \* the empty string
  Verifier,     \* addresses with code that answer verifyProof
  NoVerifier,   \* the zero address of an unset verifierContract
  NoContext     \* stands for public signals that carry no node and round

ASSUME ContractRoleAssumption == ContractRole \subseteq Role
ASSUME ArtifactAssumption == "model" \in Artifact
ASSUME EmptyCidAssumption == EmptyCid \notin Cid
ASSUME NoVerifierAssumption == NoVerifier \notin Verifier

VARIABLES
  verifierContract,         \* the contract asked to verify proofs
  registeredNodes,          \* nodes that may have models submitted
  roundStates,              \* the state of each round
  records,                  \* submission records, by node and round
  roundRecordKeys,          \* per round, the keys of its records in order
  globalModels,             \* published global models, by round
  approvedModelCidsByRound, \* per round, what publication is checked against
  usedCids                  \* every identifier ever recorded

ledgerVars ==
  <<roles, adminCount, verifierContract, registeredNodes, roundStates, records,
    roundRecordKeys, globalModels, approvedModelCidsByRound, usedCids>>

\* What submissions and publications write.
evidenceVars ==
  <<records, roundRecordKeys, globalModels, approvedModelCidsByRound, usedCids>>

RoundState ==
  {"Uncreated", "Open", "SubmissionClosed", "AggregationStarted",
   "Published", "Archived", "Cancelled"}

Key == Node \X Round

ModelRecord ==
  [cids : [Artifact -> Cid], approval : {"Approved", "Rejected"}]

GlobalModelRecord ==
  [globalModelCid : Cid, reportCid : Cid, participants : SUBSET Cid]

CidArgument == Cid \cup {EmptyCid}

TypeOK ==
  /\ ACLTypeOK
  /\ verifierContract \in Verifier \cup {NoVerifier}
  /\ registeredNodes \subseteq Node
  /\ roundStates \in [Round -> RoundState]
  /\ DOMAIN records \subseteq Key
  /\ records \in [DOMAIN records -> ModelRecord]
  /\ roundRecordKeys \in [Round -> Seq(Key)]
  /\ DOMAIN globalModels \subseteq Round
  /\ globalModels \in [DOMAIN globalModels -> GlobalModelRecord]
  /\ approvedModelCidsByRound \in [Round -> SUBSET Cid]
  /\ usedCids \subseteq Cid

-----------------------------------------------------------------------------

\* A function with one entry added or overwritten, as a Solidity mapping is.
Store(f, key, value) ==
  [k \in DOMAIN f \cup {key} |-> IF k = key THEN value ELSE f[k]]

Init ==
  /\ ACLInit
  /\ verifierContract = NoVerifier
  /\ registeredNodes = {}
  /\ roundStates = [r \in Round |-> "Uncreated"]
  /\ records = [k \in {} |-> {}]
  /\ roundRecordKeys = [r \in Round |-> <<>>]
  /\ globalModels = [r \in {} |-> {}]
  /\ approvedModelCidsByRound = [r \in Round |-> {}]
  /\ usedCids = {}

-----------------------------------------------------------------------------
(***************************************************************************)
(* Administration                                                          *)
(***************************************************************************)

\* Any address may be asked for; one without code reverts.
SetVerifierContract(caller, verifier) ==
  /\ HasRole("ADMIN", caller)
  /\ verifier \in Verifier
  /\ verifierContract' = verifier
  /\ UNCHANGED <<roles, adminCount, registeredNodes, roundStates, evidenceVars>>

RegisterNode(caller, node) ==
  /\ HasRole("NODE_OPERATOR", caller)
  /\ registeredNodes' = registeredNodes \cup {node}
  /\ UNCHANGED <<roles, adminCount, verifierContract, roundStates, evidenceVars>>

\* Modifier inRoundState together with the assignment that ends the call.
MoveRound(round, expected, next) ==
  /\ roundStates[round] = expected
  /\ roundStates' = [roundStates EXCEPT ![round] = next]

RoundTransition(role, caller, round, expected, next) ==
  /\ HasRole(role, caller)
  /\ MoveRound(round, expected, next)
  /\ UNCHANGED <<roles, adminCount, verifierContract, registeredNodes, evidenceVars>>

CreateRound(caller, round) ==
  RoundTransition("ADMIN", caller, round, "Uncreated", "Open")

CloseSubmissions(caller, round) ==
  RoundTransition("ADMIN", caller, round, "Open", "SubmissionClosed")

StartAggregation(caller, round) ==
  RoundTransition("AGGREGATOR", caller, round, "SubmissionClosed", "AggregationStarted")

\* Mutant: cancellation asks for the wrong state.
CancelRoundAfterPublication(caller, round) ==
  RoundTransition("ADMIN", caller, round, "Published", "Cancelled")

\* cancelRound and cancelRoundWithReason, which differ in an event's argument.
\* Only a round whose aggregation has not started can be cancelled.
CancelRound(caller, round) ==
  RoundTransition("ADMIN", caller, round, "SubmissionClosed", "Cancelled")

ArchiveRound(caller, round) ==
  RoundTransition("ADMIN", caller, round, "Published", "Archived")

-----------------------------------------------------------------------------
(***************************************************************************)
(* Submission                                                              *)
(***************************************************************************)

CidsOf(cids) == {cids[a] : a \in Artifact}

\* Mutant: empty identifiers pass.
AnyCids(cids) == TRUE

NoEmptyCid(cids) == EmptyCid \notin CidsOf(cids)

\* Mutant: only the model's identifier is looked up.
FreshModelCid(cids) == cids["model"] \notin usedCids

\* _markCidUnused for each identifier of a submission: none was used before,
\* and no two of them are equal.
FreshCids(cids) ==
  /\ CidsOf(cids) \cap usedCids = {}
  /\ \A a, b \in Artifact : cids[a] = cids[b] => a = b

\* Public signals of length 21 carry a node and a round in context; others,
\* NoContext, are not compared.
ContextMatches(context, node, round) == context \in {NoContext, <<node, round>>}

\* Mutant: a rejected submission may be repeated.
NotApprovedBefore(node, round) ==
  <<node, round>> \in DOMAIN records => records[<<node, round>>].approval = "Rejected"

NotSubmittedBefore(node, round) == <<node, round>> \notin DOMAIN records

\* Mutant: the model of a rejected submission becomes eligible too.
ApproveAlways(round, modelCid, proofVerified) ==
  approvedModelCidsByRound' =
    [approvedModelCidsByRound EXCEPT ![round] = @ \cup {modelCid}]

ApproveModel(round, modelCid, proofVerified) ==
  approvedModelCidsByRound' =
    [approvedModelCidsByRound EXCEPT
       ![round] = IF proofVerified THEN @ \cup {modelCid} ELSE @]

\* The conditions of submitModel.
SubmissionAccepted(caller, node, round, cids, context) ==
  /\ HasRole("VERIFIER", caller)
  /\ roundStates[round] = "Open"
  /\ node \in registeredNodes
  /\ verifierContract # NoVerifier
  /\ NoEmptyCid(cids)
  /\ ContextMatches(context, node, round)
  /\ NotSubmittedBefore(node, round)
  /\ FreshCids(cids)

\* submitModel.  The answer of the verifier contract is a parameter: a
\* verifier that reverts reverts the submission.  A rejected submission leaves
\* a record and uses up its identifiers like an approved one.
SubmitModel(caller, node, round, cids, context, proofVerified) ==
  /\ SubmissionAccepted(caller, node, round, cids, context)
  /\ usedCids' = usedCids \cup CidsOf(cids)
  /\ records' = Store(records, <<node, round>>,
       [cids |-> cids, approval |-> IF proofVerified THEN "Approved" ELSE "Rejected"])
  /\ roundRecordKeys' =
       [roundRecordKeys EXCEPT ![round] = Append(@, <<node, round>>)]
  /\ ApproveModel(round, cids["model"], proofVerified)
  /\ UNCHANGED <<roles, adminCount, verifierContract, registeredNodes, roundStates,
                 globalModels>>

\* getEligibleModelCids: the model identifiers of approved records in the order
\* they were submitted.  The code counts the approved ones, allocates the list
\* and writes each at a cursor, which is the number of approved ones so far.
ApprovedPositions(round) ==
  {i \in DOMAIN roundRecordKeys[round] :
     records[roundRecordKeys[round][i]].approval = "Approved"}

Cursor(round, i) == Cardinality({j \in ApprovedPositions(round) : j <= i})

EligibleModelCids(round) ==
  LET at(n) == CHOOSE i \in ApprovedPositions(round) : Cursor(round, i) = n
  IN  [n \in 1 .. Cardinality(ApprovedPositions(round)) |->
         records[roundRecordKeys[round][at(n)]].cids["model"]]

-----------------------------------------------------------------------------
(***************************************************************************)
(* Publication                                                             *)
(***************************************************************************)

\* Mutant: a participant approved in any round will do.
ApprovedSomewhere(round, participants) ==
  participants \subseteq UNION {approvedModelCidsByRound[r] : r \in Round}

ParticipantsApproved(round, participants) ==
  participants \subseteq approvedModelCidsByRound[round]

\* The conditions of publishGlobalModel.  The list of participants enters as the
\* set of its elements: the loop over it asks only whether each one is approved.
PublicationAccepted(caller, round, globalModelCid, reportCid, participants) ==
  /\ HasRole("AGGREGATOR", caller)
  /\ roundStates[round] = "AggregationStarted"
  /\ round \notin DOMAIN globalModels
  /\ EmptyCid \notin {globalModelCid, reportCid}
  /\ participants # {}
  /\ {globalModelCid, reportCid} \cap usedCids = {} /\ globalModelCid # reportCid
  /\ ParticipantsApproved(round, participants)

PublishGlobalModel(caller, round, globalModelCid, reportCid, participants) ==
  /\ PublicationAccepted(caller, round, globalModelCid, reportCid, participants)
  /\ MoveRound(round, "AggregationStarted", "Published")
  /\ usedCids' = usedCids \cup {globalModelCid, reportCid}
  /\ globalModels' = Store(globalModels, round,
       [globalModelCid |-> globalModelCid, reportCid |-> reportCid,
        participants |-> participants])
  /\ UNCHANGED <<roles, adminCount, verifierContract, registeredNodes, records,
                 roundRecordKeys, approvedModelCidsByRound>>

-----------------------------------------------------------------------------

RoleChange ==
  /\ ACLNext
  /\ UNCHANGED <<verifierContract, registeredNodes, roundStates, evidenceVars>>

AdminAction(caller) ==
  \/ \E verifier \in Verifier : SetVerifierContract(caller, verifier)
  \/ \E node \in Node : RegisterNode(caller, node)

LifecycleAction(caller, round) ==
  \/ CreateRound(caller, round)
  \/ CloseSubmissions(caller, round)
  \/ StartAggregation(caller, round)
  \/ CancelRound(caller, round)
  \/ ArchiveRound(caller, round)

Submission(caller, round) ==
  \E node \in Node, cids \in [Artifact -> CidArgument],
     context \in {NoContext} \cup Key, proofVerified \in BOOLEAN :
    SubmitModel(caller, node, round, cids, context, proofVerified)

Publication(caller, round) ==
  \E globalModelCid, reportCid \in CidArgument, participants \in SUBSET Cid :
    PublishGlobalModel(caller, round, globalModelCid, reportCid, participants)

Next ==
  \/ RoleChange
  \/ \E caller \in Account :
       \/ AdminAction(caller)
       \/ \E round \in Round :
            \/ LifecycleAction(caller, round)
            \/ Submission(caller, round)
            \/ Publication(caller, round)

Spec == Init /\ [][Next]_ledgerVars

-----------------------------------------------------------------------------
(***************************************************************************)
(* Properties                                                              *)
(***************************************************************************)

ApprovedKeys(round) ==
  {key \in DOMAIN records : key[2] = round /\ records[key].approval = "Approved"}

\* The contract keeps eligibility twice: as the approval of each record, read
\* through the list of keys, and as the mapping publication is checked against.
\* Both say the same in every state, and the list handed to the aggregator
\* names no model twice (getEligibleModelCids and submitModel).
EligibleViewsAgree ==
  \A round \in Round :
    LET eligible == EligibleModelCids(round) IN
    /\ {eligible[i] : i \in DOMAIN eligible} = approvedModelCidsByRound[round]
    /\ \A i, j \in DOMAIN eligible : eligible[i] = eligible[j] => i = j

\* The identifiers a global model's record holds as its own.
GlobalCids(round) ==
  {globalModels[round].globalModelCid, globalModels[round].reportCid}

RecordCids(key) == CidsOf(records[key].cids)

SubmittedCidsDistinct ==
  \A k, l \in DOMAIN records, a, b \in Artifact :
    records[k].cids[a] = records[l].cids[b] => k = l /\ a = b

PublishedCidsDistinct ==
  \A r, s \in DOMAIN globalModels :
    /\ globalModels[r].globalModelCid # globalModels[s].reportCid
    /\ r # s => GlobalCids(r) \cap GlobalCids(s) = {}
    /\ \A k \in DOMAIN records : GlobalCids(r) \cap RecordCids(k) = {}

RegistryExact ==
  \A c \in Cid : c \in usedCids <=>
    \/ \E k \in DOMAIN records : c \in RecordCids(k)
    \/ \E r \in DOMAIN globalModels : c \in GlobalCids(r)

\* An identifier on the ledger stands for one artifact of one submission or of
\* one published model, across all rounds and whatever became of the
\* submission; the contract's registry of used identifiers is exactly the set
\* of those (_markCidUnused, submitModel, publishGlobalModel).
CidsUsedOnce == SubmittedCidsDistinct /\ PublishedCidsDistinct /\ RegistryExact

\* A round has a global model exactly when it is published or archived, and
\* that model was made from submissions approved in that very round
\* (publishGlobalModel, cancelRound, archiveRound).
PublicationSound ==
  \A r \in Round :
    /\ r \in DOMAIN globalModels <=> roundStates[r] \in {"Published", "Archived"}
    /\ r \in DOMAIN globalModels =>
         /\ globalModels[r].participants # {}
         /\ globalModels[r].participants \subseteq
              {records[k].cids["model"] : k \in ApprovedKeys(r)}

\* A verdict is final: a record is never replaced or removed, the record set of
\* a round grows only while the round is open, and a published model is never
\* replaced (submitModel, closeSubmissions, publishGlobalModel).
VerdictsKept ==
  /\ \A k \in DOMAIN records : k \in DOMAIN records' /\ records'[k] = records[k]
  /\ \A k \in DOMAIN records' \ DOMAIN records :
       roundStates[k[2]] = "Open" /\ roundStates'[k[2]] = "Open"
  /\ \A r \in DOMAIN globalModels :
       r \in DOMAIN globalModels' /\ globalModels'[r] = globalModels[r]

VerdictsFinal == [][VerdictsKept]_ledgerVars

-----------------------------------------------------------------------------
(***************************************************************************)
(* The ledger implements the abstract rounds: closing seals a round,       *)
(* starting the aggregation and archiving are invisible.                   *)
(***************************************************************************)

AbstractPhase(state) ==
  CASE state = "Uncreated" -> "idle"
    [] state = "Open" -> "collecting"
    [] state \in {"SubmissionClosed", "AggregationStarted"} -> "sealed"
    [] state \in {"Published", "Archived"} -> "published"
    [] state = "Cancelled" -> "abandoned"

phaseBar == [r \in Round |-> AbstractPhase(roundStates[r])]

aggregateBar ==
  [r \in Round |->
     IF r \in DOMAIN globalModels THEN globalModels[r].participants ELSE {}]

Lifecycle == INSTANCE RoundLifecycle WITH
  Contribution <- Cid, phase <- phaseBar,
  admitted <- approvedModelCidsByRound, aggregate <- aggregateBar

\* Whatever the contract's callers do, the rounds behave as RoundLifecycle
\* says (the whole of FairAIEthicalLedger.sol).
RefinesLifecycle == Lifecycle!Spec
=============================================================================
