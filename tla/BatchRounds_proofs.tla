--------------------------- MODULE BatchRounds_proofs ---------------------------
(***************************************************************************)
(* Theorems about BatchRounds, for any number of nodes and rounds and any  *)
(* kinds of artifact.  The inductive invariant BatchInv has three parts:   *)
(* what the consumer has pinned when a round is in the batch, what the     *)
(* ledger holds when the script is at a round, and that each of the calls  *)
(* the script makes meets the conditions of the contract.                  *)
(***************************************************************************)
EXTENDS BatchRounds, TLAPS

ScriptStage == {"creating", "submitting", "starting", "posting", "archiving"}
Stage == {"training", "publishing", "deploying", "evidence", "raised"} \cup ScriptStage

Kind == Artifact \cup {"global_model", "report"}

BatchTypeOK ==
  /\ stage \in Stage /\ reason \in {"none", "ipfs", "reverted", "script"}
  /\ round \in Round /\ included \subseteq Node /\ submitted \subseteq Node
  /\ client \in 1 .. Global /\ position \in Nat \ {0}
  /\ batch \in Seq(SUBSET Node)

-----------------------------------------------------------------------------
(* What is pinned                                                          *)

\* Artifact i of client c is on both peers once the loop is past it.
Past(c, i) == c < client \/ (c = client /\ i < position)

PinnedSoFar ==
  \A c \in included \cup {Global} : \A i \in DOMAIN KindsOf(c) :
    Past(c, i) => CidOf(round, c, KindsOf(c)[i]) \in consumerPins

\* Everything a round in the batch will put on the ledger is pinned.
BatchPinned ==
  \A r \in DOMAIN batch : \A c \in batch[r] \cup {Global} : \A i \in DOMAIN KindsOf(c) :
    CidOf(r, c, KindsOf(c)[i]) \in consumerPins

PinsInv ==
  /\ BatchPinned
  /\ stage = "publishing" => PinnedSoFar
  /\ stage \in {"training", "publishing"} => Len(batch) = round - 1
  /\ stage \in ScriptStage \cup {"deploying", "evidence"} => Len(batch) = LastRound

-----------------------------------------------------------------------------
(* What the ledger holds while the script is at a round                    *)

\* Nodes whose models the ledger has heard of in round r.
Heard(r) ==
  IF r < round THEN batch[r]
  ELSE IF r = round /\ stage # "creating" THEN submitted ELSE {}

Published(r) == r < round \/ (r = round /\ stage \in {"archiving", "evidence"})

StateOf(r) ==
  IF r < round THEN "Archived"
  ELSE IF r > round THEN "Uncreated"
  ELSE CASE stage = "creating" -> "Uncreated"
         [] stage = "submitting" -> "Open"
         [] stage = "starting" -> "SubmissionClosed"
         [] stage = "posting" -> "AggregationStarted"
         [] stage = "archiving" -> "Published"
         [] stage = "evidence" -> "Archived"

\* The script's deployment.
Deployed ==
  /\ HasRole("VERIFIER", Submitter) /\ HasRole("AGGREGATOR", Aggregator)
  /\ verifierContract # NoVerifier
  /\ \A r \in DOMAIN batch : batch[r] \subseteq registeredNodes

\* Identifiers on the ledger are those of submissions heard of and models published.
UsedAreHeard ==
  \A cid \in usedCids : \E r \in Round, c \in 1 .. Global : \E i \in DOMAIN KindsOf(c) :
    /\ cid = CidOf(r, c, KindsOf(c)[i])
    /\ IF c = Global THEN Published(r) ELSE c \in Heard(r)

RecordsHeard ==
  /\ DOMAIN records = {k \in Key : k[1] \in Heard(k[2])}
  /\ \A r \in Round : approvedModelCidsByRound[r] = {CidOf(r, n, "model") : n \in Heard(r)}

PublishedFromBatch ==
  /\ DOMAIN globalModels = {r \in Round : Published(r)}
  /\ \A r \in DOMAIN globalModels : globalModels[r].participants = Participants(r)

LedgerFollows ==
  /\ Deployed
  /\ roundStates = [r \in Round |-> StateOf(r)]
  /\ UsedAreHeard /\ RecordsHeard /\ PublishedFromBatch
  /\ DOMAIN approvedModelCidsByRound = Round /\ DOMAIN roundRecordKeys = Round

\* What the script has submitted belongs to its round, and is all of it when the
\* round is closed.
SubmittedFromBatch ==
  /\ stage = "submitting" => submitted \subseteq batch[round]
  /\ stage \in {"starting", "posting", "archiving", "evidence"} => submitted = batch[round]
  /\ stage = "evidence" => round = LastRound

\* Until the script runs its ledger is as deployed by the constructor.
LedgerFresh ==
  /\ DOMAIN roles = Role
  /\ roundStates = [r \in Round |-> "Uncreated"]
  /\ DOMAIN records = {} /\ DOMAIN globalModels = {} /\ usedCids = {}
  /\ approvedModelCidsByRound = [r \in Round |-> {}] /\ roundRecordKeys = [r \in Round |-> <<>>]

ScriptInv ==
  /\ stage \in {"training", "publishing", "deploying"} => LedgerFresh
  /\ stage = "deploying" => round = 1
  /\ stage \in ScriptStage \cup {"evidence"} => LedgerFollows /\ SubmittedFromBatch

BatchInv == BatchTypeOK /\ PinsInv /\ ScriptInv /\ OnlyEmptyRoundsRevert /\ (reason # "none" => stage = "raised")

-----------------------------------------------------------------------------
(* Identifiers and kinds                                                   *)

LEMMA CidsApart ==
  \A r, s, c, d, k, l : CidOf(r, c, k) = CidOf(s, d, l) => r = s /\ c = d /\ k = l
BY DEF CidOf

LEMMA Numbers ==
  /\ NumNodes \in Nat \ {0} /\ LastRound \in Nat \ {0}
  /\ Node = 1 .. NumNodes /\ Round = 1 .. LastRound
  /\ Global = NumNodes + 1 /\ Global \notin Node /\ Global \in Nat
BY BatchAssumption DEF Global

LEMMA KindFacts ==
  /\ DOMAIN KindsOf(Global) = 1 .. 2 /\ Len(KindsOf(Global)) = 2
  /\ KindsOf(Global)[1] = "global_model" /\ KindsOf(Global)[2] = "report"
  /\ \A c \in Node : KindsOf(c) = Kinds
  /\ \A c : Len(KindsOf(c)) \in Nat /\ DOMAIN KindsOf(c) = 1 .. Len(KindsOf(c))
  /\ \A c : \A i \in DOMAIN KindsOf(c) : KindsOf(c)[i] \in Kind
<1>1. KindsOf(Global) = <<"global_model", "report">>
  BY DEF KindsOf, GlobalKinds
<1>2. \A c : KindsOf(c) \in Seq(Kind)
  <2>1. Kinds \in Seq(Kind)
    BY BatchAssumption DEF Kind
  <2>2. GlobalKinds \in Seq(Kind)
    BY DEF GlobalKinds, Kind
  <2>. QED
    BY <2>1, <2>2 DEF KindsOf
<1>3. \A c \in Node : KindsOf(c) = Kinds
  BY Numbers DEF KindsOf
<1>4. \A c : Len(KindsOf(c)) \in Nat /\ DOMAIN KindsOf(c) = 1 .. Len(KindsOf(c))
  BY <1>2
<1>5. \A c : \A i \in DOMAIN KindsOf(c) : KindsOf(c)[i] \in Kind
  BY <1>2, <1>4
<1>. QED
  BY <1>1, <1>3, <1>4, <1>5

\* Every payload of an execution has an identifier.
LEMMA PayloadsIdentified ==
  \A r \in Round, c \in 1 .. Global, k \in Kind : CidOf(r, c, k) \in Cid
BY PayloadAssumption DEF CidOf, Kind

-----------------------------------------------------------------------------
(* Types and pins                                                          *)

LEMMA TypeInit ==
  ASSUME BatchInit
  PROVE  BatchTypeOK
<1>1. /\ stage = "training" /\ reason = "none" /\ round = 1 /\ included = {} /\ submitted = {}
      /\ client = 1 /\ position = 1 /\ batch = <<>>
  BY DEF BatchInit
<1>. QED
  BY <1>1, Numbers DEF BatchTypeOK, Stage

LEMMA TypeStep ==
  ASSUME BatchTypeOK, [BatchNext]_vars
  PROVE  BatchTypeOK'
<1>. USE DEF BatchTypeOK, Stage, ScriptStage
<1>1. CASE Aggregate
  BY <1>1, Numbers DEF Aggregate
<1>2. CASE Add \/ Retrieve \/ CallFails
  BY <1>2, Numbers DEF Add, Retrieve, CallFails
<1>3. CASE Pin
  BY <1>3, Numbers DEF Pin, Advance
<1>4. CASE RecordRound
  <2>1. batch' \in Seq(SUBSET Node)
    BY <1>4 DEF RecordRound
  <2>. QED
    BY <1>4, <2>1, Numbers DEF RecordRound
<1>5. CASE Deploy \/ ScriptReverts \/ ScriptDies
  BY <1>5 DEF Deploy, ScriptReverts, ScriptDies, FinalizeUnchanged
<1>6. CASE ScriptCreate \/ ScriptSubmit \/ ScriptClose \/ ScriptStart \/ ScriptPublish
  BY <1>6 DEF ScriptCreate, ScriptSubmit, ScriptClose, ScriptStart, ScriptPublish, FinalizeUnchanged
<1>7. CASE ScriptArchive
  BY <1>7, Numbers DEF ScriptArchive, FinalizeUnchanged
<1>8. CASE UNCHANGED vars
  BY <1>8 DEF vars, batchVars
<1>. QED
  BY <1>1, <1>2, <1>3, <1>4, <1>5, <1>6, <1>7, <1>8 DEF BatchNext

LEMMA PinStep ==
  ASSUME BatchTypeOK, PinsInv, Pin
  PROVE  PinnedSoFar'
<1>1. /\ client \in 1 .. Global /\ position \in Nat \ {0} /\ position \in DOMAIN KindsOf(client)
      /\ consumerPins' = consumerPins \cup {CidInHand} /\ included' = included /\ round' = round
      /\ included \subseteq Node /\ stage = "publishing"
  BY DEF Pin, Publishing, BatchTypeOK
<1>. SUFFICES ASSUME NEW c \in included \cup {Global}, NEW i \in DOMAIN KindsOf(c), Past(c, i)'
     PROVE  CidOf(round, c, KindsOf(c)[i]) \in consumerPins'
  BY <1>1 DEF PinnedSoFar
<1>2. c \in Nat /\ i \in Nat /\ client \in Nat /\ (c < client' \/ (c = client' /\ i < position'))
  BY <1>1, Numbers, KindFacts DEF Past
<1>3. Past(c, i) \/ (c = client /\ i = position)
  <2>1. CASE position < Len(KindsOf(client)) \/ client = Global
    <3>1. position' = position + 1 /\ client' = client
      BY <2>1 DEF Pin, Advance
    <3>. QED
      BY <1>1, <1>2, <3>1 DEF Past
  <2>2. CASE ~(position < Len(KindsOf(client)) \/ client = Global)
    <3>1. position' = 1 /\ client' \in 1 .. Global /\ Follows(client', client, included)
      BY <2>2 DEF Pin, Advance
    <3>2. c > client => client' <= c
      BY <1>1, <3>1 DEF Follows
    <3>3. i # 0
      BY KindFacts
    <3>4. c <= client
      BY <1>2, <3>1, <3>2, <3>3, Numbers
    <3>5. c = client => i <= position
      BY <1>1, <1>2, <2>2, KindFacts
    <3>. QED
      BY <1>1, <1>2, <3>4, <3>5 DEF Past
  <2>. QED
    BY <2>1, <2>2
<1>4. Past(c, i) => CidOf(round, c, KindsOf(c)[i]) \in consumerPins
  BY <1>1 DEF PinsInv, PinnedSoFar
<1>5. c = client /\ i = position => CidOf(round, c, KindsOf(c)[i]) = CidInHand
  BY DEF CidInHand
<1>. QED
  BY <1>1, <1>3, <1>4, <1>5

LEMMA RecordRoundPins ==
  ASSUME BatchTypeOK, PinsInv, RecordRound
  PROVE  PinsInv'
<1>1. /\ stage = "publishing" /\ client = Global /\ position = 3
      /\ batch' = Append(batch, included) /\ UNCHANGED <<included, consumerPins>>
      /\ batch \in Seq(SUBSET Node) /\ included \subseteq Node /\ round \in Round
  <2>1. Len(GlobalKinds) = 2
    BY DEF GlobalKinds
  <2>2. position = Len(GlobalKinds) + 1 /\ client = Global
    BY DEF RecordRound
  <2>. QED
    BY <2>1, <2>2 DEF RecordRound, BatchTypeOK
<1>2. Len(batch) = round - 1 /\ Len(batch') = round /\ DOMAIN batch' = 1 .. round
  BY <1>1, Numbers DEF PinsInv
<1>3. batch'[round] = included /\ \A r \in DOMAIN batch : batch'[r] = batch[r]
  BY <1>1, <1>2, Numbers
<1>4. BatchPinned'
  <2>. SUFFICES ASSUME NEW r \in DOMAIN batch', NEW c \in batch'[r] \cup {Global},
                       NEW i \in DOMAIN KindsOf(c)
       PROVE  CidOf(r, c, KindsOf(c)[i]) \in consumerPins
    BY <1>1 DEF BatchPinned
  <2>1. CASE r = round
    <3>1. c \in included \cup {Global}
      BY <1>3, <2>1
    <3>2. Past(c, i)
      <4>1. CASE c = Global
        <5>1. i \in 1 .. 2
          BY <4>1, KindFacts
        <5>. QED
          BY <1>1, <4>1, <5>1 DEF Past
      <4>2. CASE c # Global
        <5>1. c \in 1 .. NumNodes
          BY <1>1, <3>1, <4>2, Numbers
        <5>. QED
          BY <1>1, <5>1, Numbers DEF Past
      <4>. QED
        BY <4>1, <4>2
    <3>. QED
      BY <1>1, <2>1, <3>1, <3>2 DEF PinsInv, PinnedSoFar
  <2>2. CASE r # round
    <3>1. r \in DOMAIN batch
      BY <1>1, <1>2, <2>2, Numbers
    <3>. QED
      BY <1>3, <3>1 DEF PinsInv, BatchPinned
  <2>. QED
    BY <2>1, <2>2
<1>5. CASE round < LastRound
  <2>1. stage' = "training" /\ round' = round + 1
    BY <1>5 DEF RecordRound
  <2>. QED
    BY <1>1, <1>2, <1>4, <2>1, Numbers DEF PinsInv, ScriptStage
<1>6. CASE ~(round < LastRound)
  <2>1. stage' = "deploying" /\ round = LastRound
    BY <1>1, <1>6, Numbers DEF RecordRound
  <2>. QED
    BY <1>2, <1>4, <2>1 DEF PinsInv, ScriptStage
<1>. QED
  BY <1>5, <1>6

LEMMA PinsStep ==
  ASSUME BatchTypeOK, PinsInv, [BatchNext]_vars
  PROVE  PinsInv'
<1>1. CASE Aggregate
  <2>1. /\ stage = "training" /\ stage' = "publishing" /\ position' = 1
        /\ included' \in SUBSET Node /\ client' \in 1 .. Global /\ Follows(client', 0, included')
        /\ UNCHANGED <<round, batch, consumerPins>>
    BY <1>1 DEF Aggregate
  <2>2. ASSUME NEW c \in included' \cup {Global}, NEW i \in DOMAIN KindsOf(c)
        PROVE  ~Past(c, i)'
    <3>1. c \in Nat /\ c > 0 /\ i \in Nat /\ i # 0
      BY <2>1, Numbers, KindFacts
    <3>2. client' <= c
      BY <2>1, <3>1 DEF Follows
    <3>. QED
      BY <2>1, <3>1, <3>2 DEF Past
  <2>3. PinnedSoFar'
    BY <2>2 DEF PinnedSoFar
  <2>4. BatchPinned'
    BY <2>1 DEF PinsInv, BatchPinned
  <2>. QED
    BY <2>1, <2>3, <2>4 DEF PinsInv, ScriptStage
<1>2. CASE Pin
  <2>1. /\ stage' = stage /\ stage = "publishing" /\ consumerPins \subseteq consumerPins'
        /\ UNCHANGED <<round, batch>>
    BY <1>2 DEF Pin, Publishing
  <2>2. BatchPinned'
    BY <2>1 DEF PinsInv, BatchPinned
  <2>. QED
    BY <1>2, <2>1, <2>2, PinStep DEF PinsInv, ScriptStage
<1>3. CASE RecordRound
  BY <1>3, RecordRoundPins
<1>4. CASE Add \/ Retrieve
  <2>1. UNCHANGED <<stage, round, included, client, position, consumerPins, batch>>
    BY <1>4 DEF Add, Retrieve
  <2>. QED
    BY <2>1 DEF PinsInv, BatchPinned, PinnedSoFar, Past
<1>5. CASE ~Aggregate /\ ~Pin /\ ~RecordRound /\ ~Add /\ ~Retrieve
  <2>1. /\ UNCHANGED <<batch, consumerPins>>
        /\ stage' \in {"training", "publishing"} => UNCHANGED <<stage, round, included, client, position>>
        /\ stage' \in ScriptStage \cup {"deploying", "evidence"} =>
             stage \in ScriptStage \cup {"deploying", "evidence"}
    <3>1. CASE CallFails \/ ScriptReverts \/ ScriptDies
      BY <3>1 DEF CallFails, ScriptReverts, ScriptDies, FinalizeUnchanged, ScriptStage
    <3>2. CASE Deploy \/ ScriptCreate \/ ScriptSubmit \/ ScriptClose
      BY <3>2 DEF Deploy, ScriptCreate, ScriptSubmit, ScriptClose, FinalizeUnchanged, ScriptStage
    <3>3. CASE ScriptStart \/ ScriptPublish \/ ScriptArchive
      BY <3>3 DEF ScriptStart, ScriptPublish, ScriptArchive, FinalizeUnchanged, ScriptStage
    <3>4. CASE UNCHANGED vars
      BY <3>4 DEF vars, batchVars
    <3>. QED
      BY <1>5, <3>1, <3>2, <3>3, <3>4 DEF BatchNext
  <2>2. BatchPinned'
    BY <2>1 DEF PinsInv, BatchPinned
  <2>3. stage' = "publishing" => PinnedSoFar'
    BY <2>1 DEF PinsInv, PinnedSoFar, Past
  <2>4. stage' \in {"training", "publishing"} => Len(batch') = round' - 1
    BY <2>1 DEF PinsInv
  <2>5. stage' \in ScriptStage \cup {"deploying", "evidence"} => Len(batch') = LastRound
    BY <2>1 DEF PinsInv
  <2>. QED
    BY <2>2, <2>3, <2>4, <2>5 DEF PinsInv
<1>. QED
  BY <1>1, <1>2, <1>3, <1>4, <1>5

-----------------------------------------------------------------------------
(* The script and its ledger                                               *)

LEMMA ScriptInit ==
  ASSUME BatchInit
  PROVE  ScriptInv
<1>1. LedgerFresh
  BY DEF BatchInit, Init, ACLInit, LedgerFresh
<1>2. stage = "training"
  BY DEF BatchInit
<1>. QED
  BY <1>1, <1>2 DEF ScriptInv, ScriptStage

\* What a step of the script that is neither a submission nor a publication keeps.
LEMMA EvidenceFollows ==
  ASSUME UNCHANGED evidenceVars, batch' = batch,
         UsedAreHeard, RecordsHeard, PublishedFromBatch,
         \A r \in Round : Heard(r)' = Heard(r) /\ (Published(r)' <=> Published(r))
  PROVE  UsedAreHeard' /\ RecordsHeard' /\ PublishedFromBatch'
<1>. USE DEF evidenceVars
<1>1. UsedAreHeard'
  BY DEF UsedAreHeard
<1>2. RecordsHeard'
  <2>1. DOMAIN records' = {k \in Key : k[1] \in Heard(k[2])'}
    <3>1. \A k \in Key : k[2] \in Round
      BY DEF Key
    <3>. QED
      BY <3>1 DEF RecordsHeard
  <2>2. \A r \in Round : approvedModelCidsByRound'[r] = {CidOf(r, n, "model") : n \in Heard(r)'}
    BY DEF RecordsHeard
  <2>. QED
    BY <2>1, <2>2 DEF RecordsHeard
<1>3. PublishedFromBatch'
  BY DEF PublishedFromBatch, Participants
<1>. QED
  BY <1>1, <1>2, <1>3

\* The rounds of the batch are those of the ledger, and their nodes are nodes.
LEMMA BatchRoundsAre ==
  ASSUME BatchTypeOK, PinsInv, stage \in ScriptStage \cup {"deploying", "evidence"}
  PROVE  DOMAIN batch = Round /\ \A r \in Round : batch[r] \subseteq Node
BY Numbers DEF BatchTypeOK, PinsInv

LEMMA DeployFollows ==
  ASSUME BatchTypeOK, PinsInv, ScriptInv, Deploy
  PROVE  ScriptInv'
<1>1. /\ stage = "deploying" /\ stage' = "creating" /\ round = 1 /\ round' = round /\ batch' = batch
      /\ LedgerFresh /\ UNCHANGED <<roundStates, evidenceVars>>
      /\ verifierContract' = Passthrough /\ registeredNodes' = UNION {batch[r] : r \in DOMAIN batch}
  BY DEF Deploy, ScriptInv, FinalizeUnchanged
<1>2. \A r \in Round : Heard(r)' = {} /\ ~Published(r)'
  BY <1>1, Numbers DEF Heard, Published
<1>3. Deployed'
  <2>1. HasRole("VERIFIER", Submitter)' /\ HasRole("AGGREGATOR", Aggregator)'
    BY <1>1, ContractRoleAssumption DEF Deploy, LedgerFresh, HasRole, ContractRole
  <2>2. verifierContract' # NoVerifier
    BY <1>1, BatchAssumption, NoVerifierAssumption
  <2>. QED
    BY <1>1, <2>1, <2>2 DEF Deployed
<1>4. roundStates' = [r \in Round |-> StateOf(r)']
  <2>1. \A r \in Round : StateOf(r)' = "Uncreated"
    BY <1>1, Numbers DEF StateOf
  <2>. QED
    BY <1>1, <2>1 DEF LedgerFresh
<1>5. UsedAreHeard' /\ RecordsHeard' /\ PublishedFromBatch'
  <2>1. /\ DOMAIN records' = {} /\ DOMAIN globalModels' = {} /\ usedCids' = {}
        /\ approvedModelCidsByRound' = [r \in Round |-> {}]
    BY <1>1 DEF LedgerFresh, evidenceVars
  <2>2. UsedAreHeard'
    BY <2>1 DEF UsedAreHeard
  <2>3. RecordsHeard'
    <3>1. \A k \in Key : Heard(k[2])' = {}
      BY <1>2 DEF Key
    <3>. QED
      BY <1>2, <2>1, <3>1 DEF RecordsHeard
  <2>4. PublishedFromBatch'
    BY <1>2, <2>1 DEF PublishedFromBatch
  <2>. QED
    BY <2>2, <2>3, <2>4
<1>6. DOMAIN approvedModelCidsByRound' = Round /\ DOMAIN roundRecordKeys' = Round
  BY <1>1 DEF LedgerFresh, evidenceVars
<1>7. LedgerFollows'
  BY <1>3, <1>4, <1>5, <1>6 DEF LedgerFollows
<1>. QED
  BY <1>1, <1>7 DEF ScriptInv, SubmittedFromBatch, ScriptStage

\* The steps that only move the round in hand.
LEMMA TransitionFollows ==
  ASSUME BatchTypeOK, PinsInv, ScriptInv,
         ScriptCreate \/ ScriptClose \/ ScriptStart \/ ScriptArchive
  PROVE  ScriptInv'
<1>1. /\ stage \in ScriptStage /\ batch' = batch /\ LedgerFollows /\ SubmittedFromBatch
      /\ UNCHANGED <<roles, adminCount, verifierContract, registeredNodes>> /\ UNCHANGED evidenceVars
      /\ round \in 1 .. LastRound
  BY Numbers DEF ScriptCreate, ScriptClose, ScriptStart, ScriptArchive, ScriptInv, ScriptStage, FinalizeUnchanged,
    CreateRound, CloseSubmissions, StartAggregation, ArchiveRound, RoundTransition, BatchTypeOK
<1>2. /\ \A r \in Round : Heard(r)' = Heard(r) /\ (Published(r)' <=> Published(r))
      /\ \A r \in Round : roundStates'[r] = StateOf(r)'
      /\ DOMAIN roundStates' = Round
      /\ SubmittedFromBatch' /\ stage' \in ScriptStage \cup {"evidence"}
  <2>. USE DEF ScriptStage, SubmittedFromBatch, CreateRound, CloseSubmissions, StartAggregation, ArchiveRound,
         RoundTransition, MoveRound
  <2>1. roundStates = [r \in Round |-> StateOf(r)]
    BY <1>1 DEF LedgerFollows
  <2>2. CASE ScriptCreate
    <3>1. /\ stage = "creating" /\ stage' = "submitting" /\ submitted' = {} /\ round' = round
          /\ roundStates' = [roundStates EXCEPT ![round] = "Open"]
      BY <2>2 DEF ScriptCreate
    <3>. QED
      BY <1>1, <2>1, <3>1, Numbers DEF StateOf, Heard, Published
  <2>3. CASE ScriptClose
    <3>1. /\ stage = "submitting" /\ stage' = "starting" /\ submitted' = submitted /\ round' = round
          /\ roundStates' = [roundStates EXCEPT ![round] = "SubmissionClosed"]
          /\ submitted = batch[round]
      BY <1>1, <2>3 DEF ScriptClose, Unsubmitted
    <3>. QED
      BY <1>1, <2>1, <3>1, Numbers DEF StateOf, Heard, Published
  <2>4. CASE ScriptStart
    <3>1. /\ stage = "starting" /\ stage' = "posting" /\ submitted' = submitted /\ round' = round
          /\ roundStates' = [roundStates EXCEPT ![round] = "AggregationStarted"]
      BY <2>4 DEF ScriptStart
    <3>. QED
      BY <1>1, <2>1, <3>1, Numbers DEF StateOf, Heard, Published
  <2>5. CASE ScriptArchive
    <3>1. /\ stage = "archiving" /\ submitted' = submitted /\ submitted = batch[round]
          /\ roundStates' = [roundStates EXCEPT ![round] = "Archived"]
      BY <1>1, <2>5 DEF ScriptArchive
    <3>2. CASE round < LastRound
      <4>1. stage' = "creating" /\ round' = round + 1
        BY <2>5, <3>2 DEF ScriptArchive
      <4>2. \A r \in Round : Heard(r)' = Heard(r) /\ (Published(r)' <=> Published(r))
        BY <1>1, <3>1, <4>1, Numbers DEF Heard, Published
      <4>3. \A r \in Round : roundStates'[r] = StateOf(r)'
        BY <1>1, <2>1, <3>1, <4>1, Numbers DEF StateOf
      <4>. QED
        BY <2>1, <3>1, <4>1, <4>2, <4>3
    <3>3. CASE ~(round < LastRound)
      <4>1. stage' = "evidence" /\ round' = round /\ round = LastRound
        BY <1>1, <2>5, <3>3, Numbers DEF ScriptArchive
      <4>2. \A r \in Round : Heard(r)' = Heard(r) /\ (Published(r)' <=> Published(r))
        BY <1>1, <3>1, <4>1, Numbers DEF Heard, Published
      <4>3. \A r \in Round : roundStates'[r] = StateOf(r)'
        BY <1>1, <2>1, <3>1, <4>1, Numbers DEF StateOf
      <4>. QED
        BY <1>1, <2>1, <3>1, <4>1, <4>2, <4>3
    <3>. QED
      BY <3>2, <3>3
  <2>. QED
    BY <2>2, <2>3, <2>4, <2>5
<1>3. UsedAreHeard' /\ RecordsHeard' /\ PublishedFromBatch'
  BY <1>1, <1>2, EvidenceFollows DEF LedgerFollows
<1>4. Deployed'
  BY <1>1 DEF LedgerFollows, Deployed, HasRole
<1>5. roundStates' = [r \in Round |-> StateOf(r)']
  <2>1. roundStates' = [r \in Round |-> roundStates'[r]]
    <3>1. roundStates = [r \in Round |-> StateOf(r)]
      BY <1>1 DEF LedgerFollows
    <3>. QED
      BY <3>1 DEF ScriptCreate, ScriptClose, ScriptStart, ScriptArchive, CreateRound, CloseSubmissions,
        StartAggregation, ArchiveRound, RoundTransition, MoveRound
  <2>. QED
    BY <1>2, <2>1
<1>6. LedgerFollows'
  BY <1>1, <1>3, <1>4, <1>5 DEF LedgerFollows, evidenceVars
<1>. QED
  BY <1>2, <1>6 DEF ScriptInv, ScriptStage

\* The ledger accepts every submission the script makes.
LEMMA SubmissionsAccepted ==
  ASSUME BatchTypeOK, PinsInv, ScriptInv, stage = "submitting", NEW n \in Node, NextNode(n)
  PROVE  SubmissionAccepted(Submitter, n, round, SubmissionOf(round, n), NoContext)
<1>. DEFINE cids == SubmissionOf(round, n)
<1>1. /\ LedgerFollows /\ round \in Round /\ n \in batch[round] /\ n \notin submitted
      /\ DOMAIN batch = Round /\ n \in 1 .. Global /\ n # Global
  BY BatchRoundsAre, Numbers DEF ScriptInv, ScriptStage, BatchTypeOK, NextNode, Unsubmitted
<1>2. \A a \in Artifact : cids[a] = CidOf(round, n, a)
  BY DEF SubmissionOf
<1>3. NoEmptyCid(cids)
  <2>1. \A a \in Artifact : CidOf(round, n, a) \in Cid
    BY <1>1, PayloadsIdentified DEF Kind
  <2>. QED
    BY <1>2, <2>1, EmptyCidAssumption DEF NoEmptyCid, CidsOf
<1>4. Heard(round) = submitted /\ StateOf(round) = "Open"
  BY <1>1, Numbers DEF Heard, StateOf
<1>. HIDE DEF cids
<1>5. FreshCids(cids)
  <2>1. ASSUME NEW a \in Artifact PROVE CidOf(round, n, a) \notin usedCids
    BY <1>1, <1>4, CidsApart DEF LedgerFollows, UsedAreHeard
  <2>2. \A a, b \in Artifact : cids[a] = cids[b] => a = b
    BY <1>2, CidsApart
  <2>. QED
    BY <1>2, <2>1, <2>2 DEF FreshCids, CidsOf
<1>6. NotSubmittedBefore(n, round)
  BY <1>1, <1>4 DEF LedgerFollows, RecordsHeard, NotSubmittedBefore
<1>7. roundStates[round] = "Open"
  BY <1>1, <1>4 DEF LedgerFollows
<1>8. HasRole("VERIFIER", Submitter) /\ verifierContract # NoVerifier /\ n \in registeredNodes
  BY <1>1 DEF LedgerFollows, Deployed
<1>. QED
  BY <1>3, <1>5, <1>6, <1>7, <1>8 DEF SubmissionAccepted, ContextMatches, cids

\* The ledger accepts the publication of a round that included somebody.
LEMMA PublicationsAccepted ==
  ASSUME BatchTypeOK, PinsInv, ScriptInv, stage = "posting", batch[round] # {}
  PROVE  PublicationAccepted(Aggregator, round, GlobalModelCid, ReportCid, Participants(round))
<1>1. /\ LedgerFollows /\ round \in Round /\ submitted = batch[round]
      /\ Global \in 1 .. Global
  BY Numbers DEF ScriptInv, ScriptStage, BatchTypeOK, SubmittedFromBatch
<1>2. Heard(round) = batch[round] /\ StateOf(round) = "AggregationStarted" /\ ~Published(round)
  BY <1>1, Numbers DEF Heard, StateOf, Published
<1>3. EmptyCid \notin {GlobalModelCid, ReportCid}
  BY <1>1, PayloadsIdentified, EmptyCidAssumption DEF GlobalModelCid, ReportCid, Kind
<1>4. {GlobalModelCid, ReportCid} \cap usedCids = {}
  BY <1>1, <1>2, CidsApart DEF LedgerFollows, UsedAreHeard, GlobalModelCid, ReportCid
<1>5. GlobalModelCid # ReportCid
  BY CidsApart DEF GlobalModelCid, ReportCid
<1>6. Participants(round) # {} /\ ParticipantsApproved(round, Participants(round))
  BY <1>1, <1>2 DEF LedgerFollows, RecordsHeard, Participants, ParticipantsApproved
<1>7. roundStates[round] = "AggregationStarted" /\ round \notin DOMAIN globalModels
  BY <1>1, <1>2 DEF LedgerFollows, PublishedFromBatch
<1>8. HasRole("AGGREGATOR", Aggregator)
  BY <1>1 DEF LedgerFollows, Deployed
<1>. QED
  BY <1>3, <1>4, <1>5, <1>6, <1>7, <1>8 DEF PublicationAccepted

LEMMA SubmissionFollows ==
  ASSUME BatchTypeOK, PinsInv, ScriptInv, ScriptSubmit
  PROVE  ScriptInv'
<1>1. PICK n \in Node :
        /\ NextNode(n) /\ submitted' = submitted \cup {n}
        /\ SubmitModel(Submitter, n, round, SubmissionOf(round, n), NoContext, TRUE)
  BY DEF ScriptSubmit
<1>. DEFINE cids == SubmissionOf(round, n)
<1>2. /\ stage = "submitting" /\ stage' = stage /\ round' = round /\ batch' = batch
      /\ LedgerFollows /\ round \in Round /\ n \in batch[round]
      /\ submitted \subseteq batch[round] /\ n \in 1 .. Global /\ n # Global
  BY <1>1, Numbers DEF ScriptSubmit, FinalizeUnchanged, ScriptInv, ScriptStage, BatchTypeOK, SubmittedFromBatch,
    NextNode, Unsubmitted
<1>3. /\ UNCHANGED <<roles, adminCount, verifierContract, registeredNodes, roundStates, globalModels>>
      /\ usedCids' = usedCids \cup CidsOf(cids)
      /\ records' = Store(records, <<n, round>>, [cids |-> cids, approval |-> "Approved"])
      /\ roundRecordKeys' = [roundRecordKeys EXCEPT ![round] = Append(@, <<n, round>>)]
      /\ approvedModelCidsByRound' =
           [approvedModelCidsByRound EXCEPT ![round] = @ \cup {cids["model"]}]
  BY <1>1 DEF SubmitModel, ApproveModel
<1>4. CidsOf(cids) = {CidOf(round, n, a) : a \in Artifact} /\ cids["model"] = CidOf(round, n, "model")
  BY ArtifactAssumption DEF SubmissionOf, CidsOf
<1>. HIDE DEF cids
<1>5. /\ Heard(round) = submitted /\ Heard(round)' = submitted \cup {n}
      /\ \A r \in Round : Heard(r)' = IF r = round THEN submitted \cup {n} ELSE Heard(r)
      /\ \A r \in Round : Published(r)' <=> Published(r)
  BY <1>1, <1>2, Numbers DEF Heard, Published
<1>6. UsedAreHeard'
  <2>1. ASSUME NEW cid \in usedCids
        PROVE  \E r \in Round, c \in 1 .. Global : \E i \in DOMAIN KindsOf(c) :
                 /\ cid = CidOf(r, c, KindsOf(c)[i])
                 /\ IF c = Global THEN Published(r)' ELSE c \in Heard(r)'
    <3>1. PICK r \in Round, c \in 1 .. Global : \E i \in DOMAIN KindsOf(c) :
            /\ cid = CidOf(r, c, KindsOf(c)[i])
            /\ IF c = Global THEN Published(r) ELSE c \in Heard(r)
      BY <1>2, <2>1 DEF LedgerFollows, UsedAreHeard
    <3>2. Heard(r) \subseteq Heard(r)' /\ (Published(r)' <=> Published(r))
      <4>1. r = round => Heard(r) = submitted
        BY <1>5
      <4>2. Heard(r)' = IF r = round THEN submitted \cup {n} ELSE Heard(r)
        BY <1>5
      <4>. QED
        BY <1>5, <4>1, <4>2
    <3>. QED
      BY <3>1, <3>2
  <2>2. ASSUME NEW a \in Artifact
        PROVE  \E r \in Round, c \in 1 .. Global : \E i \in DOMAIN KindsOf(c) :
                 /\ CidOf(round, n, a) = CidOf(r, c, KindsOf(c)[i])
                 /\ IF c = Global THEN Published(r)' ELSE c \in Heard(r)'
    <3>1. KindsOf(n) = Kinds
      BY KindFacts
    <3>2. PICK i \in DOMAIN Kinds : Kinds[i] = a
      BY BatchAssumption
    <3>. QED
      BY <1>2, <1>5, <3>1, <3>2
  <2>. QED
    BY <1>3, <1>4, <2>1, <2>2 DEF UsedAreHeard
<1>7. RecordsHeard'
  <2>1. DOMAIN records' = {k \in Key : k[1] \in Heard(k[2])'}
    <3>1. DOMAIN records' = DOMAIN records \cup {<<n, round>>}
      BY <1>3 DEF Store
    <3>2. DOMAIN records = {k \in Key : k[1] \in Heard(k[2])}
      BY <1>2 DEF LedgerFollows, RecordsHeard
    <3>3. ASSUME NEW k \in Key
          PROVE  k[1] \in Heard(k[2])' <=> (k[1] \in Heard(k[2]) \/ k = <<n, round>>)
      <4>1. k[1] \in Node /\ k[2] \in Round /\ k = <<k[1], k[2]>>
        BY DEF Key
      <4>2. Heard(k[2])' = IF k[2] = round THEN submitted \cup {n} ELSE Heard(k[2])
        BY <1>5, <4>1
      <4>3. k[2] = round => Heard(k[2]) = submitted
        BY <1>5
      <4>. QED
        BY <4>1, <4>2, <4>3
    <3>4. <<n, round>> \in Key
      BY <1>2 DEF Key
    <3>. QED
      BY <3>1, <3>2, <3>3, <3>4
  <2>2. ASSUME NEW r \in Round
        PROVE  approvedModelCidsByRound'[r] = {CidOf(r, m, "model") : m \in Heard(r)'}
    <3>1. /\ approvedModelCidsByRound[r] = {CidOf(r, m, "model") : m \in Heard(r)}
          /\ DOMAIN approvedModelCidsByRound = Round
      BY <1>2 DEF LedgerFollows, RecordsHeard
    <3>2. Heard(r)' = (IF r = round THEN submitted \cup {n} ELSE Heard(r)) /\ Heard(round) = submitted
      BY <1>5
    <3>3. CASE r = round
      <4>1. approvedModelCidsByRound'[r] = approvedModelCidsByRound[r] \cup {CidOf(r, n, "model")}
        BY <1>3, <1>4, <3>1, <3>3
      <4>2. Heard(r) = submitted
        BY <3>2, <3>3
      <4>. QED
        BY <3>1, <3>2, <3>3, <4>1, <4>2
    <3>4. CASE r # round
      BY <1>3, <3>1, <3>2, <3>4
    <3>. QED
      BY <3>3, <3>4
  <2>. QED
    BY <2>1, <2>2 DEF RecordsHeard
<1>8. PublishedFromBatch'
  BY <1>2, <1>3, <1>5 DEF LedgerFollows, PublishedFromBatch, Participants
<1>9. Deployed' /\ roundStates' = [r \in Round |-> StateOf(r)']
  <2>1. \A r \in Round : StateOf(r)' = StateOf(r)
    BY <1>2 DEF StateOf
  <2>. QED
    BY <1>2, <1>3, <2>1 DEF LedgerFollows, Deployed, HasRole
<1>10. DOMAIN approvedModelCidsByRound' = Round /\ DOMAIN roundRecordKeys' = Round
  BY <1>2, <1>3 DEF LedgerFollows
<1>11. LedgerFollows'
  BY <1>6, <1>7, <1>8, <1>9, <1>10 DEF LedgerFollows
<1>. QED
  BY <1>1, <1>2, <1>11 DEF ScriptInv, SubmittedFromBatch, ScriptStage

LEMMA PublicationFollows ==
  ASSUME BatchTypeOK, PinsInv, ScriptInv, ScriptPublish
  PROVE  ScriptInv'
<1>1. /\ stage = "posting" /\ stage' = "archiving" /\ round' = round /\ batch' = batch
      /\ submitted' = submitted /\ submitted = batch[round]
      /\ LedgerFollows /\ round \in Round /\ Global \in 1 .. Global
  BY Numbers DEF ScriptPublish, FinalizeUnchanged, ScriptInv, ScriptStage, BatchTypeOK, SubmittedFromBatch
<1>2. /\ UNCHANGED <<roles, adminCount, verifierContract, registeredNodes, records, roundRecordKeys,
                     approvedModelCidsByRound>>
      /\ usedCids' = usedCids \cup {GlobalModelCid, ReportCid}
      /\ roundStates' = [roundStates EXCEPT ![round] = "Published"]
      /\ globalModels' = Store(globalModels, round,
           [globalModelCid |-> GlobalModelCid, reportCid |-> ReportCid, participants |-> Participants(round)])
  BY DEF ScriptPublish, PublishGlobalModel, MoveRound
<1>3. /\ \A r \in Round : Heard(r)' = Heard(r)
      /\ \A r \in Round : Published(r)' <=> Published(r) \/ r = round
  BY <1>1, Numbers DEF Heard, Published
<1>4. UsedAreHeard'
  <2>1. ASSUME NEW cid \in usedCids
        PROVE  \E r \in Round, c \in 1 .. Global : \E i \in DOMAIN KindsOf(c) :
                 /\ cid = CidOf(r, c, KindsOf(c)[i])
                 /\ IF c = Global THEN Published(r)' ELSE c \in Heard(r)'
    BY <1>1, <1>3, <2>1 DEF LedgerFollows, UsedAreHeard
  <2>2. \A i \in 1 .. 2 :
          \E r \in Round, c \in 1 .. Global : \E j \in DOMAIN KindsOf(c) :
             /\ CidOf(round, Global, KindsOf(Global)[i]) = CidOf(r, c, KindsOf(c)[j])
             /\ IF c = Global THEN Published(r)' ELSE c \in Heard(r)'
    BY <1>1, <1>3, KindFacts
  <2>3. /\ GlobalModelCid = CidOf(round, Global, KindsOf(Global)[1])
        /\ ReportCid = CidOf(round, Global, KindsOf(Global)[2])
    BY KindFacts DEF GlobalModelCid, ReportCid
  <2>4. ASSUME NEW cid \in {GlobalModelCid, ReportCid}
        PROVE  \E i \in 1 .. 2 : cid = CidOf(round, Global, KindsOf(Global)[i])
    BY <2>3
  <2>. QED
    BY <1>2, <2>1, <2>2, <2>4 DEF UsedAreHeard
<1>5. RecordsHeard'
  <2>1. \A k \in Key : k[2] \in Round
    BY DEF Key
  <2>. QED
    BY <1>1, <1>2, <1>3, <2>1 DEF LedgerFollows, RecordsHeard
<1>6. PublishedFromBatch'
  BY <1>1, <1>2, <1>3 DEF LedgerFollows, PublishedFromBatch, Participants, Store
<1>7. Deployed' /\ roundStates' = [r \in Round |-> StateOf(r)']
  <2>1. \A r \in Round : StateOf(r)' = IF r = round THEN "Published" ELSE StateOf(r)
    BY <1>1, Numbers DEF StateOf
  <2>. QED
    BY <1>1, <1>2, <2>1 DEF LedgerFollows, Deployed, HasRole
<1>8. LedgerFollows'
  BY <1>1, <1>2, <1>4, <1>5, <1>6, <1>7 DEF LedgerFollows
<1>. QED
  BY <1>1, <1>8 DEF ScriptInv, SubmittedFromBatch, ScriptStage

LEMMA ScriptStep ==
  ASSUME BatchTypeOK, PinsInv, ScriptInv, [BatchNext]_vars
  PROVE  ScriptInv'
<1>1. CASE Aggregate \/ Add \/ Retrieve \/ Pin \/ RecordRound
  <2>1. /\ UNCHANGED ledgerVars /\ stage \in {"training", "publishing"}
        /\ stage' \in {"training", "publishing", "deploying"}
        /\ stage' = "deploying" => round' = 1
    BY <1>1 DEF Aggregate, Add, Retrieve, Pin, RecordRound, Publishing
  <2>2. LedgerFresh'
    BY <2>1 DEF ScriptInv, LedgerFresh, ledgerVars
  <2>. QED
    BY <2>1, <2>2 DEF ScriptInv, ScriptStage
<1>2. CASE Deploy
  BY <1>2, DeployFollows
<1>3. CASE ScriptCreate \/ ScriptClose \/ ScriptStart \/ ScriptArchive
  BY <1>3, TransitionFollows
<1>4. CASE ScriptSubmit
  BY <1>4, SubmissionFollows
<1>5. CASE ScriptPublish
  BY <1>5, PublicationFollows
<1>6. CASE CallFails \/ ScriptReverts \/ ScriptDies
  BY <1>6 DEF CallFails, ScriptReverts, ScriptDies, ScriptInv, ScriptStage
<1>7. CASE UNCHANGED vars
  <2>1. LedgerFresh => LedgerFresh'
    BY <1>7 DEF vars, ledgerVars, batchVars, LedgerFresh
  <2>2. /\ \A r \in Round : Heard(r)' = Heard(r) /\ (Published(r)' <=> Published(r))
        /\ \A r \in Round : StateOf(r)' = StateOf(r)
    BY <1>7 DEF vars, batchVars, Heard, Published, StateOf
  <2>3. LedgerFollows => LedgerFollows'
    <3>1. UNCHANGED evidenceVars /\ batch' = batch
      BY <1>7 DEF vars, ledgerVars, batchVars, evidenceVars
    <3>2. LedgerFollows => UsedAreHeard' /\ RecordsHeard' /\ PublishedFromBatch'
      BY <2>2, <3>1, EvidenceFollows DEF LedgerFollows
    <3>. QED
      BY <1>7, <2>2, <3>2 DEF vars, ledgerVars, batchVars, LedgerFollows, Deployed, HasRole
  <2>4. SubmittedFromBatch => SubmittedFromBatch'
    BY <1>7 DEF vars, batchVars, SubmittedFromBatch
  <2>. QED
    BY <1>7, <2>1, <2>3, <2>4 DEF vars, batchVars, ScriptInv
<1>. QED
  BY <1>1, <1>2, <1>3, <1>4, <1>5, <1>6, <1>7 DEF BatchNext

\* What the ledger refuses is never a submission, and a publication only of a round
\* that included nobody.
LEMMA RevertsStep ==
  ASSUME BatchInv, [BatchNext]_vars
  PROVE  OnlyEmptyRoundsRevert' /\ (reason' # "none" => stage' = "raised")
<1>. USE DEF OnlyEmptyRoundsRevert
<1>1. CASE ScriptReverts
  <2>1. stage' = "raised" /\ UNCHANGED <<round, batch>>
    BY <1>1 DEF ScriptReverts, FinalizeUnchanged
  <2>2. batch[round] = {}
    BY <1>1, SubmissionsAccepted, PublicationsAccepted DEF ScriptReverts, BatchInv
  <2>. QED
    BY <2>1, <2>2
<1>2. CASE CallFails \/ ScriptDies
  BY <1>2 DEF CallFails, ScriptDies
<1>3. CASE UNCHANGED vars
  BY <1>3 DEF BatchInv, vars, batchVars
<1>4. CASE Aggregate \/ Add \/ Retrieve \/ Pin \/ RecordRound \/ Deploy
  <2>1. stage # "raised" /\ reason' = reason
    BY <1>4 DEF Aggregate, Add, Retrieve, Pin, RecordRound, Deploy, Publishing
  <2>. QED
    BY <2>1 DEF BatchInv
<1>5. CASE ScriptCreate \/ ScriptSubmit \/ ScriptClose \/ ScriptStart \/ ScriptPublish \/ ScriptArchive
  <2>1. stage # "raised" /\ reason' = reason
    BY <1>5 DEF ScriptCreate, ScriptSubmit, ScriptClose, ScriptStart, ScriptPublish, ScriptArchive
  <2>. QED
    BY <2>1 DEF BatchInv
<1>. QED
  BY <1>1, <1>2, <1>3, <1>4, <1>5 DEF BatchNext

LEMMA EvidenceFromInvariant == BatchInv => EvidenceComplete
<1>. SUFFICES ASSUME BatchInv, stage = "evidence"
     PROVE  /\ \A r \in Round :
                 /\ roundStates[r] = "Archived"
                 /\ globalModels[r].participants = Participants(r)
                 /\ {key[1] : key \in {k \in DOMAIN records : k[2] = r}} = batch[r]
            /\ usedCids \subseteq consumerPins
  BY DEF EvidenceComplete, Participants
<1>1. /\ LedgerFollows /\ submitted = batch[round] /\ round = LastRound
      /\ DOMAIN batch = Round /\ \A r \in Round : batch[r] \subseteq Node
  BY BatchRoundsAre DEF BatchInv, ScriptInv, SubmittedFromBatch
<1>2. \A r \in Round : Heard(r) = batch[r] /\ Published(r) /\ StateOf(r) = "Archived"
  BY <1>1, Numbers DEF Heard, Published, StateOf
<1>3. ASSUME NEW r \in Round
      PROVE  /\ roundStates[r] = "Archived"
             /\ globalModels[r].participants = Participants(r)
             /\ {key[1] : key \in {k \in DOMAIN records : k[2] = r}} = batch[r]
  <2>1. roundStates[r] = "Archived"
    BY <1>1, <1>2 DEF LedgerFollows
  <2>2. globalModels[r].participants = Participants(r)
    BY <1>1, <1>2 DEF LedgerFollows, PublishedFromBatch
  <2>3. DOMAIN records = {k \in Key : k[1] \in batch[k[2]]}
    <3>1. \A k \in Key : Heard(k[2]) = batch[k[2]]
      BY <1>2 DEF Key
    <3>. QED
      BY <1>1, <3>1 DEF LedgerFollows, RecordsHeard
  <2>4. ASSUME NEW n \in batch[r]
        PROVE  \E key \in {k \in DOMAIN records : k[2] = r} : key[1] = n
    <3>1. <<n, r>> \in DOMAIN records
      BY <1>1, <2>3 DEF Key
    <3>. QED
      BY <3>1
  <2>5. {key[1] : key \in {k \in DOMAIN records : k[2] = r}} = batch[r]
    <3>1. ASSUME NEW key \in {k \in DOMAIN records : k[2] = r} PROVE key[1] \in batch[r]
      BY <2>3
    <3>. QED
      BY <2>4, <3>1
  <2>. QED
    BY <2>1, <2>2, <2>5
<1>4. ASSUME NEW cid \in usedCids PROVE cid \in consumerPins
  <2>1. PICK r \in Round, c \in 1 .. Global : \E i \in DOMAIN KindsOf(c) :
          /\ cid = CidOf(r, c, KindsOf(c)[i])
          /\ IF c = Global THEN Published(r) ELSE c \in Heard(r)
    BY <1>1, <1>4 DEF LedgerFollows, UsedAreHeard
  <2>2. c \in batch[r] \cup {Global} /\ r \in DOMAIN batch
    BY <1>1, <1>2, <2>1
  <2>. QED
    BY <2>1, <2>2 DEF BatchInv, PinsInv, BatchPinned
<1>. QED
  BY <1>3, <1>4

-----------------------------------------------------------------------------
(* The theorems                                                            *)

\* The inductive invariant holds of every execution of B2, whichever of its calls
\* fail.
THEOREM BatchInvariant == BatchSpec => []BatchInv
<1>1. BatchInit => BatchInv
  <2>1. BatchInit => reason = "none" /\ stage = "training" /\ round = 1 /\ batch = <<>>
    BY DEF BatchInit
  <2>2. BatchInit => PinsInv
    <3>1. BatchInit => Len(batch) = 0 /\ DOMAIN batch = {}
      <4>1. <<>> \in Seq({}) /\ Len(<<>>) = 0
        OBVIOUS
      <4>. QED
        BY <2>1, <4>1
    <3>. QED
      BY <2>1, <3>1 DEF PinsInv, BatchPinned, ScriptStage
  <2>. QED
    BY <2>1, <2>2, TypeInit, ScriptInit DEF BatchInv, OnlyEmptyRoundsRevert
<1>2. BatchInv /\ [BatchNext]_vars => BatchInv'
  BY TypeStep, PinsStep, ScriptStep, RevertsStep DEF BatchInv
<1>. QED
  BY <1>1, <1>2, PTL DEF BatchSpec

\* The ledger refuses none of the script's transactions but the publication of a round
\* that included nobody.
THEOREM LedgerAcceptsTheBatch == BatchSpec => []OnlyEmptyRoundsRevert
<1>1. BatchInv => OnlyEmptyRoundsRevert
  BY DEF BatchInv
<1>. QED
  BY <1>1, BatchInvariant, PTL

\* Evidence is of all rounds, archived with the models of the clients included, and
\* everything the ledger names is pinned at the consumer.
THEOREM EvidenceIsComplete == BatchSpec => []EvidenceComplete
BY BatchInvariant, EvidenceFromInvariant, PTL
=============================================================================
