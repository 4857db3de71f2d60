--------------------------- MODULE VerifiedLedger ---------------------------
(***************************************************************************)
(* The deployment of protocol V2: the ledger asks the composite verifier,  *)
(* which asks the signed verifier.  A submission is one transaction        *)
(* through all three, so the record, the nonce and the digest change       *)
(* together or not at all.  Both verifiers' entry points are public:       *)
(* decisions can also be consumed by calls that do not come from the       *)
(* ledger, between any two submissions.                                    *)
(***************************************************************************)
EXTENDS EthicalLedger, SignedVerifier

\* V2 signals have length 21, so the ledger always compares their context.
ASSUME ContextAssumption == \A d \in Decision : NoContext # <<d.node, d.round>>

VARIABLE
  backing   \* history: for each record, the signer and decision it consumed

v2Vars == <<ledgerVars, verifierVars, backing>>

V2TypeOK ==
  /\ TypeOK
  /\ VerifierTypeOK
  /\ DOMAIN backing = DOMAIN records
  /\ backing \in [DOMAIN records -> [signer : Signer, decision : Decision]]

-----------------------------------------------------------------------------

V2Init ==
  /\ Init
  /\ VerifierInit
  /\ backing = [k \in {} |-> {}]

\* submitModel with V2 evidence.  The ledger compares the signals' node and
\* round with its own arguments; the composite compares them with the decision.
SubmitV2(caller, node, round, cids, signer, d, signals, groth16Valid) ==
  /\ SubmitModel(caller, node, round, cids, <<signals.node, signals.round>>,
                 CompositeAnswer(d, groth16Valid))
  /\ CompositeVerifyProof(signer, d, signals, groth16Valid)
  /\ backing' = Store(backing, <<node, round>>, [signer |-> signer, decision |-> d])

V2Submission(caller, round) ==
  \E node \in Node, cids \in [Artifact -> CidArgument], sig \in Signatures,
     other \in Decision, groth16Valid \in BOOLEAN :
    SubmitV2(caller, node, round, cids, sig[1], sig[2], SignalsOf(other), groth16Valid)

\* Calls to the verifiers that do not come from the ledger.
DirectVerification ==
  /\ \E sig \in Signatures :
       \/ VerifyDecision(sig[1], sig[2])
       \/ \E node \in Node, round \in Round :
            SignedVerifyProof(sig[1], sig[2], node, round)
       \/ \E other \in Decision, groth16Valid \in BOOLEAN :
            CompositeVerifyProof(sig[1], sig[2], SignalsOf(other), groth16Valid)
  /\ UNCHANGED <<ledgerVars, backing>>

VerifierAdministration ==
  /\ \/ Tick
     \/ \E signer \in Signer, authorized \in BOOLEAN :
          SetSignerAuthorization(signer, authorized)
  /\ UNCHANGED <<ledgerVars, backing>>

\* The ledger's other functions do not reach the verifiers.
LedgerAction ==
  /\ \/ RoleChange
     \/ \E caller \in Account :
          \/ AdminAction(caller)
          \/ \E round \in Round :
               LifecycleAction(caller, round) \/ Publication(caller, round)
  /\ UNCHANGED <<verifierVars, backing>>

V2Next ==
  \/ LedgerAction
  \/ DirectVerification
  \/ VerifierAdministration
  \/ \E caller \in Account, round \in Round : V2Submission(caller, round)

V2Spec == V2Init /\ [][V2Next]_v2Vars

-----------------------------------------------------------------------------
(***************************************************************************)
(* Properties                                                              *)
(***************************************************************************)

\* Every record on the ledger stands on a decision that somebody signed for
\* that very node and round and that is consumed, and the record is approved
\* exactly if the decision says so and its statement has a Groth16 proof
\* (submitModel, verifyProof of the composite, verifyDecision).
ApprovalsBacked ==
  \A key \in DOMAIN records :
    LET signer == backing[key].signer
        d == backing[key].decision
    IN  /\ <<signer, d>> \in Signatures
        /\ key = <<d.node, d.round>>
        /\ d \in usedDecisionDigests
        /\ <<signer, d.nonce>> \in usedNonces
        /\ records[key].approval = "Approved" <=> Approves(d)
        /\ records[key].approval = "Approved" => SignalsOf(d) \in Provable

\* No two records stand on one decision, or on one nonce of a signer.
BackingDistinct ==
  \A k, l \in DOMAIN records : k # l =>
    /\ backing[k].decision # backing[l].decision
    /\ <<backing[k].signer, backing[k].decision.nonce>>
         # <<backing[l].signer, backing[l].decision.nonce>>

\* Each consumption adds one entry to each of the two replay registries.
RegistriesInStep == Cardinality(usedNonces) = Cardinality(usedDecisionDigests)

\* No decision, and no nonce of a signer, stands behind two records; and the
\* verifier's two replay registries stay in step although one is kept per
\* signer and the other for all of them (verifyDecision).
DecisionsSpentOnce == BackingDistinct /\ RegistriesInStep

\* A record never appears on the strength of a decision that was consumed
\* before, by whatever caller, that has expired, or whose signer is not
\* authorized at that moment (verifyDecision called from submitModel).
SubmissionsSpendLiveDecisions ==
  [][\A key \in DOMAIN records' \ DOMAIN records :
       LET b == backing'[key] IN
       /\ b.decision \in usedDecisionDigests' \ usedDecisionDigests
       /\ now <= b.decision.expiration
       /\ b.signer \in authorizedSigners]_v2Vars
=============================================================================
