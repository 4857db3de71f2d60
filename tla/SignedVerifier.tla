--------------------------- MODULE SignedVerifier ---------------------------
(***************************************************************************)
(* The on-chain verifiers of protocol V2: FairAISignedVerifierV2, which    *)
(* consumes EIP-712 decisions of authorized signers, and                   *)
(* FairAIV2CompositeVerifier, which accepts a decision only together with  *)
(* a Groth16 proof whose public signals say the same as the decision.      *)
(*                                                                         *)
(* A decision's digest is the decision itself: the hash has no collisions  *)
(* and the domain is that of this contract, so a signature made for        *)
(* another chain or contract is one that is not in Signatures.  Which      *)
(* statements have a proof the generated verifier accepts is a parameter,  *)
(* as is the set of signatures that exist.                                 *)
(***************************************************************************)
EXTENDS Integers, FiniteSets

CONSTANTS
  Signer,       \* addresses that sign decisions
  FirstSigner,  \* argument of the constructor
  Decision,     \* decisions that may be presented
  Signatures,   \* pairs <<signer, decision>>: who has signed what
  Provable,     \* public signals for which an accepted Groth16 proof exists
  FieldSize,    \* SNARK_SCALAR_FIELD; a public signal is a residue
  MaxTime       \* bound on the clock

ASSUME FirstSignerAssumption == FirstSigner \in Signer
ASSUME SignaturesAssumption == Signatures \subseteq Signer \X Decision
\* uint256 expiration.
ASSUME DecisionAssumption == \A d \in Decision : d.expiration \in Nat
ASSUME BoundsAssumption == FieldSize \in Nat \ {0} /\ MaxTime \in Nat

VARIABLES
  now,                  \* block.timestamp
  authorizedSigners,    \* signers whose decisions count
  usedNonces,           \* pairs <<signer, nonce>> that were consumed
  usedDecisionDigests   \* decisions that were consumed

verifierVars == <<now, authorizedSigners, usedNonces, usedDecisionDigests>>

\* The first, second and 18th to 21st public signal of the V2 circuit; the
\* others, metrics and thresholds, are compared with nothing on chain.
SignalsOf(d) ==
  [manifest |-> d.manifestHash % FieldSize, metrics |-> d.metricsHash % FieldSize,
   node |-> d.node, round |-> d.round,
   policyVersion |-> d.policyVersion, nonce |-> d.nonce]

VerifierTypeOK ==
  /\ now \in 0 .. MaxTime
  /\ authorizedSigners \subseteq Signer
  /\ usedNonces \subseteq Signer \X {d.nonce : d \in Decision}
  /\ usedDecisionDigests \subseteq Decision

-----------------------------------------------------------------------------

VerifierInit ==
  /\ now = 0
  /\ authorizedSigners = {FirstSigner}
  /\ usedNonces = {}
  /\ usedDecisionDigests = {}

\* A block with a later timestamp is mined.
Tick ==
  /\ now < MaxTime
  /\ now' = now + 1
  /\ UNCHANGED <<authorizedSigners, usedNonces, usedDecisionDigests>>

\* Only the owner's calls succeed.
SetSignerAuthorization(signer, authorized) ==
  /\ authorizedSigners' = IF authorized THEN authorizedSigners \cup {signer}
                                        ELSE authorizedSigners \ {signer}
  /\ UNCHANGED <<now, usedNonces, usedDecisionDigests>>

\* Mutant: a decision is refused only after the second it expires in.
ExpiredLate(d) == now > d.expiration + 1

Expired(d) == now > d.expiration

\* Mutant: nonces are not tracked per signer but not at all.
NonceIgnored(signer, nonce) == FALSE

NonceUsed(signer, nonce) == <<signer, nonce>> \in usedNonces

\* Mutant: the digest is recorded but not looked up.
DigestIgnored(d) == FALSE

DigestUsed(d) == d \in usedDecisionDigests

Approves(d) == d.proofVerified /\ d.policyPassed /\ d.decision

\* verifyDecision, with the signature of signer on d.  Anyone may call it, and
\* every caller that gets through consumes the decision, whatever it says.
VerifyDecision(signer, d) ==
  /\ ~Expired(d)
  /\ ~DigestUsed(d)
  /\ <<signer, d>> \in Signatures
  /\ signer \in authorizedSigners
  /\ ~NonceUsed(signer, d.nonce)
  /\ usedDecisionDigests' = usedDecisionDigests \cup {d}
  /\ usedNonces' = usedNonces \cup {<<signer, d.nonce>>}
  /\ UNCHANGED <<now, authorizedSigners>>

\* The adapter verifyProof of the signed verifier: the first two signals must
\* repeat the decision's node and round.
SignedVerifyProof(signer, d, node, round) ==
  /\ node = d.node /\ round = d.round
  /\ VerifyDecision(signer, d)

\* Mutant: the proof's outcome is not compared with the decision's flags.
BoundSignals(d, signals, groth16Valid) == signals = SignalsOf(d)

\* The composite's comparison of public signals, decision and proof outcome.
Bound(d, signals, groth16Valid) ==
  /\ signals = SignalsOf(d)
  /\ d.proofVerified = groth16Valid
  /\ d.policyPassed = groth16Valid
  /\ d.decision = groth16Valid

\* The Groth16 verifier may return true only for provable signals; it returns
\* false when the submitter's proof points are not a proof of them.
CompositeVerifyProof(signer, d, signals, groth16Valid) ==
  /\ groth16Valid => signals \in Provable
  /\ Bound(d, signals, groth16Valid)
  /\ VerifyDecision(signer, d)

\* What verifyProof of the composite returns.
CompositeAnswer(d, groth16Valid) == groth16Valid /\ Approves(d)
=============================================================================
