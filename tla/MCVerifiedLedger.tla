-------------------------- MODULE MCVerifiedLedger --------------------------
(* Instance of VerifiedLedger for TLC: two nodes in one round, and the       *)
(* signatures that make the checks matter: a nonce used for two decisions,   *)
(* one decision signed by two signers, a decision that says no, a decision   *)
(* whose flags disagree, one that expires early, and two decisions whose     *)
(* manifest hashes are equal only as field elements.                         *)
EXTENDS VerifiedLedger, TLC

CONSTANTS deployer, n1, n2, r1, c1, c2, composite, s1, s2

MCAccount == {deployer}
MCNode == {n1, n2}
MCRound == {r1}
MCCid == {c1, c2}
MCArtifact == {"model"}
MCVerifier == {composite}
MCSigner == {s1, s2}

Claim(node, nonce, manifest, verified, passed, expiration) ==
  [node |-> node, round |-> r1, policyVersion |-> 1, manifestHash |-> manifest,
   metricsHash |-> 1, nonce |-> nonce, proofVerified |-> verified,
   policyPassed |-> passed, decision |-> passed, expiration |-> expiration]

first == Claim(n1, 1, 1, TRUE, TRUE, 0)
reusedNonce == Claim(n2, 1, 1, TRUE, TRUE, 1)
collision == Claim(n2, 2, 4, TRUE, TRUE, 1)
rejected == Claim(n1, 2, 2, FALSE, FALSE, 1)
disagrees == Claim(n2, 3, 2, FALSE, TRUE, 1)

MCDecision == {first, reusedNonce, collision, rejected, disagrees}
MCSignatures == ({s1} \X MCDecision) \cup {<<s2, first>>}

\* The circuit has no proof for what was rejected.
MCProvable == {SignalsOf(d) : d \in {first, reusedNonce, collision}}
=============================================================================
