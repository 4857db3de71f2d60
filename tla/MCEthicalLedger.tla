-------------------------- MODULE MCEthicalLedger --------------------------
(* Instance of EthicalLedger for TLC: two rounds and two nodes, so that     *)
(* identifiers, approvals and duplicates can cross both; two kinds of       *)
(* artifact; six identifiers, enough for two submissions and a publication, *)
(* or three submissions.  One account plays all callers: which account      *)
(* holds a role is the business of GovernedRoles.                           *)
EXTENDS EthicalLedger, TLC

CONSTANTS deployer, n1, n2, r1, r2, c1, c2, c3, c4, c5, c6, v1

MCAccount == {deployer}
MCNode == {n1, n2}
MCRound == {r1, r2}
MCCid == {c1, c2, c3, c4, c5, c6}
MCArtifact == {"model", "proof"}
MCVerifier == {v1}

Symmetry == Permutations(MCNode) \cup Permutations(MCRound) \cup Permutations(MCCid)
=============================================================================
