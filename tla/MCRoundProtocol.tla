--------------------------- MODULE MCRoundProtocol ---------------------------
(* Instance of RoundProtocol for TLC: two clients and two rounds, so that    *)
(* approved, rejected and absent models mix in a round and a failure in the  *)
(* first round has a second to affect.  One kind of artifact: submissions    *)
(* treat them alike.  The fault is injected in either round or not at all.   *)
EXTENDS RoundProtocol, TLC

CONSTANTS deployer, submitter, aggregator, n1, n2, composite

MCAccount == {deployer, submitter, aggregator}
MCNode == {n1, n2}
MCRound == 1 .. LastRound
MCArtifact == {"model"}
MCCid ==
  {GlobalCid(r) : r \in MCRound} \cup {ReportCid(r) : r \in MCRound}
    \cup {ArtifactCid(r, node, "model") : r \in MCRound, node \in MCNode}
MCVerifier == {composite}
MCFaultRounds == 0 .. LastRound
=============================================================================
