---------------------------- MODULE MCBatchRounds ----------------------------
(***************************************************************************)
(* Instance of BatchRounds for TLC: three nodes and three rounds, so that  *)
(* rounds with all, some and none of the clients follow each other.  Two   *)
(* kinds of artifact: the model and the placeholder of the proof.          *)
(***************************************************************************)
EXTENDS BatchRounds, TLC

CONSTANTS deployer, submitter, aggregator, passthrough

MCAccount == {deployer, submitter, aggregator}
MCNode == 1 .. NumNodes
MCRound == 1 .. LastRound
MCKinds == <<"model", "proof">>
MCArtifact == {"model", "proof"}
MCVerifier == {passthrough}
MCCid ==
  MCRound \X (1 .. NumNodes + 1) \X (MCArtifact \cup {"global_model", "report"})
=============================================================================
