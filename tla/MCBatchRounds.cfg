SPECIFICATION BatchSpec
CONSTANTS
  deployer = deployer
  submitter = submitter
  aggregator = aggregator
  passthrough = passthrough
  Account <- MCAccount
  Role <- ContractRole
  Deployer = deployer
  Node <- MCNode
  Round <- MCRound
  Artifact <- MCArtifact
  Cid <- MCCid
  EmptyCid = EmptyCid
  Verifier <- MCVerifier
  NoVerifier = NoVerifier
  NoContext = NoContext
  NumNodes = 3
  LastRound = 3
  Kinds <- MCKinds
  Submitter = submitter
  Aggregator = aggregator
  Passthrough = passthrough
INVARIANTS
  OnlyEmptyRoundsRevert
  EvidenceComplete
CHECK_DEADLOCK FALSE
