SPECIFICATION ProtocolSpec
CONSTANTS
  deployer = deployer
  submitter = submitter
  aggregator = aggregator
  n1 = n1
  n2 = n2
  composite = composite
  Account <- MCAccount
  Role <- ContractRole
  Deployer = deployer
  Node <- MCNode
  Round <- MCRound
  Artifact <- MCArtifact
  Cid <- MCCid
  EmptyCid = EmptyCid
  Verifier <- MCVerifier
  NoVerifier = NoVerifier
  NoContext = NoContext
  LastRound = 2
  Submitter = submitter
  Aggregator = aggregator
  Composite = composite
  FaultRounds <- MCFaultRounds
INVARIANTS
  ProtocolTypeOK
  PublishedAsAggregated
  RoundsInOrder
  EvidenceTruthful
  TrainsFromLastPublished
  FaultFailsClosed
  ViewsNeverDiverge
PROPERTIES
  RunEnds
CHECK_DEADLOCK FALSE
