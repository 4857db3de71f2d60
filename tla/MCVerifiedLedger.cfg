SPECIFICATION V2Spec
CONSTANTS
  deployer = deployer
  n1 = n1
  n2 = n2
  r1 = r1
  c1 = c1
  c2 = c2
  composite = composite
  s1 = s1
  s2 = s2
  Account <- MCAccount
  Role <- ContractRole
  Deployer = deployer
  Node <- MCNode
  Round <- MCRound
  Artifact <- MCArtifact
  Cid <- MCCid
  EmptyCid = EmptyCid
  Verifier <- MCVerifier
  NoVerifier = NoVerifier
  NoContext = NoContext
  Signer <- MCSigner
  FirstSigner = s1
  Decision <- MCDecision
  Signatures <- MCSignatures
  Provable <- MCProvable
  FieldSize = 3
  MaxTime = 1
INVARIANTS
  V2TypeOK
  ApprovalsBacked
  DecisionsSpentOnce
PROPERTIES
  SubmissionsSpendLiveDecisions
