SPECIFICATION Spec
CONSTANTS
  deployer = deployer
  n1 = n1
  n2 = n2
  r1 = r1
  r2 = r2
  c1 = c1
  c2 = c2
  c3 = c3
  c4 = c4
  c5 = c5
  c6 = c6
  v1 = v1
  Account <- MCAccount
  Role <- ContractRole
  Deployer = deployer
  Node <- MCNode
  Round <- MCRound
  Artifact <- MCArtifact
  Cid <- MCCid
  EmptyCid = EmptyCid
  Verifier <- MCVerifier
  NoVerifier = NoVerifier
  NoContext = NoContext
SYMMETRY Symmetry
INVARIANTS
  TypeOK
  EligibleViewsAgree
  CidsUsedOnce
  PublicationSound
PROPERTIES
  VerdictsFinal
  RefinesLifecycle
