SPECIFICATION Spec
CONSTANTS
  Setup <- MCSetup
  Initial = 1
  Evaluation <- MCEvaluation
  Beta <- MCBeta
  Rounds = 2
INVARIANTS
  FairFedStaysNormalized
  AttackersBounded
  RoundsAccounted
  TrainedOnOwnSplit
CHECK_DEADLOCK FALSE
