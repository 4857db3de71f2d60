SPECIFICATION Spec
CONSTANTS
  NumNodes = 3
  MaxFaults = 1
INVARIANT StrictRunsUseKubo
CHECK_DEADLOCK FALSE
