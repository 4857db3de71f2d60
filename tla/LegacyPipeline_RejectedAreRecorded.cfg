SPECIFICATION Spec
CONSTANTS
  NumNodes = 3
  MaxFaults = 1
INVARIANT RejectedAreRecorded
CHECK_DEADLOCK FALSE
