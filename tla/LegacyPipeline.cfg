SPECIFICATION Spec
CONSTANTS
  NumNodes = 3
  MaxFaults = 2
INVARIANTS
  MonitoredIsPinned
  AggregatedAsApproved
CHECK_DEADLOCK FALSE
