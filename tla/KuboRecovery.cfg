SPECIFICATION RecoverySpec
CONSTANT Repetitions = 3
INVARIANTS
  DaemonsStopped
  OutageIsReal
CHECK_DEADLOCK FALSE
