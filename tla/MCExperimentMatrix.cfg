SPECIFICATION MatrixSpec
CONSTANTS
  Config <- MCConfig
  File <- MCFile
  Summary <- MCSummary
  Content <- MCContent
  MaxAttempts = 3
INVARIANTS
  OneConfiguration
  StatusTellsTheEnd
  ExecutionsAccounted
PROPERTIES
  CompletedIsFinal
CHECK_DEADLOCK FALSE
