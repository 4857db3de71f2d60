SPECIFICATION GovernanceSpec
CONSTANTS
  o1 = o1
  o2 = o2
  o3 = o3
  ms = ms
  Owner <- MCOwner
  Account <- MCAccount
  Role <- MCRole
  Call <- MCCall
  Deployer = o1
  Multisig = ms
  Threshold = 2
  MaxTransactions = 2
INVARIANTS
  GovernanceTypeOK
  AdminAccounting
  ApprovalsAreDistinctOwners
PROPERTIES
  ThresholdGovernsRoles
\* With all proposals executed and no externally owned administrator left,
\* nobody has a call to make.
CHECK_DEADLOCK FALSE
