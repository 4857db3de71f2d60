SPECIFICATION ClientSpec
CONSTANTS
  Group <- MCGroup
  Privileged = "priv"
  Unprivileged = "unpriv"
  Confusions <- MCConfusions
  MinimumSamples <- MCMinimum
  Policies <- MCPolicies
  Fabrications <- MCFabrications
  Scale = 10
  MetricBits = 4
  Round <- MCRound
INVARIANTS
  ApprovedIsProvable
  BindingAgrees
  ZerosAreMeasured
  UndefinedInOrder
CHECK_DEADLOCK FALSE
