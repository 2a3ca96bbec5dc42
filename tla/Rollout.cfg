\* Two replicas and one to surge; two releases on top of the installed one, and a pod
\* that fails by itself, at any moment.
SPECIFICATION Spec
CONSTANTS
  None = None
  Pods = {p1, p2, p3}
  Replicas = 2
  MaxSurge = 1
  Configs <- MCConfigs
  Charts <- MCCharts
  MaxUpgrades = 2
  MaxFailures = 1
INVARIANTS
  TypeOK
  ServedThroughout
  GateHolds
  ConfigRolledForward
  FilterInForce
PROPERTIES
  ProtectionReturns
