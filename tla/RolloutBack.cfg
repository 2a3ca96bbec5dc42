\* One replica, two releases: the second takes the first one back.
SPECIFICATION Spec
CONSTANTS
  None = None
  Pods = {p1, p2}
  Replicas = 1
  MaxSurge = 1
  Configs <- MCConfigs
  Charts <- MCCharts
  MaxUpgrades = 2
  MaxFailures = 1
INVARIANTS
  ConfigRolled
