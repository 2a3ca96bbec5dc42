SPECIFICATION Spec
CONSTANTS
  None = None
  Absent = Absent
  NotInt = NotInt
  NotString = NotString
  NodeLevels = {}
  Presets <- MCPresets
  PortNumNames <- MCPortNumNames
  Names <- MCNames
  Files <- TextFiles
  Settings <- DockerSettings
  MaxEdits = 0
CHECK_DEADLOCK FALSE
INVARIANTS
  NoTraceback
