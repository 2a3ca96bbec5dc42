\* Every kind of file, every way to name it, and one edit at any moment.
SPECIFICATION Spec
CONSTANTS
  None = None
  Absent = Absent
  NotInt = NotInt
  NotString = NotString
  NodeLevels = {}
  Presets <- MCPresets
  PortNumNames <- MCPortNumNames
  Names <- MCNames
  Files <- AnyFile
  Settings <- AllSettings
  MaxEdits = 1
\* A refused start that nothing can be repaired in stays refused.
CHECK_DEADLOCK FALSE
INVARIANTS
  TypeOK
  FiltersAsWritten
  RefusalExplained
  FewRounds
PROPERTIES
  RepairEnds
