SPECIFICATION Spec
CONSTANTS
  None = None
  Absent = Absent
  NotInt = NotInt
  NoCall = NoCall
  NodeLevels <- MCNodeLevels
  Config <- MCConfig
  Messages <- MCMessages
  Publishes = {p1, p2}
  Workers = {w1, w2}
  PoolSize = 2
  MaxCrashes = 0
INVARIANTS OneOutcomeEach
CHECK_DEADLOCK FALSE
