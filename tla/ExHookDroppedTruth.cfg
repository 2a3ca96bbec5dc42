SPECIFICATION Spec
CONSTANTS
  None = None
  Absent = Absent
  NotInt = NotInt
  NoCall = NoCall
  NodeLevels <- MCNodeLevels
  Config <- MCConfig
  Messages <- LoggableMessages
  Publishes = {p1, p2}
  Workers = {w1, w2}
  PoolSize = 2
  MaxCrashes = 0
INVARIANTS DroppedIsTheTruth
CHECK_DEADLOCK FALSE
