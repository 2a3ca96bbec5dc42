\* Three publishes (so that one waits for the pool of two), two workers, one crash; no
\* symmetry, which would be unsound for EverySettles.
SPECIFICATION FairSpec
CONSTANTS
  None = None
  Absent = Absent
  NotInt = NotInt
  NoCall = NoCall
  NodeLevels <- MCNodeLevels
  Config <- MCConfig
  Messages <- MCMessages
  Publishes = {p1, p2, p3}
  Workers = {w1, w2}
  PoolSize = 2
  MaxCrashes = 1
INVARIANTS TypeOK Protection AnswersCounted QueuedBehindTimeoutsOnly
PROPERTIES ImplementsFilterContract EverySettles
\* All publishes may have been made and settled.
CHECK_DEADLOCK FALSE
