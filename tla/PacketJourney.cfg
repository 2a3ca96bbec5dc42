\* One packet and any number of trips and restarts.  The rewrites counter needs no bound:
\* RewrittenOnce is what keeps the state space finite.
SPECIFICATION Spec
CONSTANTS
  None = None
  Absent = Absent
  NotInt = NotInt
  NodeLevels <- MCNodeLevels
  Configs <- MCConfigs
  Messages <- MCMessages
INVARIANTS TypeOK NoLiveEscape OnlyHopLimitChanges RewrittenOnce
PROPERTIES HopsNeverGrow
\* A denied packet has come to the end of its journey.
CHECK_DEADLOCK FALSE
