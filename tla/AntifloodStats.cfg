\* A worker, the stats reporter and the health server (any of them may play any part),
\* two of the six counters, two outcomes of each kind.
SPECIFICATION Spec
CONSTANTS
  Threads = {t1, t2, t3}
  CounterNames = {"zerohop", "errors"}
  MaxCount = 2
  NoThread = NoThread
INVARIANTS TypeOK Conservation HealthAddsUp
PROPERTIES HealthNeverDecreases ImplementsPacketCounters
