\* Two calls and two health clients, so that one waits behind the other; no symmetry,
\* which would be unsound for the liveness properties.
SPECIFICATION Spec
CONSTANTS
  Calls = {c1, c2}
  Clients = {k1, k2}
  NoClient = NoClient
\* The process ends, or stop() has returned.
CHECK_DEADLOCK FALSE
INVARIANTS
  TypeOK
  HealthAfterGrpc
  CutIsLogged
  OneLateLine
  StopReleases
PROPERTIES
  OutcomesReported
  StopHeldBySilenceOnly
  ProbeHeldBySilenceOnly
  FailedStartExits
  ReporterEnds
