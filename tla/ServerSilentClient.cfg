SPECIFICATION Spec
CONSTANTS
  Calls = {}
  Clients = {k1}
  NoClient = NoClient
CHECK_DEADLOCK FALSE
PROPERTIES
  StopReturns
