SPECIFICATION FairSpec
CONSTANTS
  c1 = c1
  c2 = c2
  Clients = {c1, c2}
  None = None
  InitBuf = 2
  MaxBuf = 5
  Scenarios <- MCScenarios
  Hellos <- MCHellos
  Hasty = {c2}
  Leavers = {c2}
  Flood = 2
  File <- MCFile
  Workers = {w1, w2}
  MaxPackets = 2
CHECK_DEADLOCK FALSE
INVARIANTS BuffersSane ClientServed HandledAsReceived
PROPERTIES ImplementsSrMininet PacketsHandled ClientsAnswered
