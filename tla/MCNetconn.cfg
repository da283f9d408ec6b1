SPECIFICATION FairSpec
CONSTANTS
  Conns = {c1, c2}
  Sockets = {0, 1}
  Workers = {w1}
  Server = server
  None = None
  SndBuf = 1
  WriteSize = 2
  Lengths = {3}
  ReadSizes = {2}
  Ports = {7}
  Peers <- MCPeers
  MaxIn = 6
  MaxOut = 2
  Budgets <- MCBudgets
CHECK_DEADLOCK FALSE
INVARIANTS ConnsOwned RequestsSafe StreamsIntact
PROPERTIES CallsEnd
