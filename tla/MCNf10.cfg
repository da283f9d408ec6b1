SPECIFICATION FairSpec
CONSTANTS
  Ports = {p0, p1}
  None = None
  TxRing = 2
  RxRing = 4
  PktRoom = 3
  RxRoom = 3
  StopRoom = 2
  WakeDsc = 2
  WakeRoom = 3
  MaxTcnt = 100
  AxiDepth = 4
  AxiAlmost = 3
  Budgets <- MCBudgets
  MaxFrames = 3
CHECK_DEADLOCK FALSE
INVARIANTS DriverSane OwnSlot InCardOrder
PROPERTIES CompletionsSeen QueuesWoken
