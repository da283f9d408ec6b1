SPECIFICATION Spec
CONSTANTS
  a = a
  b = b
  p1 = p1
  p2 = p2
  Hosts <- HostSet
  Clients <- ClientSet
  Pool <- Pools
  Listeners = 1
  Server = 1
  FirstPort = 2
  LastPort = 5
  Wnd = 2
  Ticks = 3
  MaxSent = 8
  MaxIss <- Bounds
CHECK_DEADLOCK FALSE
INVARIANTS PcbsSane Agreement
