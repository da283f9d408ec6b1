SPECIFICATION FairSpec
CONSTANTS
  Clients = {c1}
  Fds = {1}
  Repliers = {r1}
  Pings = {1}
  Ips = {a}
  SeqSpace = 2
  Wait = 0
  MaxTime = 1
  SetBacks = 1
  NULL = NULL
CHECK_DEADLOCK FALSE
PROPERTY DestroyReturns
