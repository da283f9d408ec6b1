SPECIFICATION FairSpec
CONSTANTS
  Clients = {c1}
  Fds = {1}
  Repliers = {r1}
  Pings = {1, 2, 3}
  Ips = {a}
  SeqSpace = 2
  Wait = 1
  MaxTime = 3
  SetBacks = 1
  NULL = NULL
CHECK_DEADLOCK FALSE
INVARIANTS PingListSane OneAnswer
PROPERTIES EveryPingAnswered
