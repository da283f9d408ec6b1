SPECIFICATION Spec
CONSTANTS
  Clients = {c1, c2}
  Fds = {1}
  Repliers = {r1}
  Pings = {1}
  Ips = {a}
  SeqSpace = 2
  Wait = 1
  MaxTime = 3
  SetBacks = 0
  NULL = NULL
CHECK_DEADLOCK FALSE
INVARIANT NotifiesRequester
