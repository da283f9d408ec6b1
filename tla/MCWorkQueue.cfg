SPECIFICATION FairSpec
CONSTANTS
  Workers = {w1, w2}
  Producers = {p1, p2}
  Destroyer = d
  Jobs = {j1, j2, j3}
  ShutdownTime = 2
  NULL = NULL
CHECK_DEADLOCK FALSE
INVARIANTS QueueSane
PROPERTIES ImplementsJobQueue EveryItemEnds WorkersTerminate
