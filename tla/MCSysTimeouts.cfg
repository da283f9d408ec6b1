SPECIFICATION TimeSpec
CONSTANTS
  Timers = {t1, t2, t3, t4, t5}
  Delays = {0, 1, 2, 4, 7}
  PoolSize = 4
SYMMETRY Symm
INVARIANTS DeltaListSane
