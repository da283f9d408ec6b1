SPECIFICATION SemFairSpec
CONSTANTS
  Users = {t1, t2, t3}
  Start = 1
INVARIANTS SemaphoreSane
PROPERTIES ImplementsBinarySemaphore SignalIsUsed
