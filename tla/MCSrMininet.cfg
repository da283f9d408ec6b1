SPECIFICATION FairSpec
CONSTANTS
  Intfs = 3
  Room = 2
CHECK_DEADLOCK FALSE
INVARIANT ReadsReady
PROPERTIES ReadInTurn EachIntfChecked
