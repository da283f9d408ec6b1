SPECIFICATION FairSpec
CONSTANTS
  Mss = 2
  SndBuf = 2
  SndQueueLen = 3
  MaxRtx = 12
  Backoff <- BackoffTable
  Sv = 6
  Uint8 = 256
  Cwnds = 65536
  MaxDups = 0
  Windows = {3}
  Rtts = {0}
  Bytes = 1
  Losses = 5
CHECK_DEADLOCK FALSE
PROPERTIES RepeatedOrGivenUp
