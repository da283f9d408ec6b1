SPECIFICATION FairSpec
CONSTANTS
  Mss = 2
  SndBuf = 4
  SndQueueLen = 3
  MaxRtx = 12
  Backoff <- BackoffTable
  Sv = 1
  Uint8 = 5
  Cwnds = 8
  MaxDups = 0
  Windows = {7}
  Rtts = {0}
  Bytes = 4
  Losses = 0

PROPERTIES RepeatedOrGivenUp
CHECK_DEADLOCK FALSE
