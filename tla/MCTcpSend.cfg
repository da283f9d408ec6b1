SPECIFICATION FairSpec
CONSTANTS
  Mss = 2
  SndBuf = 3
  SndQueueLen = 3
  MaxRtx = 12
  Backoff <- BackoffTable
  Sv = 1
  Uint8 = 5
  Cwnds = 65536
  MaxDups = 4
  Windows = {1, 3}
  Rtts = {0}
  Bytes = 3
  Losses = 1
CHECK_DEADLOCK FALSE
INVARIANTS SenderSane SenderRegular
PROPERTIES AllSent
