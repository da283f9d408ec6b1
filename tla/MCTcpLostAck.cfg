SPECIFICATION FairSpec
CONSTANTS
  Bytes = 2
  Closes = FALSE
  Sent <- OpenSent
  Wnd = 3
CHECK_DEADLOCK FALSE
PROPERTY OutsideIsAcked
