SPECIFICATION FairSpec
CONSTANTS
  Bytes = 7
  Closes = TRUE
  Sent <- RegularSent
  Wnd = 4
CHECK_DEADLOCK FALSE
INVARIANTS ReceiverSane DeliveredIsPrefix EndAfterData
PROPERTIES AllAcknowledged
