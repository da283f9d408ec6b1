SPECIFICATION Spec
CONSTANTS
  Bytes = 4
  Closes = TRUE
  Sent <- AnyConforming
  Wnd = 3
CHECK_DEADLOCK FALSE
INVARIANT DeliveredIsPrefix
