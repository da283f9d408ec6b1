SPECIFICATION Spec
CONSTANTS
  Bytes = 1
  Closes = TRUE
  Sent <- FinSent
  Wnd = 3
CHECK_DEADLOCK FALSE
INVARIANT FinReported
