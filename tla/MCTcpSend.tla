----------------------------- MODULE MCTcpSend -----------------------------
(* The sender with a buffer of two segments, and tcp_backoff of the code.   *)
EXTENDS TcpSend

BackoffTable == <<1, 2, 4, 8, 16, 32, 64, 64, 64, 64, 64, 64, 64>>
=============================================================================
