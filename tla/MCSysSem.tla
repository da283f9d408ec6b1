------------------------------- MODULE MCSysSem -------------------------------
(* A semaphore with a few threads that wait and signal as they like.       *)
EXTENDS SysSem

=============================================================================
