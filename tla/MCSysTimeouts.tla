----------------------------- MODULE MCSysTimeouts -----------------------------
(* The timeout list with a few timers and short delays.                    *)
EXTENDS SysTimeouts

Symm == Permutations(Timers)
=============================================================================
