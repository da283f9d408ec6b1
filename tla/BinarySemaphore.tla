--------------------------- MODULE BinarySemaphore ---------------------------
(* What the rest of the TCP stack expects of a sys_sem_t (lwtcp/lwip/sys.h *)
(* and its users): a flag that a signal raises and a successful wait takes *)
(* down, however many signals came before it.                              *)
CONSTANTS Threads, Start

VARIABLES
  up,  \* whether a wait can succeed
  got  \* the threads whose last wait succeeded

Init == up = (Start = 1) /\ got = {}

Wait(t) == up /\ ~up' /\ t \notin got /\ got' = got \cup {t}
Again(t) == t \in got /\ got' = got \ {t} /\ UNCHANGED up
Signal == up' /\ UNCHANGED got

Next == Signal \/ \E t \in Threads : Wait(t) \/ Again(t)

Spec == Init /\ [][Next]_<<up, got>>
=============================================================================
