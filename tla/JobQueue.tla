------------------------------- MODULE JobQueue -------------------------------
(***************************************************************************)
(* What sr_work_queue.h promises its users: submitted jobs are started in  *)
(* order, each by one worker and once, and after the queue is closed no    *)
(* job starts any more and the outstanding ones are deleted.               *)
(***************************************************************************)
EXTENDS Sequences

CONSTANTS Workers, Jobs, NULL

VARIABLES
  todo,    \* the submitted jobs nobody has started, oldest first
  running, \* the job each worker runs, or NULL
  ended,   \* the jobs that were completed or deleted
  closed   \* the queue has been closed

vars == <<todo, running, ended, closed>>

Init == /\ todo = <<>>
        /\ running = [w \in Workers |-> NULL]
        /\ ended = {}
        /\ closed = FALSE

Submit(j) ==
  /\ ~closed
  /\ \A i \in DOMAIN todo : todo[i] # j
  /\ \A w \in Workers : running[w] # j
  /\ j \notin ended
  /\ todo' = Append(todo, j)
  /\ UNCHANGED <<running, ended, closed>>

Start(w) ==
  /\ ~closed /\ todo # <<>> /\ running[w] = NULL
  /\ running' = [running EXCEPT ![w] = Head(todo)]
  /\ todo' = Tail(todo)
  /\ UNCHANGED <<ended, closed>>

Finish(w) ==
  /\ running[w] # NULL
  /\ ended' = ended \cup {running[w]}
  /\ running' = [running EXCEPT ![w] = NULL]
  /\ UNCHANGED <<todo, closed>>

Close == /\ ~closed
         /\ closed' = TRUE
         /\ UNCHANGED <<todo, running, ended>>

Delete ==
  /\ closed /\ todo # <<>>
  /\ ended' = ended \cup {Head(todo)}
  /\ todo' = Tail(todo)
  /\ UNCHANGED <<running, closed>>

Next == \/ \E j \in Jobs : Submit(j)
        \/ \E w \in Workers : Start(w) \/ Finish(w)
        \/ Close
        \/ Delete

Spec == Init /\ [][Next]_vars
=============================================================================
