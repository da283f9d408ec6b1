------------------------------ MODULE WorkQueue ------------------------------
(***************************************************************************)
(* The work queue of the router (SW_stub/sr_work_queue.c): a singly linked *)
(* list of work items, filled by wq_enqueue and emptied by a pool of       *)
(* worker threads that run wq_wait_for_work, under one mutex and one       *)
(* condition variable, and torn down by wq_destroy.                        *)
(*                                                                         *)
(* Threads interleave between the points where they touch shared state:    *)
(* acquiring the mutex, the critical section it protects (which ends with  *)
(* the unlock), the signal sent after the unlock, and the job itself.  The *)
(* exit of a worker is two steps, because wq_destroy reads wq->workers     *)
(* without the mutex.                                                      *)
(*                                                                         *)
(* A job stands for one work_t and its payload; every call of wq_enqueue   *)
(* brings a new one.                                                       *)
(***************************************************************************)
EXTENDS Integers, Sequences, FiniteSets

CONSTANTS
  Workers,      \* the threads made by wq_init
  Producers,    \* the threads that call wq_enqueue (the packet readers)
  Destroyer,    \* the thread that calls wq_destroy
  Jobs,         \* the work items that are ever enqueued
  ShutdownTime, \* SHUTDOWN_TIME: how often wq_destroy polls wq->workers
  NULL

ASSUME ThreadsAssumption ==
  /\ Workers # {} /\ IsFiniteSet(Workers)
  /\ Workers \cap Producers = {}
  /\ Destroyer \notin Workers \cup Producers
  /\ NULL \notin Workers \cup Producers \cup {Destroyer} \cup Jobs
  /\ ShutdownTime \in Nat

Threads == Workers \cup Producers \cup {Destroyer}

VARIABLES
  lock,      \* the holder of wq->lock, or NULL
  destroyed, \* wq->lock and wq->cond_work have been destroyed
  head, tail, next,  \* the list: wq->head, wq->tail, and each item's next
  done,      \* wq->done
  workers,   \* wq->workers
  waiting,   \* the workers blocked in pthread_cond_wait
  pc,        \* where each thread is
  item,      \* the work item a worker or a producer has in hand
  timeLeft,  \* time_left in wq_destroy
  freed,     \* the work items given to myfree
  log,       \* history: the items in the order they were linked
  taken      \* history: how many of them have been unlinked again

queueVars == <<head, tail, next, log, taken>>
vars == <<lock, destroyed, head, tail, next, done, workers, waiting, pc,
          item, timeLeft, freed, log, taken>>

Init ==
  /\ lock = NULL /\ destroyed = FALSE
  /\ head = NULL /\ tail = NULL /\ next = [j \in Jobs |-> NULL]
  /\ done = FALSE /\ workers = Cardinality(Workers)
  /\ waiting = {}
  /\ pc = [t \in Threads |-> IF t \in Workers THEN "lock" ELSE "idle"]
  /\ item = [t \in Threads |-> NULL]
  /\ timeLeft = ShutdownTime
  /\ freed = {} /\ log = <<>> /\ taken = 0

Goto(t, l) == pc' = [pc EXCEPT ![t] = l]

(***************************************************************************)
(* pthread_mutex_lock and pthread_mutex_unlock.  Locking a mutex after its *)
(* destruction is undefined; the C library the program is built with marks *)
(* a destroyed mutex as invalid and returns an error that the code does    *)
(* not look at, so the caller walks on without the lock.                   *)
(***************************************************************************)
Acquire(t) == \/ destroyed /\ UNCHANGED lock
              \/ ~destroyed /\ lock = NULL /\ lock' = t

Release == lock' = NULL
-----------------------------------------------------------------------------
(* wq_enqueue.  Producers stop before the queue is destroyed: see Destroy. *)
CallEnqueue(p, j) ==
  /\ pc[p] = "idle" /\ pc[Destroyer] = "idle"
  /\ \A t \in Threads : item[t] # j
  /\ \A i \in DOMAIN log : log[i] # j
  /\ item' = [item EXCEPT ![p] = j]
  /\ Goto(p, "lock")
  /\ UNCHANGED <<lock, destroyed, done, workers, waiting, timeLeft, freed,
                 queueVars>>

EnqueueNoLock(p) == \* mutant: does not take the lock
  /\ pc[p] = "lock" /\ Goto(p, "link")
  /\ UNCHANGED <<lock, destroyed, done, workers, waiting, item, timeLeft,
                 freed, queueVars>>

EnqueueLock(p) ==
  /\ pc[p] = "lock" /\ Acquire(p) /\ Goto(p, "link")
  /\ UNCHANGED <<destroyed, done, workers, waiting, item, timeLeft, freed,
                 queueVars>>

EnqueueLink(p) ==
  /\ pc[p] = "link"
  /\ IF tail # NULL
       THEN /\ next' = [next EXCEPT ![item[p]] = NULL, ![tail] = item[p]]
            /\ UNCHANGED head
       ELSE /\ next' = [next EXCEPT ![item[p]] = NULL]
            /\ head' = item[p]
  /\ tail' = item[p]
  /\ log' = Append(log, item[p])
  /\ item' = [item EXCEPT ![p] = NULL]
  /\ Release /\ Goto(p, "signal")
  /\ UNCHANGED <<destroyed, done, workers, waiting, timeLeft, freed, taken>>

EnqueueSilent(p) == \* mutant: no signal
  /\ pc[p] = "signal" /\ Goto(p, "idle")
  /\ UNCHANGED <<lock, destroyed, done, workers, waiting, item, timeLeft, freed,
                 queueVars>>

EnqueueSignal(p) ==
  /\ pc[p] = "signal"
  /\ \/ /\ waiting = {}
        /\ Goto(p, "idle") /\ UNCHANGED waiting
     \/ \E w \in waiting :
          /\ waiting' = waiting \ {w}
          /\ pc' = [pc EXCEPT ![w] = "lock", ![p] = "idle"]
  /\ UNCHANGED <<lock, destroyed, done, workers, item, timeLeft, freed,
                 queueVars>>
-----------------------------------------------------------------------------
(* wq_wait_for_work, the loop of a worker.                                 *)
WorkerLock(w) ==
  /\ pc[w] = "lock" /\ Acquire(w) /\ Goto(w, "check")
  /\ UNCHANGED <<destroyed, done, workers, waiting, item, timeLeft, freed,
                 queueVars>>

(* pthread_cond_wait: releases the mutex and sleeps in one step.           *)
WorkerWait(w) ==
  /\ pc[w] = "check" /\ ~done /\ head = NULL
  /\ waiting' = waiting \cup {w}
  /\ Release /\ Goto(w, "wait")
  /\ UNCHANGED <<destroyed, done, workers, item, timeLeft, freed, queueVars>>

(* POSIX lets pthread_cond_wait return although nobody signalled.          *)
SpuriousWakeup(w) ==
  /\ w \in waiting
  /\ waiting' = waiting \ {w} /\ Goto(w, "lock")
  /\ UNCHANGED <<lock, destroyed, done, workers, item, timeLeft, freed,
                 queueVars>>

HeadKept == head \* mutant: the head is not advanced
HeadAfterTake == next[head]

TailAfterTake == IF next[head] = NULL THEN NULL ELSE tail

WorkerTake(w) ==
  /\ pc[w] = "check" /\ ~done /\ head # NULL
  /\ item' = [item EXCEPT ![w] = head]
  /\ head' = HeadAfterTake
  /\ tail' = TailAfterTake
  /\ taken' = taken + 1
  /\ Release /\ Goto(w, "busy")
  /\ UNCHANGED <<destroyed, next, done, workers, waiting, timeLeft, freed, log>>

(* func_do_work returns and the work_t is freed; its payload is not.       *)
WorkerFinish(w) ==
  /\ pc[w] = "busy"
  /\ freed' = freed \cup {item[w]}
  /\ item' = [item EXCEPT ![w] = NULL]
  /\ Goto(w, "lock")
  /\ UNCHANGED <<lock, destroyed, done, workers, waiting, timeLeft, queueVars>>

WorkerStop(w) ==
  /\ pc[w] = "check" /\ done
  /\ workers' = workers - 1
  /\ Goto(w, "exit")
  /\ UNCHANGED <<lock, destroyed, done, waiting, item, timeLeft, freed,
                 queueVars>>

WorkerExit(w) ==
  /\ pc[w] = "exit"
  /\ Release /\ Goto(w, "gone")
  /\ UNCHANGED <<destroyed, done, workers, waiting, item, timeLeft, freed,
                 queueVars>>
-----------------------------------------------------------------------------
(***************************************************************************)
(* wq_destroy.  Nothing in the repository calls it while packets can still *)
(* arrive, and the code leaves wq->tail pointing at a freed item, so the   *)
(* caller's obligation is part of the model: every producer has returned   *)
(* from wq_enqueue and none calls it again.                                *)
(***************************************************************************)
CallDestroy ==
  /\ pc[Destroyer] = "idle" /\ \A p \in Producers : pc[p] = "idle"
  /\ Goto(Destroyer, "lock")
  /\ UNCHANGED <<lock, destroyed, done, workers, waiting, item, timeLeft,
                 freed, queueVars>>

DestroyLock ==
  /\ pc[Destroyer] = "lock" /\ Acquire(Destroyer)
  /\ done' = TRUE
  /\ Goto(Destroyer, "clear")
  /\ UNCHANGED <<destroyed, workers, waiting, item, timeLeft, freed, queueVars>>

(* One turn of the loop that frees the remaining work.                     *)
DestroyFree ==
  /\ pc[Destroyer] = "clear" /\ head # NULL
  /\ head' = next[head] /\ taken' = taken + 1
  /\ freed' = freed \cup {head}
  /\ UNCHANGED <<lock, destroyed, tail, next, done, workers, waiting, pc, item,
                 timeLeft, log>>

DestroyUnlock ==
  /\ pc[Destroyer] = "clear" /\ head = NULL
  /\ Release /\ Goto(Destroyer, "broadcast")
  /\ UNCHANGED <<destroyed, done, workers, waiting, item, timeLeft, freed,
                 queueVars>>

WokenOne == IF waiting = {} THEN {} ELSE {CHOOSE w \in waiting : TRUE} \* mutant: signal
WokenByDestroy == waiting

DestroyBroadcast ==
  /\ pc[Destroyer] = "broadcast"
  /\ waiting' = waiting \ WokenByDestroy
  /\ pc' = [t \in Threads |-> CASE t \in WokenByDestroy -> "lock"
                                [] t = Destroyer -> "poll"
                                [] OTHER -> pc[t]]
  /\ UNCHANGED <<lock, destroyed, done, workers, item, timeLeft, freed,
                 queueVars>>

(* time_left-- > 0 && wq->workers > 0, then sleep(1).                      *)
KeepPolling == timeLeft > 0 /\ workers > 0

DestroyPoll ==
  /\ pc[Destroyer] = "poll" /\ KeepPolling
  /\ timeLeft' = timeLeft - 1
  /\ UNCHANGED <<lock, destroyed, done, workers, waiting, pc, item, freed,
                 queueVars>>

(* pthread_mutex_destroy refuses (EBUSY) a mutex that is held.             *)
DestroyEnd ==
  /\ pc[Destroyer] = "poll" /\ ~KeepPolling
  /\ destroyed' = (lock = NULL)
  /\ Goto(Destroyer, "done")
  /\ UNCHANGED <<lock, done, workers, waiting, item, timeLeft, freed, queueVars>>
-----------------------------------------------------------------------------
Producer(p) == \/ \E j \in Jobs : CallEnqueue(p, j)
               \/ EnqueueLock(p) \/ EnqueueLink(p) \/ EnqueueSignal(p)

Worker(w) == \/ WorkerLock(w) \/ WorkerWait(w) \/ WorkerTake(w)
             \/ WorkerFinish(w) \/ WorkerStop(w) \/ WorkerExit(w)

Destroy == \/ CallDestroy \/ DestroyLock \/ DestroyFree \/ DestroyUnlock
           \/ DestroyBroadcast \/ DestroyPoll \/ DestroyEnd

Next == \/ \E p \in Producers : Producer(p)
        \/ \E w \in Workers : Worker(w) \/ SpuriousWakeup(w)
        \/ Destroy

Spec == Init /\ [][Next]_vars

(***************************************************************************)
(* A thread that can run does run, jobs end, and a thread that keeps       *)
(* asking for a mutex that keeps being released gets it.  Nobody has to    *)
(* enqueue a job or to destroy the queue.                                  *)
(***************************************************************************)
Fairness ==
  /\ \A p \in Producers : /\ SF_vars(EnqueueLock(p))
                          /\ WF_vars(EnqueueLink(p) \/ EnqueueSignal(p))
  /\ \A w \in Workers : SF_vars(WorkerLock(w)) /\ WF_vars(Worker(w))
  /\ SF_vars(DestroyLock)
  /\ WF_vars(DestroyFree \/ DestroyUnlock \/ DestroyBroadcast \/ DestroyPoll
               \/ DestroyEnd)

FairSpec == Spec /\ Fairness
-----------------------------------------------------------------------------
(* The threads inside the critical section.                                *)
Holds(t) == \/ t \in Workers   /\ pc[t] \in {"check", "exit"}
            \/ t \in Producers /\ pc[t] = "link"
            \/ t = Destroyer   /\ pc[t] = "clear"

(* Pointers, counters and the places where the threads can be.             *)
TypeOK ==
  /\ lock \in Threads \cup {NULL}
  /\ destroyed \in BOOLEAN /\ done \in BOOLEAN
  /\ head \in Jobs \cup {NULL} /\ tail \in Jobs \cup {NULL}
  /\ next \in [Jobs -> Jobs \cup {NULL}]
  /\ workers \in Int
  /\ waiting \subseteq Workers
  /\ pc \in [Threads -> {"idle", "lock", "link", "signal", "check", "wait",
                         "busy", "exit", "gone", "clear", "broadcast", "poll",
                         "done"}]
  /\ item \in [Threads -> Jobs \cup {NULL}]
  /\ timeLeft \in Nat
  /\ freed \subseteq Jobs
  /\ log \in Seq(Jobs) /\ taken \in Nat

(* Until the mutex is destroyed its holder is the one thread that is in    *)
(* the critical section: no path of wq_enqueue, wq_wait_for_work or        *)
(* wq_destroy leaves it without the unlock or enters it twice.             *)
MutualExclusion ==
  ~destroyed => \A t \in Threads : Holds(t) <=> lock = t

(* The list from wq->head along next is the items that were linked and not *)
(* yet unlinked, in the order of the calls of wq_enqueue; wq->tail is its  *)
(* last item, except that wq_destroy forgets to clear it.                  *)
ListIsFifo ==
  LET n == Len(log) IN
  /\ taken <= n
  /\ head = IF taken < n THEN log[taken + 1] ELSE NULL
  /\ ~done => tail = (IF taken < n THEN log[n] ELSE NULL)
  /\ \A i \in taken + 1 .. n : next[log[i]] = (IF i < n THEN log[i + 1] ELSE NULL)

(* No item is freed while the list or a thread still refers to it, and no  *)
(* two threads have the same item, so none is freed or run twice.          *)
NoDanglingItem ==
  /\ \A i \in taken + 1 .. Len(log) : log[i] \notin freed
  /\ \A t \in Threads : item[t] # NULL =>
       /\ item[t] \notin freed
       /\ \A i \in taken + 1 .. Len(log) : log[i] # item[t]
       /\ \A u \in Threads \ {t} : item[u] # item[t]

(* The work queue implements the queue its header promises: linking,       *)
(* taking, completing, closing and deleting are the only visible steps.    *)
JQ == INSTANCE JobQueue WITH
  todo    <- SubSeq(log, taken + 1, Len(log)),
  running <- [w \in Workers |-> item[w]],
  ended   <- freed,
  closed  <- done

ImplementsJobQueue == JQ!Spec

(* Every item that is linked is run and freed, or deleted by wq_destroy.   *)
EveryItemEnds ==
  \A j \in Jobs : (\E i \in DOMAIN log : log[i] = j) ~> j \in freed

(* After wq_destroy every worker terminates, the idle ones and the ones    *)
(* that were running a job.                                                *)
WorkersTerminate ==
  pc[Destroyer] = "lock" ~> \A w \in Workers : pc[w] = "gone"

(* The queue as wq_enqueue, wq_wait_for_work and wq_destroy leave it: one  *)
(* thread at a time is inside, the list is the FIFO queue of the items not *)
(* yet taken, and nobody reaches an item that has been freed.              *)
QueueSane == TypeOK /\ MutualExclusion /\ ListIsFifo /\ NoDanglingItem
=============================================================================
