--------------------------- MODULE WorkQueueProofs ---------------------------
(***************************************************************************)
(* The safety of the work queue for any pool, any producers and any jobs.  *)
(* The inductive invariant adds to the checked invariants what the threads *)
(* know at each point (ThreadState) and where each item may be (Items).    *)
(***************************************************************************)
EXTENDS WorkQueue, FiniteSetTheorems, SequenceTheorems, TLAPS

ThreadState ==
  /\ \A w \in Workers : pc[w] \in {"lock", "check", "wait", "busy", "exit", "gone"}
  /\ \A p \in Producers : pc[p] \in {"idle", "lock", "link", "signal"}
  /\ pc[Destroyer] \in {"idle", "lock", "clear", "broadcast", "poll", "done"}
  /\ \A w \in Workers : w \in waiting <=> pc[w] = "wait"
  /\ \A t \in Threads : item[t] # NULL <=>
       (t \in Workers /\ pc[t] = "busy") \/ (t \in Producers /\ pc[t] \in {"lock", "link"})
  /\ done <=> pc[Destroyer] \in {"clear", "broadcast", "poll", "done"}
  /\ pc[Destroyer] # "idle" => \A p \in Producers : pc[p] = "idle"
  /\ destroyed => pc[Destroyer] = "done"
  /\ pc[Destroyer] \in {"broadcast", "poll", "done"} => head = NULL

Items ==
  /\ \A i, k \in 1 .. Len(log) : log[i] = log[k] => i = k
  /\ \A j \in freed : \E i \in 1 .. taken : log[i] = j
  /\ \A p \in Producers : item[p] # NULL => \A i \in 1 .. Len(log) : log[i] # item[p]
  /\ \A w \in Workers : item[w] # NULL => \E i \in 1 .. taken : log[i] = item[w]
  /\ \A t, u \in Threads : t # u /\ item[t] # NULL => item[u] # item[t]
  /\ \A t \in Threads : item[t] \notin freed

IInv == TypeOK /\ ThreadState /\ MutualExclusion /\ ListIsFifo /\ Items

LEMMA InitIInv == Init => IInv
<1> SUFFICES ASSUME Init PROVE IInv
  OBVIOUS
<1>1. Cardinality(Workers) \in Int
  BY ThreadsAssumption, FS_CardinalityType
<1>2. TypeOK
  <2>1. pc \in [Threads -> {"idle", "lock"}]
    BY DEF Init, Threads
  <2>2. next \in [Jobs -> Jobs \cup {NULL}] /\ item \in [Threads -> Jobs \cup {NULL}]
    BY DEF Init
  <2>3. log \in Seq(Jobs)
    BY DEF Init
  <2> QED  BY <1>1, <2>1, <2>2, <2>3, ThreadsAssumption DEF Init, TypeOK
<1>3. ThreadState
  BY ThreadsAssumption DEF Init, ThreadState, Threads
<1>4. MutualExclusion
  BY ThreadsAssumption DEF Init, MutualExclusion, Holds, Threads
<1>5. ListIsFifo
  BY DEF Init, ListIsFifo
<1>6. Items
  BY DEF Init, Items, Threads
<1> QED  BY <1>2, <1>3, <1>4, <1>5, <1>6 DEF IInv

LEMMA CallEnqueueStep ==
  ASSUME IInv, NEW p \in Producers, NEW j \in Jobs, CallEnqueue(p, j) PROVE IInv'
<1> USE ThreadsAssumption DEF IInv, CallEnqueue, Goto, queueVars, Threads
<1>1. TypeOK'
  BY DEF TypeOK, ThreadState
<1>2. ThreadState'
  BY DEF TypeOK, ThreadState
<1>3. MutualExclusion'
  BY DEF TypeOK, ThreadState, MutualExclusion, Holds
<1>4. ListIsFifo'
  BY DEF TypeOK, ThreadState, ListIsFifo, Items
<1>5. Items'
  BY DEF TypeOK, ThreadState, ListIsFifo, Items
<1> QED  BY <1>1, <1>2, <1>3, <1>4, <1>5

LEMMA EnqueueLockStep ==
  ASSUME IInv, NEW p \in Producers, EnqueueLock(p) PROVE IInv'
<1> USE ThreadsAssumption DEF IInv, EnqueueLock, Acquire, Goto, queueVars, Threads
<1>1. TypeOK'
  BY DEF TypeOK, ThreadState
<1>2. ThreadState'
  BY DEF TypeOK, ThreadState
<1>3. MutualExclusion'
  BY DEF TypeOK, ThreadState, MutualExclusion, Holds
<1>4. ListIsFifo'
  BY DEF TypeOK, ThreadState, ListIsFifo, Items
<1>5. Items'
  BY DEF TypeOK, ThreadState, ListIsFifo, Items
<1> QED  BY <1>1, <1>2, <1>3, <1>4, <1>5

LEMMA EnqueueLinkStep ==
  ASSUME IInv, NEW p \in Producers, EnqueueLink(p) PROVE IInv'
<1> USE ThreadsAssumption DEF IInv, EnqueueLink, Release, Goto, queueVars, Threads
<1>1. TypeOK'
  BY DEF TypeOK, ThreadState
<1>2. ThreadState'
  BY DEF TypeOK, ThreadState
<1>3. MutualExclusion'
  BY DEF TypeOK, ThreadState, MutualExclusion, Holds
<1>4. ListIsFifo'
  BY DEF TypeOK, ThreadState, ListIsFifo, Items
<1>5. Items'
  BY DEF TypeOK, ThreadState, ListIsFifo, Items
<1> QED  BY <1>1, <1>2, <1>3, <1>4, <1>5

LEMMA EnqueueSignalStep ==
  ASSUME IInv, NEW p \in Producers, EnqueueSignal(p) PROVE IInv'
<1> USE ThreadsAssumption DEF IInv, EnqueueSignal, Goto, queueVars, Threads
<1>1. TypeOK'
  BY DEF TypeOK, ThreadState
<1>2. ThreadState'
  BY DEF TypeOK, ThreadState
<1>3. MutualExclusion'
  BY DEF TypeOK, ThreadState, MutualExclusion, Holds
<1>4. ListIsFifo'
  BY DEF TypeOK, ThreadState, ListIsFifo, Items
<1>5. Items'
  BY DEF TypeOK, ThreadState, ListIsFifo, Items
<1> QED  BY <1>1, <1>2, <1>3, <1>4, <1>5

LEMMA WorkerLockStep ==
  ASSUME IInv, NEW w \in Workers, WorkerLock(w) PROVE IInv'
<1> USE ThreadsAssumption DEF IInv, WorkerLock, Acquire, Goto, queueVars, Threads
<1>1. TypeOK'
  BY DEF TypeOK, ThreadState
<1>2. ThreadState'
  BY DEF TypeOK, ThreadState
<1>3. MutualExclusion'
  BY DEF TypeOK, ThreadState, MutualExclusion, Holds
<1>4. ListIsFifo'
  BY DEF TypeOK, ThreadState, ListIsFifo, Items
<1>5. Items'
  BY DEF TypeOK, ThreadState, ListIsFifo, Items
<1> QED  BY <1>1, <1>2, <1>3, <1>4, <1>5

LEMMA WorkerWaitStep ==
  ASSUME IInv, NEW w \in Workers, WorkerWait(w) PROVE IInv'
<1> USE ThreadsAssumption DEF IInv, WorkerWait, Release, Goto, queueVars, Threads
<1>1. TypeOK'
  BY DEF TypeOK, ThreadState
<1>2. ThreadState'
  BY DEF TypeOK, ThreadState
<1>3. MutualExclusion'
  BY DEF TypeOK, ThreadState, MutualExclusion, Holds
<1>4. ListIsFifo'
  BY DEF TypeOK, ThreadState, ListIsFifo, Items
<1>5. Items'
  BY DEF TypeOK, ThreadState, ListIsFifo, Items
<1> QED  BY <1>1, <1>2, <1>3, <1>4, <1>5

LEMMA WorkerTakeStep ==
  ASSUME IInv, NEW w \in Workers, WorkerTake(w) PROVE IInv'
<1> USE ThreadsAssumption DEF IInv, WorkerTake, HeadAfterTake, TailAfterTake,
  Release, Goto, queueVars, Threads
<1>1. TypeOK'
  BY DEF TypeOK, ThreadState
<1>2. ThreadState'
  BY DEF TypeOK, ThreadState
<1>3. MutualExclusion'
  BY DEF TypeOK, ThreadState, MutualExclusion, Holds
<1>4. ListIsFifo'
  BY DEF TypeOK, ThreadState, ListIsFifo, Items
<1>5. Items'
  BY SMTT(30) DEF TypeOK, ThreadState, ListIsFifo, Items
<1> QED  BY <1>1, <1>2, <1>3, <1>4, <1>5

LEMMA WorkerFinishStep ==
  ASSUME IInv, NEW w \in Workers, WorkerFinish(w) PROVE IInv'
<1> USE ThreadsAssumption DEF IInv, WorkerFinish, Goto, queueVars, Threads
<1>1. TypeOK'
  BY DEF TypeOK, ThreadState
<1>2. ThreadState'
  BY DEF TypeOK, ThreadState
<1>3. MutualExclusion'
  BY DEF TypeOK, ThreadState, MutualExclusion, Holds
<1>4. ListIsFifo'
  BY DEF TypeOK, ThreadState, ListIsFifo, Items
<1>5. Items'
  BY DEF TypeOK, ThreadState, ListIsFifo, Items
<1> QED  BY <1>1, <1>2, <1>3, <1>4, <1>5

LEMMA WorkerStopStep ==
  ASSUME IInv, NEW w \in Workers, WorkerStop(w) PROVE IInv'
<1> USE ThreadsAssumption DEF IInv, WorkerStop, Goto, queueVars, Threads
<1>1. TypeOK'
  BY DEF TypeOK, ThreadState
<1>2. ThreadState'
  BY DEF TypeOK, ThreadState
<1>3. MutualExclusion'
  BY DEF TypeOK, ThreadState, MutualExclusion, Holds
<1>4. ListIsFifo'
  BY DEF TypeOK, ThreadState, ListIsFifo, Items
<1>5. Items'
  BY DEF TypeOK, ThreadState, ListIsFifo, Items
<1> QED  BY <1>1, <1>2, <1>3, <1>4, <1>5

LEMMA WorkerExitStep ==
  ASSUME IInv, NEW w \in Workers, WorkerExit(w) PROVE IInv'
<1> USE ThreadsAssumption DEF IInv, WorkerExit, Release, Goto, queueVars, Threads
<1>1. TypeOK'
  BY DEF TypeOK, ThreadState
<1>2. ThreadState'
  BY DEF TypeOK, ThreadState
<1>3. MutualExclusion'
  BY DEF TypeOK, ThreadState, MutualExclusion, Holds
<1>4. ListIsFifo'
  BY DEF TypeOK, ThreadState, ListIsFifo, Items
<1>5. Items'
  BY DEF TypeOK, ThreadState, ListIsFifo, Items
<1> QED  BY <1>1, <1>2, <1>3, <1>4, <1>5

LEMMA SpuriousWakeupStep ==
  ASSUME IInv, NEW w \in Workers, SpuriousWakeup(w) PROVE IInv'
<1> USE ThreadsAssumption DEF IInv, SpuriousWakeup, Goto, queueVars, Threads
<1>1. TypeOK'
  BY DEF TypeOK, ThreadState
<1>2. ThreadState'
  BY DEF TypeOK, ThreadState
<1>3. MutualExclusion'
  BY DEF TypeOK, ThreadState, MutualExclusion, Holds
<1>4. ListIsFifo'
  BY DEF TypeOK, ThreadState, ListIsFifo, Items
<1>5. Items'
  BY DEF TypeOK, ThreadState, ListIsFifo, Items
<1> QED  BY <1>1, <1>2, <1>3, <1>4, <1>5

LEMMA CallDestroyStep ==
  ASSUME IInv, CallDestroy PROVE IInv'
<1> USE ThreadsAssumption DEF IInv, CallDestroy, Goto, queueVars, Threads
<1>1. TypeOK'
  BY DEF TypeOK, ThreadState
<1>2. ThreadState'
  BY DEF TypeOK, ThreadState
<1>3. MutualExclusion'
  BY DEF TypeOK, ThreadState, MutualExclusion, Holds
<1>4. ListIsFifo'
  BY DEF TypeOK, ThreadState, ListIsFifo, Items
<1>5. Items'
  BY DEF TypeOK, ThreadState, ListIsFifo, Items
<1> QED  BY <1>1, <1>2, <1>3, <1>4, <1>5

LEMMA DestroyLockStep ==
  ASSUME IInv, DestroyLock PROVE IInv'
<1> USE ThreadsAssumption DEF IInv, DestroyLock, Acquire, Goto, queueVars, Threads
<1>1. TypeOK'
  BY DEF TypeOK, ThreadState
<1>2. ThreadState'
  BY DEF TypeOK, ThreadState
<1>3. MutualExclusion'
  BY DEF TypeOK, ThreadState, MutualExclusion, Holds
<1>4. ListIsFifo'
  BY DEF TypeOK, ThreadState, ListIsFifo, Items
<1>5. Items'
  BY DEF TypeOK, ThreadState, ListIsFifo, Items
<1> QED  BY <1>1, <1>2, <1>3, <1>4, <1>5

LEMMA DestroyFreeStep ==
  ASSUME IInv, DestroyFree PROVE IInv'
<1> USE ThreadsAssumption DEF IInv, DestroyFree, Goto, queueVars, Threads
<1>1. TypeOK'
  BY DEF TypeOK, ThreadState
<1>2. ThreadState'
  BY DEF TypeOK, ThreadState
<1>3. MutualExclusion'
  BY DEF TypeOK, ThreadState, MutualExclusion, Holds
<1>4. ListIsFifo'
  BY DEF TypeOK, ThreadState, ListIsFifo, Items
<1>5. Items'
  BY DEF TypeOK, ThreadState, ListIsFifo, Items
<1> QED  BY <1>1, <1>2, <1>3, <1>4, <1>5

LEMMA DestroyUnlockStep ==
  ASSUME IInv, DestroyUnlock PROVE IInv'
<1> USE ThreadsAssumption DEF IInv, DestroyUnlock, Release, Goto, queueVars, Threads
<1>1. TypeOK'
  BY DEF TypeOK, ThreadState
<1>2. ThreadState'
  BY DEF TypeOK, ThreadState
<1>3. MutualExclusion'
  BY DEF TypeOK, ThreadState, MutualExclusion, Holds
<1>4. ListIsFifo'
  BY DEF TypeOK, ThreadState, ListIsFifo, Items
<1>5. Items'
  BY DEF TypeOK, ThreadState, ListIsFifo, Items
<1> QED  BY <1>1, <1>2, <1>3, <1>4, <1>5

LEMMA DestroyBroadcastStep ==
  ASSUME IInv, DestroyBroadcast PROVE IInv'
<1> USE ThreadsAssumption DEF IInv, DestroyBroadcast, WokenByDestroy, Goto, queueVars, Threads
<1>1. TypeOK'
  BY DEF TypeOK, ThreadState
<1>2. ThreadState'
  BY DEF TypeOK, ThreadState
<1>3. MutualExclusion'
  BY DEF TypeOK, ThreadState, MutualExclusion, Holds
<1>4. ListIsFifo'
  BY DEF TypeOK, ThreadState, ListIsFifo, Items
<1>5. Items'
  BY DEF TypeOK, ThreadState, ListIsFifo, Items
<1> QED  BY <1>1, <1>2, <1>3, <1>4, <1>5

LEMMA DestroyPollStep ==
  ASSUME IInv, DestroyPoll PROVE IInv'
<1> USE ThreadsAssumption DEF IInv, DestroyPoll, KeepPolling, Goto, queueVars, Threads
<1>1. TypeOK'
  BY DEF TypeOK, ThreadState
<1>2. ThreadState'
  BY DEF TypeOK, ThreadState
<1>3. MutualExclusion'
  BY DEF TypeOK, ThreadState, MutualExclusion, Holds
<1>4. ListIsFifo'
  BY DEF TypeOK, ThreadState, ListIsFifo, Items
<1>5. Items'
  BY DEF TypeOK, ThreadState, ListIsFifo, Items
<1> QED  BY <1>1, <1>2, <1>3, <1>4, <1>5

LEMMA DestroyEndStep ==
  ASSUME IInv, DestroyEnd PROVE IInv'
<1> USE ThreadsAssumption DEF IInv, DestroyEnd, KeepPolling, Goto, queueVars, Threads
<1>1. TypeOK'
  BY DEF TypeOK, ThreadState
<1>2. ThreadState'
  BY DEF TypeOK, ThreadState
<1>3. MutualExclusion'
  BY DEF TypeOK, ThreadState, MutualExclusion, Holds
<1>4. ListIsFifo'
  BY DEF TypeOK, ThreadState, ListIsFifo, Items
<1>5. Items'
  BY DEF TypeOK, ThreadState, ListIsFifo, Items
<1> QED  BY <1>1, <1>2, <1>3, <1>4, <1>5

LEMMA NextIInv == IInv /\ [Next]_vars => IInv'
<1> SUFFICES ASSUME IInv, [Next]_vars PROVE IInv'
  OBVIOUS
<1>1. CASE UNCHANGED vars
  BY <1>1 DEF IInv, vars, TypeOK, ThreadState, MutualExclusion, Holds, ListIsFifo, Items
<1>2. CASE \E p \in Producers : Producer(p)
  BY <1>2, CallEnqueueStep, EnqueueLockStep, EnqueueLinkStep, EnqueueSignalStep
     DEF Producer
<1>3. CASE \E w \in Workers : Worker(w) \/ SpuriousWakeup(w)
  BY <1>3, WorkerLockStep, WorkerWaitStep, WorkerTakeStep, WorkerFinishStep,
     WorkerStopStep, WorkerExitStep, SpuriousWakeupStep DEF Worker
<1>4. CASE Destroy
  BY <1>4, CallDestroyStep, DestroyLockStep, DestroyFreeStep, DestroyUnlockStep,
     DestroyBroadcastStep, DestroyPollStep, DestroyEndStep DEF Destroy
<1> QED  BY <1>1, <1>2, <1>3, <1>4 DEF Next

LEMMA Invariance == Spec => []IInv
BY InitIInv, NextIInv, PTL DEF Spec
-----------------------------------------------------------------------------
(* The variables of the work queue always have their types: the pointers   *)
(* of sr_work_queue.c always denote an item or NULL.                       *)
THEOREM TypeCorrect == Spec => []TypeOK
<1>1. IInv => TypeOK
  BY DEF IInv
<1> QED  BY <1>1, Invariance, PTL

(* wq->lock gives mutual exclusion until wq_destroy has destroyed it.      *)
THEOREM MutexCorrect == Spec => []MutualExclusion
<1>1. IInv => MutualExclusion
  BY DEF IInv
<1> QED  BY <1>1, Invariance, PTL

(* The linked list is a FIFO queue of the items of wq_enqueue.             *)
THEOREM FifoCorrect == Spec => []ListIsFifo
<1>1. IInv => ListIsFifo
  BY DEF IInv
<1> QED  BY <1>1, Invariance, PTL

(* No item is used after it is freed and none is handed out twice.         *)
THEOREM MemoryCorrect == Spec => []NoDanglingItem
<1>1. ASSUME IInv PROVE NoDanglingItem
  <2> USE <1>1 DEF IInv, TypeOK, ListIsFifo, Items
  <2>1. ASSUME NEW i \in taken + 1 .. Len(log) PROVE log[i] \notin freed
    OBVIOUS
  <2>2. ASSUME NEW t \in Threads, item[t] # NULL, NEW i \in taken + 1 .. Len(log)
        PROVE  log[i] # item[t]
    <3>1. CASE t \in Producers
      BY <3>1, <2>2
    <3>2. CASE t \in Workers
      BY <3>2, <2>2
    <3>3. t # Destroyer
      BY <2>2, ThreadsAssumption DEF ThreadState, Threads
    <3> QED  BY <3>1, <3>2, <3>3 DEF Threads
  <2> QED  BY <2>1, <2>2 DEF NoDanglingItem
<1> QED  BY <1>1, Invariance, PTL
-----------------------------------------------------------------------------
(* How the queue of the refinement mapping changes at its two ends.        *)
LEMMA UnlinkTail ==
  ASSUME NEW S, NEW s \in Seq(S), NEW k \in Nat, k < Len(s)
  PROVE  LET q == SubSeq(s, k + 1, Len(s)) IN
         q # <<>> /\ Head(q) = s[k + 1] /\ Tail(q) = SubSeq(s, (k + 1) + 1, Len(s))
<1>1. k + 1 \in 1 .. Len(s) /\ Len(s) \in k + 1 .. Len(s)
  OBVIOUS
<1>2. Len(SubSeq(s, k + 1, Len(s))) # 0
  OBVIOUS
<1>3. SubSeq(s, k + 1, Len(s)) # <<>>
  BY <1>2, EmptySeq
<1>4. /\ Head(SubSeq(s, k + 1, Len(s))) = s[k + 1]
      /\ Tail(SubSeq(s, k + 1, Len(s))) = SubSeq(s, (k + 1) + 1, Len(s))
  BY <1>1, HeadTailOfSubSeq
<1> QED  BY <1>3, <1>4

LEMMA LinkAppend ==
  ASSUME NEW S, NEW s \in Seq(S), NEW k \in Nat, k <= Len(s), NEW e \in S
  PROVE  SubSeq(Append(s, e), k + 1, Len(Append(s, e)))
           = Append(SubSeq(s, k + 1, Len(s)), e)
<1> DEFINE l == SubSeq(Append(s, e), k + 1, Len(Append(s, e)))
           r == Append(SubSeq(s, k + 1, Len(s)), e)
<1>1. l \in Seq(S) /\ r \in Seq(S)
  BY AppendProperties, SubSeqProperties
<1>2. Len(l) = Len(s) + 1 - k /\ Len(r) = Len(s) + 1 - k
  BY AppendProperties, SubSeqProperties
<1>3. ASSUME NEW i \in 1 .. Len(s) + 1 - k PROVE l[i] = r[i]
  BY AppendProperties, SubSeqProperties
<1> HIDE DEF l, r
<1>4. l = r
  BY <1>1, <1>2, <1>3, SeqEqual
<1> QED  BY <1>4 DEF l, r

(* sr_work_queue.c implements the queue that sr_work_queue.h promises.     *)
THEOREM Refinement == Spec => ImplementsJobQueue
<1> USE DEF JQ!vars
<1>1. Init => JQ!Init
  BY DEF Init, JQ!Init, Threads
<1>2. IInv /\ [Next]_vars => [JQ!Next]_(JQ!vars)
  <2> SUFFICES ASSUME IInv, [Next]_vars PROVE [JQ!Next]_(JQ!vars)
    OBVIOUS
  <2> USE DEF IInv
  <2> DEFINE todo == SubSeq(log, taken + 1, Len(log))
  <2>1. ASSUME NEW p \in Producers, EnqueueLink(p) PROVE JQ!Submit(item[p])
    <3>1. item[p] \in Jobs /\ p \in Threads
      BY <2>1 DEF EnqueueLink, TypeOK, ThreadState, Threads
    <3>2. todo' = Append(todo, item[p])
      <4>1. log \in Seq(Jobs) /\ taken \in Nat /\ taken <= Len(log)
        BY DEF TypeOK, ListIsFifo
      <4>2. SubSeq(Append(log, item[p]), taken + 1, Len(Append(log, item[p])))
              = Append(todo, item[p])
        BY <3>1, <4>1, LinkAppend
      <4>3. log' = Append(log, item[p]) /\ taken' = taken
        BY <2>1 DEF EnqueueLink
      <4> QED  BY <4>2, <4>3
    <3>3. ~done /\ UNCHANGED <<freed, done>>
      BY <2>1, ThreadsAssumption DEF EnqueueLink, ThreadState
    <3>4. [w \in Workers |-> item[w]]' = [w \in Workers |-> item[w]]
      BY <2>1, ThreadsAssumption DEF EnqueueLink, TypeOK, Threads
    <3>5. ASSUME NEW i \in DOMAIN todo PROVE todo[i] # item[p]
      <4>1. i \in 1 .. Len(log) - taken /\ todo[i] = log[taken + i]
        BY SubSeqProperties DEF TypeOK, ListIsFifo
      <4> QED  BY <3>1, <4>1, ThreadsAssumption DEF TypeOK, Items
    <3>6. item[p] \notin freed /\ \A w \in Workers : item[w] # item[p]
      BY <2>1, <3>1, ThreadsAssumption DEF EnqueueLink, Items, Threads
    <3> QED  BY <3>2, <3>3, <3>4, <3>5, <3>6 DEF JQ!Submit
  <2>2. ASSUME NEW w \in Workers, WorkerTake(w) PROVE JQ!Start(w)
    <3>1. taken < Len(log) /\ head = log[taken + 1] /\ ~done
      BY <2>2 DEF WorkerTake, TypeOK, ListIsFifo
    <3>2. todo # <<>> /\ head = Head(todo) /\ todo' = Tail(todo)
      BY <2>2, <3>1, UnlinkTail DEF WorkerTake, TypeOK
    <3>3. item[w] = NULL
      BY <2>2, ThreadsAssumption DEF WorkerTake, ThreadState, Threads
    <3>4. [v \in Workers |-> item[v]]' = [[v \in Workers |-> item[v]] EXCEPT ![w] = head]
      BY <2>2 DEF WorkerTake, TypeOK, Threads
    <3> QED  BY <2>2, <3>1, <3>2, <3>3, <3>4 DEF WorkerTake, JQ!Start
  <2>3. ASSUME NEW w \in Workers, WorkerFinish(w) PROVE JQ!Finish(w)
    BY <2>3 DEF WorkerFinish, JQ!Finish, TypeOK, ThreadState, Threads, queueVars
  <2>4. ASSUME DestroyLock PROVE JQ!Close
    BY <2>4 DEF DestroyLock, JQ!Close, ThreadState, queueVars
  <2>5. ASSUME DestroyFree PROVE JQ!Delete
    <3>1. taken < Len(log) /\ head = log[taken + 1] /\ done
      BY <2>5 DEF DestroyFree, TypeOK, ThreadState, ListIsFifo
    <3>2. todo # <<>> /\ head = Head(todo) /\ todo' = Tail(todo)
      BY <2>5, <3>1, UnlinkTail DEF DestroyFree, TypeOK
    <3> QED  BY <2>5, <3>1, <3>2 DEF DestroyFree, JQ!Delete
  <2>6. ASSUME NEW p \in Producers, NEW j \in Jobs, CallEnqueue(p, j)
        PROVE  UNCHANGED JQ!vars
    BY <2>6, ThreadsAssumption DEF CallEnqueue, TypeOK, Threads, queueVars
  <2>7. ASSUME NEW p \in Producers, EnqueueLock(p) \/ EnqueueSignal(p)
        PROVE  UNCHANGED JQ!vars
    BY <2>7 DEF EnqueueLock, EnqueueSignal, queueVars
  <2>8. ASSUME NEW w \in Workers,
               WorkerLock(w) \/ WorkerWait(w) \/ WorkerStop(w) \/ WorkerExit(w)
                 \/ SpuriousWakeup(w)
        PROVE  UNCHANGED JQ!vars
    BY <2>8 DEF WorkerLock, WorkerWait, WorkerStop, WorkerExit, SpuriousWakeup, queueVars
  <2>9. ASSUME CallDestroy \/ DestroyUnlock \/ DestroyBroadcast \/ DestroyPoll
                 \/ DestroyEnd
        PROVE  UNCHANGED JQ!vars
    BY <2>9 DEF CallDestroy, DestroyUnlock, DestroyBroadcast, DestroyPoll, DestroyEnd,
       queueVars
  <2>10. CASE UNCHANGED vars
    BY <2>10 DEF vars
  <2>11. \A p \in Producers : EnqueueLink(p) => item[p] \in Jobs
    BY ThreadsAssumption DEF EnqueueLink, TypeOK, ThreadState, Threads
  <2>12. CASE \E p \in Producers : Producer(p)
    BY <2>1, <2>6, <2>7, <2>11, <2>12 DEF Producer, JQ!Next
  <2>13. CASE \E w \in Workers : Worker(w) \/ SpuriousWakeup(w)
    BY <2>2, <2>3, <2>8, <2>13 DEF Worker, JQ!Next
  <2>14. CASE Destroy
    BY <2>4, <2>5, <2>9, <2>14 DEF Destroy, JQ!Next
  <2> QED  BY <2>10, <2>12, <2>13, <2>14 DEF Next
<1> QED  BY <1>1, <1>2, Invariance, PTL DEF Spec, ImplementsJobQueue, JQ!Spec

(* All that the work queue keeps: exclusion, order and memory.             *)
THEOREM QueueCorrect == Spec => []QueueSane
<1>1. TypeOK /\ MutualExclusion /\ ListIsFifo /\ NoDanglingItem => QueueSane
  BY DEF QueueSane
<1> QED  BY <1>1, TypeCorrect, MutexCorrect, FifoCorrect, MemoryCorrect, PTL
=============================================================================
