------------------------------ MODULE SysTimeouts ------------------------------
(***************************************************************************)
(* The timeouts of a thread of the TCP stack (lwtcp/sys.c): a list in the  *)
(* order they fire, each entry with the time from the entry before it.     *)
(* sys_timeout inserts into it; sys_mbox_fetch and sys_sem_wait sleep at   *)
(* most until the first entry is due, charge the time they slept to it and *)
(* call its handler when the time is up.                                   *)
(*                                                                         *)
(* left is a timeout's delay in the time the list is charged: sleeping is  *)
(* charged, at least 1 each time, and working is not.                      *)
(***************************************************************************)
EXTENDS Integers, Sequences, SequencesExt

CONSTANTS
  Timers,    \* the timeouts a thread may have pending
  Delays,    \* the values of msecs
  PoolSize   \* MEMP_NUM_SYS_TIMEOUT

\* msecs has 32 bits, so there is a longest delay.
ASSUME TimeoutsAssumption ==
  /\ Delays \subseteq Nat /\ PoolSize \in Nat
  /\ \E n \in Delays : \A m \in Delays : m <= n

VARIABLES
  timeouts,  \* the list: a sequence of [h, time]
  left,      \* history: the delay of each timeout less the time charged
  fired      \* history: the timeout that has just fired, if any

timevars == <<timeouts, left, fired>>

TimeInit == /\ timeouts = <<>> /\ fired = {}
            /\ left = [h \in Timers |-> 0]

Pending == {timeouts[i].h : i \in DOMAIN timeouts}

(* The time from now until entry i fires, by the list.                     *)
Until ==
  LET sum[i \in 0 .. Len(timeouts)] ==
        IF i = 0 THEN 0 ELSE sum[i - 1] + timeouts[i].time
  IN sum

(* sys_timeout.  The walk stops before the first entry that fires later.   *)
Position(msecs) ==
  CHOOSE i \in 0 .. Len(timeouts) :
    /\ Until[i] <= msecs
    /\ \A j \in i + 1 .. Len(timeouts) : Until[j] > msecs

(* The entry behind a new one fires as long after it as before.            *)
NextUntouched(i, delta) == timeouts \* mutant: the entry behind is not corrected
NextShortened(i, delta) ==
  IF i = Len(timeouts) THEN timeouts
  ELSE [timeouts EXCEPT ![i + 1].time = @ - delta]

SysTimeout(h, msecs) ==
  LET i == Position(msecs)
      delta == msecs - Until[i]
  IN
  /\ h \notin Pending /\ Len(timeouts) < PoolSize
  /\ timeouts' = InsertAt(NextShortened(i, delta), i + 1, [h |-> h, time |-> delta])
  /\ left' = [left EXCEPT ![h] = msecs]
  /\ fired' = {}

(* Without a free element in the pool, sys_timeout does nothing.           *)
SysTimeoutNoMemory(h) ==
  /\ h \notin Pending /\ Len(timeouts) >= PoolSize
  /\ UNCHANGED timevars

(* The time e is charged to the list.                                      *)
Pass(e) == left' = [h \in Timers |-> IF h \in Pending THEN left[h] - e ELSE 0]

(* What sys_arch_mbox_fetch returns after d milliseconds: 1 if the message *)
(* was there or came within the first one.                                 *)
TimeSlept(d) == IF d = 0 THEN 1 ELSE d

Charge(time) == IF time <= timeouts[1].time THEN time ELSE timeouts[1].time

(* A message comes, or the semaphore, after d milliseconds; the thread may *)
(* get the processor later than the timeout is due.                        *)
Return(d) ==
  LET e == Charge(TimeSlept(d)) IN
  /\ timeouts # <<>> /\ timeouts[1].time > 0 /\ d <= timeouts[1].time + 1
  /\ timeouts' = [timeouts EXCEPT ![1].time = @ - e]
  /\ Pass(e) /\ fired' = {}

(* The first timeout is due: at once, or after the thread has slept for it.*)
Fire ==
  /\ timeouts # <<>>
  /\ Pass(timeouts[1].time)
  /\ fired' = {timeouts[1].h} /\ timeouts' = Tail(timeouts)

(* The longest sleep that TimeNext lets a message end.                         *)
Longest == CHOOSE n \in Delays : \A m \in Delays : m <= n

TimeNext == \/ \E h \in Timers : SysTimeoutNoMemory(h) \/ \E ms \in Delays : SysTimeout(h, ms)
            \/ Fire
            \/ \E d \in 0 .. Longest + 1 : Return(d)

TimeSpec == TimeInit /\ [][TimeNext]_timevars
-----------------------------------------------------------------------------
(* Times are unsigned, and the list is never longer than the pool.         *)
TimeTypeOK ==
  /\ Len(timeouts) <= PoolSize
  /\ \A i \in DOMAIN timeouts : timeouts[i].h \in Timers /\ timeouts[i].time \in Nat
  /\ left \in [Timers -> Int] /\ fired \subseteq Timers

(* The differences add up: however timeouts were inserted, charged and     *)
(* fired, each one is still as far away as it was asked for, in the time   *)
(* the list has been charged; so no difference ever wraps below 0.         *)
DifferencesAddUp ==
  \A i \in DOMAIN timeouts : Until[i] = left[timeouts[i].h]

(* A timeout fires when it is due and no other is overdue.                 *)
FiresInOrder ==
  \A h \in fired : left[h] = 0 /\ \A g \in Pending : left[g] >= 0

(* sys_timeout, sys_mbox_fetch and sys_sem_wait keep the delta list right: *)
(* no time goes below 0, every timeout is as far away as it was asked for, *)
(* and it fires then and in order.                                         *)
DeltaListSane == TimeTypeOK /\ DifferencesAddUp /\ FiresInOrder
=============================================================================
