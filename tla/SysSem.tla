-------------------------------- MODULE SysSem --------------------------------
(***************************************************************************)
(* A semaphore of the TCP stack (lwtcp/sys_arch.c): a counter that is      *)
(* never more than 1, a pthread mutex and a condition variable.            *)
(*                                                                         *)
(* Every call holds the mutex from one blocking point to the next, so a    *)
(* step is what a thread does between taking the mutex and giving it up,   *)
(* by unlocking it or by going to sleep on the condition.                  *)
(***************************************************************************)
EXTENDS Integers

CONSTANTS Users, Start  \* Start: the count given to sys_sem_new

ASSUME SemAssumption == Start \in {0, 1}

VARIABLES
  c,       \* sem->c
  asleep,  \* the threads in pthread_cond_wait or pthread_cond_timedwait
  at,      \* idle; wait and signal: about to take the mutex in that call;
           \* sleep: on the condition; late: back from it with ETIMEDOUT
  timed,   \* the threads whose wait has a timeout
  gets     \* history: the threads whose last wait returned with the semaphore

semvars == <<c, asleep, at, timed, gets>>

SemInit == /\ c = Start /\ asleep = {}
           /\ at = [t \in Users |-> "idle"] /\ timed = {} /\ gets = {}

MoveTo(t, l) == at' = [at EXCEPT ![t] = l]

CallWait(t, limited) ==
  /\ at[t] = "idle" /\ MoveTo(t, "wait")
  /\ timed' = IF limited THEN timed \cup {t} ELSE timed \ {t}
  /\ gets' = gets \ {t}
  /\ UNCHANGED <<c, asleep>>

(* sys_arch_sem_wait: the loop's test with the mutex, and what follows it. *)
TakeAlways(t) == at[t] = "wait" \* mutant: the counter is not looked at
MayTake(t) == at[t] = "wait" /\ c > 0

Take(t) ==
  /\ MayTake(t)
  /\ c' = c - 1 /\ gets' = gets \cup {t}
  /\ MoveTo(t, "idle")
  /\ UNCHANGED <<asleep, timed>>

Sleep(t) ==
  /\ at[t] = "wait" /\ c <= 0
  /\ asleep' = asleep \cup {t} /\ MoveTo(t, "sleep")
  /\ UNCHANGED <<c, timed, gets>>

(* cond_wait returns although nobody signalled.                            *)
SpuriousWakeup(t) ==
  /\ t \in asleep /\ asleep' = asleep \ {t} /\ MoveTo(t, "wait")
  /\ UNCHANGED <<c, timed, gets>>

(* The time is up, and the thread no longer takes signals; it still has to *)
(* get the mutex back before it returns 0, and does not look at c again.   *)
Expire(t) ==
  /\ t \in asleep \cap timed /\ asleep' = asleep \ {t} /\ MoveTo(t, "late")
  /\ UNCHANGED <<c, timed, gets>>

GiveUp(t) ==
  /\ at[t] = "late" /\ MoveTo(t, "idle") /\ UNCHANGED <<c, asleep, timed, gets>>

CallSignal(t) ==
  /\ at[t] = "idle" /\ MoveTo(t, "signal") /\ UNCHANGED <<c, asleep, timed, gets>>

(* sys_sem_signal: the counter is raised and cut down to 1.                *)
Raised == IF c + 1 > 1 THEN 1 ELSE c + 1

WakeNobody == {} \* mutant: no pthread_cond_signal
Wakeable == asleep

Signal(t) ==
  /\ at[t] = "signal" /\ c' = Raised
  /\ \/ /\ Wakeable = {} /\ MoveTo(t, "idle") /\ UNCHANGED asleep
     \/ \E u \in Wakeable :
          /\ asleep' = asleep \ {u}
          /\ at' = [at EXCEPT ![t] = "idle", ![u] = "wait"]
  /\ UNCHANGED <<timed, gets>>

SemStep(t) == Take(t) \/ Sleep(t) \/ GiveUp(t) \/ Signal(t)

SemNext == \E t \in Users :
  \/ \E limited \in BOOLEAN : CallWait(t, limited)
  \/ CallSignal(t) \/ SemStep(t) \/ SpuriousWakeup(t) \/ Expire(t)

SemSpec == SemInit /\ [][SemNext]_semvars

(* Threads run; which of the threads that want the mutex gets it first is  *)
(* left open.                                                              *)
SemFairSpec == SemSpec /\ \A t \in Users : WF_semvars(SemStep(t))
-----------------------------------------------------------------------------
(* The counter is 0 or 1.                                                  *)
SemTypeOK ==
  /\ c \in {0, 1} /\ asleep \subseteq Users /\ timed \subseteq Users
  /\ gets \subseteq Users
  /\ at \in [Users -> {"idle", "wait", "sleep", "late", "signal"}]

(* A signal is never spent on a thread that does not use it: while the     *)
(* semaphore is up and threads sleep on it, one that was woken is on its   *)
(* way.  A timeout that comes with the signal does not break this.         *)
NoLostSignal ==
  /\ \A t \in Users : t \in asleep <=> at[t] = "sleep"
  /\ c > 0 /\ asleep # {} => \E t \in Users : at[t] = "wait"

(* The pthread code is a binary semaphore: a wait returns with it only     *)
(* when it was up, and takes it down; nothing else takes it down.          *)
Binary == INSTANCE BinarySemaphore WITH Threads <- Users, up <- (c = 1), got <- gets
ImplementsBinarySemaphore == Binary!Spec

(* A semaphore that is up while threads sleep on it is taken.  (Not by a   *)
(* given one of them: a thread that just calls can overtake the sleepers   *)
(* again and again.)                                                       *)
SignalIsUsed == c > 0 /\ asleep # {} ~> c = 0

(* sys_sem_signal and sys_arch_sem_wait: the counter is binary, and while  *)
(* it is up no thread sleeps unless another is on its way to take it.      *)
SemaphoreSane == SemTypeOK /\ NoLostSignal
=============================================================================
