------------------------------- MODULE SysMbox -------------------------------
(***************************************************************************)
(* A mailbox of the TCP stack (lwtcp/sys_arch.c) and the way the transport *)
(* thread uses it (lwtcp/transport_subsys.c): messages come from a pool,   *)
(* any thread posts them, and one thread fetches them, with a timeout, and *)
(* gives them back to the pool.                                            *)
(*                                                                         *)
(* The mailbox is a ring of Size slots with the indices first and last,    *)
(* a binary semaphore mutex around it and a binary semaphore mail that is  *)
(* signalled only by a post that finds the ring empty.  sys_mbox_post does *)
(* not look whether the ring is full: what keeps it from filling up is the *)
(* pool, which has fewer messages than the ring has slots.                 *)
(***************************************************************************)
EXTENDS Integers, Sequences, FiniteSets

CONSTANTS
  Posters,  \* the threads that call tcp_msg_input and transport_apimsg
  Fetcher,  \* the transport thread
  Pool,     \* the elements of the pool MEMP_TCP_MSG
  Size,     \* SYS_MBOX_SIZE
  NULL

ASSUME MboxAssumption ==
  /\ Size \in Nat /\ IsFiniteSet(Pool) /\ Cardinality(Pool) < Size
  /\ Fetcher \notin Posters
  /\ NULL \notin Pool

Threads == Posters \cup {Fetcher}
Slots == 0 .. Size - 1

VARIABLES
  mutex, mail,        \* the counters of the two semaphores
  first, last, msgs,  \* the ring
  pc,                 \* where each thread is in its call
  msg,                \* the message each thread has in hand
  wasEmpty,           \* the local variable first of sys_mbox_post
  free,               \* the free elements of the pool
  inbox               \* history: the messages posted and not yet fetched

ring == <<first, last, msgs, inbox>>
vars == <<mutex, mail, first, last, msgs, pc, msg, wasEmpty, free, inbox>>

Init ==
  /\ mutex = 1 /\ mail = 0
  /\ first = 0 /\ last = 0 /\ msgs = [i \in Slots |-> NULL]
  /\ pc = [t \in Threads |-> IF t = Fetcher THEN "lock" ELSE "idle"]
  /\ msg = [t \in Threads |-> NULL]
  /\ wasEmpty = [t \in Posters |-> FALSE]
  /\ free = Pool /\ inbox = <<>>

Goto(t, l) == pc' = [pc EXCEPT ![t] = l]

(* sys_arch_sem_wait and sys_sem_signal, which SysSem shows to be a binary *)
(* semaphore.                                                              *)
SemWait(c) == c > 0 /\ c' = c - 1
SemSignal(c) == c' = 1

IndexAfter(i) == IF i + 1 = Size THEN 0 ELSE i + 1
-----------------------------------------------------------------------------
(* tcp_msg_input and transport_apimsg take a message from the pool; without*)
(* one they give up.                                                       *)
Allocate(t, m) ==
  /\ pc[t] = "idle" /\ m \in free
  /\ free' = free \ {m} /\ msg' = [msg EXCEPT ![t] = m]
  /\ Goto(t, "lock")
  /\ UNCHANGED <<mutex, mail, wasEmpty, ring>>

PostNoLock(t) == \* mutant: the mutex is not waited for
  /\ pc[t] = "lock" /\ mutex' = 0 /\ Goto(t, "store")
  /\ UNCHANGED <<mail, msg, wasEmpty, free, ring>>

PostLock(t) ==
  /\ pc[t] = "lock" /\ SemWait(mutex) /\ Goto(t, "store")
  /\ UNCHANGED <<mail, msg, wasEmpty, free, ring>>

PostStore(t) ==
  /\ pc[t] = "store"
  /\ msgs' = [msgs EXCEPT ![last] = msg[t]]
  /\ wasEmpty' = [wasEmpty EXCEPT ![t] = (last = first)]
  /\ last' = IndexAfter(last)
  /\ inbox' = Append(inbox, msg[t])
  /\ msg' = [msg EXCEPT ![t] = NULL]
  /\ Goto(t, "signal")
  /\ UNCHANGED <<mutex, mail, first, free>>

PostMailNever(t) == \* mutant: mail is not signalled
  /\ pc[t] = "signal" /\ Goto(t, "unlock")
  /\ UNCHANGED <<mutex, mail, msg, wasEmpty, free, ring>>

PostMail(t) ==
  /\ pc[t] = "signal"
  /\ IF wasEmpty[t] THEN SemSignal(mail) ELSE UNCHANGED mail
  /\ Goto(t, "unlock")
  /\ UNCHANGED <<mutex, msg, wasEmpty, free, ring>>

PostUnlock(t) ==
  /\ pc[t] = "unlock" /\ SemSignal(mutex) /\ Goto(t, "idle")
  /\ UNCHANGED <<mail, msg, wasEmpty, free, ring>>
-----------------------------------------------------------------------------
(* sys_arch_mbox_fetch.                                                    *)
FetchLock ==
  /\ pc[Fetcher] = "lock" /\ SemWait(mutex) /\ Goto(Fetcher, "check")
  /\ UNCHANGED <<mail, msg, wasEmpty, free, ring>>

FetchEmpty ==
  /\ pc[Fetcher] = "check" /\ first = last
  /\ SemSignal(mutex) /\ Goto(Fetcher, "wait")
  /\ UNCHANGED <<mail, msg, wasEmpty, free, ring>>

FetchMail ==
  /\ pc[Fetcher] = "wait" /\ SemWait(mail) /\ Goto(Fetcher, "lock")
  /\ UNCHANGED <<mutex, msg, wasEmpty, free, ring>>

(* The wait for mail times out: sys_mbox_fetch runs the timeout's handler  *)
(* and calls sys_arch_mbox_fetch again.  The timeout may come although     *)
(* mail has just been signalled.                                           *)
FetchTimeout ==
  /\ pc[Fetcher] = "wait" /\ Goto(Fetcher, "lock")
  /\ UNCHANGED <<mutex, mail, msg, wasEmpty, free, ring>>

SlotFirst == msgs[first]

FetchTake ==
  /\ pc[Fetcher] = "check" /\ first # last
  /\ msg' = [msg EXCEPT ![Fetcher] = SlotFirst]
  /\ first' = IndexAfter(first)
  /\ inbox' = Tail(inbox)
  /\ SemSignal(mutex) /\ Goto(Fetcher, "process")
  /\ UNCHANGED <<mail, last, msgs, wasEmpty, free>>

(* transport_thread has dealt with the message and calls memp_freep.       *)
FreeMsg ==
  /\ pc[Fetcher] = "process"
  /\ free' = free \cup {msg[Fetcher]} /\ msg' = [msg EXCEPT ![Fetcher] = NULL]
  /\ Goto(Fetcher, "lock")
  /\ UNCHANGED <<mutex, mail, wasEmpty, ring>>
-----------------------------------------------------------------------------
Post(t) == PostLock(t) \/ PostStore(t) \/ PostMail(t) \/ PostUnlock(t)
Fetch == FetchLock \/ FetchEmpty \/ FetchMail \/ FetchTake \/ FreeMsg

Next == \/ \E t \in Posters : Post(t) \/ \E m \in Pool : Allocate(t, m)
        \/ Fetch \/ FetchTimeout

Spec == Init /\ [][Next]_vars

(***************************************************************************)
(* A thread that can run does run.  Nothing is assumed of who gets the     *)
(* mutex when several threads want it: SysSem makes no promise.  Nothing   *)
(* is assumed of the timeout either: a thread without timeouts waits for   *)
(* mail for ever, so mail alone must wake it.                              *)
(***************************************************************************)
Fairness == WF_vars(Fetch) /\ \A t \in Posters : WF_vars(Post(t))

FairSpec == Spec /\ Fairness
-----------------------------------------------------------------------------
Holds(t) == pc[t] \in IF t = Fetcher THEN {"check"} ELSE {"store", "signal", "unlock"}

(* The indices stay inside the ring.                                       *)
TypeOK ==
  /\ mutex \in {0, 1} /\ mail \in {0, 1}
  /\ first \in Slots /\ last \in Slots
  /\ msgs \in [Slots -> Pool \cup {NULL}]
  /\ pc \in [Threads -> {"idle", "lock", "store", "signal", "unlock", "check",
                         "wait", "process"}]
  /\ msg \in [Threads -> Pool \cup {NULL}]
  /\ wasEmpty \in [Posters -> BOOLEAN]
  /\ free \subseteq Pool /\ inbox \in Seq(Pool)

(* A post or fetch works on the ring alone: mutex is down exactly while    *)
(* one thread is inside.                                                   *)
OneInside ==
  /\ \A t, u \in Threads : Holds(t) /\ Holds(u) => t = u
  /\ mutex = 0 <=> \E t \in Threads : Holds(t)

(* The slots from first up to last, around the end of the ring, are the    *)
(* messages posted and not yet fetched, in their order: no post overwrites *)
(* a message and a ring that holds messages never looks empty.             *)
Around(a, i) == IF a + i < Size THEN a + i ELSE a + i - Size

RingIsInbox ==
  /\ Len(inbox) < Size
  /\ last = Around(first, Len(inbox))
  /\ \A i \in 1 .. Len(inbox) : msgs[Around(first, i - 1)] = inbox[i]

(* Every message is in one place: free, in the hands of one thread, or     *)
(* once in the mailbox.  None leaks, and none is freed or posted twice.    *)
OneOwner ==
  /\ \A m \in Pool : \/ m \in free
                     \/ \E t \in Threads : msg[t] = m
                     \/ \E i \in 1 .. Len(inbox) : inbox[i] = m
  /\ \A i, k \in 1 .. Len(inbox) : inbox[i] = inbox[k] => i = k
  /\ \A i \in 1 .. Len(inbox) : inbox[i] \notin free
  /\ \A t \in Threads : msg[t] # NULL =>
       /\ msg[t] \notin free
       /\ \A i \in 1 .. Len(inbox) : inbox[i] # msg[t]
       /\ \A u \in Threads \ {t} : msg[u] # msg[t]

(* When the fetcher sleeps and a message is there, mail is up or the post  *)
(* that found the ring empty is about to signal it.                        *)
NoLostMail ==
  pc[Fetcher] = "wait" /\ inbox # <<>> =>
    mail = 1 \/ \E t \in Posters : pc[t] = "signal" /\ wasEmpty[t]

(* Every message that is in the mailbox is fetched and goes back to the    *)
(* pool, even when no timeout ever wakes the fetcher and even if posts     *)
(* overtake it whenever they can: the pool runs out before they starve it. *)
EveryMessageReturns ==
  \A m \in Pool : (\E i \in DOMAIN inbox : inbox[i] = m) ~> m \in free

(* sys_mbox_post and sys_arch_mbox_fetch together: one thread at a time is *)
(* inside, the ring is the queue of the posted messages, each message has  *)
(* one owner, and a fetcher that sleeps will be woken for what is there.   *)
MailboxSane == TypeOK /\ OneInside /\ RingIsInbox /\ OneOwner /\ NoLostMail
=============================================================================
