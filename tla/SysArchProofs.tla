---------------------------- MODULE SysArchProofs ----------------------------
(***************************************************************************)
(* The mailboxes and the semaphores of lwtcp/sys_arch.c and the timeouts   *)
(* of lwtcp/sys.c.                                                         *)
(*                                                                         *)
(* The mailbox for any threads, any ring and any pool smaller than the     *)
(* ring.  The inductive invariant adds to the checked invariants where     *)
(* each thread can be and when it has a message in hand (AtWork).  That    *)
(* the ring never fills up is a pigeonhole argument: the messages in it    *)
(* are different elements of a smaller pool (InboxFits).                   *)
(*                                                                         *)
(* The semaphores that the mailbox takes for granted come next: for any    *)
(* number of threads they keep their types, lose no signal and implement   *)
(* binary semaphores.                                                      *)
(*                                                                         *)
(* Last the delta list of sys.c, for any timers, delays and size of the    *)
(* pool.  Its inductive invariant says of each entry by itself how far it  *)
(* is from the one before it (Differences); that the sums which            *)
(* sys_timeout forms on its walk are then the delays follows by induction  *)
(* along the list.                                                         *)
(***************************************************************************)
EXTENDS SysMbox, SysSem, SysTimeouts, FiniteSetTheorems, SequenceTheorems,
        WellFoundedInduction, TLAPS

AtWork ==
  /\ \A t \in Posters : pc[t] \in {"idle", "lock", "store", "signal", "unlock"}
  /\ pc[Fetcher] \in {"lock", "check", "wait", "process"}
  /\ \A t \in Posters : msg[t] # NULL <=> pc[t] \in {"lock", "store"}
  /\ msg[Fetcher] # NULL <=> pc[Fetcher] = "process"

IInv == TypeOK /\ AtWork /\ OneInside /\ RingIsInbox /\ OneOwner /\ NoLostMail

(* A sequence of different messages is shorter than the ring.              *)
LEMMA InboxFits ==
  ASSUME NEW s \in Seq(Pool), \A i, k \in 1 .. Len(s) : s[i] = s[k] => i = k
  PROVE  Len(s) < Size
<1> DEFINE f == [i \in 1 .. Len(s) |-> s[i]]
<1>1. Len(s) \in Nat  BY LenProperties
<1>2. f \in Injection(1 .. Len(s), Pool)
  BY ElementOfSeq DEF Injection, IsInjective
<1>4. Cardinality(1 .. Len(s)) = Len(s)
  <2>1. 1 \in Int /\ Len(s) \in Int  BY <1>1
  <2>2. Cardinality(1 .. Len(s)) = IF 1 > Len(s) THEN 0 ELSE Len(s) - 1 + 1
    BY <2>1, FS_Interval, Zenon
  <2> QED  BY <1>1, <2>2
<1>5. Cardinality(1 .. Len(s)) <= Cardinality(Pool)
  BY <1>2, MboxAssumption, FS_Injection
<1>6. Cardinality(Pool) \in Nat
  BY MboxAssumption, FS_CardinalityType
<1> QED  BY <1>1, <1>4, <1>5, <1>6, MboxAssumption

(* One slot further, from either end of a stretch of the ring.             *)
LEMMA AroundStep ==
  ASSUME Size \in Nat, NEW a \in 0 .. Size - 1, NEW i \in Nat, i + 1 < Size
  PROVE  /\ IndexAfter(Around(a, i)) = Around(a, i + 1)
         /\ Around(IndexAfter(a), i) = Around(a, i + 1)
BY DEF IndexAfter, Around

LEMMA AroundInjective ==
  ASSUME Size \in Nat, NEW a \in 0 .. Size - 1, NEW i \in Nat, NEW k \in Nat,
         i < k, k < Size
  PROVE  Around(a, i) # Around(a, k) /\ Around(a, i) \in 0 .. Size - 1
BY DEF Around

LEMMA AroundZero ==
  ASSUME Size \in Nat, NEW a \in 0 .. Size - 1
  PROVE  Around(a, 0) = a /\ \A k \in Nat : k < Size /\ Around(a, k) = a => k = 0
BY DEF Around

LEMMA InitInv == Init => IInv
<1> SUFFICES ASSUME Init PROVE IInv  OBVIOUS
<1> USE MboxAssumption DEF Init, Threads, Slots
<1>0. Size \in Nat /\ Size > 0
  BY FS_CardinalityType
<1>1. TypeOK
  <2>1. pc \in [Threads -> {"idle", "lock"}]  OBVIOUS
  <2>2. msg \in [Threads -> Pool \cup {NULL}] /\ msgs \in [Slots -> Pool \cup {NULL}]
        /\ wasEmpty \in [Posters -> BOOLEAN]
    OBVIOUS
  <2>3. inbox \in Seq(Pool)  OBVIOUS
  <2> QED  BY <1>0, <2>1, <2>2, <2>3 DEF TypeOK
<1>2. AtWork  BY DEF AtWork
<1>3. OneInside
  <2>1. \A t \in Threads : pc[t] = IF t = Fetcher THEN "lock" ELSE "idle"  OBVIOUS
  <2>2. \A t \in Threads : ~Holds(t)  BY <2>1 DEF Holds
  <2> QED  BY <2>2 DEF OneInside
<1>4. RingIsInbox  BY <1>0 DEF RingIsInbox, Around
<1>5. OneOwner  BY DEF OneOwner
<1>6. NoLostMail  BY DEF NoLostMail
<1> QED  BY <1>1, <1>2, <1>3, <1>4, <1>5, <1>6 DEF IInv

LEMMA AllocateInv ==
  ASSUME IInv, NEW t \in Posters, NEW m \in Pool, Allocate(t, m) PROVE IInv'
<1> USE MboxAssumption DEF IInv, Allocate, Goto, ring, Threads
<1>1. TypeOK'  BY DEF TypeOK
<1>2. AtWork'  BY DEF TypeOK, AtWork
<1>3. OneInside'  BY DEF TypeOK, OneInside, Holds
<1>4. RingIsInbox'  BY DEF RingIsInbox
<1>5. OneOwner'
  <2>0. m \in free /\ m # NULL /\ msg[t] = NULL  BY DEF AtWork
  <2>1. \A u \in Threads : msg[u] # m  BY <2>0 DEF OneOwner
  <2>2. \A i \in 1 .. Len(inbox) : inbox[i] # m  BY <2>0 DEF OneOwner
  <2>3. \A u \in Threads : msg'[u] = IF u = t THEN m ELSE msg[u]  BY DEF TypeOK
  <2> QED  BY <2>0, <2>1, <2>2, <2>3 DEF OneOwner
<1>6. NoLostMail'  BY DEF TypeOK, NoLostMail
<1> QED  BY <1>1, <1>2, <1>3, <1>4, <1>5, <1>6

LEMMA PostLockInv == ASSUME IInv, NEW t \in Posters, PostLock(t) PROVE IInv'
<1> USE MboxAssumption DEF IInv, PostLock, SemWait, Goto, ring, Threads
<1>1. TypeOK'  BY DEF TypeOK
<1>2. AtWork'  BY DEF TypeOK, AtWork
<1>3. OneInside'  BY DEF TypeOK, OneInside, Holds
<1>4. RingIsInbox'  BY DEF RingIsInbox
<1>5. OneOwner'  BY DEF OneOwner
<1>6. NoLostMail'  BY DEF TypeOK, NoLostMail
<1> QED  BY <1>1, <1>2, <1>3, <1>4, <1>5, <1>6

LEMMA PostStoreInv == ASSUME IInv, NEW t \in Posters, PostStore(t) PROVE IInv'
<1> USE MboxAssumption DEF IInv, PostStore, Goto, Threads
<1>0. msg[t] \in Pool /\ msg[t] # NULL /\ inbox \in Seq(Pool) /\ Size \in Nat
  BY DEF TypeOK, AtWork
<1>1. inbox' \in Seq(Pool) /\ Len(inbox') = Len(inbox) + 1 /\ Len(inbox) \in Nat
  BY <1>0, AppendProperties, LenProperties
<1>2. /\ \A i \in 1 .. Len(inbox) : inbox'[i] = inbox[i]
      /\ inbox'[Len(inbox) + 1] = msg[t]
  BY <1>0, AppendProperties
<1>3. TypeOK'  BY <1>0, <1>1 DEF TypeOK, IndexAfter, Slots
<1>4. AtWork'  BY DEF TypeOK, AtWork
<1>5. OneInside'  BY DEF TypeOK, OneInside, Holds
<1>6. OneOwner'
  <2>1. \A u \in Threads : msg'[u] = IF u = t THEN NULL ELSE msg[u]  BY DEF TypeOK
  <2>2. \A i \in 1 .. Len(inbox) : inbox[i] # msg[t]  BY <1>0 DEF OneOwner
  <2>3. \A i \in 1 .. Len(inbox') : i \in 1 .. Len(inbox) \/ i = Len(inbox) + 1
    BY <1>1
  <2>4. \A i, k \in 1 .. Len(inbox') : inbox'[i] = inbox'[k] => i = k
    BY <1>2, <2>2, <2>3 DEF OneOwner
  <2>5. \A i \in 1 .. Len(inbox') : inbox'[i] \notin free'
    BY <1>0, <1>2, <2>3 DEF OneOwner
  <2>6. ASSUME NEW m \in Pool
        PROVE  \/ m \in free' \/ \E u \in Threads : msg'[u] = m
               \/ \E i \in 1 .. Len(inbox') : inbox'[i] = m
    <3>1. CASE m = msg[t]  BY <3>1, <1>1, <1>2
    <3>2. CASE m # msg[t]
      <4>1. CASE m \in free  BY <4>1
      <4>2. CASE \E u \in Threads : msg[u] = m  BY <4>2, <3>2, <2>1
      <4>3. CASE \E i \in 1 .. Len(inbox) : inbox[i] = m  BY <4>3, <1>1, <1>2
      <4> QED  BY <4>1, <4>2, <4>3 DEF OneOwner
    <3> QED  BY <3>1, <3>2
  <2>7. ASSUME NEW u \in Threads, msg'[u] # NULL
        PROVE  /\ msg'[u] \notin free'
               /\ \A i \in 1 .. Len(inbox') : inbox'[i] # msg'[u]
               /\ \A v \in Threads \ {u} : msg'[v] # msg'[u]
    <3>1. u # t /\ msg'[u] = msg[u]  BY <2>7, <2>1
    <3>2. msg[t] # msg[u]  BY <3>1, <1>0 DEF OneOwner
    <3>3. \A i \in 1 .. Len(inbox') : inbox'[i] # msg'[u]
      BY <3>1, <3>2, <2>7, <1>2, <2>3 DEF OneOwner
    <3> QED  BY <3>1, <3>3, <2>7, <2>1 DEF OneOwner
  <2> QED  BY <2>4, <2>5, <2>6, <2>7 DEF OneOwner
<1>7. Len(inbox) + 1 < Size
  <2>1. \A i, k \in 1 .. Len(inbox') : inbox'[i] = inbox'[k] => i = k
    BY <1>6 DEF OneOwner
  <2>2. Len(inbox') < Size  BY <1>1, <2>1, InboxFits
  <2> QED  BY <1>1, <2>2
<1>8. RingIsInbox'
  <2>1. /\ first \in 0 .. Size - 1 /\ last = Around(first, Len(inbox))
        /\ last \in 0 .. Size - 1 /\ first' = first
        /\ msgs \in [0 .. Size - 1 -> Pool \cup {NULL}]
        /\ msgs' = [msgs EXCEPT ![last] = msg[t]]
    BY DEF TypeOK, Slots, RingIsInbox
  <2>2. last' = Around(first, Len(inbox) + 1)
    BY <1>0, <1>1, <1>7, <2>1, AroundStep
  <2>3. \A i \in 1 .. Len(inbox') : msgs'[Around(first, i - 1)] = inbox'[i]
    <3> TAKE i \in 1 .. Len(inbox')
    <3>1. CASE i \in 1 .. Len(inbox)
      <4>1. i - 1 \in Nat /\ i - 1 < Len(inbox) /\ Len(inbox) < Size
        BY <3>1, <1>0, <1>1, <1>7
      <4>2. Around(first, i - 1) # last /\ Around(first, i - 1) \in 0 .. Size - 1
        BY <4>1, <1>0, <1>1, <2>1, AroundInjective
      <4>3. msgs[Around(first, i - 1)] = inbox[i]  BY <3>1 DEF RingIsInbox
      <4> QED  BY <4>2, <4>3, <3>1, <2>1, <1>2
    <3>2. CASE i = Len(inbox) + 1
      <4>1. i - 1 = Len(inbox)  BY <3>2, <1>1
      <4> QED  BY <4>1, <3>2, <2>1, <1>2
    <3> QED  BY <3>1, <3>2, <1>1
  <2>4. Len(inbox') < Size  BY <1>1, <1>7
  <2> QED  BY <1>1, <2>1, <2>2, <2>3, <2>4 DEF RingIsInbox
<1>9. NoLostMail'
  <2>1. CASE inbox = <<>>
    <3>1. last = first  BY <2>1, <1>0 DEF RingIsInbox, Around, TypeOK, Slots
    <3>2. pc'[t] = "signal" /\ wasEmpty'[t]  BY <3>1 DEF TypeOK
    <3> QED  BY <3>2 DEF NoLostMail
  <2>2. CASE inbox # <<>>
    <3>1. \A u \in Posters : pc[u] # "signal"  BY DEF OneInside, Holds
    <3>2. pc'[Fetcher] = pc[Fetcher] /\ mail' = mail  BY DEF TypeOK
    <3> QED  BY <2>2, <3>1, <3>2 DEF NoLostMail
  <2> QED  BY <2>1, <2>2
<1> QED  BY <1>3, <1>4, <1>5, <1>6, <1>8, <1>9

LEMMA PostMailInv == ASSUME IInv, NEW t \in Posters, PostMail(t) PROVE IInv'
<1> USE MboxAssumption DEF IInv, PostMail, SemSignal, Goto, ring, Threads
<1>1. TypeOK'  BY DEF TypeOK
<1>2. AtWork'  BY DEF TypeOK, AtWork
<1>3. OneInside'  BY DEF TypeOK, OneInside, Holds
<1>4. RingIsInbox'  BY DEF RingIsInbox
<1>5. OneOwner'  BY DEF OneOwner
<1>6. NoLostMail'  BY DEF TypeOK, NoLostMail
<1> QED  BY <1>1, <1>2, <1>3, <1>4, <1>5, <1>6

LEMMA PostUnlockInv == ASSUME IInv, NEW t \in Posters, PostUnlock(t) PROVE IInv'
<1> USE MboxAssumption DEF IInv, PostUnlock, SemSignal, Goto, ring, Threads
<1>1. TypeOK'  BY DEF TypeOK
<1>2. AtWork'  BY DEF TypeOK, AtWork
<1>3. OneInside'  BY DEF TypeOK, OneInside, Holds
<1>4. RingIsInbox'  BY DEF RingIsInbox
<1>5. OneOwner'  BY DEF OneOwner
<1>6. NoLostMail'  BY DEF TypeOK, NoLostMail
<1> QED  BY <1>1, <1>2, <1>3, <1>4, <1>5, <1>6

(* The steps of the fetcher that do not touch the ring.                    *)
LEMMA FetchWaitInv ==
  ASSUME IInv, FetchLock \/ FetchMail \/ FetchTimeout PROVE IInv'
<1> USE MboxAssumption
    DEF IInv, FetchLock, FetchMail, FetchTimeout, SemWait, Goto, ring, Threads
<1>1. TypeOK'  BY DEF TypeOK
<1>2. AtWork'  BY DEF TypeOK, AtWork
<1>3. OneInside'  BY DEF TypeOK, OneInside, Holds
<1>4. RingIsInbox'  BY DEF RingIsInbox
<1>5. OneOwner'  BY DEF OneOwner
<1>6. NoLostMail'  BY DEF TypeOK, NoLostMail
<1> QED  BY <1>1, <1>2, <1>3, <1>4, <1>5, <1>6

LEMMA FetchEmptyInv == ASSUME IInv, FetchEmpty PROVE IInv'
<1> USE MboxAssumption DEF IInv, FetchEmpty, SemSignal, Goto, ring, Threads
<1>1. TypeOK'  BY DEF TypeOK
<1>2. AtWork'  BY DEF TypeOK, AtWork
<1>3. OneInside'  BY DEF TypeOK, OneInside, Holds
<1>4. RingIsInbox'  BY DEF RingIsInbox
<1>5. OneOwner'  BY DEF OneOwner
<1>6. NoLostMail'
  <2>1. inbox \in Seq(Pool) /\ Len(inbox) \in Nat  BY LenProperties DEF TypeOK
  <2>2. Len(inbox) = 0
    <3>1. first \in 0 .. Size - 1 /\ Len(inbox) < Size
          /\ Around(first, Len(inbox)) = first
      BY DEF TypeOK, Slots, RingIsInbox
    <3> QED  BY <2>1, <3>1, AroundZero
  <2>3. inbox = <<>>  BY <2>1, <2>2, EmptySeq
  <2> QED  BY <2>3 DEF NoLostMail
<1> QED  BY <1>1, <1>2, <1>3, <1>4, <1>5, <1>6

LEMMA FetchTakeInv == ASSUME IInv, FetchTake PROVE IInv'
<1> USE MboxAssumption DEF IInv, FetchTake, SemSignal, Goto, SlotFirst, Threads
<1>0. /\ inbox \in Seq(Pool) /\ Len(inbox) \in Nat /\ Size \in Nat
      /\ first \in 0 .. Size - 1 /\ last \in 0 .. Size - 1
      /\ msg[Fetcher] = NULL
  BY LenProperties DEF TypeOK, Slots, AtWork
<1>1. Len(inbox) > 0
  <2>1. Around(first, Len(inbox)) # first  BY DEF RingIsInbox
  <2>2. Len(inbox) # 0  BY <2>1, <1>0, AroundZero
  <2> QED  BY <2>2, <1>0
<1>2. inbox # <<>>  BY <1>1
<1>3. /\ inbox' \in Seq(Pool) /\ Len(inbox') = Len(inbox) - 1
      /\ \A i \in 1 .. Len(inbox') : inbox'[i] = inbox[i + 1]
  BY <1>0, <1>2, HeadTailProperties
<1>4. msgs[first] = inbox[1]
  <2>1. msgs[Around(first, 1 - 1)] = inbox[1]  BY <1>0, <1>1 DEF RingIsInbox
  <2>2. Around(first, 1 - 1) = first  BY <1>0, AroundZero
  <2> QED  BY <2>1, <2>2
<1>5. inbox[1] \in Pool  BY <1>0, <1>1, ElementOfSeq
<1>6. TypeOK'
  <2>1. first' \in Slots'  BY <1>0 DEF Slots, IndexAfter
  <2> QED  BY <2>1, <1>3, <1>4, <1>5 DEF TypeOK, Slots
<1>7. AtWork'  BY <1>4, <1>5 DEF TypeOK, AtWork
<1>8. OneInside'  BY DEF TypeOK, OneInside, Holds
<1>9. RingIsInbox'
  <2>0. Len(inbox) < Size /\ last = Around(first, Len(inbox))  BY DEF RingIsInbox
  <2>1. ASSUME NEW i \in Nat, i + 1 <= Len(inbox)
        PROVE  Around(first', i) = Around(first, i + 1)
    <3>1. i + 1 < Size  BY <2>0, <2>1, <1>0
    <3> QED  BY <3>1, <1>0, AroundStep
  <2>2. last' = Around(first', Len(inbox'))
    <3>1. Len(inbox') \in Nat /\ Len(inbox') + 1 = Len(inbox)  BY <1>0, <1>1, <1>3
    <3>2. Len(inbox') + 1 <= Len(inbox)  BY <3>1, <1>0
    <3>3. Around(first', Len(inbox')) = Around(first, Len(inbox') + 1)
      BY <2>1, <3>1, <3>2, Zenon
    <3> QED  BY <2>0, <3>1, <3>3
  <2>3. \A i \in 1 .. Len(inbox') : msgs'[Around(first', i - 1)] = inbox'[i]
    <3> TAKE i \in 1 .. Len(inbox')
    <3>1. /\ i - 1 \in Nat /\ (i - 1) + 1 = i /\ i <= Len(inbox)
          /\ i + 1 \in 1 .. Len(inbox) /\ (i + 1) - 1 = i
      BY <1>0, <1>3
    <3>2. Around(first', i - 1) = Around(first, i)  BY <3>1, <2>1
    <3>3. msgs[Around(first, (i + 1) - 1)] = inbox[i + 1]  BY <3>1 DEF RingIsInbox
    <3> QED  BY <3>1, <3>2, <3>3, <1>3
  <2>4. Len(inbox') < Size  BY <2>0, <1>0, <1>3
  <2> QED  BY <2>2, <2>3, <2>4 DEF RingIsInbox
<1>10. OneOwner'
  <2>1. \A u \in Threads : msg'[u] = IF u = Fetcher THEN inbox[1] ELSE msg[u]
    BY <1>4 DEF TypeOK
  <2>2. \A i \in 1 .. Len(inbox') : i + 1 \in 1 .. Len(inbox) /\ i + 1 # 1
    BY <1>0, <1>3
  <2>3. 1 \in 1 .. Len(inbox)  BY <1>0, <1>1
  <2>4. \A i, k \in 1 .. Len(inbox') : inbox'[i] = inbox'[k] => i = k
    <3> TAKE i, k \in 1 .. Len(inbox')
    <3>1. inbox[i + 1] = inbox[k + 1] => i + 1 = k + 1  BY <2>2 DEF OneOwner
    <3>2. i + 1 = k + 1 => i = k  BY <1>0, <1>3
    <3> QED  BY <3>1, <3>2, <1>3
  <2>5. \A i \in 1 .. Len(inbox') : inbox'[i] \notin free' /\ inbox'[i] # inbox[1]
    BY <1>3, <2>2, <2>3 DEF OneOwner
  <2>6. ASSUME NEW m \in Pool
        PROVE  \/ m \in free' \/ \E u \in Threads : msg'[u] = m
               \/ \E i \in 1 .. Len(inbox') : inbox'[i] = m
    <3>1. CASE m \in free  BY <3>1
    <3>2. CASE \E u \in Threads : msg[u] = m  BY <3>2, <2>1, <1>0
    <3>3. ASSUME NEW i \in 1 .. Len(inbox), inbox[i] = m
          PROVE  \/ m \in free' \/ \E u \in Threads : msg'[u] = m
                 \/ \E j \in 1 .. Len(inbox') : inbox'[j] = m
      <4>1. CASE i = 1  BY <4>1, <3>3, <2>1
      <4>2. CASE i # 1
        <5>1. i - 1 \in 1 .. Len(inbox') /\ (i - 1) + 1 = i  BY <4>2, <1>0, <1>3
        <5>2. inbox'[i - 1] = inbox[i]  BY <5>1, <1>3
        <5> QED  BY <5>1, <5>2, <3>3
      <4> QED  BY <4>1, <4>2
    <3> QED  BY <3>1, <3>2, <3>3 DEF OneOwner
  <2>7. ASSUME NEW u \in Threads, msg'[u] # NULL
        PROVE  /\ msg'[u] \notin free'
               /\ \A i \in 1 .. Len(inbox') : inbox'[i] # msg'[u]
               /\ \A v \in Threads \ {u} : msg'[v] # msg'[u]
    <3>1. CASE u = Fetcher
      <4>1. msg'[u] = inbox[1]  BY <3>1, <2>1
      <4>2. inbox[1] \notin free /\ \A v \in Threads : msg[v] # inbox[1]
        BY <2>3, <1>5 DEF OneOwner
      <4> QED  BY <3>1, <4>1, <4>2, <2>1, <2>5
    <3>2. CASE u # Fetcher
      <4>1. msg'[u] = msg[u] /\ msg[u] # NULL  BY <3>2, <2>7, <2>1
      <4>2. \A i \in 1 .. Len(inbox) : inbox[i] # msg[u]  BY <4>1 DEF OneOwner
      <4> QED  BY <3>2, <4>1, <4>2, <2>1, <2>2, <2>3, <1>3 DEF OneOwner
    <3> QED  BY <3>1, <3>2
  <2> QED  BY <2>4, <2>5, <2>6, <2>7 DEF OneOwner
<1>11. NoLostMail'  BY DEF TypeOK, NoLostMail
<1> QED  BY <1>6, <1>7, <1>8, <1>9, <1>10, <1>11

LEMMA FreeMsgInv == ASSUME IInv, FreeMsg PROVE IInv'
<1> USE MboxAssumption DEF IInv, FreeMsg, Goto, ring, Threads
<1>0. msg[Fetcher] \in Pool /\ msg[Fetcher] # NULL  BY DEF TypeOK, AtWork
<1>1. TypeOK'  BY <1>0 DEF TypeOK
<1>2. AtWork'  BY DEF TypeOK, AtWork
<1>3. OneInside'  BY DEF TypeOK, OneInside, Holds
<1>4. RingIsInbox'  BY DEF RingIsInbox
<1>5. OneOwner'
  <2>1. \A u \in Threads : msg'[u] = IF u = Fetcher THEN NULL ELSE msg[u]
    BY DEF TypeOK
  <2> QED  BY <1>0, <2>1 DEF OneOwner
<1>6. NoLostMail'  BY DEF TypeOK, NoLostMail
<1> QED  BY <1>1, <1>2, <1>3, <1>4, <1>5, <1>6

(* No step of a poster or of the fetcher leaves the inductive invariant.   *)
LEMMA NextInv == IInv /\ [Next]_vars => IInv'
<1> SUFFICES ASSUME IInv, [Next]_vars PROVE IInv'  OBVIOUS
<1>1. CASE UNCHANGED vars
  BY <1>1 DEF IInv, TypeOK, AtWork, OneInside, Holds, RingIsInbox, Around, OneOwner,
              NoLostMail, vars
<1>2. CASE Next
  BY <1>2, AllocateInv, PostLockInv, PostStoreInv, PostMailInv, PostUnlockInv,
     FetchWaitInv, FetchEmptyInv, FetchTakeInv, FreeMsgInv
  DEF Next, Post, Fetch
<1> QED  BY <1>1, <1>2

(* The inductive invariant of the mailbox holds throughout.                *)
THEOREM MboxInvariant == Spec => []IInv
BY InitInv, NextInv, PTL DEF Spec

(* The indices stay inside the ring and the semaphores' counters binary.   *)
THEOREM MboxTypeCorrect == Spec => []TypeOK
BY MboxInvariant, PTL DEF IInv

(* One thread at a time is between the wait for mbox->mutex and its signal.*)
THEOREM MboxExclusive == Spec => []OneInside
BY MboxInvariant, PTL DEF IInv

(* With a pool smaller than SYS_MBOX_SIZE, sys_mbox_post never fills the   *)
(* ring: it always holds exactly the posted messages, in order.            *)
THEOREM MboxFifo == Spec => []RingIsInbox
BY MboxInvariant, PTL DEF IInv

(* No message of the pool MEMP_TCP_MSG leaks, is posted or is freed twice. *)
THEOREM MboxOwnership == Spec => []OneOwner
BY MboxInvariant, PTL DEF IInv

(* Signalling mail only when the ring was empty loses no wake-up.          *)
THEOREM MboxWakes == Spec => []NoLostMail
BY MboxInvariant, PTL DEF IInv

(* sys_mbox_post and sys_arch_mbox_fetch keep the mailbox, for any pool    *)
(* smaller than the ring and any number of posters.                        *)
THEOREM MailboxCorrect == Spec => []MailboxSane
<1>1. IInv => MailboxSane
  BY DEF IInv, MailboxSane
<1> QED  BY <1>1, MboxInvariant, PTL
-----------------------------------------------------------------------------
(* A thread inside sys_arch_sem_wait has not got the semaphore yet.        *)
NotYet == \A t \in Users : at[t] \in {"wait", "sleep"} => t \notin gets

SemInv == SemTypeOK /\ NoLostSignal /\ NotYet

LEMMA SemInitInv == SemInit => SemInv
BY SemAssumption DEF SemInit, SemInv, SemTypeOK, NoLostSignal, NotYet

LEMMA SemCallWaitInv ==
  ASSUME SemInv, NEW t \in Users, NEW l \in BOOLEAN, CallWait(t, l)
  PROVE  SemInv'
BY DEF SemInv, SemTypeOK, NoLostSignal, NotYet, CallWait, MoveTo

LEMMA SemTakeInv == ASSUME SemInv, NEW t \in Users, Take(t) PROVE SemInv'
<1> USE DEF SemInv, Take, MayTake, MoveTo
<1>1. c = 1 /\ c' = 0 /\ at[t] = "wait"  BY DEF SemTypeOK
<1>2. SemTypeOK'  BY <1>1 DEF SemTypeOK
<1>3. NoLostSignal'  BY <1>1 DEF SemTypeOK, NoLostSignal
<1>4. NotYet'  BY <1>1 DEF SemTypeOK, NotYet
<1> QED  BY <1>2, <1>3, <1>4

LEMMA SemSleepInv == ASSUME SemInv, NEW t \in Users, Sleep(t) PROVE SemInv'
<1> USE DEF SemInv, Sleep, MoveTo
<1>1. SemTypeOK'  BY DEF SemTypeOK
<1>2. NoLostSignal'  BY DEF SemTypeOK, NoLostSignal
<1>3. NotYet'  BY DEF SemTypeOK, NotYet
<1> QED  BY <1>1, <1>2, <1>3

(* Leaving the condition, for whatever reason, without a signal.           *)
LEMMA SemLeaveInv ==
  ASSUME SemInv, NEW t \in Users, SpuriousWakeup(t) \/ Expire(t) \/ GiveUp(t)
  PROVE  SemInv'
<1> USE DEF SemInv, SpuriousWakeup, Expire, GiveUp, MoveTo
<1>1. SemTypeOK'  BY DEF SemTypeOK
<1>2. NoLostSignal'  BY DEF SemTypeOK, NoLostSignal
<1>3. NotYet'  BY DEF SemTypeOK, NoLostSignal, NotYet
<1> QED  BY <1>1, <1>2, <1>3

LEMMA SemCallSignalInv == ASSUME SemInv, NEW t \in Users, CallSignal(t) PROVE SemInv'
BY DEF SemInv, SemTypeOK, NoLostSignal, NotYet, CallSignal, MoveTo

LEMMA SemSignalInv == ASSUME SemInv, NEW t \in Users, Signal(t) PROVE SemInv'
<1> USE DEF SemInv, Signal, Raised, Wakeable, MoveTo
<1>1. SemTypeOK'  BY DEF SemTypeOK
<1>2. NoLostSignal'  BY DEF SemTypeOK, NoLostSignal
<1>3. NotYet'  BY DEF SemTypeOK, NoLostSignal, NotYet
<1> QED  BY <1>1, <1>2, <1>3

(* No step leaves the inductive invariant.                                 *)
LEMMA SemNextInv == SemInv /\ [SemNext]_semvars => SemInv'
<1> SUFFICES ASSUME SemInv, [SemNext]_semvars PROVE SemInv'  OBVIOUS
<1>1. CASE UNCHANGED semvars
  BY <1>1 DEF SemInv, SemTypeOK, NoLostSignal, NotYet, semvars
<1>2. CASE SemNext
  BY <1>2, SemCallWaitInv, SemTakeInv, SemSleepInv, SemLeaveInv, SemCallSignalInv, SemSignalInv
  DEF SemNext, SemStep
<1> QED  BY <1>1, <1>2

(* The inductive invariant holds throughout, whatever the threads call.    *)
THEOREM SemInvariant == SemSpec => []SemInv
BY SemInitInv, SemNextInv, PTL DEF SemSpec

(* sem->c is 0 or 1 and every thread is at a point of its call.            *)
THEOREM SemTypeCorrect == SemSpec => []SemTypeOK
BY SemInvariant, PTL DEF SemInv

(* While the semaphore is up and threads sleep on it, one of them has been *)
(* woken and will look at the counter: sys_sem_signal wastes no wake-up.   *)
THEOREM SignalsKept == SemSpec => []NoLostSignal
BY SemInvariant, PTL DEF SemInv

(* sys_arch_sem_wait and sys_sem_signal are a binary semaphore.            *)
THEOREM SemRefinement == SemSpec => ImplementsBinarySemaphore
<1>1. SemInit => Binary!Init
  BY SemAssumption DEF SemInit, Binary!Init
<1>2. SemInv /\ [SemNext]_semvars => [Binary!Next]_<<c = 1, gets>>
  <2> SUFFICES ASSUME SemInv, [SemNext]_semvars PROVE [Binary!Next]_<<c = 1, gets>>
    OBVIOUS
  <2>1. CASE UNCHANGED semvars  BY <2>1 DEF semvars
  <2>2. ASSUME NEW t \in Users, NEW l \in BOOLEAN, CallWait(t, l)
        PROVE  [Binary!Next]_<<c = 1, gets>>
    BY <2>2 DEF CallWait, Binary!Next, Binary!Again
  <2>3. ASSUME NEW t \in Users, Take(t) PROVE Binary!Next
    <3>1. c = 1 /\ c' = 0 /\ t \notin gets /\ gets' = gets \cup {t}
      BY <2>3 DEF SemInv, SemTypeOK, NotYet, Take, MayTake
    <3> QED  BY <3>1 DEF Binary!Next, Binary!Wait
  <2>4. ASSUME NEW t \in Users, Signal(t) PROVE Binary!Next
    <3>1. c' = 1 /\ gets' = gets
      BY <2>4 DEF SemInv, SemTypeOK, Signal, Raised
    <3> QED  BY <3>1 DEF Binary!Next, Binary!Signal
  <2>5. ASSUME NEW t \in Users,
               \/ Sleep(t) \/ SpuriousWakeup(t) \/ Expire(t)
               \/ GiveUp(t) \/ CallSignal(t)
        PROVE  UNCHANGED <<c = 1, gets>>
    BY <2>5 DEF Sleep, SpuriousWakeup, Expire, GiveUp, CallSignal
  <2> QED  BY <2>1, <2>2, <2>3, <2>4, <2>5 DEF SemNext, SemStep
<1> QED
  BY <1>1, <1>2, SemInvariant, PTL DEF SemSpec, Binary!Spec, ImplementsBinarySemaphore

(* sys_sem_signal loses no signal and the counter of the semaphore is      *)
(* binary.                                                                 *)
THEOREM SemaphoreCorrect == SemSpec => []SemaphoreSane
<1>1. SemInv => SemaphoreSane
  BY DEF SemInv, SemaphoreSane
<1> QED  BY <1>1, SemInvariant, PTL
-----------------------------------------------------------------------------
(* The timeouts.                                                           *)

Entry == [h : Timers, time : Nat]

(* A timer is pending once: sys_timeout is called for one that is not.     *)
OneEntry ==
  \A i, j \in 1 .. Len(timeouts) : timeouts[i].h = timeouts[j].h => i = j

(* What is left of a timeout is what is left of the one before and the     *)
(* difference between them.                                                *)
Differences ==
  \A i \in 1 .. Len(timeouts) :
    left[timeouts[i].h] =
      (IF i = 1 THEN 0 ELSE left[timeouts[i - 1].h]) + timeouts[i].time

TimeInv ==
  /\ timeouts \in Seq(Entry) /\ Len(timeouts) <= PoolSize
  /\ left \in [Timers -> Int] /\ fired \subseteq Timers
  /\ OneEntry /\ Differences /\ FiresInOrder

-----------------------------------------------------------------------------
(* Induction, from the well-foundedness of the natural numbers.            *)

(* Every set of natural numbers has a least element.                       *)
LEMMA LeastNatural ==
  ASSUME NEW T, T \subseteq Nat, T # {}
  PROVE  \E x \in T : \A y \in T : x <= y
<1>1. PICK x \in T : \A y \in T : ~(<<y, x>> \in OpToRel(<, Nat))
  BY NatLessThanWellFounded, WFMin
<1>2. \A y \in T : ~(y < x)
  BY <1>1 DEF OpToRel
<1> QED  BY <1>2

LEMMA Induction ==
  ASSUME NEW S, 0 \in S, \A n \in Nat : n \in S => n + 1 \in S
  PROVE  Nat \subseteq S
<1> SUFFICES ASSUME Nat \ S # {} PROVE FALSE
  OBVIOUS
<1>1. PICK x \in Nat \ S : \A y \in Nat \ S : x <= y
  BY LeastNatural
<1>2. x # 0  OBVIOUS
<1>3. x - 1 \in S  BY <1>1, <1>2
<1> QED  BY <1>2, <1>3

-----------------------------------------------------------------------------
(* Until is what its recursive definition says, and what the walk needs of  *)
(* it.                                                                     *)

LEMMA Entries ==
  ASSUME timeouts \in Seq(Entry)
  PROVE  /\ Len(timeouts) \in Nat
         /\ \A i \in 1 .. Len(timeouts) : /\ timeouts[i] \in Entry
                                         /\ timeouts[i].h \in Timers
                                         /\ timeouts[i].time \in Nat
<1>1. Len(timeouts) \in Nat /\ \A i \in 1 .. Len(timeouts) : timeouts[i] \in Entry
  BY ElementOfSeq, LenProperties
<1> QED  BY <1>1 DEF Entry

SumUpTo(g, n) ==
  \A i \in 0 .. n : g[i] = IF i = 0 THEN 0 ELSE g[i - 1] + timeouts[i].time

LEMMA SumExtends ==
  ASSUME timeouts \in Seq(Entry), NEW n \in Nat, n + 1 <= Len(timeouts),
         NEW g \in [0 .. n -> Int], SumUpTo(g, n)
  PROVE  \E k \in [0 .. n + 1 -> Int] : SumUpTo(k, n + 1)
<1> DEFINE k == [i \in 0 .. n + 1 |-> IF i <= n THEN g[i]
                                      ELSE g[n] + timeouts[n + 1].time]
<1>1. timeouts[n + 1].time \in Int  BY Entries
<1>2. k \in [0 .. n + 1 -> Int]  BY <1>1
<1>3. SumUpTo(k, n + 1)
  <2> SUFFICES ASSUME NEW i \in 0 .. n + 1
               PROVE  k[i] = IF i = 0 THEN 0 ELSE k[i - 1] + timeouts[i].time
    BY DEF SumUpTo
  <2>1. CASE i <= n  BY <2>1 DEF SumUpTo
  <2>2. CASE i = n + 1  BY <2>2
  <2> QED  BY <2>1, <2>2
<1> HIDE DEF k
<1> QED  BY <1>2, <1>3

LEMMA SumExists ==
  ASSUME timeouts \in Seq(Entry)
  PROVE  \E g \in [0 .. Len(timeouts) -> Int] : SumUpTo(g, Len(timeouts))
<1> DEFINE S == {n \in Nat : n <= Len(timeouts) =>
                               \E g \in [0 .. n -> Int] : SumUpTo(g, n)}
<1>1. 0 \in S
  <2> DEFINE g == [i \in 0 .. 0 |-> 0]
  <2>1. g \in [0 .. 0 -> Int] /\ SumUpTo(g, 0)  BY DEF SumUpTo
  <2> HIDE DEF g
  <2> QED  BY <2>1
<1>2. \A n \in Nat : n \in S => n + 1 \in S
  BY SumExtends
<1> HIDE DEF S
<1>3. Nat \subseteq S  BY <1>1, <1>2, Induction
<1>4. Len(timeouts) \in S  BY <1>3
<1> QED  BY <1>4 DEF S

LEMMA UntilSums ==
  ASSUME timeouts \in Seq(Entry)
  PROVE  SumUpTo(Until, Len(timeouts))
<1> DEFINE D(g) == [i \in 0 .. Len(timeouts) |->
                      IF i = 0 THEN 0 ELSE g[i - 1] + timeouts[i].time]
<1>1. PICK g \in [0 .. Len(timeouts) -> Int] : SumUpTo(g, Len(timeouts))
  BY SumExists
<1>2. g = D(g)  BY <1>1 DEF SumUpTo
<1>3. Until = CHOOSE f : f = D(f)  BY DEF Until
<1>4. Until = D(Until)  BY <1>2, <1>3
<1> HIDE DEF D
<1>5. \A i \in 0 .. Len(timeouts) : Until[i] = D(Until)[i]  BY <1>4
<1> QED  BY <1>5 DEF D, SumUpTo

LEMMA UntilIsLeft ==
  ASSUME timeouts \in Seq(Entry), left \in [Timers -> Int], Differences
  PROVE  /\ Until[0] = 0
         /\ \A i \in 1 .. Len(timeouts) : Until[i] = left[timeouts[i].h]
<1> DEFINE S == {n \in Nat : n \in 1 .. Len(timeouts) =>
                               Until[n] = left[timeouts[n].h]}
<1>0. Until[0] = 0  BY UntilSums DEF SumUpTo
<1>1. 0 \in S  OBVIOUS
<1>2. ASSUME NEW n \in Nat, n \in S, n + 1 \in 1 .. Len(timeouts)
      PROVE  Until[n + 1] = left[timeouts[n + 1].h]
  <2>1. Until[n + 1] = Until[n] + timeouts[n + 1].time
    BY <1>2, UntilSums DEF SumUpTo
  <2>2. timeouts[n + 1].time \in Int  BY <1>2, Entries
  <2>3. CASE n = 0  BY <2>1, <2>2, <2>3, <1>0, <1>2 DEF Differences
  <2>4. CASE n # 0  BY <2>1, <2>2, <2>4, <1>2 DEF Differences
  <2> QED  BY <2>3, <2>4
<1>3. ASSUME NEW n \in Nat, n \in S PROVE n + 1 \in S
  <2>1. n + 1 \in 1 .. Len(timeouts) => Until[n + 1] = left[timeouts[n + 1].h]
    BY <1>2, <1>3
  <2> QED  BY <2>1
<1> HIDE DEF S
<1>4. Nat \subseteq S  BY <1>1, <1>3, Induction
<1> QED  BY <1>0, <1>4 DEF S

(* The head of the list is the first to fire.                              *)
LEMMA HeadIsFirst ==
  ASSUME timeouts \in Seq(Entry), left \in [Timers -> Int], Differences,
         timeouts # <<>>
  PROVE  \A i \in 1 .. Len(timeouts) :
           left[timeouts[i].h] >= timeouts[1].time
<1> DEFINE S == {n \in Nat : n + 1 \in 1 .. Len(timeouts) =>
                               left[timeouts[n + 1].h] >= timeouts[1].time}
<1>1. 0 \in S  BY Entries DEF Differences
<1>2. ASSUME NEW n \in Nat, n \in S, n + 2 \in 1 .. Len(timeouts)
      PROVE  left[timeouts[n + 2].h] >= timeouts[1].time
  <2>1. left[timeouts[n + 2].h] = left[timeouts[n + 1].h] + timeouts[n + 2].time
    BY <1>2 DEF Differences
  <2>2. /\ timeouts[n + 2].time \in Nat /\ timeouts[1].time \in Nat
        /\ timeouts[n + 1].h \in Timers
    BY <1>2, Entries
  <2> QED  BY <1>2, <2>1, <2>2
<1>3. \A n \in Nat : n \in S => n + 1 \in S  BY <1>2
<1> HIDE DEF S
<1>4. Nat \subseteq S  BY <1>1, <1>3, Induction
<1>5. ASSUME NEW i \in 1 .. Len(timeouts)
      PROVE  left[timeouts[i].h] >= timeouts[1].time
  <2>1. i - 1 \in S  BY <1>4
  <2> QED  BY <2>1 DEF S
<1> QED  BY <1>5

(* The walk of sys_timeout has a place to stop.                            *)
LEMMA PositionExists ==
  ASSUME timeouts \in Seq(Entry), left \in [Timers -> Int], Differences,
         NEW msecs \in Nat
  PROVE  /\ Position(msecs) \in 0 .. Len(timeouts)
         /\ Until[Position(msecs)] <= msecs
         /\ \A j \in Position(msecs) + 1 .. Len(timeouts) : Until[j] > msecs
<1> DEFINE T == {n \in Nat : n <= Len(timeouts) /\ Until[Len(timeouts) - n] <= msecs}
           P(i) == /\ Until[i] <= msecs
                   /\ \A j \in i + 1 .. Len(timeouts) : Until[j] > msecs
<1>1. Len(timeouts) \in T  BY UntilIsLeft
<1>2. PICK n \in T : \A m \in T : n <= m  BY <1>1, LeastNatural
<1>3. P(Len(timeouts) - n)
  <2> SUFFICES ASSUME NEW j \in Len(timeouts) - n + 1 .. Len(timeouts)
               PROVE  Until[j] > msecs
    BY <1>2
  <2>0. n \in Nat /\ Len(timeouts) \in Nat  BY Entries
  <2>1. Len(timeouts) - j \notin T
    <3>1. ~(n <= Len(timeouts) - j)  BY <2>0
    <3> HIDE DEF T
    <3> QED  BY <1>2, <3>1
  <2>2. Until[j] \in Int  BY <2>0, UntilIsLeft, Entries
  <2>3. Len(timeouts) - (Len(timeouts) - j) = j /\ Len(timeouts) - j \in Nat  BY <2>0
  <2> QED  BY <2>0, <2>1, <2>2, <2>3
<1>4. Len(timeouts) - n \in 0 .. Len(timeouts)  BY <1>2
<1> HIDE DEF P
<1>5. P(CHOOSE i \in 0 .. Len(timeouts) : P(i))
      /\ (CHOOSE i \in 0 .. Len(timeouts) : P(i)) \in 0 .. Len(timeouts)
  BY <1>3, <1>4
<1> QED  BY <1>5 DEF P, Position

-----------------------------------------------------------------------------
LEMMA TimeInitInv == TimeInit => TimeInv
<1> SUFFICES ASSUME TimeInit PROVE TimeInv  OBVIOUS
<1> QED
  BY TimeoutsAssumption
  DEF TimeInit, TimeInv, OneEntry, Differences, FiresInOrder, Pending

(* What InsertAt makes of the list, entry by entry.                        *)
LEMMA Inserted ==
  ASSUME NEW s \in Seq(Entry), NEW i \in 0 .. Len(s), NEW e \in Entry
  PROVE  /\ InsertAt(s, i + 1, e) \in Seq(Entry)
         /\ Len(InsertAt(s, i + 1, e)) = Len(s) + 1
         /\ \A k \in 1 .. Len(s) + 1 :
              InsertAt(s, i + 1, e)[k] = IF k <= i THEN s[k]
                                         ELSE IF k = i + 1 THEN e ELSE s[k - 1]
<1>0. Len(s) \in Nat  BY LenProperties
<1> DEFINE a == SubSeq(s, 1, i)
           b == SubSeq(s, i + 1, Len(s))
<1>1. a \in Seq(Entry) /\ Len(a) = i /\ \A k \in 1 .. i : a[k] = s[k]
  BY <1>0, SubSeqProperties, ElementOfSeq
<1>2. b \in Seq(Entry) /\ Len(b) = Len(s) - i /\ \A k \in 1 .. Len(s) - i : b[k] = s[i + k]
  BY <1>0, SubSeqProperties, ElementOfSeq
<1>3. InsertAt(s, i + 1, e) = (a \o <<e>>) \o b
  <2>1. (i + 1) - 1 = i  OBVIOUS
  <2> QED  BY <2>1, Zenon DEF InsertAt
<1> HIDE DEF a, b
<1>4. /\ a \o <<e>> \in Seq(Entry) /\ Len(a \o <<e>>) = i + 1
      /\ \A k \in 1 .. i + 1 : (a \o <<e>>)[k] = IF k <= i THEN s[k] ELSE e
  BY <1>1
<1> DEFINE ch == a \o <<e>>
<1> HIDE DEF ch
<1>5. /\ ch \o b \in Seq(Entry) /\ Len(ch \o b) = Len(s) + 1
      /\ \A k \in 1 .. Len(s) + 1 :
           (ch \o b)[k] = IF k <= i + 1 THEN ch[k] ELSE b[k - (i + 1)]
  BY <1>0, <1>2, <1>4 DEF ch
<1>6. \A k \in 1 .. Len(s) + 1 : k > i + 1 => b[k - (i + 1)] = s[k - 1]
  <2> SUFFICES ASSUME NEW k \in 1 .. Len(s) + 1, k > i + 1
               PROVE  b[k - (i + 1)] = s[k - 1]
    OBVIOUS
  <2>1. k - (i + 1) \in 1 .. Len(s) - i /\ i + (k - (i + 1)) = k - 1  BY <1>0
  <2> QED  BY <1>2, <2>1
<1>7. ASSUME NEW k \in 1 .. Len(s) + 1
      PROVE  (ch \o b)[k] = IF k <= i THEN s[k] ELSE IF k = i + 1 THEN e ELSE s[k - 1]
  <2>1. CASE k <= i + 1  BY <2>1, <1>0, <1>4, <1>5 DEF ch
  <2>2. CASE k > i + 1  BY <2>2, <1>0, <1>5, <1>6
  <2>3. k <= i + 1 \/ k > i + 1  BY <1>0
  <2> QED  BY <2>1, <2>2, <2>3
<1>8. InsertAt(s, i + 1, e) = ch \o b  BY <1>3 DEF ch
<1>9. \A k \in 1 .. Len(s) + 1 :
        (ch \o b)[k] = IF k <= i THEN s[k] ELSE IF k = i + 1 THEN e ELSE s[k - 1]
  BY <1>7
<1> DEFINE cb == ch \o b
<1>10. cb \in Seq(Entry) /\ Len(cb) = Len(s) + 1  BY <1>5
<1>11. \A k \in 1 .. Len(s) + 1 :
         cb[k] = IF k <= i THEN s[k] ELSE IF k = i + 1 THEN e ELSE s[k - 1]
  BY <1>9
<1>12. InsertAt(s, i + 1, e) = cb  BY <1>8
<1> HIDE DEF cb
<1> QED  BY <1>10, <1>11, <1>12

(* The entry behind the new one is charged with its difference d.          *)
LEMMA Shortened ==
  ASSUME NEW q \in Seq(Entry), NEW n \in 1 .. Len(q), NEW d, q[n].time - d \in Nat,
         NEW s, s = [q EXCEPT ![n].time = @ - d]
  PROVE  /\ s \in Seq(Entry) /\ Len(s) = Len(q)
         /\ \A k \in 1 .. Len(q) :
              /\ s[k].h = q[k].h
              /\ s[k].time = IF k = n THEN q[k].time - d ELSE q[k].time
<1>1. PICK e : e = [q[n] EXCEPT !.time = @ - d]  OBVIOUS
<1>2. q[n] \in Entry  BY ElementOfSeq
<1>3. e \in Entry /\ e.h = q[n].h /\ e.time = q[n].time - d  BY <1>1, <1>2 DEF Entry
<1>4. s = [q EXCEPT ![n] = e]  BY <1>1
<1>5. /\ s \in Seq(Entry) /\ Len(s) = Len(q)
      /\ \A k \in 1 .. Len(q) : s[k] = IF k = n THEN e ELSE q[k]
  BY <1>3, <1>4, ExceptSeq
<1> QED  BY <1>3, <1>5

LEMMA TimeoutKeepsInv ==
  ASSUME TimeInv, NEW h \in Timers, NEW msecs \in Delays, SysTimeout(h, msecs)
  PROVE  TimeInv'
<1> DEFINE i == Position(msecs)
           delta == msecs - Until[i]
           s == NextShortened(i, delta)
           e == [h |-> h, time |-> delta]
<1>0. timeouts \in Seq(Entry) /\ left \in [Timers -> Int] /\ Differences /\ OneEntry
  BY DEF TimeInv
<1>1. msecs \in Nat  BY TimeoutsAssumption
<1>2. /\ i \in 0 .. Len(timeouts) /\ Until[i] <= msecs
      /\ \A j \in i + 1 .. Len(timeouts) : Until[j] > msecs
  BY <1>0, <1>1, PositionExists
<1>3. Until[0] = 0 /\ \A j \in 1 .. Len(timeouts) : Until[j] = left[timeouts[j].h]
  BY <1>0, UntilIsLeft
<1>4. Until[i] = (IF i = 0 THEN 0 ELSE left[timeouts[i].h]) /\ Until[i] \in Int
  BY <1>0, <1>2, <1>3, Entries
<1>5. delta \in Nat /\ e \in Entry  BY <1>1, <1>2, <1>4 DEF Entry
<1>6. ASSUME i < Len(timeouts)
      PROVE  /\ timeouts[i + 1].time - delta = left[timeouts[i + 1].h] - msecs
             /\ left[timeouts[i + 1].h] - msecs \in Nat
  <2>1. i + 1 \in 1 .. Len(timeouts)  BY <1>2, <1>6, <1>0, Entries
  <2>2. left[timeouts[i + 1].h] = Until[i] + timeouts[i + 1].time
    BY <1>0, <1>2, <1>4, <2>1 DEF Differences
  <2>3. left[timeouts[i + 1].h] > msecs  BY <1>2, <1>3, <2>1
  <2>4. timeouts[i + 1].time \in Nat /\ timeouts[i + 1].h \in Timers
    BY <2>1, <1>0, Entries
  <2> QED  BY <1>0, <1>1, <1>4, <2>2, <2>3, <2>4
<1>7. /\ s \in Seq(Entry) /\ Len(s) = Len(timeouts)
      /\ \A k \in 1 .. Len(timeouts) :
           /\ s[k].h = timeouts[k].h
           /\ s[k].time = IF k = i + 1 THEN timeouts[k].time - delta
                          ELSE timeouts[k].time
  <2>1. CASE i = Len(timeouts)
    BY <2>1, <1>0, Entries DEF NextShortened
  <2>2. CASE i < Len(timeouts)
    <3>1. s = [timeouts EXCEPT ![i + 1].time = @ - delta]
      BY <2>2, <1>2, <1>0, Entries DEF NextShortened
    <3>2. timeouts[i + 1].time - delta \in Nat  BY <2>2, <1>6
    <3>3. i + 1 \in 1 .. Len(timeouts)  BY <2>2, <1>2, <1>0, Entries
    <3> HIDE DEF i, delta, s
    <3>4. timeouts \in Seq(Entry)  BY <1>0
    <3> QED  BY <3>1, <3>2, <3>3, <3>4, Shortened, SMTT(30)
  <2> QED  BY <2>1, <2>2, <1>2, <1>0, Entries
<1>8. /\ timeouts' \in Seq(Entry) /\ Len(timeouts') = Len(timeouts) + 1
      /\ \A k \in 1 .. Len(timeouts) + 1 :
           timeouts'[k] = IF k <= i THEN s[k] ELSE IF k = i + 1 THEN e ELSE s[k - 1]
  <2>1. timeouts' = InsertAt(s, i + 1, e)  BY DEF SysTimeout
  <2>2. i \in 0 .. Len(s)  BY <1>2, <1>7
  <2> HIDE DEF s, e, i
  <2>3. /\ timeouts' \in Seq(Entry) /\ Len(timeouts') = Len(s) + 1
        /\ \A k \in 1 .. Len(s) + 1 :
             timeouts'[k] = IF k <= i THEN s[k] ELSE IF k = i + 1 THEN e ELSE s[k - 1]
    <3>1. s \in Seq(Entry) /\ e \in Entry  BY <1>5, <1>7
    <3> QED  BY <2>1, <2>2, <3>1, Inserted, ZenonT(60)
  <2> QED  BY <2>3, <1>7
<1> HIDE DEF i, delta, s, e
<1>9. \A k \in 1 .. Len(timeouts) : timeouts[k].h # h
  BY <1>0 DEF SysTimeout, Pending
<1>10. left' = [left EXCEPT ![h] = msecs] /\ fired' = {}  BY DEF SysTimeout
<1>11. \A k \in 1 .. Len(timeouts) + 1 :
         timeouts'[k].h = IF k <= i THEN timeouts[k].h
                          ELSE IF k = i + 1 THEN h ELSE timeouts[k - 1].h
  <2> SUFFICES ASSUME NEW k \in 1 .. Len(timeouts) + 1
               PROVE  timeouts'[k].h = IF k <= i THEN timeouts[k].h
                                       ELSE IF k = i + 1 THEN h ELSE timeouts[k - 1].h
    OBVIOUS
  <2>0. Len(timeouts) \in Nat  BY <1>0, Entries
  <2>1. CASE k <= i  BY <2>0, <2>1, <1>2, <1>7, <1>8
  <2>2. CASE k = i + 1  BY <2>0, <2>2, <1>2, <1>8 DEF e
  <2>3. CASE k > i + 1
    <3>1. k - 1 \in 1 .. Len(timeouts)  BY <2>0, <2>3, <1>2
    <3>2. timeouts'[k] = s[k - 1]  BY <2>0, <2>3, <1>2, <1>8
    <3>3. timeouts'[k].h = timeouts[k - 1].h  BY <3>1, <3>2, <1>7
    <3> QED  BY <2>0, <2>3, <3>3, <1>2
  <2> QED  BY <2>0, <2>1, <2>2, <2>3, <1>2
<1>12. OneEntry'
  <2> SUFFICES ASSUME NEW j \in 1 .. Len(timeouts) + 1, NEW k \in 1 .. Len(timeouts) + 1,
                      j < k
               PROVE  timeouts'[j].h # timeouts'[k].h
    BY <1>8, <1>0, Entries DEF OneEntry
  <2>0. Len(timeouts) \in Nat  BY <1>0, Entries
  <2> DEFINE where(n) == IF n <= i THEN n ELSE n - 1
  <2>1. \A n \in 1 .. Len(timeouts) + 1 : n # i + 1 =>
          where(n) \in 1 .. Len(timeouts) /\ timeouts'[n].h = timeouts[where(n)].h
    BY <1>11, <1>2, <2>0
  <2>2. timeouts'[i + 1].h = h  BY <1>11, <1>2, <2>0
  <2>3. CASE j = i + 1  BY <2>0, <2>1, <2>2, <2>3, <1>9
  <2>4. CASE k = i + 1  BY <2>0, <2>1, <2>2, <2>4, <1>9
  <2>5. CASE j # i + 1 /\ k # i + 1
    <3>1. where(j) # where(k)  BY <2>0, <2>5, <1>2
    <3> HIDE DEF where
    <3> QED  BY <3>1, <2>1, <2>5, <1>0 DEF OneEntry
  <2> QED  BY <2>3, <2>4, <2>5
<1>13. Differences'
  <2> SUFFICES ASSUME NEW k \in 1 .. Len(timeouts) + 1
               PROVE  left'[timeouts'[k].h] =
                        (IF k = 1 THEN 0 ELSE left'[timeouts'[k - 1].h]) + timeouts'[k].time
    BY <1>8 DEF Differences
  <2>0. \A j \in 1 .. Len(timeouts) : left'[timeouts[j].h] = left[timeouts[j].h]
    BY <1>0, <1>9, <1>10, Entries
  <2>1. CASE k <= i
    <3>0. k \in 1 .. Len(timeouts) /\ k # i + 1  BY <2>1, <1>2, <1>0, Entries
    <3>1. timeouts'[k].h = timeouts[k].h /\ timeouts'[k].time = timeouts[k].time
      BY <2>1, <1>7, <1>8, <3>0
    <3>2. k # 1 => timeouts'[k - 1].h = timeouts[k - 1].h
      BY <2>1, <1>2, <1>11, <1>0, Entries
    <3>3. k \in 1 .. Len(timeouts) /\ (k # 1 => k - 1 \in 1 .. Len(timeouts))
      BY <2>1, <1>2, <1>0, Entries
    <3> QED  BY <2>0, <3>1, <3>2, <3>3, <1>0 DEF Differences
  <2>2. CASE k = i + 1
    <3>1. timeouts'[k].h = h /\ timeouts'[k].time = delta
      BY <2>2, <1>8, <1>2, <1>0, Entries DEF e
    <3>2. k # 1 => timeouts'[k - 1].h = timeouts[i].h /\ i \in 1 .. Len(timeouts)
      BY <2>2, <1>11, <1>2, <1>0, Entries
    <3>3. left'[h] = msecs  BY <1>0, <1>10
    <3> QED  BY <2>0, <2>2, <3>1, <3>2, <3>3, <1>1, <1>2, <1>4 DEF delta
  <2>3. CASE k = i + 2
    <3>1. /\ timeouts'[k].h = timeouts[i + 1].h
          /\ timeouts'[k].time = timeouts[i + 1].time - delta
      BY <2>3, <1>7, <1>8, <1>2, <1>0, Entries
    <3>2. k # 1 /\ timeouts'[k - 1].h = h /\ left'[h] = msecs
      BY <2>3, <1>11, <1>10, <1>2, <1>0, Entries
    <3>3. i < Len(timeouts)  BY <2>3, <1>2, <1>0, Entries
    <3>4. i + 1 \in 1 .. Len(timeouts) /\ timeouts[i + 1].h \in Timers
      BY <3>3, <1>2, <1>0, Entries
    <3> QED  BY <2>0, <3>1, <3>2, <3>3, <3>4, <1>0, <1>1, <1>6
  <2>4. CASE k > i + 2
    <3>0. Len(timeouts) \in Nat  BY <1>0, Entries
    <3>2. /\ k - 1 \in 1 .. Len(timeouts) /\ k - 2 \in 1 .. Len(timeouts) /\ k - 1 # 1
          /\ ~(k <= i) /\ k # i + 1 /\ ~(k - 1 <= i) /\ k - 1 # i + 1 /\ k # 1
          /\ (k - 1) - 1 = k - 2 /\ k - 1 \in 1 .. Len(timeouts) + 1
      BY <3>0, <2>4, <1>2
    <3>4. timeouts'[k] = s[k - 1]  BY <3>2, <1>8
    <3>1. /\ timeouts'[k].h = timeouts[k - 1].h /\ timeouts'[k].time = timeouts[k - 1].time
          /\ timeouts'[k - 1].h = timeouts[k - 2].h /\ k # 1
      BY <3>2, <3>4, <1>7, <1>11
    <3>3. left[timeouts[k - 1].h] = left[timeouts[k - 2].h] + timeouts[k - 1].time
      BY <3>2, <1>0 DEF Differences
    <3> QED  BY <2>0, <3>1, <3>2, <3>3
  <2> QED  BY <2>1, <2>2, <2>3, <2>4, <1>2, <1>0, Entries
<1>14. Len(timeouts') <= PoolSize
  BY <1>8, <1>0, Entries, TimeoutsAssumption DEF SysTimeout
<1>15. left' \in [Timers -> Int]  BY <1>0, <1>1, <1>10
<1>16. FiresInOrder'  BY <1>10 DEF FiresInOrder
<1> QED  BY <1>8, <1>10, <1>12, <1>13, <1>14, <1>15, <1>16 DEF TimeInv

(* A sleep charges the same to the head of the list and to every timeout.   *)
LEMMA ReturnKeepsInv ==
  ASSUME TimeInv, NEW d \in 0 .. Longest + 1, Return(d)
  PROVE  TimeInv'
<1> DEFINE e == Charge(TimeSlept(d))
<1>0. timeouts \in Seq(Entry) /\ left \in [Timers -> Int] /\ Differences /\ OneEntry
  BY DEF TimeInv
<1>1. d \in Nat
  <2>1. Longest \in Nat
    <3>1. Longest \in Delays  BY TimeoutsAssumption DEF Longest
    <3> QED  BY <3>1, TimeoutsAssumption
  <2> QED  BY <2>1
<1>2. timeouts # <<>> /\ Len(timeouts) >= 1 /\ timeouts[1].time \in Nat
  BY <1>0, Entries DEF Return
<1>3. e \in Nat /\ e <= timeouts[1].time
  BY <1>1, <1>2 DEF Charge, TimeSlept
<1>4. /\ timeouts' = [timeouts EXCEPT ![1].time = @ - e] /\ fired' = {}
      /\ left' = [h \in Timers |-> IF h \in Pending THEN left[h] - e ELSE 0]
  BY DEF Return, Pass
<1> HIDE DEF e
<1>5. \A k \in 1 .. Len(timeouts) : timeouts'[k] =
        IF k = 1 THEN [timeouts[k] EXCEPT !.time = @ - e] ELSE timeouts[k]
  BY <1>0, <1>2, <1>4, Entries
<1>6. \A k \in 1 .. Len(timeouts) :
        /\ timeouts'[k] \in Entry /\ timeouts'[k].h = timeouts[k].h
        /\ timeouts'[k].time = IF k = 1 THEN timeouts[k].time - e ELSE timeouts[k].time
  <2> SUFFICES ASSUME NEW k \in 1 .. Len(timeouts)
               PROVE  /\ timeouts'[k] \in Entry /\ timeouts'[k].h = timeouts[k].h
                      /\ timeouts'[k].time =
                           IF k = 1 THEN timeouts[k].time - e ELSE timeouts[k].time
    OBVIOUS
  <2>1. timeouts[k] \in Entry  BY <1>0, ElementOfSeq
  <2>2. CASE k = 1
    <3>1. timeouts[1].time - e \in Nat  BY <1>2, <1>3
    <3>2. timeouts'[1] = [timeouts[1] EXCEPT !.time = @ - e]  BY <2>2, <1>5
    <3>3. timeouts[1] \in [h : Timers, time : Nat]  BY <2>1, <2>2 DEF Entry
    <3>4. /\ timeouts'[1] \in [h : Timers, time : Nat] /\ timeouts'[1].h = timeouts[1].h
          /\ timeouts'[1].time = timeouts[1].time - e
      BY <3>1, <3>2, <3>3
    <3> QED  BY <2>2, <3>4 DEF Entry
  <2>3. CASE k # 1  BY <2>1, <2>3, <1>5
  <2> QED  BY <2>2, <2>3
<1>7. timeouts' \in Seq(Entry) /\ Len(timeouts') = Len(timeouts)
  <2>1. /\ DOMAIN timeouts = 1 .. Len(timeouts) /\ Len(timeouts) \in Nat
    BY <1>0, LenProperties
  <2>2. timeouts' = [k \in 1 .. Len(timeouts) |-> timeouts'[k]]
    BY <2>1, <1>4
  <2>3. timeouts' \in [1 .. Len(timeouts) -> Entry]  BY <2>2, <1>6
  <2>4. timeouts' \in Seq(Entry)  BY <2>1, <2>3
  <2>5. DOMAIN timeouts' = 1 .. Len(timeouts)  BY <2>3
  <2> QED  BY <2>1, <2>4, <2>5, LenProperties
<1>8. \A k \in 1 .. Len(timeouts) : left'[timeouts[k].h] = left[timeouts[k].h] - e
  BY <1>0, <1>4, Entries DEF Pending
<1>9. OneEntry'  BY <1>0, <1>6, <1>7 DEF OneEntry
<1>10. Differences'
  <2> SUFFICES ASSUME NEW k \in 1 .. Len(timeouts)
               PROVE  left'[timeouts'[k].h] =
                        (IF k = 1 THEN 0 ELSE left'[timeouts'[k - 1].h]) + timeouts'[k].time
    BY <1>7 DEF Differences
  <2>0. /\ Len(timeouts) \in Nat /\ timeouts[k].h \in Timers /\ timeouts[k].time \in Nat
        /\ left[timeouts[k].h] \in Int
    BY <1>0, Entries
  <2>1. CASE k = 1
    <3>1. left[timeouts[k].h] = timeouts[k].time  BY <2>0, <2>1, <1>0 DEF Differences
    <3>2. timeouts'[k].h = timeouts[k].h /\ timeouts'[k].time = timeouts[k].time - e
      BY <2>1, <1>6
    <3>3. left'[timeouts[k].h] = left[timeouts[k].h] - e  BY <1>8
    <3>4. timeouts[k].time - e \in Int  BY <2>0, <1>3
    <3> QED  BY <2>1, <3>1, <3>2, <3>3, <3>4
  <2>2. CASE k # 1
    <3>1. k - 1 \in 1 .. Len(timeouts)  BY <2>0, <2>2
    <3>2. left[timeouts[k].h] = left[timeouts[k - 1].h] + timeouts[k].time
      BY <2>2, <1>0 DEF Differences
    <3>3. left[timeouts[k - 1].h] \in Int  BY <3>1, <1>0, Entries
    <3>4. timeouts'[k].h = timeouts[k].h /\ timeouts'[k].time = timeouts[k].time
      BY <2>2, <1>6
    <3>5. timeouts'[k - 1].h = timeouts[k - 1].h  BY <3>1, <1>6
    <3>6. /\ left'[timeouts[k].h] = left[timeouts[k].h] - e
          /\ left'[timeouts[k - 1].h] = left[timeouts[k - 1].h] - e
      BY <3>1, <1>8
    <3>7. left'[timeouts[k].h] = left'[timeouts[k - 1].h] + timeouts[k].time
      <4>1. timeouts[k].time \in Int /\ e \in Int  BY <2>0, <1>3
      <4> QED  BY <3>2, <3>3, <3>6, <4>1
    <3> QED  BY <2>2, <3>4, <3>5, <3>7
  <2> QED  BY <2>1, <2>2
<1>11. left' \in [Timers -> Int]  BY <1>0, <1>3, <1>4
<1> QED
  BY <1>4, <1>7, <1>9, <1>10, <1>11 DEF TimeInv, FiresInOrder

(* The head fires: what was left of it is what the others lose.            *)
LEMMA FireKeepsInv ==
  ASSUME TimeInv, Fire
  PROVE  TimeInv'
<1> DEFINE e == timeouts[1].time
<1>0. timeouts \in Seq(Entry) /\ left \in [Timers -> Int] /\ Differences /\ OneEntry
  BY DEF TimeInv
<1>1. /\ timeouts # <<>> /\ Len(timeouts) \in Nat /\ Len(timeouts) >= 1
      /\ e \in Nat /\ timeouts[1].h \in Timers
  BY <1>0, Entries DEF Fire
<1>2. /\ timeouts' = Tail(timeouts) /\ fired' = {timeouts[1].h}
      /\ left' = [h \in Timers |-> IF h \in Pending THEN left[h] - e ELSE 0]
  BY DEF Fire, Pass
<1>3. /\ timeouts' \in Seq(Entry) /\ Len(timeouts') = Len(timeouts) - 1
      /\ \A k \in 1 .. Len(timeouts) - 1 : timeouts'[k] = timeouts[k + 1]
  BY <1>0, <1>1, <1>2
<1>4. \A k \in 1 .. Len(timeouts) : left'[timeouts[k].h] = left[timeouts[k].h] - e
  BY <1>0, <1>2, Entries DEF Pending
<1>5. \A k \in 1 .. Len(timeouts) : left[timeouts[k].h] \in Int /\ left[timeouts[k].h] >= e
  BY <1>0, <1>1, HeadIsFirst, Entries
<1>6. left[timeouts[1].h] = e  BY <1>0, <1>1 DEF Differences
<1> HIDE DEF e
<1>7. OneEntry'
  <2> SUFFICES ASSUME NEW i \in 1 .. Len(timeouts) - 1, NEW j \in 1 .. Len(timeouts) - 1,
                      timeouts'[i].h = timeouts'[j].h
               PROVE  i = j
    BY <1>3 DEF OneEntry
  <2>1. i + 1 \in 1 .. Len(timeouts) /\ j + 1 \in 1 .. Len(timeouts)  BY <1>1
  <2>2. i + 1 = j + 1  BY <2>1, <1>0, <1>3 DEF OneEntry
  <2> QED  BY <2>2
<1>8. Differences'
  <2> SUFFICES ASSUME NEW k \in 1 .. Len(timeouts) - 1
               PROVE  left'[timeouts'[k].h] =
                        (IF k = 1 THEN 0 ELSE left'[timeouts'[k - 1].h]) + timeouts'[k].time
    BY <1>3 DEF Differences
  <2>0. /\ k + 1 \in 1 .. Len(timeouts) /\ k \in 1 .. Len(timeouts) /\ k + 1 # 1
        /\ (k + 1) - 1 = k
    BY <1>1
  <2>1. left[timeouts[k + 1].h] = left[timeouts[k].h] + timeouts[k + 1].time
    BY <2>0, <1>0 DEF Differences
  <2>2. timeouts[k + 1].time \in Nat  BY <2>0, <1>0, Entries
  <2>3. CASE k = 1
    <3>1. timeouts'[k] = timeouts[k + 1]  BY <1>3
    <3>2. left'[timeouts[k + 1].h] = left[timeouts[k + 1].h] - e  BY <2>0, <1>4
    <3>3. left[timeouts[k].h] = e /\ e \in Int  BY <2>3, <1>1, <1>6
    <3>4. left'[timeouts[k + 1].h] = timeouts[k + 1].time
      BY <2>1, <2>2, <3>2, <3>3
    <3> QED  BY <2>2, <2>3, <3>1, <3>4
  <2>4. CASE k # 1
    <3>1. k - 1 \in 1 .. Len(timeouts) - 1 /\ (k - 1) + 1 = k  BY <2>4, <1>1
    <3>2. timeouts'[k - 1] = timeouts[k]  BY <3>1, <1>3
    <3>3. timeouts'[k] = timeouts[k + 1]  BY <1>3
    <3>4. /\ left'[timeouts[k].h] = left[timeouts[k].h] - e
          /\ left'[timeouts[k + 1].h] = left[timeouts[k + 1].h] - e
      BY <2>0, <1>4
    <3>5. left[timeouts[k].h] \in Int /\ left[timeouts[k + 1].h] \in Int
      BY <2>0, <1>5
    <3>6. left'[timeouts[k + 1].h] = left'[timeouts[k].h] + timeouts[k + 1].time
      BY <2>1, <2>2, <3>4, <3>5, <1>1
    <3> QED  BY <2>4, <3>2, <3>3, <3>6
  <2> QED  BY <2>3, <2>4
<1>9. FiresInOrder'
  <2>1. left'[timeouts[1].h] = 0  BY <1>1, <1>4, <1>5, <1>6
  <2>2. \A g \in Pending' : left'[g] >= 0
    <3> SUFFICES ASSUME NEW k \in 1 .. Len(timeouts) - 1
                 PROVE  left'[timeouts'[k].h] >= 0
      BY <1>3 DEF Pending
    <3>1. k + 1 \in 1 .. Len(timeouts)  BY <1>1
    <3>2. timeouts'[k] = timeouts[k + 1]  BY <1>3
    <3>3. left'[timeouts[k + 1].h] = left[timeouts[k + 1].h] - e  BY <3>1, <1>4
    <3>4. left[timeouts[k + 1].h] \in Int /\ left[timeouts[k + 1].h] >= e  BY <3>1, <1>5
    <3>5. e \in Int  BY <1>1
    <3> QED  BY <3>2, <3>3, <3>4, <3>5
  <2> QED  BY <1>2, <2>1, <2>2 DEF FiresInOrder
<1>10. left' \in [Timers -> Int]  BY <1>0, <1>1, <1>2
<1>11. Len(timeouts') <= PoolSize
  BY <1>1, <1>3, TimeoutsAssumption DEF TimeInv
<1> QED
  BY <1>1, <1>2, <1>3, <1>7, <1>8, <1>9, <1>10, <1>11 DEF TimeInv

LEMMA NextKeepsInv == TimeInv /\ [TimeNext]_timevars => TimeInv'
<1> SUFFICES ASSUME TimeInv, [TimeNext]_timevars PROVE TimeInv'  OBVIOUS
<1>1. ASSUME NEW h \in Timers, NEW ms \in Delays, SysTimeout(h, ms) PROVE TimeInv'
  BY <1>1, TimeoutKeepsInv
<1>2. CASE UNCHANGED timevars
  BY <1>2 DEF timevars, TimeInv, OneEntry, Differences, FiresInOrder, Pending
<1>3. ASSUME NEW h \in Timers, SysTimeoutNoMemory(h) PROVE TimeInv'
  BY <1>2, <1>3 DEF SysTimeoutNoMemory
<1>4. CASE Fire  BY <1>4, FireKeepsInv
<1>5. ASSUME NEW d \in 0 .. Longest + 1, Return(d) PROVE TimeInv'
  BY <1>5, ReturnKeepsInv
<1> QED  BY <1>1, <1>2, <1>3, <1>4, <1>5 DEF TimeNext

LEMMA InvIsSane == TimeInv => DeltaListSane
<1> SUFFICES ASSUME TimeInv PROVE DeltaListSane  OBVIOUS
<1>0. timeouts \in Seq(Entry) /\ left \in [Timers -> Int] /\ Differences
  BY DEF TimeInv
<1>1. DOMAIN timeouts = 1 .. Len(timeouts)  BY <1>0
<1>2. TimeTypeOK  BY <1>0, <1>1, Entries DEF TimeInv, TimeTypeOK
<1>3. DifferencesAddUp  BY <1>0, <1>1, UntilIsLeft DEF DifferencesAddUp
<1> QED  BY <1>2, <1>3 DEF TimeInv, DeltaListSane

(* sys_timeout, sys_mbox_fetch and sys_sem_wait keep the delta list right   *)
(* for any timers and delays and any size of the pool: no difference goes  *)
(* below 0, every timeout is as far away as it was asked for, and fires    *)
(* then and in order.                                                      *)
THEOREM DeltaListCorrect == TimeSpec => []DeltaListSane
BY TimeInitInv, NextKeepsInv, InvIsSane, PTL DEF TimeSpec
=============================================================================
