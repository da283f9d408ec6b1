------------------------------- MODULE Nf10Proofs ------------------------------
(***************************************************************************)
(* The driver of the NetFPGA-10G card for any number of ports, any sizes of *)
(* its rings and of the card's memory, any frames and any faults.          *)
(*                                                                         *)
(* The driver knows slots and counters only; the inductive invariant says  *)
(* which frame is behind each of them.  Frames are numbered as they were   *)
(* given a slot, and as long as no slot is skipped the k-th is in slot     *)
(* SlotOf(k): so the pointers of the driver and of the card, each of which *)
(* goes round on its own, are the numbers of the next frame to book, to    *)
(* send and to free.  A number is found from its slot because no more      *)
(* frames are under way than the ring has slots.                           *)
(***************************************************************************)
EXTENDS Nf10, FiniteSetTheorems, SequenceTheorems, TLAPS

Unskipped == "slot skipped" \notin trouble

(* The slot of the k-th frame in a ring of n.                              *)
SlotOf(k, n) == (k - 1) % n

(* Senders that have not yet entered their frame into the books, or not    *)
(* yet given it to the card.                                               *)
Unbooked(p) == pc[p] \in {"test", "stop", "book"}
Unposted(p) == pc[p] \in {"test", "stop", "book", "post"}

-----------------------------------------------------------------------------
(* Types.                                                                  *)

PktLines == 0 .. PktRoom - 1
Frame == [slot : TxSlots, at : PktLines, size : 1 .. PktRoom]

Pointers == [wr : TxSlots, rd : TxSlots, cnt : Int, pktWr : PktLines, pktCnt : Int]

TxTypes ==
  /\ tx_lock \in Ports \cup {None}
  /\ tx \in Pointers
  /\ tx_bk \in [TxSlots -> [skb : Nat, size : Nat, port : Ports \cup {None}]]
  /\ tx_dsc \in [TxSlots -> Nat] /\ tx_dne \in [TxSlots -> Nat]
  /\ pc \in [Ports -> {"idle", "test", "stop", "book", "post", "stats"}]
  /\ cur \in [Ports -> Nat]
  /\ frame \in Seq(Frame) /\ sent \in Seq(Nat) /\ freed \in Seq(Nat)
  /\ \A p \in Ports : pc[p] # "idle" => cur[p] \in 1 .. Len(frame)

RxTypes ==
  /\ rx \in [wr : RxSlots, rd : RxSlots, cnt : Int]
  /\ rx_bk \in [RxSlots -> Nat] /\ rx_dsc \in [RxSlots -> Nat]
  /\ rx_dne \in [RxSlots -> Ports \cup {None, "bad"}]
  /\ data \in Seq(Nat) /\ taken \in Seq(Nat) /\ got \in Nat

Rounds == 0 .. MaxTcnt
Locals == [index : Nat, tcnt : Rounds, work : BOOLEAN, on : BOOLEAN, done : BOOLEAN,
           port : Ports \cup {None, "bad"}]

WorkTypes ==
  /\ hpc \in {"idle", "top", "poll", "tx", "invalidate", "wake", "rx", "refill", "end"}
  /\ h \in Locals
  /\ hpc # "idle" => h.tcnt # 0
  /\ hpc = "invalidate" => h.index \in TxSlots

Cards == [tx : TxSlots, rx : RxSlots, wish : BOOLEAN, may : SUBSET BOOLEAN,
          int : BOOLEAN, quiet : BOOLEAN, fifo : Nat]

OtherTypes ==
  /\ card \in Cards
  /\ axi_wr_cnt \in Nat
  /\ budget \in [sizes : SUBSET (1 .. PktRoom), tx : Nat, rx : Nat, regs : Nat,
                 toggles : Nat, faults : Nat, remove : Nat]

-----------------------------------------------------------------------------
(* The parts of the invariant.                                             *)

(* The resources are taken in their order.                                 *)
First(n) == {Steps[i] : i \in 1 .. n}

Owned ==
  /\ stage \in {"probing", "ready", "failed", "removed"}
  /\ held \subseteq ToSet(Steps)
  /\ stage = "probing" => \E n \in 0 .. 14 : held = First(n)

(* What the card has sent and what work_handler has freed are the first    *)
(* frames, and the pointers come to the next ones.                         *)
Numbered ==
  /\ Len(freed) <= Len(sent) /\ Len(sent) <= Len(frame)
  /\ Len(frame) <= Len(freed) + TxRing
  /\ \A i \in 1 .. Len(sent) : sent[i] = i
  /\ \A i \in 1 .. Len(freed) : freed[i] = i
  /\ \A k \in 1 .. Len(frame) : Slot(k) = SlotOf(k, TxRing)
  /\ tx.wr = SlotOf(Len(frame) + 1, TxRing) /\ tx.rd = SlotOf(Len(freed) + 1, TxRing)
  /\ card.tx = SlotOf(Len(sent) + 1, TxRing)
  /\ tx.cnt = Len(frame) - Len(freed)

(* A frame a sender still has in hand is its own, and not with the card.   *)
InHand ==
  \A p \in Ports : Unposted(p) =>
    /\ Len(sent) < cur[p]
    /\ \A q \in Ports : q # p /\ Unposted(q) => cur[q] # cur[p]
    /\ \A s \in TxSlots : tx_dsc[s] # cur[p]

(* The books tell the frame of every slot in use.                          *)
Booked ==
  \A k \in Len(freed) + 1 .. Len(frame) :
    (\A p \in Ports : Unbooked(p) => cur[p] # k) =>
      /\ tx_bk[SlotOf(k, TxRing)].skb = k
      /\ tx_bk[SlotOf(k, TxRing)].size = frame[k].size

Posted ==
  \A s \in TxSlots : tx_dsc[s] # 0 =>
    tx_dsc[s] \in Len(sent) + 1 .. Len(frame) /\ SlotOf(tx_dsc[s], TxRing) = s

(* A completion is of a frame that was sent and not freed, but for the one *)
(* that work_handler is about to invalidate.                               *)
Done ==
  /\ \A s \in TxSlots : tx_dne[s] # 0 =>
       /\ tx_dne[s] \in 1 .. Len(sent) /\ SlotOf(tx_dne[s], TxRing) = s
       /\ tx_dne[s] > Len(freed) \/ (hpc = "invalidate" /\ s = h.index)
  /\ hpc = "tx" => tx_dne[tx.rd] # 0

(* The card's packet memory as a tape that is used once: frame k lies from *)
(* tape[k - 1] to tape[k].                                                 *)
OnTape(tape) ==
  /\ \A j, k \in 0 .. Len(frame) : j <= k => tape[j] <= tape[k]
  /\ \A k \in 1 .. Len(frame) : /\ tape[k] = tape[k - 1] + frame[k].size
                                /\ frame[k].at = tape[k - 1] % PktRoom
  /\ tx.pktWr = tape[Len(frame)] % PktRoom
  /\ tx.pktCnt = tape[Len(frame)] - tape[Len(freed)]
  /\ tx.pktCnt <= PktRoom

Taped == \E tape \in [0 .. Len(frame) -> Nat] : OnTape(tape)

TxInv == Numbered /\ InHand /\ Booked /\ Posted /\ Done /\ Taped

(* The same for the buffers given to the card, numbered as they were given.*)
RxInv ==
  /\ Len(taken) <= got /\ got <= Len(data) /\ Len(data) <= Len(taken) + RxRing
  /\ rx.wr = SlotOf(Len(data) + 1, RxRing) /\ rx.rd = SlotOf(Len(taken) + 1, RxRing)
  /\ card.rx = SlotOf(got + 1, RxRing)
  /\ rx.cnt = Len(data) - Len(taken)
  /\ \A g \in 1 .. got : data[g] = g
  /\ \A i \in 1 .. Len(taken) : taken[i] = i
  /\ \A g \in Len(taken) + 1 .. Len(data) : rx_bk[SlotOf(g, RxRing)] = g
  /\ \A s \in RxSlots : rx_dsc[s] # 0 =>
       rx_dsc[s] \in got + 1 .. Len(data) /\ SlotOf(rx_dsc[s], RxRing) = s
  /\ \A s \in RxSlots : rx_dne[s] # None =>
       \E g \in Len(taken) + 1 .. got : SlotOf(g, RxRing) = s

(* What work_handler has seen in the ring is there when it comes to it.    *)
Seen ==
  /\ hpc = "rx" \/ (hpc \in {"tx", "invalidate", "wake"} /\ h.port # None) =>
       rx_dne[rx.rd] # None

(* The card has no buffers before the interfaces are registered, and       *)
(* work_handler has none to replace.                                       *)
NoBuffers == stage = "probing" /\ "skbs" \notin held => data = <<>> /\ hpc # "refill"

IInv ==
  /\ TxTypes /\ RxTypes /\ WorkTypes /\ OtherTypes
  /\ Owned /\ GivesBack
  /\ Unskipped => TxInv
  /\ RxInv /\ Seen /\ NoBuffers

-----------------------------------------------------------------------------
(* Remainders.                                                             *)

LEMMA Division ==
  ASSUME NEW a \in Nat, NEW n \in Nat \ {0}
  PROVE  a = n * (a \div n) + (a % n) /\ a % n \in 0 .. n - 1 /\ a \div n \in Nat
OBVIOUS

LEMMA RemainderUnique ==
  ASSUME NEW q \in Int, NEW n \in Nat \ {0}, NEW r \in 0 .. n - 1
  PROVE  (n * q + r) % n = r
OBVIOUS

(* Going on by i from a position on the ring.                              *)
LEMMA RemainderAdds ==
  ASSUME NEW a \in Nat, NEW i \in Nat, NEW n \in Nat \ {0}
  PROVE  ((a % n) + i) % n = (a + i) % n
<1> DEFINE q == a \div n
           r == a % n
           s == (r + i) \div n
           t == (r + i) % n
<1>1. a = n * q + r /\ r \in 0 .. n - 1 /\ q \in Nat  BY Division
<1> HIDE DEF q, r
<1>2. r + i \in Nat  BY <1>1
<1>3. r + i = n * s + t /\ t \in 0 .. n - 1 /\ s \in Nat  BY <1>2, Division
<1> HIDE DEF s, t
<1>4. a + i = n * (q + s) + t /\ q + s \in Int  BY <1>1, <1>3
<1>5. (n * (q + s) + t) % n = t  BY <1>3, <1>4, RemainderUnique
<1> QED  BY <1>4, <1>5 DEF t, r

(* Two positions less than a round apart are different.                    *)
LEMMA RemainderDiffers ==
  ASSUME NEW a \in Nat, NEW b \in Nat, NEW n \in Nat \ {0}, a < b, b < a + n
  PROVE  a % n # b % n
<1> DEFINE q == a \div n
           r == a % n
           s == b \div n
           t == b % n
<1>1. a = n * q + r /\ r \in 0 .. n - 1 /\ q \in Nat  BY Division
<1>2. b = n * s + t /\ t \in 0 .. n - 1 /\ s \in Nat  BY Division
<1> HIDE DEF q, r, s, t
<1> SUFFICES ASSUME r = t PROVE FALSE  BY DEF r, t
<1>3. b - a = n * (s - q)  BY <1>1, <1>2
<1>4. s - q \in Int /\ n * (s - q) > 0 /\ n * (s - q) < n  BY <1>1, <1>2, <1>3
<1>5. CASE s - q <= 0  BY <1>4, <1>5
<1>6. CASE s - q >= 1  BY <1>4, <1>6
<1> QED  BY <1>4, <1>5, <1>6

(* Two stretches behind each other on a line are apart on the ring, if they *)
(* both lie within a round.                                                *)
LEMMA StretchesApart ==
  ASSUME NEW n \in Nat \ {0}, NEW r \in Nat, NEW e \in Nat, e - r <= n,
         NEW x \in Nat, NEW xn \in Nat, NEW y \in Nat, NEW yn \in Nat,
         r <= x, x + xn <= y, y + yn <= e,
         NEW a \in Nat, NEW b \in Nat, a < xn, b < yn
  PROVE  (x + a) % n # (y + b) % n
<1> DEFINE u == x + a
           v == y + b
<1>1. u \in Nat /\ v \in Nat /\ u < v /\ v < u + n  OBVIOUS
<1> HIDE DEF u, v
<1>2. u % n # v % n  BY <1>1, RemainderDiffers
<1> QED  BY <1>2 DEF u, v

LEMMA SlotInRing ==
  ASSUME NEW k \in Nat \ {0}, NEW n \in Nat \ {0}
  PROVE  SlotOf(k, n) \in 0 .. n - 1
<1>1. k - 1 \in Nat  OBVIOUS
<1> QED  BY <1>1, Division DEF SlotOf

LEMMA SlotAfter ==
  ASSUME NEW k \in Nat \ {0}, NEW n \in Nat \ {0}
  PROVE  (SlotOf(k, n) + 1) % n = SlotOf(k + 1, n)
<1>1. PICK m \in Nat : m = k - 1 /\ m + 1 = (k + 1) - 1  OBVIOUS
<1>2. 1 \in Nat  OBVIOUS
<1>3. ((m % n) + 1) % n = (m + 1) % n  BY <1>2, RemainderAdds, Zenon
<1> QED  BY <1>1, <1>3 DEF SlotOf

(* Of the frames under way, no two are in one slot.                        *)
LEMMA SlotsDiffer ==
  ASSUME NEW a \in Nat, NEW n \in Nat \ {0},
         NEW j \in a + 1 .. a + n, NEW k \in a + 1 .. a + n, j # k
  PROVE  SlotOf(j, n) # SlotOf(k, n)
<1>1. j - 1 \in Nat /\ k - 1 \in Nat  OBVIOUS
<1>2. CASE j < k
  <2>1. j - 1 < k - 1 /\ k - 1 < (j - 1) + n  BY <1>2
  <2> QED  BY <1>1, <2>1, RemainderDiffers DEF SlotOf
<1>3. CASE k < j
  <2>1. k - 1 < j - 1 /\ j - 1 < (k - 1) + n  BY <1>3
  <2> QED  BY <1>1, <2>1, RemainderDiffers DEF SlotOf
<1> QED  BY <1>2, <1>3

LEMMA Sizes == TxRing \in Nat \ {0} /\ RxRing \in Nat \ {0} /\ PktRoom \in Nat \ {0}
BY SizesAssumption

LEMMA RingSlots ==
  /\ TxRing \in Nat \ {0} /\ RxRing \in Nat \ {0} /\ PktRoom \in Nat \ {0}
  /\ \A k \in Nat \ {0} : SlotOf(k, TxRing) \in TxSlots /\ SlotOf(k, RxRing) \in RxSlots
  /\ \A k \in Nat \ {0} : /\ TxAfter(SlotOf(k, TxRing)) = SlotOf(k + 1, TxRing)
                          /\ RxAfter(SlotOf(k, RxRing)) = SlotOf(k + 1, RxRing)
  /\ \A s \in TxSlots : s \in Nat /\ TxAfter(s) \in TxSlots
  /\ \A s \in RxSlots : s \in Nat /\ RxAfter(s) \in RxSlots
<1>1. TxRing \in Nat \ {0} /\ RxRing \in Nat \ {0} /\ PktRoom \in Nat \ {0}
  BY SizesAssumption
<1>2. \A k \in Nat \ {0} : SlotOf(k, TxRing) \in TxSlots /\ SlotOf(k, RxRing) \in RxSlots
  BY <1>1, SlotInRing DEF TxSlots, RxSlots
<1>3. \A k \in Nat \ {0} : /\ TxAfter(SlotOf(k, TxRing)) = SlotOf(k + 1, TxRing)
                           /\ RxAfter(SlotOf(k, RxRing)) = SlotOf(k + 1, RxRing)
  BY <1>1, SlotAfter DEF TxAfter, RxAfter
<1>4. \A s \in TxSlots : s \in Nat /\ TxAfter(s) \in TxSlots
  <2> SUFFICES ASSUME NEW s \in TxSlots PROVE s \in Nat /\ TxAfter(s) \in TxSlots
    OBVIOUS
  <2>1. s \in Nat /\ s + 1 \in Nat  BY <1>1 DEF TxSlots
  <2> QED  BY <1>1, <2>1, Division DEF TxSlots, TxAfter
<1>5. \A s \in RxSlots : s \in Nat /\ RxAfter(s) \in RxSlots
  <2> SUFFICES ASSUME NEW s \in RxSlots PROVE s \in Nat /\ RxAfter(s) \in RxSlots
    OBVIOUS
  <2>1. s \in Nat /\ s + 1 \in Nat  BY <1>1 DEF RxSlots
  <2> QED  BY <1>1, <2>1, Division DEF RxSlots, RxAfter
<1> QED  BY <1>1, <1>2, <1>3, <1>4, <1>5

LEMMA Appended ==
  ASSUME NEW S, NEW s \in Seq(S), NEW e \in S
  PROVE  /\ Append(s, e) \in Seq(S) /\ Len(s) \in Nat /\ Len(Append(s, e)) = Len(s) + 1
         /\ \A i \in 1 .. Len(s) : Append(s, e)[i] = s[i]
         /\ Append(s, e)[Len(s) + 1] = e
OBVIOUS

-----------------------------------------------------------------------------
(* Which steps change which part of the state.                             *)

TxStep ==
  \/ \E p \in Ports : \/ Sender(p)
                      \/ \E size \in budget.sizes : Xmit(p, size) \/ XmitFails(p, size)
  \/ CardSends \/ FreeSent \/ Invalidate

TxQuiet ==
  /\ UNCHANGED <<tx_lock, tx, tx_bk, tx_dsc, tx_dne, pc, cur, frame, sent, freed>>
  /\ card'.tx = card.tx
  /\ hpc = "invalidate" => hpc' = "invalidate" /\ h'.index = h.index
  /\ hpc' = "tx" => hpc = "tx" \/ tx_dne[tx.rd] # 0

RxStep ==
  \/ \E port \in Ports \cup {"bad"} : CardReceives(port)
  \/ Probe \/ TakeReceived \/ Refill

RxQuiet ==
  UNCHANGED <<rx, rx_bk, rx_dsc, rx_dne, data, got, taken>> /\ card'.rx = card.rx

OwnStep == Probe \/ ProbeFails \/ RemoveCard

LEMMA TxSteps ==
  ASSUME OtherTypes, [Next]_vars
  PROVE  TxQuiet \/ TxStep
<1> USE DEF OtherTypes, Cards, TxQuiet, txVars, HandlerStep
<1>1. CASE Probe \/ ProbeFails \/ RemoveCard \/ \E p \in Ports : Toggle(p)
  BY <1>1 DEF Probe, ProbeFails, RemoveCard, Toggle, workVars
<1>2. ASSUME NEW port \in Ports \cup {"bad"}, CardReceives(port) PROVE TxQuiet
  BY <1>2 DEF CardReceives, Landed, workVars
<1>3. CASE StartWork \/ DisableInterrupts \/ Poll
  BY <1>3 DEF StartWork, DisableInterrupts, WriteEnable, Poll
<1>4. CASE WakeQueues \/ TakeReceived \/ Refill
  BY <1>4 DEF WakeQueues, TakeReceived, Refill
<1>5. CASE EndRound
  BY <1>5 DEF EndRound, WriteEnable
<1>6. CASE WriteReg \/ ReadReg \/ CardWrites
  BY <1>6 DEF WriteReg, ReadReg, CardWrites, workVars
<1>7. CASE UNCHANGED vars
  BY <1>7 DEF vars, workVars
<1>8. CASE CardInterrupts \/ CardSettles
  BY <1>8 DEF CardInterrupts, CardSettles, workVars
<1> HIDE DEF TxQuiet
<1> QED
  BY <1>1, <1>2, <1>3, <1>4, <1>5, <1>6, <1>7, <1>8 DEF Next, Handler, TxStep

LEMMA RxSteps ==
  ASSUME OtherTypes, [Next]_vars
  PROVE  RxQuiet \/ RxStep
<1> USE DEF OtherTypes, Cards, RxQuiet, rxVars
<1>1. CASE ProbeFails \/ RemoveCard \/ \E p \in Ports : Toggle(p)
  BY <1>1 DEF ProbeFails, RemoveCard, Toggle
<1>2. ASSUME NEW p \in Ports, NEW size, Xmit(p, size) \/ XmitFails(p, size) PROVE RxQuiet
  BY <1>2 DEF Xmit, XmitFails
<1>3. ASSUME NEW p \in Ports, Sender(p) PROVE RxQuiet
  BY <1>3 DEF Sender, TestRoom, StopQueue, KeepBooks, WriteDescriptor, Stats
<1>4. CASE CardSends
  BY <1>4 DEF CardSends, Landed
<1>5. CASE StartWork \/ DisableInterrupts \/ Poll
  BY <1>5 DEF StartWork, DisableInterrupts, WriteEnable, Poll
<1>6. CASE FreeSent \/ Invalidate \/ WakeQueues
  BY <1>6 DEF FreeSent, Invalidate, WakeQueues
<1>7. CASE EndRound
  BY <1>7 DEF EndRound, WriteEnable
<1>8. CASE WriteReg \/ ReadReg \/ CardWrites
  BY <1>8 DEF WriteReg, ReadReg, CardWrites
<1>9. CASE UNCHANGED vars
  BY <1>9 DEF vars
<1>10. CASE CardInterrupts \/ CardSettles
  BY <1>10 DEF CardInterrupts, CardSettles
<1> HIDE DEF RxQuiet
<1> QED
  BY <1>1, <1>2, <1>3, <1>4, <1>5, <1>6, <1>7, <1>8, <1>9, <1>10 DEF Next, Handler, RxStep

LEMMA WorkSteps ==
  ASSUME [Next]_vars
  PROVE  UNCHANGED <<hpc, h>> \/ Handler
<1> USE DEF workVars
<1>1. CASE Probe \/ ProbeFails \/ RemoveCard \/ \E p \in Ports : Toggle(p)
  BY <1>1 DEF Probe, ProbeFails, RemoveCard, Toggle
<1>2. ASSUME NEW p \in Ports, NEW size, Xmit(p, size) \/ XmitFails(p, size)
      PROVE  UNCHANGED <<hpc, h>>
  BY <1>2 DEF Xmit, XmitFails
<1>3. ASSUME NEW p \in Ports, Sender(p) PROVE UNCHANGED <<hpc, h>>
  BY <1>3 DEF Sender, TestRoom, StopQueue, KeepBooks, WriteDescriptor, Stats
<1>4. CASE CardSends \/ CardInterrupts \/ CardSettles
           \/ \E port \in Ports \cup {"bad"} : CardReceives(port)
  BY <1>4 DEF CardSends, CardInterrupts, CardSettles, CardReceives
<1>5. CASE WriteReg \/ ReadReg \/ CardWrites
  BY <1>5 DEF WriteReg, ReadReg, CardWrites
<1>6. CASE UNCHANGED vars
  BY <1>6 DEF vars
<1> QED
  BY <1>1, <1>2, <1>3, <1>4, <1>5, <1>6 DEF Next

LEMMA OwnSteps ==
  ASSUME [Next]_vars
  PROVE  UNCHANGED <<stage, held>> \/ OwnStep
<1> USE DEF ownVars
<1>1. ASSUME NEW p \in Ports, Toggle(p) PROVE UNCHANGED <<stage, held>>
  BY <1>1 DEF Toggle
<1>2. ASSUME NEW p \in Ports, NEW size, Xmit(p, size) \/ XmitFails(p, size)
      PROVE  UNCHANGED <<stage, held>>
  BY <1>2 DEF Xmit, XmitFails
<1>3. ASSUME NEW p \in Ports, Sender(p) PROVE UNCHANGED <<stage, held>>
  BY <1>3 DEF Sender, TestRoom, StopQueue, KeepBooks, WriteDescriptor, Stats
<1>4. CASE CardSends \/ CardInterrupts \/ CardSettles
           \/ \E port \in Ports \cup {"bad"} : CardReceives(port)
  BY <1>4 DEF CardSends, CardInterrupts, CardSettles, CardReceives
<1>5. CASE Handler
  BY <1>5 DEF Handler, StartWork, DisableInterrupts, Poll, FreeSent, Invalidate,
              WakeQueues, TakeReceived, Refill, EndRound
<1>6. CASE WriteReg \/ ReadReg \/ CardWrites
  BY <1>6 DEF WriteReg, ReadReg, CardWrites
<1>7. CASE UNCHANGED vars
  BY <1>7 DEF vars
<1> QED
  BY <1>1, <1>2, <1>3, <1>4, <1>5, <1>6, <1>7 DEF Next, OwnStep

(* What is noted stays noted.                                              *)
LEMMA TroubleStays ==
  ASSUME [Next]_vars
  PROVE  trouble \subseteq trouble'
<1> USE DEF Note
<1>1. CASE Probe \/ ProbeFails \/ RemoveCard \/ \E p \in Ports : Toggle(p)
  BY <1>1 DEF Probe, FirstBuffers, ProbeFails, RemoveCard, Toggle
<1>2. ASSUME NEW p \in Ports, NEW size, Xmit(p, size) \/ XmitFails(p, size)
      PROVE  trouble \subseteq trouble'
  BY <1>2 DEF Xmit, XmitFails
<1>3. ASSUME NEW p \in Ports, Sender(p) PROVE trouble \subseteq trouble'
  BY <1>3 DEF Sender, TestRoom, StopQueue, KeepBooks, WriteDescriptor, Stats
<1>4. CASE CardSends \/ CardInterrupts \/ CardSettles
           \/ \E port \in Ports \cup {"bad"} : CardReceives(port)
  BY <1>4 DEF CardSends, CardInterrupts, CardSettles, CardReceives
<1>5. CASE StartWork \/ DisableInterrupts \/ Poll \/ FreeSent \/ Invalidate \/ WakeQueues
  BY <1>5 DEF StartWork, DisableInterrupts, Poll, FreeSent, Invalidate, WakeQueues
<1>6. CASE TakeReceived \/ Refill \/ EndRound
  BY <1>6 DEF TakeReceived, Refill, nf10priv_send_rx_dsc, EndRound
<1>7. CASE WriteReg \/ ReadReg \/ CardWrites
  BY <1>7 DEF WriteReg, ReadReg, CardWrites
<1>8. CASE UNCHANGED vars
  BY <1>8 DEF vars
<1> QED
  BY <1>1, <1>2, <1>3, <1>4, <1>5, <1>6, <1>7, <1>8 DEF Next, Handler

-----------------------------------------------------------------------------
(* Types.                                                                  *)

(* What the assignments to several fields of tx make of it.                *)
LEMMA PointersSet ==
  ASSUME NEW r \in Pointers, NEW c \in TxSlots, NEW a \in Int, NEW b \in Int
  PROVE  /\ [r EXCEPT !.cnt = a, !.pktCnt = b] \in Pointers
         /\ [r EXCEPT !.rd = c, !.cnt = a, !.pktCnt = b] \in Pointers
BY DEF Pointers

LEMMA PointersMoved ==
  ASSUME NEW r \in Pointers, NEW size \in Int,
         NEW t, t = [r EXCEPT !.cnt = @ + 1, !.pktCnt = @ + size]
  PROVE  /\ t \in Pointers /\ t.wr = r.wr /\ t.rd = r.rd /\ t.pktWr = r.pktWr
         /\ t.cnt = r.cnt + 1 /\ t.pktCnt = r.pktCnt + size
<1>1. t \in Pointers
  <2>1. r.cnt + 1 \in Int /\ r.pktCnt + size \in Int /\ r.rd \in TxSlots  BY DEF Pointers
  <2> QED  BY <2>1, PointersSet
<1>2. t.wr = r.wr /\ t.rd = r.rd /\ t.pktWr = r.pktWr  BY DEF Pointers
<1>3. t.cnt = r.cnt + 1 /\ t.pktCnt = r.pktCnt + size  BY DEF Pointers
<1> QED  BY <1>1, <1>2, <1>3

LEMMA PointersFreed ==
  ASSUME NEW r \in Pointers, NEW size \in Int, TxAfter(r.rd) \in TxSlots,
         NEW t, t = [r EXCEPT !.rd = TxAfter(@), !.cnt = @ - 1, !.pktCnt = @ - size]
  PROVE  /\ t \in Pointers /\ t.wr = r.wr /\ t.rd = TxAfter(r.rd) /\ t.pktWr = r.pktWr
         /\ t.cnt = r.cnt - 1 /\ t.pktCnt = r.pktCnt - size
<1>1. t \in Pointers
  <2>1. r.cnt - 1 \in Int /\ r.pktCnt - size \in Int  BY DEF Pointers
  <2> QED  BY <2>1, PointersSet
<1>2. t.wr = r.wr /\ t.rd = TxAfter(r.rd) /\ t.pktWr = r.pktWr  BY DEF Pointers
<1>3. t.cnt = r.cnt - 1 /\ t.pktCnt = r.pktCnt - size  BY DEF Pointers
<1> QED  BY <1>1, <1>2, <1>3

LEMMA SenderKeepsTypes ==
  ASSUME TxTypes, OtherTypes, NEW p \in Ports, Sender(p)
  PROVE  TxTypes'
<1>0. p \in DOMAIN pc /\ p \in DOMAIN cur  BY DEF TxTypes
<1>1. CASE TestRoom(p)
  BY <1>0, <1>1 DEF TestRoom, XmitStep, TxTypes
<1>2. CASE StopQueue(p)
  BY <1>0, <1>2 DEF StopQueue, XmitStep, TxTypes
<1>3. CASE KeepBooks(p)
  <2>1. cur[p] \in 1 .. Len(frame)  BY <1>3 DEF KeepBooks, XmitStep, TxTypes
  <2>2. frame[cur[p]] \in Frame  BY <2>1, ElementOfSeq DEF TxTypes
  <2>3. Slot(cur[p]) \in TxSlots /\ frame[cur[p]].size \in Nat
    BY <2>2, RingSlots DEF Slot, Frame
  <2>4. tx_bk' \in [TxSlots -> [skb : Nat, size : Nat, port : Ports \cup {None}]]
    BY <1>3, <2>3 DEF KeepBooks, TxTypes
  <2> QED  BY <1>0, <1>3, <2>4 DEF KeepBooks, XmitStep, TxTypes
<1>4. CASE WriteDescriptor(p)
  BY <1>0, <1>4 DEF WriteDescriptor, XmitStep, TxTypes
<1>5. CASE Stats(p)
  BY <1>0, <1>5 DEF Stats, XmitStep, TxTypes
<1> QED  BY <1>1, <1>2, <1>3, <1>4, <1>5 DEF Sender

LEMMA XmitKeepsTypes ==
  ASSUME TxTypes, OtherTypes, NEW p \in Ports, NEW size \in budget.sizes,
         Xmit(p, size) \/ XmitFails(p, size)
  PROVE  TxTypes'
<1>1. size \in 1 .. PktRoom /\ size \in Nat  BY RingSlots DEF OtherTypes
<1>2. /\ tx.wr \in TxSlots /\ tx.pktWr \in PktLines /\ tx.cnt \in Int
      /\ tx.pktCnt \in Int /\ tx.rd \in TxSlots
  BY DEF TxTypes, Pointers
<1>3. TxAfter(tx.wr) \in TxSlots  BY <1>2, RingSlots
<1>4. tx.pktWr + size \in Nat  BY <1>1, <1>2, RingSlots DEF PktLines
<1>5. (tx.pktWr + size) % PktRoom \in PktLines  BY <1>4, RingSlots, Division DEF PktLines
<1>6. Claimed(size) \in Pointers
  BY <1>2, <1>3, <1>5 DEF Claimed, TxTypes, Pointers
<1>7. CASE Xmit(p, size)
  <2>1. tx' \in Pointers
    <3>1. tx' = [Claimed(size) EXCEPT !.cnt = @ + 1, !.pktCnt = @ + size]
      BY <1>7 DEF Xmit
    <3>2. size \in Int  BY <1>1
    <3> QED  BY <1>6, <3>1, <3>2, PointersMoved
  <2> DEFINE f == [slot |-> tx.wr, at |-> tx.pktWr, size |-> size]
  <2>2. f \in Frame  BY <1>1, <1>2 DEF Frame
  <2> HIDE DEF f
  <2>3. frame' = Append(frame, f)  BY <1>7 DEF Xmit, f
  <2>4. frame' \in Seq(Frame) /\ Len(frame') = Len(frame) + 1 /\ Len(frame) \in Nat
    BY <2>2, <2>3, Appended DEF TxTypes
  <2>5. /\ cur' \in [Ports -> Nat]
        /\ pc' \in [Ports -> {"idle", "test", "stop", "book", "post", "stats"}]
        /\ tx_lock' \in Ports \cup {None}
    BY <1>7, <2>4 DEF Xmit, TxTypes
  <2>6. \A q \in Ports : pc'[q] # "idle" => cur'[q] \in 1 .. Len(frame')
    BY <1>7, <2>4 DEF Xmit, TxTypes
  <2> QED  BY <1>7, <2>1, <2>4, <2>5, <2>6 DEF Xmit, TxTypes
<1>8. CASE XmitFails(p, size)
  BY <1>6, <1>8 DEF XmitFails, TxTypes
<1> QED  BY <1>7, <1>8

LEMMA TxTypesKept ==
  ASSUME TxTypes, OtherTypes, WorkTypes, [Next]_vars
  PROVE  TxTypes'
<1>1. CASE TxQuiet  BY <1>1 DEF TxQuiet, TxTypes
<1>2. CASE CardSends
  <2>1. tx_dsc[card.tx] \in Nat  BY DEF TxTypes, OtherTypes, Cards
  <2>2. sent' \in Seq(Nat)  BY <1>2, <2>1, Appended DEF CardSends, TxTypes
  <2> QED  BY <1>2, <2>1, <2>2 DEF CardSends, TxTypes
<1>3. CASE FreeSent
  <2>1. tx.rd \in TxSlots /\ Completed \in [skb : Nat, size : Nat, port : Ports \cup {None}]
    BY DEF TxTypes, Completed, Pointers
  <2>2. Completed.skb \in Nat /\ Completed.size \in Nat  BY <2>1
  <2>3. freed' \in Seq(Nat)  BY <1>3, <2>2, Appended DEF FreeSent, TxTypes
  <2>4. TxAfter(tx.rd) \in TxSlots  BY <2>1, RingSlots
  <2>5. tx' \in Pointers
    <3>1. tx' = [tx EXCEPT !.rd = TxAfter(@), !.cnt = @ - 1, !.pktCnt = @ - Completed.size]
      BY <1>3 DEF FreeSent
    <3>2. tx \in Pointers /\ Completed.size \in Int  BY <2>2 DEF TxTypes
    <3> QED  BY <2>4, <3>1, <3>2, PointersFreed
  <2> QED  BY <1>3, <2>3, <2>5 DEF FreeSent, TxTypes
<1>4. CASE Invalidate
  BY <1>4 DEF Invalidate, HandlerStep, TxTypes, WorkTypes
<1> QED
  BY <1>1, <1>2, <1>3, <1>4, TxSteps, SenderKeepsTypes, XmitKeepsTypes DEF TxStep

LEMMA Replaced ==
  ASSUME NEW s \in Seq(Nat), NEW i \in Nat, NEW e \in Nat
  PROVE  /\ [s EXCEPT ![i] = e] \in Seq(Nat) /\ Len([s EXCEPT ![i] = e]) = Len(s)
         /\ \A j \in 1 .. Len(s) : [s EXCEPT ![i] = e][j] = IF j = i THEN e ELSE s[j]
<1> DEFINE t == [s EXCEPT ![i] = e]
<1>1. Len(s) \in Nat /\ DOMAIN s = 1 .. Len(s) /\ s \in [1 .. Len(s) -> Nat]  OBVIOUS
<1>2. t \in [1 .. Len(s) -> Nat]  BY <1>1
<1>3. t \in Seq(Nat)  BY <1>1, <1>2
<1>4. DOMAIN t = 1 .. Len(s)  BY <1>2
<1>5. Len(t) = Len(s)  BY <1>1, <1>3, <1>4, LenProperties
<1> QED  BY <1>1, <1>3, <1>5

LEMMA BufferCount ==
  RxBuffers \in Nat \ {0} /\ RxBuffers < RxRing /\ RxBuffers \in RxSlots
BY SizesAssumption DEF RxBuffers, RxSlots

(* The buffer that work_handler comes to has the frame after those it has  *)
(* taken.                                                                  *)
LEMMA FoundFrame ==
  ASSUME RxTypes, RxInv, rx_dne[rx.rd] # None
  PROVE  /\ Len(taken) + 1 <= got /\ Skb = Len(taken) + 1 /\ data[Skb] = Len(taken) + 1
         /\ Len(taken) \in Nat /\ Len(data) \in Nat
<1>0. /\ Len(taken) \in Nat /\ Len(data) \in Nat /\ got \in Nat /\ rx.rd \in RxSlots
      /\ rx.rd = SlotOf(Len(taken) + 1, RxRing)
      /\ Len(taken) <= got /\ got <= Len(data) /\ Len(data) <= Len(taken) + RxRing
  <2>1. Len(taken) \in Nat /\ Len(data) \in Nat /\ got \in Nat /\ rx.rd \in RxSlots
    BY DEF RxTypes
  <2>2. /\ rx.rd = SlotOf(Len(taken) + 1, RxRing)
        /\ Len(taken) <= got /\ got <= Len(data) /\ Len(data) <= Len(taken) + RxRing
    BY Zenon DEF RxInv
  <2> QED  BY <2>1, <2>2
<1>1. PICK g \in Len(taken) + 1 .. got : SlotOf(g, RxRing) = rx.rd
  BY <1>0 DEF RxInv
<1>2. g = Len(taken) + 1
  <2>1. g \in Len(taken) + 1 .. Len(taken) + RxRing
    BY <1>0, <1>1, RingSlots
  <2>2. Len(taken) + 1 \in Len(taken) + 1 .. Len(taken) + RxRing
    BY <1>0, RingSlots
  <2> QED  BY <1>0, <1>1, <2>1, <2>2, RingSlots, SlotsDiffer
<1>3. Skb = Len(taken) + 1
  <2>1. Len(taken) + 1 \in Len(taken) + 1 .. Len(data)  BY <1>0, <1>1, <1>2
  <2> QED  BY <1>0, <2>1 DEF Skb, RxInv
<1>4. Len(taken) + 1 <= got /\ Len(taken) + 1 \in 1 .. got  BY <1>0, <1>1, <1>2
<1> QED  BY <1>0, <1>3, <1>4 DEF RxInv

LEMMA RxTypesKept ==
  ASSUME RxTypes, RxInv, Seen, OtherTypes, WorkTypes, [Next]_vars
  PROVE  RxTypes'
<1>1. CASE RxQuiet  BY <1>1 DEF RxQuiet, RxTypes
<1>2. ASSUME NEW port \in Ports \cup {"bad"}, CardReceives(port) PROVE RxTypes'
  <2>1. rx_dsc[card.rx] \in Nat /\ got + 1 \in Nat  BY DEF RxTypes, OtherTypes, Cards
  <2>2. data' \in Seq(Nat)  BY <1>2, <2>1, Replaced DEF CardReceives, RxTypes
  <2> QED  BY <1>2, <2>1, <2>2 DEF CardReceives, RxTypes
<1>3. CASE Probe
  <2>1. CASE Step = "skbs"
    <3>0. PICK n \in 0 .. RxBuffers : FirstBuffers(n)  BY <1>3, <2>1 DEF Probe
    <3>1. data' \in Seq(Nat)
      <4>1. data' = [i \in 1 .. n |-> 0]  BY <3>0 DEF FirstBuffers
      <4>2. data' \in [1 .. n -> Nat]  BY <4>1
      <4> QED  BY <3>0, <4>2, BufferCount
    <3>2. rx_bk' \in [RxSlots -> Nat] /\ rx_dsc' = rx_bk'
      <4>1. rx_bk' = [i \in RxSlots |-> IF i < n THEN i + 1 ELSE 0]
        BY <3>0 DEF FirstBuffers
      <4>2. \A i \in RxSlots : i + 1 \in Nat  BY DEF RxSlots
      <4>3. \A i \in RxSlots : (IF i < n THEN i + 1 ELSE 0) \in Nat  BY <4>2
      <4>4. rx_bk' \in [RxSlots -> Nat]  BY <4>1, <4>3
      <4> QED  BY <3>0, <4>4 DEF FirstBuffers
    <3>3. rx' \in [wr : RxSlots, rd : RxSlots, cnt : Int]
      <4>1. 0 \in RxSlots  BY RingSlots DEF RxSlots
      <4>2. n \in RxSlots /\ n \in Int  BY <3>0, BufferCount, RingSlots DEF RxSlots
      <4>3. rx' = [wr |-> n, rd |-> 0, cnt |-> n]  BY <3>0 DEF FirstBuffers
      <4> QED  BY <4>1, <4>2, <4>3
    <3> QED  BY <1>3, <3>1, <3>2, <3>3 DEF Probe, RxTypes
  <2>2. CASE Step # "skbs"
    BY <1>3, <2>2 DEF Probe, RxTypes
  <2> QED  BY <2>1, <2>2
<1>4. CASE TakeReceived
  <2>1. rx_dne[rx.rd] # None  BY <1>4 DEF TakeReceived, HandlerStep, Seen
  <2>2. data[Skb] \in Nat  BY <2>1, FoundFrame
  <2>3. taken' \in Seq(Nat)  BY <1>4, <2>2, Appended DEF TakeReceived, RxTypes
  <2>4. rx' \in [wr : RxSlots, rd : RxSlots, cnt : Int]
    <3>1. rx.rd \in RxSlots /\ rx.cnt - 1 \in Int  BY DEF RxTypes
    <3>2. RxAfter(rx.rd) \in RxSlots  BY <3>1, RingSlots
    <3>3. \A s \in RxSlots, c \in Int :
            [rx EXCEPT !.rd = s, !.cnt = c] \in [wr : RxSlots, rd : RxSlots, cnt : Int]
      BY DEF RxTypes
    <3> QED  BY <1>4, <3>1, <3>2, <3>3 DEF TakeReceived
  <2> QED  BY <1>4, <2>3, <2>4 DEF TakeReceived, RxTypes
<1>5. CASE Refill
  <2>1. CASE UNCHANGED <<rx, rx_bk, rx_dsc, data>>
    BY <1>5, <2>1 DEF Refill, RxTypes
  <2>2. CASE /\ data' = Append(data, 0)
             /\ rx_bk' = [rx_bk EXCEPT ![rx.wr] = Len(data) + 1]
             /\ rx_dsc' = [rx_dsc EXCEPT ![rx.wr] = Len(data) + 1]
             /\ rx' = [rx EXCEPT !.wr = RxAfter(@), !.cnt = @ + 1]
    <3>1. data' \in Seq(Nat) /\ Len(data) + 1 \in Nat
      BY <2>2, Appended DEF RxTypes
    <3>2. rx' \in [wr : RxSlots, rd : RxSlots, cnt : Int]
      <4>1. rx.wr \in RxSlots /\ rx.cnt + 1 \in Int  BY DEF RxTypes
      <4>2. RxAfter(rx.wr) \in RxSlots  BY <4>1, RingSlots
      <4>3. \A s \in RxSlots, c \in Int :
              [rx EXCEPT !.wr = s, !.cnt = c] \in [wr : RxSlots, rd : RxSlots, cnt : Int]
        BY DEF RxTypes
      <4> QED  BY <2>2, <4>1, <4>2, <4>3
    <3> QED  BY <1>5, <2>2, <3>1, <3>2 DEF Refill, RxTypes
  <2> QED  BY <1>5, <2>1, <2>2 DEF Refill, nf10priv_send_rx_dsc
<1> QED  BY <1>1, <1>2, <1>3, <1>4, <1>5, RxSteps DEF RxStep

LEMMA WorkTypesKept ==
  ASSUME WorkTypes, TxTypes, RxTypes, [Next]_vars
  PROVE  WorkTypes'
<1>1. CASE UNCHANGED <<hpc, h>>  BY <1>1 DEF WorkTypes
<1>2. CASE StartWork
  <2>1. 1 \in Rounds  BY SizesAssumption DEF Rounds
  <2>2. \A n \in Rounds, w \in BOOLEAN, o \in BOOLEAN :
          [h EXCEPT !.tcnt = n, !.work = w, !.on = o] \in Locals
    BY DEF WorkTypes, Locals
  <2>3. h' \in Locals  BY <1>2, <2>1, <2>2 DEF StartWork
  <2>4. h'.tcnt = 1  BY <1>2 DEF StartWork, WorkTypes, Locals
  <2> QED  BY <1>2, <2>3, <2>4 DEF StartWork, HandlerStep, WorkTypes, Locals
<1>3. CASE DisableInterrupts
  BY <1>3 DEF DisableInterrupts, HandlerStep, WorkTypes, Locals
<1>4. CASE Poll
  <2>1. rx_dne[rx.rd] \in Ports \cup {None, "bad"}  BY DEF RxTypes
  <2> QED  BY <1>4, <2>1 DEF Poll, HandlerStep, WorkTypes, Locals
<1>5. CASE FreeSent
  <2>1. tx.rd \in TxSlots /\ tx.rd \in Nat  BY RingSlots DEF TxTypes, Pointers
  <2> QED  BY <1>5, <2>1 DEF FreeSent, HandlerStep, WorkTypes, Locals
<1>6. CASE Invalidate
  BY <1>6 DEF Invalidate, HandlerStep, WorkTypes, Locals
<1>7. CASE WakeQueues
  BY <1>7 DEF WakeQueues, HandlerStep, WorkTypes, Locals
<1>8. CASE TakeReceived
  <2>1. rx.rd \in Nat  BY RingSlots DEF RxTypes
  <2> QED  BY <1>8, <2>1 DEF TakeReceived, HandlerStep, WorkTypes, Locals
<1>9. CASE Refill
  BY <1>9 DEF Refill, HandlerStep, WorkTypes, Locals
<1>10. CASE EndRound
  <2> DEFINE t == IF h.done THEN h.tcnt - 1
                  ELSE IF h.tcnt < MaxTcnt THEN h.tcnt + 1 ELSE h.tcnt
             e == Enable(t, h.on)
  <2>1. h.tcnt \in 1 .. MaxTcnt /\ h.on \in BOOLEAN
    BY <1>10, SizesAssumption DEF EndRound, HandlerStep, WorkTypes, Locals, Rounds
  <2>2. t \in 0 .. MaxTcnt  BY <2>1, SizesAssumption
  <2> HIDE DEF t
  <2>3. e.tcnt \in 0 .. MaxTcnt /\ e.work \in BOOLEAN /\ e.on \in BOOLEAN
    <3>1. 1 \in 0 .. MaxTcnt  BY SizesAssumption
    <3> QED  BY <2>1, <2>2, <3>1 DEF Enable
  <2>4. /\ hpc' = (IF e.tcnt = 0 THEN "idle" ELSE IF e.on /\ e.work THEN "top" ELSE "poll")
        /\ h' = [index |-> 0, port |-> None, done |-> TRUE, tcnt |-> e.tcnt,
                 work |-> e.work, on |-> e.on]
    BY <1>10 DEF EndRound, HandlerStep, t
  <2> HIDE DEF e
  <2>5. h' \in Locals  BY <2>3, <2>4 DEF Locals, Rounds
  <2> QED  BY <2>3, <2>4, <2>5 DEF WorkTypes
<1> QED
  BY <1>1, <1>2, <1>3, <1>4, <1>5, <1>6, <1>7, <1>8, <1>9, <1>10, WorkSteps DEF Handler

LEMMA SpendKeepsTypes ==
  ASSUME OtherTypes, NEW what \in {"tx", "rx", "regs", "toggles", "faults", "remove"},
         Spend(what)
  PROVE  budget' \in [sizes : SUBSET (1 .. PktRoom), tx : Nat, rx : Nat, regs : Nat,
                      toggles : Nat, faults : Nat, remove : Nat]
<1> DEFINE B == [sizes : SUBSET (1 .. PktRoom), tx : Nat, rx : Nat, regs : Nat,
                 toggles : Nat, faults : Nat, remove : Nat]
<1>1. \A n \in Nat : [budget EXCEPT ![what] = n] \in B  BY DEF OtherTypes
<1>2. budget[what] \in Nat /\ budget[what] > 0  BY DEF OtherTypes, Spend
<1>3. budget[what] - 1 \in Nat  BY <1>2
<1>4. budget' = [budget EXCEPT ![what] = budget[what] - 1]  BY DEF Spend
<1> HIDE DEF B
<1>5. budget' \in B  BY <1>1, <1>3, <1>4
<1> QED  BY <1>5 DEF B

(* What the card's steps and the driver's writes make of its record.       *)
LEMMA CardSet ==
  ASSUME card \in Cards
  PROVE  /\ \A on \in card.may, s \in TxSlots : [Landed(on) EXCEPT !.tx = s] \in Cards
         /\ \A on \in card.may, s \in RxSlots : [Landed(on) EXCEPT !.rx = s] \in Cards
         /\ \A on \in card.may : Landed(on).tx = card.tx /\ Landed(on).rx = card.rx
         /\ \A on \in BOOLEAN : WriteEnable(on) \in Cards
         /\ [card EXCEPT !.int = FALSE] \in Cards
         /\ [card EXCEPT !.may = {card.wish}] \in Cards
         /\ \A n \in Nat : [card EXCEPT !.fifo = n] \in Cards
<1>0. /\ card.wish \in BOOLEAN /\ card.may \subseteq BOOLEAN /\ card.int \in BOOLEAN
  BY DEF Cards
<1>1. ASSUME NEW on \in card.may PROVE Landed(on) \in Cards
  <2>1. on \in BOOLEAN  BY <1>0
  <2>2. (card.int \/ on) \in BOOLEAN /\ (~on /\ card.wish) \in BOOLEAN  OBVIOUS
  <2>3. \A i, q \in BOOLEAN : [card EXCEPT !.int = i, !.quiet = q] \in Cards  BY DEF Cards
  <2> QED  BY <2>2, <2>3 DEF Landed
<1>2. \A c \in Cards : /\ \A s \in TxSlots : [c EXCEPT !.tx = s] \in Cards
                       /\ \A s \in RxSlots : [c EXCEPT !.rx = s] \in Cards
  BY DEF Cards
<1>3. ASSUME NEW on \in BOOLEAN PROVE WriteEnable(on) \in Cards
  <2>1. card.may \cup {on} \in SUBSET BOOLEAN  BY <1>0
  <2>2. \A w \in BOOLEAN, m \in SUBSET BOOLEAN : [card EXCEPT !.wish = w, !.may = m] \in Cards
    BY DEF Cards
  <2> QED  BY <2>1, <2>2 DEF WriteEnable
<1>4. [card EXCEPT !.int = FALSE] \in Cards  BY DEF Cards
<1>5. [card EXCEPT !.may = {card.wish}] \in Cards
  <2>1. {card.wish} \in SUBSET BOOLEAN  BY <1>0
  <2>2. \A m \in SUBSET BOOLEAN : [card EXCEPT !.may = m] \in Cards  BY DEF Cards
  <2> QED  BY <2>1, <2>2
<1>6. \A n \in Nat : [card EXCEPT !.fifo = n] \in Cards  BY DEF Cards
<1>7. \A on \in card.may : Landed(on).tx = card.tx /\ Landed(on).rx = card.rx
  BY DEF Landed, Cards
<1> QED  BY <1>1, <1>2, <1>3, <1>4, <1>5, <1>6, <1>7

LEMMA OtherTypesKept ==
  ASSUME OtherTypes, WorkTypes, [Next]_vars
  PROVE  OtherTypes'
<1>1. CASE Probe
  <2>1. CASE Step = "skbs"
    <3>1. PICK n \in 0 .. RxBuffers : FirstBuffers(n)  BY <1>1, <2>1 DEF Probe
    <3> QED  BY <1>1, <3>1, SpendKeepsTypes DEF Probe, FirstBuffers, OtherTypes
  <2>2. CASE Step # "skbs"  BY <1>1, <2>2 DEF Probe, OtherTypes
  <2> QED  BY <2>1, <2>2
<1>2. CASE ProbeFails
  BY <1>2, SpendKeepsTypes DEF ProbeFails, OtherTypes
<1>3. CASE RemoveCard
  BY <1>3, SpendKeepsTypes DEF RemoveCard, OtherTypes
<1>4. ASSUME NEW p \in Ports, Toggle(p) PROVE OtherTypes'
  BY <1>4, SpendKeepsTypes DEF Toggle, OtherTypes
<1>5. ASSUME NEW p \in Ports, NEW size, Xmit(p, size) \/ XmitFails(p, size) PROVE OtherTypes'
  BY <1>5, SpendKeepsTypes DEF Xmit, XmitFails, OtherTypes
<1>6. ASSUME NEW p \in Ports, Sender(p) PROVE OtherTypes'
  BY <1>6 DEF Sender, TestRoom, StopQueue, KeepBooks, WriteDescriptor, Stats, OtherTypes
<1>7. CASE CardSends
  <2>1. card.tx \in TxSlots  BY DEF OtherTypes, Cards
  <2>2. TxAfter(card.tx) \in TxSlots  BY <2>1, RingSlots
  <2>3. card' \in Cards  BY <1>7, <2>2, CardSet DEF CardSends, OtherTypes
  <2> QED  BY <1>7, <2>3 DEF CardSends, OtherTypes
<1>8. ASSUME NEW port \in Ports \cup {"bad"}, CardReceives(port) PROVE OtherTypes'
  <2>1. card.rx \in RxSlots  BY DEF OtherTypes, Cards
  <2>2. RxAfter(card.rx) \in RxSlots  BY <2>1, RingSlots
  <2>3. card' \in Cards  BY <1>8, <2>2, CardSet DEF CardReceives, OtherTypes
  <2> QED  BY <1>8, <2>3, SpendKeepsTypes DEF CardReceives, OtherTypes
<1>9. CASE StartWork \/ Poll \/ FreeSent \/ Invalidate \/ WakeQueues \/ TakeReceived
  BY <1>9 DEF StartWork, Poll, FreeSent, Invalidate, WakeQueues, TakeReceived, OtherTypes
<1>10. CASE DisableInterrupts
  <2>1. card' \in Cards  BY <1>10, CardSet DEF DisableInterrupts, OtherTypes
  <2> QED  BY <1>10, <2>1 DEF DisableInterrupts, OtherTypes
<1>11. CASE Refill
  BY <1>11, SpendKeepsTypes DEF Refill, nf10priv_send_rx_dsc, OtherTypes
<1>12. CASE EndRound
  <2>1. \A t : Enable(t, h.on).on \in BOOLEAN
    BY DEF Enable, WorkTypes, Locals
  <2>2. card' \in Cards  BY <1>12, <2>1, CardSet DEF EndRound, OtherTypes
  <2> QED  BY <1>12, <2>2 DEF EndRound, OtherTypes
<1>13. CASE WriteReg
  <2>1. card.fifo \in Nat /\ axi_wr_cnt \in Nat  BY DEF OtherTypes, Cards
  <2>2. card' \in Cards
    <3>1. card.fifo + 1 \in Nat  BY <2>1
    <3> QED  BY <1>13, <3>1, CardSet DEF WriteReg, OtherTypes
  <2>3. axi_wr_cnt' \in Nat
    <3>1. AxiDepth \in Nat /\ AxiAlmost \in Nat  BY SizesAssumption
    <3>2. Counted \in Nat  BY <2>1, <3>1 DEF Counted
    <3> QED  BY <1>13, <3>2 DEF WriteReg
  <2>4. Spend("regs")  BY <1>13 DEF WriteReg
  <2> QED  BY <2>2, <2>3, <2>4, SpendKeepsTypes DEF OtherTypes
<1>14. CASE ReadReg
  <2>1. card' \in Cards  BY <1>14, CardSet DEF ReadReg, OtherTypes
  <2> QED  BY <1>14, <2>1, SpendKeepsTypes DEF ReadReg, OtherTypes
<1>15. CASE CardWrites
  <2>1. card.fifo \in Nat /\ card.fifo > 0  BY <1>15 DEF CardWrites, OtherTypes, Cards
  <2>2. card.fifo - 1 \in Nat  BY <2>1
  <2>3. card' \in Cards  BY <1>15, <2>2, CardSet DEF CardWrites, OtherTypes
  <2> QED  BY <1>15, <2>3 DEF CardWrites, OtherTypes
<1>16. CASE UNCHANGED vars
  BY <1>16 DEF vars, OtherTypes
<1>17. CASE CardInterrupts
  <2>1. card' \in Cards  BY <1>17, CardSet DEF CardInterrupts, OtherTypes
  <2> QED  BY <1>17, <2>1 DEF CardInterrupts, OtherTypes
<1>18. CASE CardSettles
  <2>1. card' \in Cards  BY <1>18, CardSet DEF CardSettles, OtherTypes
  <2> QED  BY <1>18, <2>1 DEF CardSettles, OtherTypes
<1> QED
  BY <1>1, <1>2, <1>3, <1>4, <1>5, <1>6, <1>7, <1>8, <1>9, <1>10, <1>11, <1>12, <1>13,
     <1>14, <1>15, <1>16, <1>17, <1>18 DEF Next, Handler

-----------------------------------------------------------------------------
(* The resources.                                                          *)

LEMMA StepsDiffer ==
  \A i, j \in 1 .. 15 : Steps[i] = Steps[j] => i = j
BY DEF Steps

LEMMA HeldInOrder ==
  ASSUME NEW n \in 0 .. 14, held = First(n)
  PROVE  Step = Steps[n + 1]
<1> DEFINE f == [i \in 1 .. n |-> Steps[i]]
<1>1. f \in Bijection(1 .. n, First(n))
  <2>1. f \in [1 .. n -> First(n)]  BY DEF First
  <2>2. \A i, j \in DOMAIN f : f[i] = f[j] => i = j  BY StepsDiffer
  <2>3. \A t \in First(n) : \E i \in 1 .. n : f[i] = t  BY DEF First
  <2> HIDE DEF f
  <2> QED  BY <2>1, <2>2, <2>3 DEF Bijection, Injection, Surjection, IsInjective
<1>2. ExistsBijection(1 .. n, First(n))  BY <1>1 DEF ExistsBijection
<1>3. Cardinality(First(n)) = n  BY <1>2, FS_CountingElements
<1> QED  BY <1>3 DEF Step

(* What each failing step leaves behind.                                   *)
LEMMA LeftBehind ==
  ASSUME NEW n \in 0 .. 14, Steps[n + 1] \notin {"wq", "skbs"}
  PROVE  First(n) \ Goto(Steps[n + 1]) \in {{}, Bare, WithIrq, WithNetdevs}
<1> USE DEF First, Goto, Steps, err_out_iounmap, err_out_release_mem_region2,
            err_out_release_mem_region1, err_out_msi, err_out_disable_device
<1>1. CASE n \in 0 .. 7
  <2>1. First(n) \ Goto(Steps[n + 1]) = {}  BY <1>1
  <2> QED  BY <2>1
<1>2. CASE n = 8
  <2>1. First(n) \ Goto(Steps[n + 1]) = {}  BY <1>2 DEF err_out_free_private2
  <2> QED  BY <2>1
<1>3. CASE n \in {10, 11}
  <2>1. First(n) \ Goto(Steps[n + 1]) = Bare  BY <1>3 DEF err_out_free_private2, Bare
  <2> QED  BY <2>1
<1>4. CASE n = 12
  <2>1. First(n) \ Goto(Steps[n + 1]) = WithIrq
    BY <1>4 DEF err_out_free_private2, Bare, WithIrq
  <2> QED  BY <2>1
<1>5. CASE n = 14
  <2>1. First(n) \ Goto(Steps[n + 1]) = WithNetdevs
    BY <1>5 DEF err_out_free_private2, Bare, WithIrq, WithNetdevs
  <2> QED  BY <2>1
<1>6. n # 9 /\ n # 13  OBVIOUS
<1> QED  BY <1>1, <1>2, <1>3, <1>4, <1>5, <1>6

LEMMA OwnedKept ==
  ASSUME Owned, GivesBack, [Next]_vars
  PROVE  Owned' /\ GivesBack'
<1>1. CASE UNCHANGED <<stage, held>>
  BY <1>1 DEF Owned, GivesBack
<1>2. CASE stage = "probing" /\ (Probe \/ ProbeFails)
  <2>1. PICK n \in 0 .. 14 : held = First(n)  BY <1>2 DEF Owned
  <2>2. Step = Steps[n + 1]  BY <2>1, HeldInOrder
  <2>3. CASE Probe
    <3>1. held' = First(n + 1)
      <4>1. held' = First(n) \cup {Steps[n + 1]}  BY <2>1, <2>2, <2>3 DEF Probe
      <4> QED  BY <4>1 DEF First
    <3>2. held' \subseteq ToSet(Steps)  BY <3>1 DEF First, ToSet, Steps
    <3>3. CASE n = 14
      <4>1. Steps[15] = "chrdev"  BY DEF Steps
      <4> QED  BY <2>2, <2>3, <3>2, <3>3, <4>1 DEF Probe, Owned, GivesBack
    <3>4. CASE n # 14
      <4>1. n + 1 \in 0 .. 14  BY <3>4
      <4>2. stage' \in {"probing", "ready"}  BY <2>3 DEF Probe
      <4> QED  BY <3>1, <3>2, <4>1, <4>2 DEF Owned, GivesBack
    <3> QED  BY <3>3, <3>4
  <2>4. CASE ProbeFails
    <3>1. /\ stage' = "failed" /\ Steps[n + 1] \notin {"wq", "skbs"}
          /\ held' = First(n) \ Goto(Steps[n + 1])
      BY <2>1, <2>2, <2>4 DEF ProbeFails
    <3>2. held' \subseteq ToSet(Steps)  BY <2>1, <3>1 DEF Owned
    <3>3. GivesBack'
      <4>1. held' \in {{}, Bare, WithIrq, WithNetdevs}  BY <3>1, LeftBehind
      <4> QED  BY <3>1, <4>1 DEF GivesBack
    <3> QED  BY <3>1, <3>2, <3>3 DEF Owned
  <2> QED  BY <1>2, <2>3, <2>4
<1>3. CASE RemoveCard
  <2>1. {"wq", "skbs"} \subseteq ToSet(Steps)  BY DEF ToSet, Steps
  <2> QED  BY <1>3, <2>1 DEF RemoveCard, Owned, GivesBack
<1> QED  BY <1>1, <1>2, <1>3, OwnSteps DEF OwnStep, Probe, ProbeFails

LEMMA InitInv == Init => IInv
<1> SUFFICES ASSUME Init PROVE IInv  OBVIOUS
<1>0. /\ 0 \in TxSlots /\ 0 \in RxSlots /\ 0 \in PktLines
      /\ SlotOf(1, TxRing) = 0 /\ SlotOf(1, RxRing) = 0 /\ 0 % PktRoom = 0
  BY RingSlots DEF TxSlots, RxSlots, PktLines, SlotOf
<1>1. /\ frame = <<>> /\ sent = <<>> /\ freed = <<>> /\ data = <<>> /\ taken = <<>>
      /\ Len(frame) = 0 /\ Len(sent) = 0 /\ Len(freed) = 0 /\ Len(data) = 0 /\ Len(taken) = 0
      /\ got = 0
  BY DEF Init
<1>2. TxTypes
  <2>1. frame \in Seq(Frame) /\ sent \in Seq(Nat) /\ freed \in Seq(Nat)  BY <1>1
  <2>2. tx \in Pointers  BY <1>0 DEF Init, Pointers
  <2> QED  BY <2>1, <2>2 DEF Init, TxTypes
<1>3. RxTypes
  <2>1. data \in Seq(Nat) /\ taken \in Seq(Nat)  BY <1>1
  <2> QED  BY <1>0, <2>1 DEF Init, RxTypes
<1>4. WorkTypes
  <2>1. 0 \in Rounds  BY SizesAssumption DEF Rounds
  <2> QED  BY <2>1 DEF Init, WorkTypes, Locals
<1>5. OtherTypes
  <2>1. card \in Cards  BY <1>0 DEF Init, Cards
  <2>2. budget \in [sizes : SUBSET (1 .. PktRoom), tx : Nat, rx : Nat, regs : Nat,
                    toggles : Nat, faults : Nat, remove : Nat]
    BY SizesAssumption DEF Init
  <2> QED  BY <2>1, <2>2 DEF Init, OtherTypes
<1>6. Owned /\ GivesBack
  <2>1. First(0) = {}  BY DEF First
  <2> QED  BY <2>1 DEF Init, Owned, GivesBack
<1>8. TxInv
  <2>1. Numbered  BY <1>0, <1>1, RingSlots DEF Init, Numbered
  <2>2. InHand  BY DEF Init, InHand, Unposted
  <2>3. Booked /\ Posted /\ Done
    BY <1>1 DEF Init, Booked, Posted, Done
  <2>4. Taped
    <3> DEFINE tape == [k \in 0 .. 0 |-> 0]
    <3>1. tape \in [0 .. Len(frame) -> Nat]  BY <1>1
    <3>2. OnTape(tape)  BY <1>0, <1>1, RingSlots DEF Init, OnTape
    <3> QED  BY <3>1, <3>2 DEF Taped
  <2> QED  BY <2>1, <2>2, <2>3, <2>4 DEF TxInv
<1>9. RxInv  BY <1>0, <1>1, RingSlots DEF Init, RxInv
<1>10. Seen /\ NoBuffers  BY DEF Init, Seen, NoBuffers
<1> QED
  BY <1>2, <1>3, <1>4, <1>5, <1>6, <1>8, <1>9, <1>10 DEF IInv

-----------------------------------------------------------------------------
(* The buffers of the card.                                                *)

LEMMA RxFacts ==
  ASSUME RxTypes, RxInv
  PROVE  /\ Len(taken) \in Nat /\ Len(data) \in Nat /\ got \in Nat
         /\ Len(taken) <= got /\ got <= Len(data) /\ Len(data) <= Len(taken) + RxRing
         /\ rx.rd = SlotOf(Len(taken) + 1, RxRing) /\ rx.wr = SlotOf(Len(data) + 1, RxRing)
         /\ rx.wr \in RxSlots /\ rx.rd \in RxSlots /\ rx.cnt = Len(data) - Len(taken)
BY DEF RxTypes, RxInv

LEMMA ReceiveKeepsRx ==
  ASSUME RxTypes, OtherTypes, RxInv, NEW port \in Ports \cup {"bad"}, CardReceives(port)
  PROVE  RxInv'
<1>0. /\ Len(taken) \in Nat /\ Len(data) \in Nat /\ got \in Nat
      /\ Len(taken) <= got /\ got <= Len(data) /\ Len(data) <= Len(taken) + RxRing
      /\ card.rx \in RxSlots /\ card.rx = SlotOf(got + 1, RxRing)
      /\ RxRing \in Nat \ {0}
  BY RxFacts, RingSlots DEF OtherTypes, Cards, RxInv
<1>1. /\ UNCHANGED <<rx, rx_bk, taken>>
      /\ got' = got + 1
      /\ data' = [data EXCEPT ![rx_dsc[card.rx]] = got + 1]
      /\ rx_dne' = [rx_dne EXCEPT ![card.rx] = port]
      /\ rx_dsc' = [rx_dsc EXCEPT ![card.rx] = 0]
      /\ card'.rx = RxAfter(card.rx)
      /\ rx_dsc[card.rx] # 0
  BY DEF CardReceives, Landed, OtherTypes, Cards
<1>2. \A s \in RxSlots : rx_dsc[s] # 0 =>
        /\ rx_dsc[s] \in got + 1 .. Len(data) /\ SlotOf(rx_dsc[s], RxRing) = s
        /\ rx_dsc[s] \in got + 1 .. got + RxRing
  <2> SUFFICES ASSUME NEW s \in RxSlots, rx_dsc[s] # 0
               PROVE  /\ rx_dsc[s] \in got + 1 .. Len(data) /\ SlotOf(rx_dsc[s], RxRing) = s
                      /\ rx_dsc[s] \in got + 1 .. got + RxRing
    OBVIOUS
  <2>1. rx_dsc[s] \in got + 1 .. Len(data) /\ SlotOf(rx_dsc[s], RxRing) = s
    BY DEF RxInv
  <2>2. rx_dsc[s] \in got + 1 .. got + RxRing  BY <1>0, <2>1
  <2> QED  BY <2>1, <2>2
<1>3. got + 1 \in got + 1 .. got + RxRing  BY <1>0
<1>4. rx_dsc[card.rx] = got + 1 /\ got + 1 <= Len(data)
  <2>1. PICK d : d = rx_dsc[card.rx]  OBVIOUS
  <2>2. /\ d \in got + 1 .. Len(data) /\ d \in got + 1 .. got + RxRing
        /\ SlotOf(d, RxRing) = SlotOf(got + 1, RxRing)
    BY <1>0, <1>1, <1>2, <2>1
  <2>3. d = got + 1  BY <1>0, <1>3, <2>2, SlotsDiffer, Zenon
  <2>4. d <= Len(data)  BY <1>0, <2>2
  <2> QED  BY <2>1, <2>3, <2>4
<1>5. /\ Len(data') = Len(data)
      /\ \A g \in 1 .. Len(data) : data'[g] = IF g = got + 1 THEN got + 1 ELSE data[g]
  <2>1. data \in Seq(Nat) /\ got + 1 \in Nat  BY <1>0 DEF RxTypes
  <2> QED  BY <1>1, <1>4, <2>1, Replaced
<1>6. card'.rx = SlotOf(got' + 1, RxRing)
  <2>1. got + 1 \in Nat \ {0}  BY <1>0
  <2> QED  BY <1>0, <1>1, <2>1, RingSlots
<1>7. \A g \in 1 .. got' : data'[g] = g
  <2>1. \A g \in 1 .. got : data[g] = g  BY DEF RxInv
  <2> QED  BY <1>0, <1>1, <1>4, <1>5, <2>1
<1>8. ASSUME NEW s \in RxSlots, rx_dsc'[s] # 0
      PROVE  rx_dsc'[s] \in got' + 1 .. Len(data') /\ SlotOf(rx_dsc'[s], RxRing) = s
  <2>1. s # card.rx /\ rx_dsc'[s] = rx_dsc[s]  BY <1>0, <1>1, <1>8 DEF RxTypes
  <2>2. rx_dsc[s] \in got + 1 .. Len(data) /\ SlotOf(rx_dsc[s], RxRing) = s
    BY <1>2, <1>8, <2>1
  <2>3. rx_dsc[s] # got + 1  BY <1>0, <2>1, <2>2
  <2> QED  BY <1>0, <1>1, <1>5, <2>1, <2>2, <2>3
<1>9. ASSUME NEW s \in RxSlots, rx_dne'[s] # None
      PROVE  \E g \in Len(taken') + 1 .. got' : SlotOf(g, RxRing) = s
  <2>1. CASE s = card.rx
    <3>1. got + 1 \in Len(taken') + 1 .. got'  BY <1>0, <1>1
    <3> QED  BY <1>0, <2>1, <3>1
  <2>2. CASE s # card.rx
    <3>1. rx_dne[s] # None  BY <1>0, <1>1, <1>9, <2>2 DEF RxTypes
    <3>2. PICK g \in Len(taken) + 1 .. got : SlotOf(g, RxRing) = s
      BY <3>1 DEF RxInv
    <3>3. g \in Len(taken') + 1 .. got'  BY <1>0, <1>1, <3>2
    <3> QED  BY <3>2, <3>3
  <2> QED  BY <2>1, <2>2
<1>10. Len(taken') <= got' /\ got' <= Len(data') /\ Len(data') <= Len(taken') + RxRing
  BY <1>0, <1>1, <1>4, <1>5
<1> QED  BY <1>1, <1>5, <1>6, <1>7, <1>8, <1>9, <1>10 DEF RxInv

LEMMA TakeKeepsRx ==
  ASSUME RxTypes, RxInv, Seen, TakeReceived
  PROVE  RxInv'
<1>0. /\ Len(taken) \in Nat /\ Len(data) \in Nat /\ got \in Nat
      /\ Len(taken) <= got /\ got <= Len(data) /\ Len(data) <= Len(taken) + RxRing
      /\ rx.rd \in RxSlots /\ rx.rd = SlotOf(Len(taken) + 1, RxRing)
      /\ rx.cnt = Len(data) - Len(taken)
      /\ RxRing \in Nat \ {0}
  BY RxFacts, RingSlots
<1>1. /\ Len(taken) + 1 <= got /\ data[Skb] = Len(taken) + 1
  <2>1. rx_dne[rx.rd] # None  BY DEF TakeReceived, HandlerStep, Seen
  <2> QED  BY <2>1, FoundFrame
<1>2. /\ UNCHANGED <<rx_bk, rx_dsc, data, got, card>>
      /\ rx_dne' = [rx_dne EXCEPT ![rx.rd] = None]
      /\ rx'.wr = rx.wr /\ rx'.rd = RxAfter(rx.rd) /\ rx'.cnt = rx.cnt - 1
      /\ taken' = Append(taken, Len(taken) + 1)
  BY <1>1 DEF TakeReceived, RxTypes
<1>3. /\ Len(taken') = Len(taken) + 1
      /\ \A i \in 1 .. Len(taken') : taken'[i] = i
  <2>1. taken \in Seq(Nat) /\ Len(taken) + 1 \in Nat  BY <1>0 DEF RxTypes
  <2>2. /\ Len(taken') = Len(taken) + 1 /\ taken'[Len(taken) + 1] = Len(taken) + 1
        /\ \A i \in 1 .. Len(taken) : taken'[i] = taken[i]
    BY <1>2, <2>1, Appended
  <2>3. \A i \in 1 .. Len(taken) : taken[i] = i  BY DEF RxInv
  <2> QED  BY <1>0, <2>2, <2>3
<1>4. rx'.rd = SlotOf(Len(taken') + 1, RxRing)
  <2>1. Len(taken) + 1 \in Nat \ {0}  BY <1>0
  <2> QED  BY <1>0, <1>2, <1>3, <2>1, RingSlots
<1>5. ASSUME NEW s \in RxSlots, rx_dne'[s] # None
      PROVE  \E g \in Len(taken') + 1 .. got' : SlotOf(g, RxRing) = s
  <2>1. s # rx.rd /\ rx_dne[s] # None  BY <1>0, <1>2, <1>5 DEF RxTypes
  <2>2. PICK g \in Len(taken) + 1 .. got : SlotOf(g, RxRing) = s
    BY <2>1 DEF RxInv
  <2>3. g # Len(taken) + 1  BY <1>0, <2>1, <2>2
  <2>4. g \in Len(taken') + 1 .. got'  BY <1>0, <1>2, <1>3, <2>2, <2>3
  <2> QED  BY <2>2, <2>4
<1>6. \A g \in Len(taken') + 1 .. Len(data') : rx_bk'[SlotOf(g, RxRing)] = g
  <2>1. \A g \in Len(taken) + 1 .. Len(data) : rx_bk[SlotOf(g, RxRing)] = g
    BY DEF RxInv
  <2> QED  BY <1>0, <1>2, <1>3, <2>1
<1>7. /\ Len(taken') <= got' /\ got' <= Len(data') /\ Len(data') <= Len(taken') + RxRing
      /\ rx'.cnt = Len(data') - Len(taken')
  BY <1>0, <1>1, <1>2, <1>3
<1> QED  BY <1>2, <1>3, <1>4, <1>5, <1>6, <1>7 DEF RxInv

LEMMA RefillKeepsRx ==
  ASSUME RxTypes, RxInv, Refill
  PROVE  RxInv'
<1>0. /\ Len(taken) \in Nat /\ Len(data) \in Nat /\ got \in Nat
      /\ Len(taken) <= got /\ got <= Len(data) /\ Len(data) <= Len(taken) + RxRing
      /\ rx.wr \in RxSlots /\ rx.wr = SlotOf(Len(data) + 1, RxRing)
      /\ rx.cnt = Len(data) - Len(taken)
      /\ RxRing \in Nat \ {0}
  BY RxFacts, RingSlots
<1>1. CASE UNCHANGED <<rx, rx_bk, rx_dsc, data>>
  BY <1>1 DEF Refill, RxInv
<1>2. CASE /\ data' = Append(data, 0)
           /\ rx_bk' = [rx_bk EXCEPT ![rx.wr] = Len(data) + 1]
           /\ rx_dsc' = [rx_dsc EXCEPT ![rx.wr] = Len(data) + 1]
           /\ rx' = [rx EXCEPT !.wr = RxAfter(@), !.cnt = @ + 1]
  <2>1. /\ UNCHANGED <<rx_dne, got, taken, card>> /\ rx.cnt + 1 <= RxRing
        /\ rx'.rd = rx.rd /\ rx'.wr = RxAfter(rx.wr) /\ rx'.cnt = rx.cnt + 1
    BY <1>2 DEF Refill, nf10priv_send_rx_dsc, RxTypes
  <2>2. /\ Len(data') = Len(data) + 1 /\ \A g \in 1 .. Len(data) : data'[g] = data[g]
    <3>1. data \in Seq(Nat) /\ 0 \in Nat  BY DEF RxTypes
    <3> QED  BY <1>2, <3>1, Appended
  <2>3. rx'.wr = SlotOf(Len(data') + 1, RxRing)
    <3>1. Len(data) + 1 \in Nat \ {0}  BY <1>0
    <3> QED  BY <1>0, <2>1, <2>2, <3>1, RingSlots
  <2>4. ASSUME NEW g \in Len(taken) + 1 .. Len(data') PROVE rx_bk'[SlotOf(g, RxRing)] = g
    <3>1. CASE g = Len(data) + 1  BY <1>0, <1>2, <3>1 DEF RxTypes
    <3>2. CASE g # Len(data) + 1
      <4>1. g \in Len(taken) + 1 .. Len(data)  BY <1>0, <2>2, <3>2
      <4>2. /\ g \in Len(taken) + 1 .. Len(taken) + RxRing
            /\ Len(data) + 1 \in Len(taken) + 1 .. Len(taken) + RxRing
        BY <1>0, <2>1, <4>1
      <4>3. SlotOf(g, RxRing) # rx.wr  BY <1>0, <3>2, <4>2, SlotsDiffer
      <4>4. g \in Nat \ {0}  BY <1>0
      <4>5. SlotOf(g, RxRing) \in RxSlots  BY <4>4, RingSlots
      <4>6. rx_bk'[SlotOf(g, RxRing)] = rx_bk[SlotOf(g, RxRing)]
        BY <1>2, <4>3, <4>5 DEF RxTypes
      <4> QED  BY <4>1, <4>6 DEF RxInv
    <3> QED  BY <3>1, <3>2
  <2>5. ASSUME NEW s \in RxSlots, rx_dsc'[s] # 0
        PROVE  rx_dsc'[s] \in got + 1 .. Len(data') /\ SlotOf(rx_dsc'[s], RxRing) = s
    <3>1. CASE s = rx.wr
      <4>1. rx_dsc'[s] = Len(data) + 1  BY <1>2, <3>1 DEF RxTypes
      <4>2. Len(data) + 1 \in got + 1 .. Len(data')  BY <1>0, <2>2
      <4> QED  BY <1>0, <3>1, <4>1, <4>2
    <3>2. CASE s # rx.wr
      <4>1. rx_dsc'[s] = rx_dsc[s]  BY <1>2, <3>2 DEF RxTypes
      <4>2. rx_dsc[s] \in got + 1 .. Len(data) /\ SlotOf(rx_dsc[s], RxRing) = s
        BY <2>5, <4>1 DEF RxInv
      <4> QED  BY <1>0, <2>2, <4>1, <4>2
    <3> QED  BY <3>1, <3>2
  <2>6. \A g \in 1 .. got : data'[g] = g
    <3>1. \A g \in 1 .. got : data[g] = g  BY DEF RxInv
    <3> QED  BY <1>0, <2>2, <3>1
  <2>7. /\ got <= Len(data') /\ Len(data') <= Len(taken) + RxRing
        /\ rx'.cnt = Len(data') - Len(taken)
    BY <1>0, <2>1, <2>2
  <2> QED  BY <2>1, <2>3, <2>4, <2>5, <2>6, <2>7 DEF RxInv
<1> QED  BY <1>1, <1>2 DEF Refill, nf10priv_send_rx_dsc

LEMMA ProbeKeepsRx ==
  ASSUME RxTypes, RxInv, Owned, NoBuffers, Probe
  PROVE  RxInv' /\ rx'.rd = rx.rd /\ NoBuffers'
<1>0. /\ Len(taken) \in Nat /\ got \in Nat /\ Len(taken) <= got /\ got <= Len(data)
      /\ rx.rd = SlotOf(Len(taken) + 1, RxRing) /\ RxRing \in Nat \ {0}
  BY RxFacts, RingSlots
<1>1. CASE Step = "skbs"
  <2>1. "skbs" \notin held
    <3>1. PICK n \in 0 .. 14 : held = First(n)  BY DEF Probe, Owned
    <3>2. Steps[n + 1] = "skbs"  BY <1>1, <3>1, HeldInOrder
    <3>3. \A i \in 1 .. n : Steps[i] # "skbs"  BY <3>2, StepsDiffer
    <3> QED  BY <3>1, <3>3 DEF First
  <2>2. data = <<>> /\ Len(data) = 0  BY <2>1 DEF NoBuffers, Probe
  <2>3. Len(taken) = 0 /\ got = 0  BY <1>0, <2>2
  <2>0. PICK m \in 0 .. RxBuffers : FirstBuffers(m)  BY <1>1 DEF Probe
  <2> m \in Nat /\ m <= RxBuffers  BY <2>0, BufferCount
  <2>4. /\ rx' = [wr |-> m, rd |-> 0, cnt |-> m]
        /\ rx_bk' = [i \in RxSlots |-> IF i < m THEN i + 1 ELSE 0]
        /\ rx_dsc' = rx_bk'
        /\ data' = [i \in 1 .. m |-> 0]
        /\ UNCHANGED <<rx_dne, got, taken, card>>
    BY <1>1, <2>0 DEF Probe, FirstBuffers
  <2>5. Len(data') = m
    <3>1. data' \in Seq(Nat) /\ DOMAIN data' = 1 .. m  BY <2>4, BufferCount
    <3> QED  BY <3>1, BufferCount, LenProperties
  <2>6. \A g \in 1 .. m + 1 : SlotOf(g, RxRing) = g - 1
    <3> SUFFICES ASSUME NEW g \in 1 .. m + 1 PROVE (g - 1) % RxRing = g - 1
      BY DEF SlotOf
    <3>1. g - 1 \in 0 .. RxRing - 1  BY <1>0, BufferCount
    <3> QED  BY <1>0, <3>1
  <2>7. rx'.wr = SlotOf(Len(data') + 1, RxRing) /\ rx'.rd = SlotOf(1, RxRing)
    BY <2>4, <2>5, <2>6, BufferCount
  <2>8. \A g \in 1 .. m : rx_bk'[SlotOf(g, RxRing)] = g
    <3> SUFFICES ASSUME NEW g \in 1 .. m PROVE rx_bk'[g - 1] = g
      BY <2>6, BufferCount
    <3>1. g - 1 \in RxSlots /\ g - 1 < m  BY BufferCount, <1>0 DEF RxSlots
    <3> QED  BY <2>4, <3>1
  <2>9. ASSUME NEW s \in RxSlots, rx_dsc'[s] # 0
        PROVE  rx_dsc'[s] \in 1 .. m /\ SlotOf(rx_dsc'[s], RxRing) = s
    <3>1. s < m /\ rx_dsc'[s] = s + 1  BY <2>4, <2>9
    <3>2. s + 1 \in 1 .. m /\ (s + 1) - 1 = s  BY <3>1, BufferCount DEF RxSlots
    <3>3. SlotOf(s + 1, RxRing) = s  BY <2>6, <3>2, BufferCount
    <3> QED  BY <3>1, <3>2, <3>3
  <2>10. RxInv'
    <3>1. card'.rx = SlotOf(got' + 1, RxRing)  BY <2>4 DEF RxInv
    <3>2. /\ Len(taken') = 0 /\ got' = 0 /\ m <= RxRing
          /\ rx'.cnt = m
      BY <1>0, <2>3, <2>4, BufferCount
    <3>3. \A s \in RxSlots : rx_dne'[s] = None
      BY <1>0, <2>3, <2>4 DEF RxInv
    <3> QED  BY <1>0, <2>5, <2>7, <2>8, <2>9, <3>1, <3>2, <3>3, BufferCount DEF RxInv
  <2>11. NoBuffers'  BY <1>1 DEF Probe, NoBuffers
  <2> QED  BY <1>0, <2>3, <2>7, <2>10, <2>11
<1>2. CASE Step # "skbs"
  <2>1. UNCHANGED <<rx, rx_bk, rx_dsc, rx_dne, data, got, taken, card>>
    BY <1>2 DEF Probe
  <2>2. RxInv'  BY <2>1 DEF RxInv
  <2>3. NoBuffers'  BY <2>1 DEF NoBuffers, Probe, workVars
  <2> QED  BY <2>1, <2>2, <2>3
<1> QED  BY <1>1, <1>2

LEMMA SeenKept ==
  ASSUME RxTypes, WorkTypes, OtherTypes, Owned, RxInv, Seen, NoBuffers, [Next]_vars
  PROVE  Seen'
<1> DEFINE Found == rx_dne[rx.rd] # None
<1>1. CASE UNCHANGED <<hpc, h>>
  <2> SUFFICES ASSUME Found PROVE Found'  BY <1>1 DEF Seen
  <2>1. CASE RxQuiet  BY <2>1 DEF RxQuiet
  <2>2. CASE Probe
    <3>1. rx'.rd = rx.rd /\ rx_dne' = rx_dne  BY <2>2, ProbeKeepsRx DEF Probe
    <3> QED  BY <3>1
  <2>3. ASSUME NEW port \in Ports \cup {"bad"}, CardReceives(port) PROVE Found'
    <3>1. rx' = rx /\ rx_dne' = [rx_dne EXCEPT ![card.rx] = port] /\ port # None
      BY <2>3, SizesAssumption DEF CardReceives
    <3> QED  BY <3>1 DEF RxTypes
  <2>4. CASE TakeReceived \/ Refill
    BY <1>1, <2>4 DEF TakeReceived, Refill, HandlerStep
  <2> QED  BY <2>1, <2>2, <2>3, <2>4, RxSteps DEF RxStep
<1>2. CASE StartWork \/ DisableInterrupts
  BY <1>2 DEF StartWork, DisableInterrupts, HandlerStep, Seen
<1>3. CASE Poll
  <2>1. UNCHANGED <<rx, rx_dne>> /\ h'.port = rx_dne[rx.rd]
    BY <1>3 DEF Poll, rxVars, WorkTypes, Locals
  <2> QED  BY <1>3, <2>1 DEF Poll, HandlerStep, Seen
<1>4. CASE FreeSent
  <2>1. UNCHANGED <<rx, rx_dne>> /\ h'.port = h.port
    BY <1>4 DEF FreeSent, rxVars, WorkTypes, Locals
  <2> QED  BY <1>4, <2>1 DEF FreeSent, HandlerStep, Seen
<1>5. CASE Invalidate
  BY <1>5 DEF Invalidate, rxVars, HandlerStep, Seen
<1>6. CASE WakeQueues
  BY <1>6 DEF WakeQueues, rxVars, HandlerStep, Seen
<1>7. CASE TakeReceived \/ Refill \/ EndRound
  BY <1>7 DEF TakeReceived, Refill, EndRound, HandlerStep, Seen
<1> QED  BY <1>1, <1>2, <1>3, <1>4, <1>5, <1>6, <1>7, WorkSteps DEF Handler

LEMMA RefillAfterTake ==
  ASSUME [Next]_vars, hpc' = "refill"
  PROVE  hpc = "refill" \/ TakeReceived
<1>1. CASE Handler
  BY <1>1 DEF Handler, HandlerStep, StartWork, DisableInterrupts, Poll, FreeSent, Invalidate,
              WakeQueues, Refill, EndRound
<1> QED  BY <1>1, WorkSteps

LEMMA RxKept ==
  ASSUME RxTypes, WorkTypes, OtherTypes, Owned, RxInv, Seen, NoBuffers, [Next]_vars
  PROVE  RxInv' /\ NoBuffers'
<1>0. ASSUME UNCHANGED <<stage, held>>, Len(data) # 0 PROVE NoBuffers'
  <2>1. "skbs" \in held \/ stage # "probing"  BY <1>0 DEF NoBuffers
  <2> QED  BY <1>0, <2>1 DEF NoBuffers
<1>1. CASE RxQuiet
  <2>1. RxInv'  BY <1>1 DEF RxQuiet, RxInv
  <2>2. CASE UNCHANGED <<stage, held>>
    <3>1. CASE hpc' = "refill" /\ hpc # "refill"
      <4>1. TakeReceived  BY <3>1, RefillAfterTake
      <4>2. rx_dne[rx.rd] # None  BY <4>1 DEF TakeReceived, HandlerStep, Seen
      <4>3. PICK g \in Len(taken) + 1 .. got : TRUE  BY <4>2, RxFacts DEF RxInv
      <4>4. Len(data) # 0  BY <4>3, RxFacts
      <4> QED  BY <1>0, <2>1, <2>2, <4>4
    <3>2. CASE ~(hpc' = "refill" /\ hpc # "refill")
      BY <1>1, <2>1, <2>2, <3>2 DEF RxQuiet, NoBuffers
    <3> QED  BY <3>1, <3>2
  <2>3. CASE Probe  BY <2>3, ProbeKeepsRx
  <2>4. CASE ProbeFails \/ RemoveCard
    BY <2>1, <2>4 DEF ProbeFails, RemoveCard, NoBuffers
  <2> QED  BY <2>2, <2>3, <2>4, OwnSteps DEF OwnStep
<1>2. CASE Probe  BY <1>2, ProbeKeepsRx
<1>3. ASSUME NEW port \in Ports \cup {"bad"}, CardReceives(port) PROVE RxInv' /\ NoBuffers'
  <2>1. RxInv'  BY <1>3, ReceiveKeepsRx
  <2>2. UNCHANGED <<stage, held>> /\ rx_dsc[card.rx] # 0 /\ card.rx \in RxSlots
    BY <1>3 DEF CardReceives, ownVars, OtherTypes, Cards
  <2>3. rx_dsc[card.rx] \in got + 1 .. Len(data)  BY <2>2 DEF RxInv
  <2>4. Len(data) # 0  BY <2>3, RxFacts
  <2> QED  BY <1>0, <2>1, <2>2, <2>4
<1>4. CASE TakeReceived
  <2>1. RxInv'  BY <1>4, TakeKeepsRx
  <2>2. UNCHANGED <<stage, held>> /\ rx_dne[rx.rd] # None
    BY <1>4 DEF TakeReceived, HandlerStep, Seen, ownVars
  <2>3. PICK g \in Len(taken) + 1 .. got : TRUE  BY <2>2, RxFacts DEF RxInv
  <2>4. Len(data) # 0  BY <2>3, RxFacts
  <2> QED  BY <1>0, <2>1, <2>2, <2>4
<1>5. CASE Refill
  <2>1. RxInv'  BY <1>5, RefillKeepsRx
  <2>2. UNCHANGED <<stage, held>> /\ hpc = "refill"
    BY <1>5 DEF Refill, HandlerStep, ownVars
  <2> QED  BY <2>1, <2>2 DEF NoBuffers
<1> QED  BY <1>1, <1>2, <1>3, <1>4, <1>5, RxSteps DEF RxStep

-----------------------------------------------------------------------------
(* The frames to send.                                                     *)

LEMMA TxFacts ==
  ASSUME TxTypes, OtherTypes, Numbered
  PROVE  /\ Len(frame) \in Nat /\ Len(sent) \in Nat /\ Len(freed) \in Nat
         /\ Len(freed) <= Len(sent) /\ Len(sent) <= Len(frame)
         /\ Len(frame) <= Len(freed) + TxRing
         /\ tx.wr = SlotOf(Len(frame) + 1, TxRing) /\ tx.rd = SlotOf(Len(freed) + 1, TxRing)
         /\ card.tx = SlotOf(Len(sent) + 1, TxRing)
         /\ tx.wr \in TxSlots /\ tx.rd \in TxSlots /\ card.tx \in TxSlots
         /\ tx.cnt = Len(frame) - Len(freed)
         /\ TxRing \in Nat \ {0}
<1>1. tx.wr \in TxSlots /\ tx.rd \in TxSlots  BY DEF TxTypes, Pointers
<1>2. card.tx \in TxSlots  BY DEF OtherTypes, Cards
<1>3. Len(frame) \in Nat /\ Len(sent) \in Nat /\ Len(freed) \in Nat
  BY LenProperties DEF TxTypes
<1> QED  BY <1>1, <1>2, <1>3, RingSlots DEF Numbered

LEMMA QuietKeepsTx ==
  ASSUME TxInv, TxQuiet
  PROVE  TxInv'
<1> USE DEF TxQuiet
<1>1. Numbered'  BY DEF TxInv, Numbered, Slot
<1>2. InHand'  BY DEF TxInv, InHand, Unposted
<1>3. Booked'  BY DEF TxInv, Booked, Unbooked
<1>4. Posted'  BY DEF TxInv, Posted
<1>5. Done'  BY DEF TxInv, Done
<1>6. Taped'  BY DEF TxInv, Taped, OnTape
<1> QED  BY <1>1, <1>2, <1>3, <1>4, <1>5, <1>6 DEF TxInv

LEMMA XmitKeepsTx ==
  ASSUME TxTypes, OtherTypes, TxInv, NEW p \in Ports, NEW size \in budget.sizes,
         Xmit(p, size)
  PROVE  TxInv'
<1> DEFINE F == Len(frame)
           f == [slot |-> tx.wr, at |-> tx.pktWr, size |-> size]
<1>0. /\ F \in Nat /\ Len(sent) \in Nat /\ Len(freed) \in Nat
      /\ Len(freed) <= Len(sent) /\ Len(sent) <= F /\ F <= Len(freed) + TxRing
      /\ tx.wr = SlotOf(F + 1, TxRing) /\ tx.cnt = F - Len(freed)
      /\ TxRing \in Nat \ {0} /\ PktRoom \in Nat \ {0}
  BY TxFacts, RingSlots DEF TxInv
<1>1. size \in 1 .. PktRoom /\ size \in Nat /\ size \in Int  BY <1>0 DEF OtherTypes
<1>2. /\ UNCHANGED <<tx_bk, tx_dsc, tx_dne, sent, freed, card, hpc, h>>
      /\ frame' = Append(frame, f) /\ cur' = [cur EXCEPT ![p] = F + 1]
      /\ pc[p] = "idle" /\ pc' = [pc EXCEPT ![p] = "test"]
      /\ tx.cnt + 1 <= TxRing /\ tx.pktCnt + size <= PktRoom
      /\ tx' = [Claimed(size) EXCEPT !.cnt = @ + 1, !.pktCnt = @ + size]
  BY DEF Xmit, Sending, Fits, workVars
<1>3. /\ tx'.wr = SlotOf(F + 2, TxRing) /\ tx'.rd = tx.rd /\ tx'.cnt = tx.cnt + 1
      /\ tx'.pktWr = (tx.pktWr + size) % PktRoom /\ tx'.pktCnt = tx.pktCnt + size
  <2> DEFINE c == Claimed(size)
  <2>1. /\ TxAfter(tx.wr) \in TxSlots /\ tx.pktWr \in PktLines /\ tx \in Pointers
    BY RingSlots DEF TxTypes, Pointers
  <2>2. (tx.pktWr + size) % PktRoom \in PktLines
    <3>1. tx.pktWr + size \in Nat  BY <1>1, <2>1 DEF PktLines
    <3> QED  BY <3>1, <1>0, Division DEF PktLines
  <2>3. /\ c \in Pointers /\ c.wr = TxAfter(tx.wr) /\ c.rd = tx.rd /\ c.cnt = tx.cnt
        /\ c.pktWr = (tx.pktWr + size) % PktRoom /\ c.pktCnt = tx.pktCnt
    BY <2>1, <2>2 DEF Claimed, Pointers
  <2> HIDE DEF c
  <2>4. tx' = [c EXCEPT !.cnt = @ + 1, !.pktCnt = @ + size]  BY <1>2 DEF c
  <2>5. /\ tx'.wr = c.wr /\ tx'.rd = c.rd /\ tx'.pktWr = c.pktWr
        /\ tx'.cnt = c.cnt + 1 /\ tx'.pktCnt = c.pktCnt + size
    <3>1. c \in Pointers /\ size \in Int  BY <1>1, <2>3
    <3>2. PICK t : t = tx'  OBVIOUS
    <3>3. t = [c EXCEPT !.cnt = @ + 1, !.pktCnt = @ + size]  BY <2>4, <3>2
    <3>4. t.wr = c.wr /\ t.rd = c.rd /\ t.pktWr = c.pktWr  BY <3>1, <3>3 DEF Pointers
    <3>5. t.cnt = c.cnt + 1 /\ t.pktCnt = c.pktCnt + size  BY <3>1, <3>3 DEF Pointers
    <3> QED  BY <3>2, <3>4, <3>5
  <2>6. TxAfter(tx.wr) = SlotOf((F + 1) + 1, TxRing)
    <3>1. F + 1 \in Nat \ {0}  BY <1>0
    <3> QED  BY <1>0, <3>1, RingSlots
  <2>7. (F + 1) + 1 = F + 2  BY <1>0
  <2> QED  BY <2>3, <2>5, <2>6, <2>7
<1>4. /\ Len(frame') = F + 1 /\ \A k \in 1 .. F : frame'[k] = frame[k]
      /\ frame'[F + 1] = f
  <2>1. f \in Frame  BY <1>1 DEF TxTypes, Pointers, Frame
  <2> HIDE DEF f
  <2> QED  BY <1>2, <2>1, Appended DEF TxTypes
<1>5. f.slot = tx.wr /\ f.at = tx.pktWr /\ f.size = size  OBVIOUS
<1> HIDE DEF f, F
<1>6. Numbered'
  <2>1. \A k \in 1 .. F + 1 : frame'[k].slot = SlotOf(k, TxRing)
    <3>1. \A k \in 1 .. F : frame[k].slot = SlotOf(k, TxRing)
      BY DEF TxInv, Numbered, Slot, F
    <3> QED  BY <1>0, <1>4, <1>5, <3>1
  <2>2. tx'.cnt = (F + 1) - Len(freed) /\ F + 1 <= Len(freed) + TxRing /\ (F + 1) + 1 = F + 2
    BY <1>0, <1>2, <1>3
  <2>3. Len(sent) <= F + 1  BY <1>0
  <2> QED  BY <1>2, <1>3, <1>4, <2>1, <2>2, <2>3 DEF TxInv, Numbered, Slot
<1>7. \A q \in Ports : q # p => pc'[q] = pc[q] /\ cur'[q] = cur[q]
  BY <1>2 DEF TxTypes
<1>8. cur'[p] = F + 1 /\ pc'[p] = "test"  BY <1>2 DEF TxTypes
<1>9. InHand'
  <2>1. \A q \in Ports : Unposted(q) => cur[q] \in 1 .. F
    BY DEF TxTypes, Unposted, F
  <2>2. \A s \in TxSlots : tx_dsc[s] # F + 1
    <3> SUFFICES ASSUME NEW s \in TxSlots, tx_dsc[s] = F + 1 PROVE FALSE  OBVIOUS
    <3>1. tx_dsc[s] \in Len(sent) + 1 .. F  BY <1>0 DEF TxInv, Posted, F
    <3> QED  BY <1>0, <3>1
  <2> SUFFICES ASSUME NEW q \in Ports, Unposted(q)'
               PROVE  /\ Len(sent') < cur'[q]
                      /\ \A r \in Ports : r # q /\ Unposted(r)' => cur'[r] # cur'[q]
                      /\ \A s \in TxSlots : tx_dsc'[s] # cur'[q]
    BY DEF InHand
  <2>3. CASE q = p
    <3>1. Len(sent) < F + 1  BY <1>0
    <3>2. ASSUME NEW r \in Ports, r # q, Unposted(r)' PROVE cur'[r] # cur'[q]
      <4>1. cur[r] \in 1 .. F  BY <1>7, <2>1, <2>3, <3>2 DEF Unposted
      <4> QED  BY <1>0, <1>7, <1>8, <2>3, <3>2, <4>1
    <3> QED  BY <1>2, <1>8, <2>2, <2>3, <3>1, <3>2
  <2>4. CASE q # p
    <3>1. Unposted(q) /\ cur'[q] = cur[q]  BY <1>7, <2>4 DEF Unposted
    <3>2. /\ Len(sent) < cur[q] /\ \A s \in TxSlots : tx_dsc[s] # cur[q]
          /\ \A r \in Ports : r # q /\ Unposted(r) => cur[r] # cur[q]
      BY <3>1 DEF TxInv, InHand
    <3>3. ASSUME NEW r \in Ports, r # q, Unposted(r)' PROVE cur'[r] # cur'[q]
      <4>1. CASE r = p
        <5>1. cur[q] \in 1 .. F  BY <2>1, <3>1
        <5> QED  BY <1>0, <1>8, <3>1, <4>1, <5>1
      <4>2. CASE r # p  BY <1>7, <3>1, <3>2, <3>3, <4>2 DEF Unposted
      <4> QED  BY <4>1, <4>2
    <3> QED  BY <1>2, <3>1, <3>2, <3>3
  <2> QED  BY <2>3, <2>4
<1>10. Booked'
  <2> SUFFICES ASSUME NEW k \in Len(freed) + 1 .. F + 1,
                      \A q \in Ports : Unbooked(q)' => cur'[q] # k
               PROVE  /\ tx_bk[SlotOf(k, TxRing)].skb = k
                      /\ tx_bk[SlotOf(k, TxRing)].size = frame'[k].size
    BY <1>2, <1>4 DEF Booked
  <2>1. k # F + 1  BY <1>8 DEF Unbooked
  <2>2. k \in Len(freed) + 1 .. F /\ k \in 1 .. F  BY <1>0, <2>1
  <2>3. ASSUME NEW q \in Ports, Unbooked(q) PROVE cur[q] # k
    <3>1. q # p  BY <1>2, <2>3 DEF Unbooked
    <3> QED  BY <1>7, <2>3, <3>1 DEF Unbooked
  <2> QED  BY <1>4, <2>2, <2>3 DEF TxInv, Booked, F
<1>11. Posted'
  <2>1. \A s \in TxSlots : tx_dsc[s] # 0 =>
          tx_dsc[s] \in Len(sent) + 1 .. F /\ SlotOf(tx_dsc[s], TxRing) = s
    BY DEF TxInv, Posted, F
  <2>2. \A k \in Len(sent) + 1 .. F : k \in Len(sent) + 1 .. F + 1  BY <1>0
  <2> QED  BY <1>2, <1>4, <2>1, <2>2 DEF Posted
<1>12. Done'  BY <1>2, <1>3 DEF TxInv, Done
<1>13. Taped'
  <2>1. PICK tape \in [0 .. F -> Nat] : OnTape(tape)  BY DEF TxInv, Taped, F
  <2>2. tape[F] \in Nat /\ Len(freed) \in 0 .. F /\ tape[Len(freed)] \in Nat  BY <1>0, <2>1
  <2>3. PICK longer \in [0 .. F + 1 -> Nat] :
          (\A k \in 0 .. F : longer[k] = tape[k]) /\ longer[F + 1] = tape[F] + size
    <3> DEFINE t == [k \in 0 .. F + 1 |-> IF k <= F THEN tape[k] ELSE tape[F] + size]
    <3>1. t \in [0 .. F + 1 -> Nat]  BY <1>0, <1>1, <2>1, <2>2
    <3>2. (\A k \in 0 .. F : t[k] = tape[k]) /\ t[F + 1] = tape[F] + size  BY <1>0
    <3> HIDE DEF t
    <3> QED  BY <3>1, <3>2
  <2>4. /\ \A k \in 0 .. F : longer[k] = tape[k]
        /\ longer[F + 1] = tape[F] + size
    BY <2>3
  <2>5. /\ \A j, k \in 0 .. F : j <= k => tape[j] <= tape[k]
        /\ \A k \in 1 .. F : /\ tape[k] = tape[k - 1] + frame[k].size
                             /\ frame[k].at = tape[k - 1] % PktRoom
        /\ tx.pktWr = tape[F] % PktRoom
        /\ tx.pktCnt = tape[F] - tape[Len(freed)]
    BY <2>1 DEF OnTape, F
  <2>6. ASSUME NEW j \in 0 .. F + 1, NEW k \in 0 .. F + 1, j <= k
        PROVE  longer[j] <= longer[k]
    <3>1. CASE k <= F
      <4>1. j \in 0 .. F /\ k \in 0 .. F  BY <1>0, <2>6, <3>1
      <4> QED  BY <2>4, <2>5, <2>6, <4>1
    <3>2. CASE j <= F /\ k = F + 1
      <4>1. j \in 0 .. F /\ F \in 0 .. F /\ j <= F  BY <1>0, <3>2
      <4>2. tape[j] \in Nat  BY <2>1, <4>1
      <4>3. tape[j] <= tape[F]  BY <2>5, <4>1
      <4> QED  BY <1>1, <2>2, <2>4, <3>2, <4>1, <4>2, <4>3
    <3>3. CASE j = F + 1 /\ k = F + 1  BY <1>1, <2>2, <2>4, <3>3
    <3> QED  BY <1>0, <2>6, <3>1, <3>2, <3>3
  <2>7. ASSUME NEW k \in 1 .. F + 1
        PROVE  /\ longer[k] = longer[k - 1] + frame'[k].size
               /\ frame'[k].at = longer[k - 1] % PktRoom
    <3>1. CASE k = F + 1
      <4>1. k - 1 = F /\ F \in 0 .. F  BY <1>0, <3>1
      <4>2. longer[k] = tape[F] + size /\ longer[k - 1] = tape[F]  BY <2>4, <3>1, <4>1
      <4>3. frame'[k].size = size /\ frame'[k].at = tx.pktWr  BY <1>4, <1>5, <3>1
      <4> QED  BY <2>5, <4>2, <4>3
    <3>2. CASE k # F + 1
      <4>0. F \in Nat  BY <1>0
      <4>1. k \in 1 .. F /\ k - 1 \in 0 .. F /\ k \in 0 .. F  BY <4>0, <3>2
      <4>2. longer[k] = tape[k] /\ longer[k - 1] = tape[k - 1]  BY <2>4, <4>1
      <4>3. frame'[k] = frame[k]  BY <1>4, <4>1
      <4> QED  BY <2>5, <4>1, <4>2, <4>3
    <3> QED  BY <3>1, <3>2
  <2>8. tx'.pktWr = longer[F + 1] % PktRoom
    <3>1. tape[F] \in Nat /\ size \in Nat /\ PktRoom \in Nat \ {0}  BY <1>0, <1>1, <2>2
    <3>2. ((tape[F] % PktRoom) + size) % PktRoom = (tape[F] + size) % PktRoom
      BY <3>1, RemainderAdds, Zenon
    <3>3. tx'.pktWr = (tx.pktWr + size) % PktRoom /\ tx.pktWr = tape[F] % PktRoom
      BY <1>3, <2>5
    <3>4. longer[F + 1] = tape[F] + size  BY <2>4
    <3> QED  BY <3>2, <3>3, <3>4, Zenon
  <2>9. /\ tx'.pktCnt = longer[F + 1] - longer[Len(freed)]
        /\ tx'.pktCnt <= PktRoom
    <3>1. longer[F + 1] = tape[F] + size /\ longer[Len(freed)] = tape[Len(freed)]
      BY <2>2, <2>4
    <3>2. tx'.pktCnt = (tape[F] - tape[Len(freed)]) + size /\ tx'.pktCnt <= PktRoom
      BY <1>2, <1>3, <2>5
    <3> QED  BY <1>1, <2>2, <3>1, <3>2
  <2>10. OnTape(longer)'
    BY <1>2, <1>4, <2>6, <2>7, <2>8, <2>9 DEF OnTape
  <2> QED  BY <1>4, <2>3, <2>10 DEF Taped
<1> QED  BY <1>6, <1>9, <1>10, <1>11, <1>12, <1>13 DEF TxInv

(* A sender that moves on without changing what is booked or posted.       *)
LEMMA MoveKeepsTx ==
  ASSUME TxInv, UNCHANGED <<tx, tx_bk, tx_dsc, tx_dne, frame, sent, freed, card, hpc, h>>,
         \A q \in Ports : Unposted(q)' => Unposted(q) /\ cur'[q] = cur[q],
         \A q \in Ports : Unbooked(q) => Unbooked(q)' /\ cur'[q] = cur[q]
  PROVE  TxInv'
<1>1. Numbered'  BY DEF TxInv, Numbered, Slot
<1>2. InHand'  BY DEF TxInv, InHand
<1>3. Booked'  BY DEF TxInv, Booked
<1>4. Posted'  BY DEF TxInv, Posted
<1>5. Done'  BY DEF TxInv, Done
<1>6. Taped'  BY DEF TxInv, Taped, OnTape
<1> QED  BY <1>1, <1>2, <1>3, <1>4, <1>5, <1>6 DEF TxInv

LEMMA KeepBooksKeepsTx ==
  ASSUME TxTypes, OtherTypes, TxInv, NEW p \in Ports, KeepBooks(p)
  PROVE  TxInv'
<1>0. /\ Len(frame) \in Nat /\ Len(sent) \in Nat /\ Len(freed) \in Nat
      /\ Len(freed) <= Len(sent) /\ Len(sent) <= Len(frame)
      /\ Len(frame) <= Len(freed) + TxRing /\ TxRing \in Nat \ {0}
  BY TxFacts DEF TxInv
<1> DEFINE c == cur[p]
<1>1. /\ UNCHANGED <<tx, tx_dsc, tx_dne, frame, sent, freed, card, hpc, h, cur>>
      /\ pc[p] = "book" /\ pc' = [pc EXCEPT ![p] = "post"]
      /\ tx_bk' = [tx_bk EXCEPT ![Slot(c)] = [skb |-> c, size |-> frame[c].size, port |-> p]]
  BY DEF KeepBooks, XmitStep, workVars
<1>2. c \in 1 .. Len(frame) /\ Len(sent) < c
  BY <1>1 DEF TxTypes, TxInv, InHand, Unposted
<1>3. Slot(c) = SlotOf(c, TxRing) /\ SlotOf(c, TxRing) \in TxSlots
  <2>1. c \in Nat \ {0}  BY <1>2
  <2> QED  BY <1>2, <2>1, RingSlots DEF TxInv, Numbered
<1> HIDE DEF c
<1>4. \A q \in Ports : Unposted(q)' <=> Unposted(q)
  BY <1>1 DEF TxTypes, Unposted
<1>5. Numbered'  BY <1>1 DEF TxInv, Numbered, Slot
<1>6. InHand'  BY <1>1, <1>4 DEF TxInv, InHand
<1>7. Booked'
  <2> SUFFICES ASSUME NEW k \in Len(freed) + 1 .. Len(frame),
                      \A q \in Ports : Unbooked(q)' => cur[q] # k
               PROVE  /\ tx_bk'[SlotOf(k, TxRing)].skb = k
                      /\ tx_bk'[SlotOf(k, TxRing)].size = frame[k].size
    BY <1>1 DEF Booked
  <2>1. CASE k = c
    <3>1. tx_bk'[SlotOf(k, TxRing)] = [skb |-> c, size |-> frame[c].size, port |-> p]
      BY <1>1, <1>3, <2>1 DEF TxTypes
    <3> QED  BY <2>1, <3>1
  <2>2. CASE k # c
    <3>1. /\ k \in Len(freed) + 1 .. Len(freed) + TxRing
          /\ c \in Len(freed) + 1 .. Len(freed) + TxRing /\ k \in Nat \ {0}
      BY <1>0, <1>2
    <3>2. SlotOf(k, TxRing) # SlotOf(c, TxRing)
      BY <1>0, <2>2, <3>1, SlotsDiffer
    <3>3. SlotOf(k, TxRing) \in TxSlots  BY <3>1, RingSlots
    <3>4. tx_bk'[SlotOf(k, TxRing)] = tx_bk[SlotOf(k, TxRing)]
      BY <1>1, <1>3, <3>2, <3>3 DEF TxTypes
    <3>5. \A q \in Ports : Unbooked(q) => cur[q] # k
      BY <1>1, <2>2 DEF TxTypes, Unbooked, c
    <3> QED  BY <3>4, <3>5 DEF TxInv, Booked
  <2> QED  BY <2>1, <2>2
<1>8. Posted'  BY <1>1 DEF TxInv, Posted
<1>9. Done'  BY <1>1 DEF TxInv, Done
<1>10. Taped'  BY <1>1 DEF TxInv, Taped, OnTape
<1> QED  BY <1>5, <1>6, <1>7, <1>8, <1>9, <1>10 DEF TxInv

LEMMA WriteKeepsTx ==
  ASSUME TxTypes, OtherTypes, TxInv, NEW p \in Ports, WriteDescriptor(p)
  PROVE  TxInv'
<1>0. Len(frame) \in Nat /\ Len(sent) \in Nat  BY TxFacts DEF TxInv
<1> DEFINE c == cur[p]
<1>1. /\ UNCHANGED <<tx, tx_bk, tx_dne, frame, sent, freed, card, hpc, h, cur>>
      /\ pc[p] = "post" /\ pc' = [pc EXCEPT ![p] = "stats"]
      /\ tx_dsc' = [tx_dsc EXCEPT ![Slot(c)] = c]
  BY DEF WriteDescriptor, XmitStep, workVars
<1>2. c \in 1 .. Len(frame) /\ Len(sent) < c
  BY <1>1 DEF TxTypes, TxInv, InHand, Unposted
<1>3. Slot(c) = SlotOf(c, TxRing) /\ SlotOf(c, TxRing) \in TxSlots
  <2>1. c \in Nat \ {0}  BY <1>2
  <2> QED  BY <1>2, <2>1, RingSlots DEF TxInv, Numbered
<1>4. \A q \in Ports : Unposted(q)' => Unposted(q) /\ q # p /\ cur[q] # c
  BY <1>1 DEF TxTypes, Unposted, TxInv, InHand
<1> HIDE DEF c
<1>5. \A s \in TxSlots : tx_dsc'[s] = IF s = Slot(c) THEN c ELSE tx_dsc[s]
  BY <1>1 DEF TxTypes
<1>6. \A q \in Ports : Unbooked(q)' <=> Unbooked(q)
  BY <1>1 DEF TxTypes, Unbooked
<1>7. Numbered'  BY <1>1 DEF TxInv, Numbered, Slot
<1>8. InHand'
  <2> SUFFICES ASSUME NEW q \in Ports, Unposted(q)'
               PROVE  /\ Len(sent) < cur[q]
                      /\ \A r \in Ports : r # q /\ Unposted(r)' => cur[r] # cur[q]
                      /\ \A s \in TxSlots : tx_dsc'[s] # cur[q]
    BY <1>1 DEF InHand
  <2>1. /\ Len(sent) < cur[q]
        /\ \A r \in Ports : r # q /\ Unposted(r) => cur[r] # cur[q]
        /\ \A s \in TxSlots : tx_dsc[s] # cur[q]
    BY <1>4 DEF TxInv, InHand
  <2>2. \A s \in TxSlots : tx_dsc'[s] # cur[q]  BY <1>4, <1>5, <2>1
  <2> QED  BY <1>4, <2>1, <2>2
<1>9. Booked'  BY <1>1, <1>6 DEF TxInv, Booked
<1>10. Posted'
  <2> SUFFICES ASSUME NEW s \in TxSlots, tx_dsc'[s] # 0
               PROVE  /\ tx_dsc'[s] \in Len(sent) + 1 .. Len(frame)
                      /\ SlotOf(tx_dsc'[s], TxRing) = s
    BY <1>1 DEF Posted
  <2>1. CASE s = Slot(c)
    <3>1. c \in Len(sent) + 1 .. Len(frame)  BY <1>0, <1>2
    <3> QED  BY <1>3, <1>5, <2>1, <3>1
  <2>2. CASE s # Slot(c)  BY <1>5, <2>2 DEF TxInv, Posted
  <2> QED  BY <2>1, <2>2
<1>11. Done'  BY <1>1 DEF TxInv, Done
<1>12. Taped'  BY <1>1 DEF TxInv, Taped, OnTape
<1> QED  BY <1>7, <1>8, <1>9, <1>10, <1>11, <1>12 DEF TxInv

LEMMA SenderKeepsTx ==
  ASSUME TxTypes, OtherTypes, TxInv, NEW p \in Ports, Sender(p)
  PROVE  TxInv'
<1>1. CASE TestRoom(p) \/ StopQueue(p)
  <2>1. /\ UNCHANGED <<tx, tx_bk, tx_dsc, tx_dne, frame, sent, freed, card, hpc, h, cur>>
        /\ Unbooked(p) /\ \E to \in {"stop", "book"} : pc' = [pc EXCEPT ![p] = to]
    BY <1>1 DEF TestRoom, StopQueue, XmitStep, workVars, Unbooked
  <2>2. \A q \in Ports : (Unbooked(q)' <=> Unbooked(q)) /\ (Unposted(q)' <=> Unposted(q))
    BY <2>1 DEF TxTypes, Unbooked, Unposted
  <2> QED  BY <2>1, <2>2, MoveKeepsTx
<1>2. CASE Stats(p)
  <2>1. /\ UNCHANGED <<tx, tx_bk, tx_dsc, tx_dne, frame, sent, freed, card, hpc, h>>
        /\ pc[p] = "stats" /\ pc' = [pc EXCEPT ![p] = "idle"] /\ cur' = [cur EXCEPT ![p] = 0]
    BY <1>2 DEF Stats, XmitStep, workVars
  <2>2. /\ \A q \in Ports : Unposted(q)' => Unposted(q) /\ cur'[q] = cur[q]
        /\ \A q \in Ports : Unbooked(q) => Unbooked(q)' /\ cur'[q] = cur[q]
    BY <2>1 DEF TxTypes, Unbooked, Unposted
  <2> QED  BY <2>1, <2>2, MoveKeepsTx
<1> QED  BY <1>1, <1>2, KeepBooksKeepsTx, WriteKeepsTx DEF Sender

LEMMA CardSendsKeepsTx ==
  ASSUME TxTypes, OtherTypes, TxInv, CardSends
  PROVE  TxInv'
<1> DEFINE S == Len(sent)
           c == tx_dsc[card.tx]
<1>0. /\ Len(frame) \in Nat /\ S \in Nat /\ Len(freed) \in Nat
      /\ Len(freed) <= S /\ S <= Len(frame) /\ Len(frame) <= Len(freed) + TxRing
      /\ TxRing \in Nat \ {0} /\ card.tx \in TxSlots /\ card.tx = SlotOf(S + 1, TxRing)
  BY TxFacts DEF TxInv
<1>1. /\ UNCHANGED <<tx, tx_bk, frame, freed, pc, cur, hpc, h>>
      /\ c # 0 /\ sent' = Append(sent, c)
      /\ tx_dne' = [tx_dne EXCEPT ![card.tx] = c]
      /\ tx_dsc' = [tx_dsc EXCEPT ![card.tx] = 0]
      /\ card'.tx = TxAfter(card.tx)
  BY DEF CardSends, Landed, workVars, OtherTypes, Cards
<1>2. \A s \in TxSlots : tx_dsc[s] # 0 =>
        tx_dsc[s] \in S + 1 .. Len(frame) /\ SlotOf(tx_dsc[s], TxRing) = s
  BY DEF TxInv, Posted
<1>3. c = S + 1 /\ S + 1 <= Len(frame)
  <2>1. c \in S + 1 .. Len(frame) /\ SlotOf(c, TxRing) = SlotOf(S + 1, TxRing)
    BY <1>0, <1>1, <1>2
  <2>2. c \in S + 1 .. S + TxRing /\ S + 1 \in S + 1 .. S + TxRing
    BY <1>0, <2>1
  <2>3. c = S + 1  BY <1>0, <2>1, <2>2, SlotsDiffer
  <2> QED  BY <1>0, <2>1, <2>3
<1>4. /\ Len(sent') = S + 1 /\ \A i \in 1 .. S + 1 : sent'[i] = i
  <2>1. sent \in Seq(Nat) /\ c \in Nat  BY <1>0, <1>3 DEF TxTypes
  <2>2. /\ Len(sent') = S + 1 /\ sent'[S + 1] = c /\ \A i \in 1 .. S : sent'[i] = sent[i]
    BY <1>1, <2>1, Appended
  <2>3. \A i \in 1 .. S : sent[i] = i  BY DEF TxInv, Numbered
  <2> QED  BY <1>0, <1>3, <2>2, <2>3
<1>5. card'.tx = SlotOf((S + 1) + 1, TxRing)
  <2>1. S + 1 \in Nat \ {0}  BY <1>0
  <2> QED  BY <1>0, <1>1, <2>1, RingSlots
<1>6. /\ \A s \in TxSlots : tx_dsc'[s] = IF s = card.tx THEN 0 ELSE tx_dsc[s]
      /\ \A s \in TxSlots : tx_dne'[s] = IF s = card.tx THEN c ELSE tx_dne[s]
  BY <1>1 DEF TxTypes
<1> HIDE DEF S, c
<1>7. Numbered'
  <2>1. Len(freed) <= S + 1  BY <1>0
  <2> QED  BY <1>1, <1>3, <1>4, <1>5, <2>1 DEF TxInv, Numbered, Slot
<1>8. InHand'
  <2> SUFFICES ASSUME NEW q \in Ports, Unposted(q)
               PROVE  /\ S + 1 < cur[q]
                      /\ \A r \in Ports : r # q /\ Unposted(r) => cur[r] # cur[q]
                      /\ \A s \in TxSlots : tx_dsc'[s] # cur[q]
    BY <1>1, <1>4 DEF InHand, Unposted
  <2>1. /\ S < cur[q]
        /\ \A r \in Ports : r # q /\ Unposted(r) => cur[r] # cur[q]
        /\ \A s \in TxSlots : tx_dsc[s] # cur[q]
    BY DEF TxInv, InHand, S
  <2>2. cur[q] \in Nat /\ cur[q] # S + 1  BY <1>0, <1>3, <2>1 DEF TxTypes, c
  <2>3. S + 1 < cur[q]  BY <1>0, <2>1, <2>2
  <2>4. \A s \in TxSlots : tx_dsc'[s] # cur[q]  BY <1>0, <1>6, <2>1, <2>2, <2>3
  <2> QED  BY <2>1, <2>3, <2>4
<1>9. Booked'  BY <1>1 DEF TxInv, Booked, Unbooked
<1>10. Posted'
  <2> SUFFICES ASSUME NEW s \in TxSlots, tx_dsc'[s] # 0
               PROVE  /\ tx_dsc'[s] \in (S + 1) + 1 .. Len(frame)
                      /\ SlotOf(tx_dsc'[s], TxRing) = s
    BY <1>1, <1>4 DEF Posted
  <2>1. s # card.tx /\ tx_dsc'[s] = tx_dsc[s]  BY <1>6
  <2>2. tx_dsc[s] \in S + 1 .. Len(frame) /\ SlotOf(tx_dsc[s], TxRing) = s
    BY <1>2, <2>1
  <2>3. tx_dsc[s] # S + 1  BY <1>0, <2>1, <2>2
  <2> QED  BY <1>0, <2>1, <2>2, <2>3
<1>11. Done'
  <2>1. ASSUME NEW s \in TxSlots, tx_dne'[s] # 0
        PROVE  /\ tx_dne'[s] \in 1 .. S + 1 /\ SlotOf(tx_dne'[s], TxRing) = s
               /\ tx_dne'[s] > Len(freed) \/ (hpc = "invalidate" /\ s = h.index)
    <3>1. CASE s = card.tx
      <4>1. tx_dne'[s] = S + 1  BY <1>3, <1>6, <3>1
      <4> QED  BY <1>0, <3>1, <4>1
    <3>2. CASE s # card.tx
      <4>1. tx_dne'[s] = tx_dne[s] /\ tx_dne[s] # 0  BY <1>6, <2>1, <3>2
      <4>2. /\ tx_dne[s] \in 1 .. S /\ SlotOf(tx_dne[s], TxRing) = s
            /\ tx_dne[s] > Len(freed) \/ (hpc = "invalidate" /\ s = h.index)
        BY <4>1 DEF TxInv, Done, S
      <4>3. tx_dne[s] \in 1 .. S + 1  BY <1>0, <4>2
      <4> QED  BY <4>1, <4>2, <4>3
    <3> QED  BY <3>1, <3>2
  <2>2. hpc = "tx" => tx_dne'[tx.rd] # 0
    <3>1. tx.rd \in TxSlots  BY DEF TxTypes, Pointers
    <3>2. hpc = "tx" => tx_dne[tx.rd] # 0  BY DEF TxInv, Done
    <3> QED  BY <1>0, <1>3, <1>6, <3>1, <3>2
  <2> QED  BY <1>1, <1>4, <2>1, <2>2 DEF Done
<1>12. Taped'  BY <1>1 DEF TxInv, Taped, OnTape
<1> QED  BY <1>7, <1>8, <1>9, <1>10, <1>11, <1>12 DEF TxInv

(* The frame that work_handler frees is the next one, whose completion it  *)
(* has seen.                                                               *)
LEMMA CompletedFrame ==
  ASSUME TxTypes, OtherTypes, TxInv, hpc = "tx"
  PROVE  /\ Len(freed) + 1 <= Len(sent)
         /\ Completed.skb = Len(freed) + 1
         /\ Completed.size = frame[Len(freed) + 1].size
<1> DEFINE R == Len(freed)
           d == tx_dne[tx.rd]
<1>0. /\ Len(frame) \in Nat /\ Len(sent) \in Nat /\ R \in Nat
      /\ R <= Len(sent) /\ Len(sent) <= Len(frame) /\ Len(frame) <= R + TxRing
      /\ TxRing \in Nat \ {0} /\ tx.rd \in TxSlots /\ tx.rd = SlotOf(R + 1, TxRing)
  BY TxFacts DEF TxInv
<1>1. d \in 1 .. Len(sent) /\ SlotOf(d, TxRing) = tx.rd /\ d > R
  BY <1>0 DEF TxInv, Done
<1> HIDE DEF d
<1>2. d \in R + 1 .. R + TxRing /\ R + 1 \in R + 1 .. R + TxRing  BY <1>0, <1>1
<1>3. d = R + 1  BY <1>0, <1>1, <1>2, SlotsDiffer
<1>4. R + 1 <= Len(sent) /\ R + 1 \in R + 1 .. Len(frame)  BY <1>0, <1>1, <1>3
<1>5. ASSUME NEW p \in Ports, Unbooked(p) PROVE cur[p] # R + 1
  <2>1. Unposted(p)  BY <1>5 DEF Unbooked, Unposted
  <2>2. Len(sent) < cur[p] /\ cur[p] \in Nat  BY <2>1 DEF TxInv, InHand, TxTypes
  <2> QED  BY <1>0, <1>4, <2>2
<1>6. /\ tx_bk[SlotOf(R + 1, TxRing)].skb = R + 1
      /\ tx_bk[SlotOf(R + 1, TxRing)].size = frame[R + 1].size
  BY <1>4, <1>5 DEF TxInv, Booked
<1> QED  BY <1>0, <1>4, <1>6 DEF Completed

LEMMA FreeKeepsTx ==
  ASSUME TxTypes, OtherTypes, WorkTypes, TxInv, FreeSent
  PROVE  TxInv'
<1> DEFINE R == Len(freed)
           size == frame[R + 1].size
<1>0. /\ Len(frame) \in Nat /\ Len(sent) \in Nat /\ R \in Nat
      /\ R <= Len(sent) /\ Len(sent) <= Len(frame) /\ Len(frame) <= R + TxRing
      /\ TxRing \in Nat \ {0} /\ tx.rd \in TxSlots /\ tx.rd = SlotOf(R + 1, TxRing)
      /\ tx.cnt = Len(frame) - R
  BY TxFacts DEF TxInv
<1>1. R + 1 <= Len(sent) /\ Completed.skb = R + 1 /\ Completed.size = size
  BY CompletedFrame DEF FreeSent, HandlerStep
<1>2. /\ UNCHANGED <<tx_bk, tx_dsc, tx_dne, pc, cur, frame, sent, card>>
      /\ hpc = "tx" /\ hpc' = "invalidate" /\ h'.index = tx.rd
      /\ freed' = Append(freed, R + 1)
      /\ tx' = [tx EXCEPT !.rd = TxAfter(@), !.cnt = @ - 1, !.pktCnt = @ - size]
  BY <1>1 DEF FreeSent, HandlerStep, WorkTypes, Locals
<1>3. size \in Nat /\ size \in Int
  <2>1. R + 1 \in 1 .. Len(frame)  BY <1>0, <1>1
  <2>2. frame[R + 1] \in Frame  BY <2>1, ElementOfSeq DEF TxTypes
  <2>3. size \in 1 .. PktRoom  BY <2>2 DEF Frame
  <2> QED  BY <2>3, Sizes
<1> HIDE DEF size
<1>4. /\ tx'.wr = tx.wr /\ tx'.rd = SlotOf((R + 1) + 1, TxRing) /\ tx'.cnt = tx.cnt - 1
      /\ tx'.pktWr = tx.pktWr /\ tx'.pktCnt = tx.pktCnt - size
  <2>1. R + 1 \in Nat \ {0}  BY <1>0
  <2>2. TxAfter(tx.rd) = SlotOf((R + 1) + 1, TxRing)  BY <1>0, <2>1, RingSlots
  <2>3. tx \in Pointers /\ size \in Int /\ TxAfter(tx.rd) \in TxSlots
    BY <1>0, <1>3, RingSlots DEF TxTypes
  <2>4. tx' = [tx EXCEPT !.rd = TxAfter(@), !.cnt = @ - 1, !.pktCnt = @ - size]
    BY <1>2
  <2>5. tx'.wr = tx.wr /\ tx'.rd = TxAfter(tx.rd) /\ tx'.pktWr = tx.pktWr
    BY <2>3, <2>4 DEF Pointers
  <2>6. tx'.cnt = tx.cnt - 1 /\ tx'.pktCnt = tx.pktCnt - size
    BY <2>3, <2>4 DEF Pointers
  <2> QED  BY <2>2, <2>5, <2>6
<1>5. Len(freed') = R + 1 /\ \A i \in 1 .. R + 1 : freed'[i] = i
  <2>1. freed \in Seq(Nat) /\ R + 1 \in Nat  BY <1>0 DEF TxTypes
  <2>2. /\ Len(freed') = R + 1 /\ freed'[R + 1] = R + 1
        /\ \A i \in 1 .. R : freed'[i] = freed[i]
    BY <1>2, <2>1, Appended
  <2>3. \A i \in 1 .. R : freed[i] = i  BY DEF TxInv, Numbered
  <2> QED  BY <1>0, <2>2, <2>3
<1> HIDE DEF R
<1>6. Numbered'
  <2>1. Len(frame) <= (R + 1) + TxRing /\ tx'.cnt = Len(frame) - (R + 1)
    BY <1>0, <1>4
  <2> QED  BY <1>1, <1>2, <1>4, <1>5, <2>1 DEF TxInv, Numbered, Slot
<1>7. InHand'  BY <1>2 DEF TxInv, InHand, Unposted
<1>8. Booked'
  <2>1. \A k \in (R + 1) + 1 .. Len(frame) : k \in R + 1 .. Len(frame)  BY <1>0
  <2> QED  BY <1>2, <1>5, <2>1 DEF TxInv, Booked, Unbooked, R
<1>9. Posted'  BY <1>2 DEF TxInv, Posted
<1>10. Done'
  <2> SUFFICES ASSUME NEW s \in TxSlots, tx_dne[s] # 0
               PROVE  /\ tx_dne[s] \in 1 .. Len(sent) /\ SlotOf(tx_dne[s], TxRing) = s
                      /\ tx_dne[s] > R + 1 \/ s = tx.rd
    BY <1>2, <1>5 DEF Done
  <2>1. /\ tx_dne[s] \in 1 .. Len(sent) /\ SlotOf(tx_dne[s], TxRing) = s /\ tx_dne[s] > R
    BY <1>2 DEF TxInv, Done, R
  <2>2. CASE tx_dne[s] = R + 1  BY <1>0, <2>1, <2>2
  <2>3. CASE tx_dne[s] # R + 1  BY <1>0, <2>1, <2>3
  <2> QED  BY <2>2, <2>3
<1>11. Taped'
  <2>1. PICK tape \in [0 .. Len(frame) -> Nat] : OnTape(tape)  BY DEF TxInv, Taped
  <2>2. /\ R \in 0 .. Len(frame) /\ R + 1 \in 0 .. Len(frame) /\ R + 1 \in 1 .. Len(frame)
        /\ Len(frame) \in 0 .. Len(frame) /\ (R + 1) - 1 = R
    BY <1>0, <1>1
  <2>3. tape[R] \in Nat /\ tape[R + 1] \in Nat /\ tape[Len(frame)] \in Nat
    BY <2>1, <2>2
  <2>4. /\ tape[R + 1] = tape[R] + size
        /\ tx.pktCnt = tape[Len(frame)] - tape[R] /\ tx.pktCnt <= PktRoom
    BY <2>1, <2>2 DEF OnTape, size, R
  <2>5. tx'.pktCnt = tape[Len(frame)] - tape[R + 1] /\ tx'.pktCnt <= PktRoom
    <3>1. tx.pktCnt \in Int /\ PktRoom \in Nat  BY <2>3, <2>4, Sizes
    <3>2. tx'.pktCnt = tx.pktCnt - size  BY <1>4
    <3> QED  BY <1>3, <2>3, <2>4, <3>1, <3>2
  <2>6. OnTape(tape)'
    BY <1>2, <1>4, <1>5, <2>1, <2>5 DEF OnTape
  <2> QED  BY <1>2, <2>1, <2>6 DEF Taped
<1> QED  BY <1>6, <1>7, <1>8, <1>9, <1>10, <1>11 DEF TxInv

LEMMA InvalidateKeepsTx ==
  ASSUME TxTypes, WorkTypes, TxInv, Invalidate
  PROVE  TxInv'
<1>1. /\ UNCHANGED <<tx, tx_bk, tx_dsc, pc, cur, frame, sent, freed, card, h>>
      /\ hpc = "invalidate" /\ hpc' = "wake"
      /\ tx_dne' = [tx_dne EXCEPT ![h.index] = 0]
  BY DEF Invalidate, HandlerStep
<1>2. \A s \in TxSlots : tx_dne'[s] = IF s = h.index THEN 0 ELSE tx_dne[s]
  BY <1>1 DEF TxTypes
<1>3. Numbered'  BY <1>1 DEF TxInv, Numbered, Slot
<1>4. InHand'  BY <1>1 DEF TxInv, InHand, Unposted
<1>5. Booked'  BY <1>1 DEF TxInv, Booked, Unbooked
<1>6. Posted'  BY <1>1 DEF TxInv, Posted
<1>7. Done'  BY <1>1, <1>2 DEF TxInv, Done
<1>8. Taped'  BY <1>1 DEF TxInv, Taped, OnTape
<1> QED  BY <1>3, <1>4, <1>5, <1>6, <1>7, <1>8 DEF TxInv

LEMMA TxKept ==
  ASSUME TxTypes, OtherTypes, WorkTypes, Unskipped => TxInv, [Next]_vars
  PROVE  Unskipped' => TxInv'
<1> SUFFICES ASSUME Unskipped' PROVE TxInv'  OBVIOUS
<1>1. TxInv  BY TroubleStays DEF Unskipped
<1>2. CASE TxQuiet  BY <1>1, <1>2, QuietKeepsTx
<1>3. ASSUME NEW p \in Ports, NEW size \in budget.sizes, XmitFails(p, size) PROVE TxInv'
  <2>1. TxQuiet  BY <1>3 DEF XmitFails, Note, Unskipped, TxQuiet, workVars
  <2> QED  BY <1>2, <2>1
<1> QED
  BY <1>1, <1>2, <1>3, XmitKeepsTx, SenderKeepsTx, CardSendsKeepsTx, FreeKeepsTx,
     InvalidateKeepsTx, TxSteps DEF TxStep

-----------------------------------------------------------------------------

LEMMA NextKeepsInv == IInv /\ [Next]_vars => IInv'
<1> SUFFICES ASSUME IInv, [Next]_vars PROVE IInv'  OBVIOUS
<1> USE DEF IInv
<1>1. TxTypes' /\ WorkTypes' /\ OtherTypes'
  BY TxTypesKept, WorkTypesKept, OtherTypesKept
<1>2. RxTypes' /\ Seen'  BY RxTypesKept, SeenKept
<1>3. RxInv' /\ NoBuffers'  BY RxKept
<1>4. Owned' /\ GivesBack'  BY OwnedKept
<1>5. Unskipped' => TxInv'  BY TxKept
<1> QED  BY <1>1, <1>2, <1>3, <1>4, <1>5

LEMMA InvHolds == Spec => []IInv
BY InitInv, NextKeepsInv, PTL DEF Spec

(* The frames the handler has not freed are those after the ones it has.   *)
LEMMA UnfinishedFrames ==
  ASSUME TxTypes, Numbered
  PROVE  Unfinished = Len(freed) + 1 .. Len(frame)
<1>0. /\ Len(frame) \in Nat /\ Len(freed) \in Nat
      /\ DOMAIN frame = 1 .. Len(frame) /\ DOMAIN freed = 1 .. Len(freed)
  BY LenProperties DEF TxTypes
<1>1. ToSet(freed) = 1 .. Len(freed)  BY <1>0 DEF Numbered, ToSet
<1> QED  BY <1>0, <1>1 DEF Unfinished

LEMMA OwnLines ==
  ASSUME TxTypes, OtherTypes, TxInv,
         NEW j \in Len(freed) + 1 .. Len(frame), NEW k \in Len(freed) + 1 .. Len(frame),
         j < k
  PROVE  Lines(j) \cap Lines(k) = {}
<1> DEFINE F == Len(frame)
           R == Len(freed)
<1>0. F \in Nat /\ R \in Nat /\ PktRoom \in Nat \ {0}  BY TxFacts, RingSlots DEF TxInv
<1>1. PICK tape \in [0 .. F -> Nat] : OnTape(tape)  BY DEF TxInv, Taped
<1> HIDE DEF F, R
<1>2. /\ j \in 1 .. F /\ k \in 1 .. F /\ j - 1 \in 0 .. F /\ k - 1 \in 0 .. F
      /\ j \in 0 .. F /\ k \in 0 .. F /\ R \in 0 .. F /\ F \in 0 .. F
      /\ R <= j - 1 /\ j <= k - 1 /\ k <= F
  BY <1>0 DEF F, R
<1>3. /\ tape[j - 1] \in Nat /\ tape[j] \in Nat /\ tape[k - 1] \in Nat /\ tape[k] \in Nat
      /\ tape[R] \in Nat /\ tape[F] \in Nat
  BY <1>1, <1>2
<1>4. /\ tape[R] <= tape[j - 1] /\ tape[j] <= tape[k - 1] /\ tape[k] <= tape[F]
  BY <1>1, <1>2 DEF OnTape, F
<1>5. /\ tape[j] = tape[j - 1] + frame[j].size /\ frame[j].at = tape[j - 1] % PktRoom
      /\ tape[k] = tape[k - 1] + frame[k].size /\ frame[k].at = tape[k - 1] % PktRoom
      /\ tx.pktCnt = tape[F] - tape[R] /\ tx.pktCnt <= PktRoom
  BY <1>1, <1>2 DEF OnTape, F, R
<1>6. frame[j].size \in Nat /\ frame[k].size \in Nat
  <2>1. frame[j] \in Frame /\ frame[k] \in Frame
    BY <1>2, ElementOfSeq DEF TxTypes, F
  <2>2. frame[j].size \in 1 .. PktRoom /\ frame[k].size \in 1 .. PktRoom  BY <2>1 DEF Frame
  <2> QED  BY <2>2, Sizes
<1> SUFFICES ASSUME NEW a \in Nat, NEW b \in Nat, a < frame[j].size, b < frame[k].size
             PROVE  (frame[j].at + a) % PktRoom # (frame[k].at + b) % PktRoom
  BY <1>6 DEF Lines
<1>7. ((tape[j - 1] % PktRoom) + a) % PktRoom = (tape[j - 1] + a) % PktRoom
  <2>1. tape[j - 1] \in Nat /\ a \in Nat /\ PktRoom \in Nat \ {0}  BY <1>0, <1>3
  <2> QED  BY <2>1, RemainderAdds, Zenon
<1>8. ((tape[k - 1] % PktRoom) + b) % PktRoom = (tape[k - 1] + b) % PktRoom
  <2>1. tape[k - 1] \in Nat /\ b \in Nat /\ PktRoom \in Nat \ {0}  BY <1>0, <1>3
  <2> QED  BY <2>1, RemainderAdds, Zenon
<1>9. /\ tape[j - 1] + frame[j].size <= tape[k - 1] /\ tape[k - 1] + frame[k].size <= tape[F]
      /\ tape[F] - tape[R] <= PktRoom
  BY <1>4, <1>5
<1>10. (tape[j - 1] + a) % PktRoom # (tape[k - 1] + b) % PktRoom
  <2> DEFINE x == tape[j - 1]
             xn == frame[j].size
             y == tape[k - 1]
             yn == frame[k].size
             r == tape[R]
             e == tape[F]
  <2>1. /\ x \in Nat /\ xn \in Nat /\ y \in Nat /\ yn \in Nat /\ r \in Nat /\ e \in Nat
        /\ r <= x /\ x + xn <= y /\ y + yn <= e /\ e - r <= PktRoom /\ a < xn /\ b < yn
    BY <1>3, <1>4, <1>6, <1>9
  <2> HIDE DEF x, xn, y, yn, r, e
  <2>2. (x + a) % PktRoom # (y + b) % PktRoom
    BY <1>0, <2>1, StretchesApart
  <2> QED  BY <2>2 DEF x, y
<1> QED  BY <1>5, <1>7, <1>8, <1>10

LEMMA InvOwnSlot == IInv => OwnSlot
<1> SUFFICES ASSUME IInv, Unskipped, NEW j \in Unfinished, NEW k \in Unfinished, j # k
             PROVE  Slot(j) # Slot(k) /\ Lines(j) \cap Lines(k) = {}
  BY DEF OwnSlot, Unskipped
<1>0. TxTypes /\ OtherTypes /\ TxInv /\ Numbered  BY DEF IInv, TxInv
<1>1. /\ Len(frame) \in Nat /\ Len(freed) \in Nat /\ TxRing \in Nat \ {0}
      /\ Len(frame) <= Len(freed) + TxRing
  BY <1>0, TxFacts
<1>2. j \in Len(freed) + 1 .. Len(frame) /\ k \in Len(freed) + 1 .. Len(frame)
  BY <1>0, UnfinishedFrames
<1>3. Slot(j) # Slot(k)
  <2>1. /\ j \in Len(freed) + 1 .. Len(freed) + TxRing /\ j \in 1 .. Len(frame)
        /\ k \in Len(freed) + 1 .. Len(freed) + TxRing /\ k \in 1 .. Len(frame)
    BY <1>1, <1>2
  <2>2. Slot(j) = SlotOf(j, TxRing) /\ Slot(k) = SlotOf(k, TxRing)
    BY <1>0, <2>1 DEF Numbered
  <2> QED  BY <1>1, <2>1, <2>2, SlotsDiffer
<1>4. CASE j < k  BY <1>0, <1>2, <1>3, <1>4, OwnLines
<1>5. CASE k < j
  <2>1. Lines(k) \cap Lines(j) = {}  BY <1>0, <1>2, <1>5, OwnLines
  <2> QED  BY <1>3, <2>1
<1> QED  BY <1>1, <1>2, <1>4, <1>5

LEMMA InvInCardOrder == IInv => InCardOrder
<1> SUFFICES ASSUME IInv PROVE InCardOrder  OBVIOUS
<1>1. FreedAsSent
  <2> SUFFICES ASSUME Unskipped PROVE IsPrefix(freed, sent)
    BY DEF FreedAsSent, Unskipped
  <2>0. TxTypes /\ OtherTypes /\ Numbered  BY DEF IInv, TxInv
  <2>1. /\ freed \in Seq(Nat) /\ sent \in Seq(Nat) /\ Len(freed) \in Nat /\ Len(sent) \in Nat
        /\ Len(freed) <= Len(sent)
        /\ \A i \in 1 .. Len(freed) : freed[i] = i
        /\ \A i \in 1 .. Len(sent) : sent[i] = i
    BY <2>0, TxFacts DEF TxTypes, Numbered
  <2> DEFINE a == SubSeq(freed, 1, Len(freed))
             b == SubSeq(sent, 1, Len(freed))
  <2>2. /\ a \in Seq(Nat) /\ Len(a) = Len(freed)
        /\ \A i \in 1 .. Len(freed) : a[i] = freed[i]
    BY <2>1
  <2>3. /\ b \in Seq(Nat) /\ Len(b) = Len(freed)
        /\ \A i \in 1 .. Len(freed) : b[i] = sent[i]
    BY <2>1
  <2> HIDE DEF a, b
  <2>4. ASSUME NEW i \in 1 .. Len(freed) PROVE a[i] = b[i]
    <3>1. i \in 1 .. Len(sent)  BY <2>1
    <3>2. a[i] = freed[i] /\ b[i] = sent[i] /\ freed[i] = i /\ sent[i] = i
      BY <2>1, <2>2, <2>3, <3>1
    <3> QED  BY <3>2
  <2>5. a = b  BY <2>2, <2>3, <2>4, SeqEqual
  <2> QED  BY <2>1, <2>5 DEF IsPrefix, a, b
<1>2. TakenAsReceived
  <2>1. DOMAIN taken = 1 .. Len(taken)  BY LenProperties DEF IInv, RxTypes
  <2> QED  BY <2>1 DEF IInv, RxInv, TakenAsReceived
<1> QED  BY <1>1, <1>2 DEF InCardOrder

LEMMA InvDriverSane == IInv => DriverSane
<1> SUFFICES ASSUME IInv PROVE TypeOK  BY DEF IInv, DriverSane
<1>1. tx.wr \in TxSlots /\ tx.rd \in TxSlots  BY DEF IInv, TxTypes, Pointers
<1>2. rx.wr \in RxSlots /\ rx.rd \in RxSlots /\ rx.cnt \in 0 .. RxRing
  <2>1. RxTypes /\ RxInv  BY DEF IInv
  <2>2. /\ rx.wr \in RxSlots /\ rx.rd \in RxSlots /\ rx.cnt = Len(data) - Len(taken)
        /\ Len(taken) \in Nat /\ Len(data) \in Nat /\ got \in Nat
        /\ Len(taken) <= got /\ got <= Len(data) /\ Len(data) <= Len(taken) + RxRing
    BY <2>1, RxFacts
  <2> QED  BY <2>2, Sizes
<1>3. h.tcnt \in 0 .. MaxTcnt  BY DEF IInv, WorkTypes, Locals, Rounds
<1>4. ASSUME Unskipped PROVE tx.cnt \in 0 .. TxRing /\ tx.pktCnt \in 0 .. PktRoom
  <2>0. TxTypes /\ OtherTypes /\ Numbered /\ Taped  BY <1>4 DEF IInv, TxInv
  <2>1. tx.cnt \in 0 .. TxRing  BY <2>0, TxFacts
  <2>2. tx.pktCnt \in 0 .. PktRoom
    <3>1. PICK tape \in [0 .. Len(frame) -> Nat] : OnTape(tape)  BY <2>0 DEF Taped
    <3>2. /\ Len(freed) \in 0 .. Len(frame) /\ Len(frame) \in 0 .. Len(frame)
          /\ Len(freed) <= Len(frame)
      BY <2>0, TxFacts
    <3>3. tape[Len(freed)] \in Nat /\ tape[Len(frame)] \in Nat  BY <3>1, <3>2
    <3>4. /\ tape[Len(freed)] <= tape[Len(frame)]
          /\ tx.pktCnt = tape[Len(frame)] - tape[Len(freed)] /\ tx.pktCnt <= PktRoom
      BY <3>1, <3>2 DEF OnTape
    <3> QED  BY <3>3, <3>4, Sizes
  <2> QED  BY <2>1, <2>2
<1> QED
  BY <1>1, <1>2, <1>3, <1>4 DEF TypeOK, IInv, Owned, TxTypes, Unskipped

(* The counters of the rings stay within their bounds, and a start that    *)
(* fails at any step, or a removal, leaves behind exactly what the labels  *)
(* of nf10_probe and nf10_remove forget (the work queue, then interrupt,   *)
(* interfaces and buffers) and nothing else, for any sizes and any of the  *)
(* faults.                                                                 *)
THEOREM DriverCorrect == Spec => []DriverSane
BY InvHolds, InvDriverSane, PTL

(* Two frames the card may still read never share a slot or a line of its  *)
(* memory: nf10priv_xmit and work_handler, for any number of ports, sizes  *)
(* of rings and frames.                                                    *)
THEOREM SlotsOwned == Spec => []OwnSlot
BY InvHolds, InvOwnSlot, PTL

(* work_handler frees the frames the card has sent and delivers those it   *)
(* has received, each once and in the card's order.                        *)
THEOREM CardOrderKept == Spec => []InCardOrder
BY InvHolds, InvInCardOrder, PTL
=============================================================================
