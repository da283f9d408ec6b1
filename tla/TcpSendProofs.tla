----------------------------- MODULE TcpSendProofs -----------------------------
(***************************************************************************)
(* The two queues of the sender for any segment size, buffers, windows and *)
(* losses.  The inductive invariant sees the queues as one, unacked before *)
(* unsent, and says that it is cut from the stream without gap or overlap, *)
(* that it reaches from the last acknowledgement to the last byte written, *)
(* and how each segment that was ever sent lies to each that is queued.    *)
(***************************************************************************)
EXTENDS TcpSend, SequenceTheorems, FiniteSetTheorems, WellFoundedInduction, TLAPS

\* The fields of the pcb.
Fields ==
  {"state", "snd_nxt", "snd_max", "lastack", "snd_lbb", "snd_buf", "snd_queuelen",
   "snd_wnd", "snd_wl2", "cwnd", "ssthresh", "dupacks", "infr", "nrtx", "rto",
   "rtime", "timing", "rtseq", "sa", "sv", "unsent", "unacked"}

\* Segments that follow each other, none of them empty, each with the payload
\* that belongs to its number.
Chain(q) ==
  /\ q \in Seq(Segment)
  /\ \A i \in 1 .. Len(q) : q[i].pos = q[i].seq /\ EndOf(q[i]) > q[i].seq
  /\ \A i, j \in 1 .. Len(q) : i < j => EndOf(q[i]) <= q[j].seq
  /\ \A i \in 1 .. Len(q) : i < Len(q) => EndOf(q[i]) = q[i + 1].seq

\* They reach from the acknowledgement a to the byte before b.
Spans(q, a, b) ==
  IF q = <<>> THEN a = b
  ELSE q[1].seq <= a /\ a < EndOf(q[1]) /\ EndOf(q[Len(q)]) = b

\* Neither segment starts inside the other, and the two have the FIN or not
\* if they start together.
Apart(s, t) ==
  /\ s.seq < t.seq => EndOf(s) <= t.seq
  /\ t.seq < s.seq => EndOf(t) <= s.seq
  /\ s.seq = t.seq => s.fin = t.fin

\* What has been sent, W, beside the queue q, when b bytes have been written.
Sent(W, q, b) ==
  /\ \A w \in W : /\ w.seq \in Nat /\ w.len \in Nat /\ w.fin \in BOOLEAN
                  /\ w.seq < EndOf(w) /\ EndOf(w) <= b
                  /\ \A i \in 1 .. Len(q) : Apart(w, q[i])
  /\ \A w, v \in W : Apart(w, v)

States == {"ESTABLISHED", "FIN_WAIT_1", "FIN_WAIT_2", "CLOSED"}

\* What is left of the send buffer.
Left(p) == (SndBuf - (p.snd_lbb - p.lastack)) % Uint16

\* The queues and the counters of a pcb p, when W has been sent.
Queues(p, W) ==
  /\ DOMAIN p = Fields /\ p.state \in States
  /\ p.unsent \in Seq(Segment) /\ p.unacked \in Seq(Segment)
  /\ p.lastack \in Nat /\ p.snd_lbb \in Nat /\ p.snd_max \in Nat
  /\ p.snd_max <= p.snd_lbb
  /\ p.nrtx \in 0 .. 255 /\ p.rtime \in 0 .. Uint8 - 1
  /\ p.snd_buf \in 0 .. Uint16 - 1 /\ p.snd_queuelen \in 0 .. SndQueueLen
  /\ Chain(Queued(p)) /\ Sent(W, Queued(p), p.snd_lbb)
  /\ p.state # "CLOSED" =>
       /\ Spans(Queued(p), p.lastack, p.snd_lbb)
       /\ p.snd_buf = Left(p)
       /\ p.snd_queuelen = BufsOf(Queued(p), Len(Queued(p)))

IInv ==
  /\ Queues(pcb, wire)
  /\ pcb.state = "ESTABLISHED" => pcb.snd_lbb = written + 1
  /\ written \in 0 .. Bytes /\ losses \in 0 .. Losses
  /\ peer \in Nat /\ acks \subseteq Nat

-----------------------------------------------------------------------------
(* Induction, from the well-foundedness of the natural numbers.            *)

LEMMA LeastNatural ==
  ASSUME NEW T, T \subseteq Nat, T # {}
  PROVE  \E x \in T : \A y \in T : x <= y
<1>1. PICK x \in T : \A y \in T : ~(<<y, x>> \in OpToRel(<, Nat))
  BY NatLessThanWellFounded, WFMin
<1>2. \A y \in T : ~(y < x)
  BY <1>1 DEF OpToRel
<1> QED  BY <1>2

LEMMA Induction ==
  ASSUME NEW S, 0 \in S, \A n \in Nat : n \in S => n + 1 \in S
  PROVE  Nat \subseteq S
<1> SUFFICES ASSUME Nat \ S # {} PROVE FALSE
  OBVIOUS
<1>1. PICK x \in Nat \ S : \A y \in Nat \ S : x <= y
  BY LeastNatural
<1>2. x # 0  OBVIOUS
<1>3. x - 1 \in S  BY <1>1, <1>2
<1> QED  BY <1>2, <1>3

\* A walk along n places stops before the first of those in B.
LEMMA WalkStops ==
  ASSUME NEW n \in Nat, NEW B, B \subseteq 1 .. n
  PROVE  \E k \in 0 .. n : (\A i \in 1 .. k : i \notin B) /\ (k < n => k + 1 \in B)
<1>1. CASE B = {}
  <2>1. n \in 0 .. n /\ ~(n < n)  OBVIOUS
  <2> QED  BY <1>1, <2>1
<1>2. CASE B # {}
  <2>1. B \subseteq Nat  OBVIOUS
  <2>2. PICK x \in B : \A y \in B : x <= y  BY <1>2, <2>1, LeastNatural
  <2>3. x \in 1 .. n  OBVIOUS
  <2>4. x - 1 \in 0 .. n /\ (x - 1) + 1 = x  BY <2>3
  <2>5. \A i \in 1 .. x - 1 : i \notin B
    <3> SUFFICES ASSUME NEW i \in 1 .. x - 1, i \in B PROVE FALSE
      OBVIOUS
    <3>1. i < x  BY <2>3
    <3>2. x <= i  BY <2>2
    <3> QED  BY <2>3, <3>1, <3>2
  <2> QED  BY <2>4, <2>5
<1> QED  BY <1>1, <1>2

-----------------------------------------------------------------------------
(* Segments and sequences of them.                                         *)

LEMMA SegmentFields ==
  ASSUME NEW s \in Segment
  PROVE  /\ s.seq \in Nat /\ s.len \in Nat /\ s.pos \in Nat /\ s.fin \in BOOLEAN
         /\ s.bufs \in Nat
         /\ TCPLEN(s) \in Nat /\ EndOf(s) \in Nat
BY DEF Segment, TCPLEN, EndOf

LEMMA Elements ==
  ASSUME NEW q \in Seq(Segment)
  PROVE  /\ Len(q) \in Nat
         /\ \A i \in 1 .. Len(q) :
              /\ q[i] \in Segment
              /\ q[i].seq \in Nat /\ q[i].len \in Nat /\ q[i].pos \in Nat
              /\ q[i].fin \in BOOLEAN /\ q[i].bufs \in Nat /\ EndOf(q[i]) \in Nat
         /\ q = <<>> <=> Len(q) = 0
<1>1. Len(q) \in Nat /\ \A i \in 1 .. Len(q) : q[i] \in Segment
  BY ElementOfSeq, LenProperties
<1>2. q = <<>> <=> Len(q) = 0  BY EmptySeq
<1> QED  BY <1>1, <1>2, SegmentFields

LEMMA Concatenated ==
  ASSUME NEW a \in Seq(Segment), NEW b \in Seq(Segment)
  PROVE  /\ a \o b \in Seq(Segment) /\ Len(a \o b) = Len(a) + Len(b)
         /\ \A i \in 1 .. Len(a) : i \in 1 .. Len(a) + Len(b) /\ (a \o b)[i] = a[i]
         /\ \A i \in 1 .. Len(b) : /\ Len(a) + i \in 1 .. Len(a) + Len(b)
                                   /\ (a \o b)[Len(a) + i] = b[i]
<1>1. /\ a \o b \in Seq(Segment) /\ Len(a \o b) = Len(a) + Len(b)
      /\ \A i \in 1 .. Len(a) + Len(b) : (a \o b)[i] =
              IF i <= Len(a) THEN a[i] ELSE b[i - Len(a)]
  BY ConcatProperties
<1>2. Len(a) \in Nat /\ Len(b) \in Nat  BY Elements
<1>3. ASSUME NEW i \in 1 .. Len(a)
      PROVE  i \in 1 .. Len(a) + Len(b) /\ (a \o b)[i] = a[i]
  BY <1>1, <1>2
<1>4. ASSUME NEW i \in 1 .. Len(b)
      PROVE  Len(a) + i \in 1 .. Len(a) + Len(b) /\ (a \o b)[Len(a) + i] = b[i]
  <2>1. /\ Len(a) + i \in 1 .. Len(a) + Len(b) /\ ~(Len(a) + i <= Len(a))
        /\ (Len(a) + i) - Len(a) = i
    BY <1>2
  <2> QED  BY <1>1, <2>1
<1> QED  BY <1>1, <1>3, <1>4

LEMMA Associative ==
  ASSUME NEW a \in Seq(Segment), NEW b \in Seq(Segment), NEW c \in Seq(Segment)
  PROVE  a \o (b \o c) = (a \o b) \o c
BY ConcatAssociative

LEMMA FrontIs ==
  ASSUME NEW q \in Seq(Segment), NEW k \in 0 .. Len(q)
  PROVE  /\ Front(q, k) \in Seq(Segment) /\ Len(Front(q, k)) = k
         /\ \A i \in 1 .. k : Front(q, k)[i] = q[i]
<1>1. Len(q) \in Nat /\ \A i \in 1 .. k : q[i] \in Segment  BY Elements
<1>2. /\ SubSeq(q, 1, k) \in Seq(Segment)
      /\ Len(SubSeq(q, 1, k)) = IF 1 <= k THEN k - 1 + 1 ELSE 0
      /\ \A i \in 1 .. k - 1 + 1 : SubSeq(q, 1, k)[i] = q[1 + i - 1]
  BY <1>1, SubSeqProperties
<1>3. k \in Nat /\ k - 1 + 1 = k /\ \A i \in 1 .. k : 1 + i - 1 = i  BY <1>1
<1> QED  BY <1>2, <1>3 DEF Front

LEMMA RestIs ==
  ASSUME NEW q \in Seq(Segment), NEW k \in 0 .. Len(q)
  PROVE  /\ Rest(q, k) \in Seq(Segment) /\ Len(Rest(q, k)) = Len(q) - k
         /\ \A i \in 1 .. Len(q) - k : k + i \in 1 .. Len(q) /\ Rest(q, k)[i] = q[k + i]
<1>1. Len(q) \in Nat /\ \A i \in k + 1 .. Len(q) : q[i] \in Segment  BY Elements
<1>2. /\ SubSeq(q, k + 1, Len(q)) \in Seq(Segment)
      /\ Len(SubSeq(q, k + 1, Len(q))) = IF k + 1 <= Len(q) THEN Len(q) - (k + 1) + 1 ELSE 0
      /\ \A i \in 1 .. Len(q) - (k + 1) + 1 : SubSeq(q, k + 1, Len(q))[i] = q[(k + 1) + i - 1]
  BY <1>1, SubSeqProperties
<1>3. /\ k \in Nat /\ Len(q) - (k + 1) + 1 = Len(q) - k
      /\ \A i \in 1 .. Len(q) - k : (k + 1) + i - 1 = k + i /\ k + i \in 1 .. Len(q)
  BY <1>1
<1>4. Len(SubSeq(q, k + 1, Len(q))) = Len(q) - k  BY <1>1, <1>2
<1> QED  BY <1>2, <1>3, <1>4 DEF Rest

LEMMA FrontAndRest ==
  ASSUME NEW q \in Seq(Segment), NEW k \in 0 .. Len(q)
  PROVE  Front(q, k) \o Rest(q, k) = q
<1> DEFINE a == Front(q, k)
           b == Rest(q, k)
<1>0. Len(q) \in Nat /\ k \in Nat /\ k <= Len(q)  BY Elements
<1>1. a \in Seq(Segment) /\ Len(a) = k /\ \A i \in 1 .. k : a[i] = q[i]  BY FrontIs
<1>2. /\ b \in Seq(Segment) /\ Len(b) = Len(q) - k
      /\ \A i \in 1 .. Len(q) - k : b[i] = q[k + i]
  BY RestIs
<1> HIDE DEF a, b
<1>3. a \o b \in Seq(Segment) /\ Len(a \o b) = Len(q)
  <2>1. a \in Seq(Segment) /\ b \in Seq(Segment)  BY <1>1, <1>2
  <2>2. a \o b \in Seq(Segment) /\ Len(a \o b) = Len(a) + Len(b)
    BY <2>1, Concatenated, Zenon
  <2>3. Len(a) + Len(b) = Len(q)  BY <1>0, <1>1, <1>2
  <2> QED  BY <2>2, <2>3
<1>4. ASSUME NEW i \in 1 .. Len(q) PROVE (a \o b)[i] = q[i]
  <2>1. CASE i <= k
    <3>1. i \in 1 .. Len(a)  BY <2>1, <1>0, <1>1
    <3> QED  BY <3>1, <1>1, <1>2, Concatenated
  <2>2. CASE ~(i <= k)
    <3>1. i - k \in 1 .. Len(b) /\ Len(a) + (i - k) = i /\ k + (i - k) = i
      BY <2>2, <1>0, <1>1, <1>2
    <3>2. (a \o b)[Len(a) + (i - k)] = b[i - k]  BY <3>1, <1>1, <1>2, Concatenated
    <3>3. b[i - k] = q[k + (i - k)]  BY <3>1, <1>2
    <3> QED  BY <3>1, <3>2, <3>3
  <2> QED  BY <2>1, <2>2
<1>5. a \o b = q  BY <1>3, <1>4, SeqEqual
<1> QED  BY <1>5 DEF a, b

LEMMA TailIs ==
  ASSUME NEW q \in Seq(Segment), Len(q) > 0
  PROVE  Tail(q) = Rest(q, 1) /\ q # <<>>
<1>1. q # <<>> /\ Len(q) \in Nat  BY Elements
<1>2. Tail(q) = SubSeq(q, 2, Len(q))  BY <1>1, TailIsSubSeq
<1>3. 1 + 1 = 2  OBVIOUS
<1> QED  BY <1>1, <1>2, <1>3 DEF Rest

\* The first and the other queue, seen as one.
LEMMA QueuedIs ==
  ASSUME NEW p, p.unsent \in Seq(Segment), p.unacked \in Seq(Segment)
  PROVE  /\ Queued(p) \in Seq(Segment)
         /\ Len(Queued(p)) = Len(p.unacked) + Len(p.unsent)
         /\ \A i \in 1 .. Len(p.unacked) :
              i \in 1 .. Len(Queued(p)) /\ Queued(p)[i] = p.unacked[i]
         /\ \A i \in 1 .. Len(p.unsent) :
              /\ Len(p.unacked) + i \in 1 .. Len(Queued(p))
              /\ Queued(p)[Len(p.unacked) + i] = p.unsent[i]
BY Concatenated DEF Queued

-----------------------------------------------------------------------------
(* Chains of segments.                                                     *)

LEMMA EndsGrow ==
  ASSUME NEW q, Chain(q), NEW i \in 1 .. Len(q), NEW j \in 1 .. Len(q), i <= j
  PROVE  EndOf(q[i]) <= EndOf(q[j]) /\ q[i].seq <= q[j].seq
<1>1. /\ EndOf(q[i]) \in Nat /\ EndOf(q[j]) \in Nat /\ q[i].seq \in Nat /\ q[j].seq \in Nat
  BY Elements DEF Chain
<1>2. EndOf(q[i]) > q[i].seq /\ EndOf(q[j]) > q[j].seq  BY DEF Chain
<1>3. CASE i = j  BY <1>1, <1>3
<1>4. CASE i # j
  <2>1. i < j  BY <1>4
  <2>2. EndOf(q[i]) <= q[j].seq  BY <2>1 DEF Chain
  <2> QED  BY <1>1, <1>2, <2>2
<1> QED  BY <1>3, <1>4

LEMMA ChainRest ==
  ASSUME NEW q, Chain(q), NEW k \in 0 .. Len(q)
  PROVE  Chain(Rest(q, k))
<1> DEFINE r == Rest(q, k)
<1>0. q \in Seq(Segment) /\ Len(q) \in Nat  BY Elements DEF Chain
<1>1. /\ r \in Seq(Segment) /\ Len(r) = Len(q) - k
      /\ \A i \in 1 .. Len(q) - k : k + i \in 1 .. Len(q) /\ r[i] = q[k + i]
  BY <1>0, RestIs
<1> HIDE DEF r
<1>2. \A i \in 1 .. Len(r) : r[i].pos = r[i].seq /\ EndOf(r[i]) > r[i].seq
  BY <1>1 DEF Chain
<1>3. ASSUME NEW i \in 1 .. Len(r), NEW j \in 1 .. Len(r), i < j
      PROVE  EndOf(r[i]) <= r[j].seq
  <2>1. k + i \in 1 .. Len(q) /\ k + j \in 1 .. Len(q) /\ k + i < k + j
    BY <1>0, <1>1, <1>3
  <2> QED  BY <1>1, <2>1 DEF Chain
<1>4. ASSUME NEW i \in 1 .. Len(r), i < Len(r) PROVE EndOf(r[i]) = r[i + 1].seq
  <2>1. /\ k + i \in 1 .. Len(q) /\ k + i < Len(q) /\ i + 1 \in 1 .. Len(q) - k
        /\ k + (i + 1) = (k + i) + 1
    BY <1>0, <1>1, <1>4
  <2>2. r[i] = q[k + i] /\ r[i + 1] = q[(k + i) + 1]  BY <1>1, <2>1
  <2>3. EndOf(q[k + i]) = q[(k + i) + 1].seq  BY <2>1 DEF Chain
  <2> QED  BY <2>2, <2>3
<1>5. Chain(r)  BY <1>1, <1>2, <1>3, <1>4 DEF Chain
<1> QED  BY <1>5 DEF r

LEMMA ChainConcat ==
  ASSUME NEW a, Chain(a), NEW b, Chain(b),
         Len(a) > 0 /\ Len(b) > 0 => EndOf(a[Len(a)]) = b[1].seq
  PROVE  Chain(a \o b)
<1> DEFINE c == a \o b
           m == Len(a)
           n == Len(b)
<1>0. a \in Seq(Segment) /\ b \in Seq(Segment) /\ m \in Nat /\ n \in Nat
  BY Elements DEF Chain
<1>1. /\ c \in Seq(Segment) /\ Len(c) = m + n
      /\ \A i \in 1 .. m : c[i] = a[i]
      /\ \A i \in 1 .. n : c[m + i] = b[i]
  BY <1>0, Concatenated
<1>2. \A i \in 1 .. m + n : i \in 1 .. m \/ (i > m /\ i - m \in 1 .. n /\ m + (i - m) = i)
  BY <1>0
<1>3. \A i \in 1 .. m + n : i \in 1 .. m \/ (i > m /\ i - m \in 1 .. n /\ c[i] = b[i - m])
  BY <1>1, <1>2
<1>e. /\ \A i \in 1 .. m : EndOf(a[i]) \in Nat /\ a[i].seq \in Nat
      /\ \A i \in 1 .. n : EndOf(b[i]) \in Nat /\ b[i].seq \in Nat
  BY <1>0, Elements
<1>f. /\ \A i \in 1 .. m : a[i].pos = a[i].seq /\ EndOf(a[i]) > a[i].seq
      /\ \A i, j \in 1 .. m : i < j => EndOf(a[i]) <= a[j].seq
      /\ \A i \in 1 .. m : i < m => EndOf(a[i]) = a[i + 1].seq
      /\ \A i, j \in 1 .. m : i <= j => EndOf(a[i]) <= EndOf(a[j])
  BY EndsGrow DEF Chain
<1>g. /\ \A i \in 1 .. n : b[i].pos = b[i].seq /\ EndOf(b[i]) > b[i].seq
      /\ \A i, j \in 1 .. n : i < j => EndOf(b[i]) <= b[j].seq
      /\ \A i \in 1 .. n : i < n => EndOf(b[i]) = b[i + 1].seq
      /\ \A i, j \in 1 .. n : i <= j => b[i].seq <= b[j].seq
  BY EndsGrow DEF Chain
<1>h. m > 0 /\ n > 0 => EndOf(a[m]) = b[1].seq  OBVIOUS
<1> HIDE DEF c, m, n
<1>4. ASSUME NEW i \in 1 .. Len(c) PROVE c[i].pos = c[i].seq /\ EndOf(c[i]) > c[i].seq
  <2>1. CASE i \in 1 .. m  BY <2>1, <1>1, <1>f
  <2>2. CASE i > m
    <3>1. i - m \in 1 .. n /\ c[i] = b[i - m]
      <4>1. i \in 1 .. m + n /\ i \notin 1 .. m  BY <2>2, <1>0, <1>1
      <4> QED  BY <4>1, <1>3
    <3> QED  BY <3>1, <1>g
  <2> QED  BY <2>1, <2>2, <1>0, <1>1, <1>3
<1>5. ASSUME NEW i \in 1 .. Len(c), NEW j \in 1 .. Len(c), i < j
      PROVE  EndOf(c[i]) <= c[j].seq
  <2>1. CASE i \in 1 .. m /\ j \in 1 .. m  BY <2>1, <1>1, <1>5, <1>f
  <2>2. CASE i \in 1 .. m /\ j > m
    <3>1. j - m \in 1 .. n /\ c[j] = b[j - m] /\ c[i] = a[i]  BY <2>2, <1>0, <1>1, <1>3
    <3>2. m \in 1 .. m /\ i <= m /\ 1 \in 1 .. n /\ 1 <= j - m /\ m > 0 /\ n > 0
      BY <2>2, <3>1, <1>0
    <3>3. EndOf(a[i]) <= EndOf(a[m])  BY <2>2, <3>2, <1>f
    <3>4. b[1].seq <= b[j - m].seq  BY <3>1, <3>2, <1>g
    <3>5. EndOf(a[m]) = b[1].seq  BY <3>2, <1>h
    <3>6. EndOf(a[i]) \in Nat /\ EndOf(a[m]) \in Nat /\ b[j - m].seq \in Nat
      BY <2>2, <3>1, <3>2, <1>e
    <3>7. EndOf(a[i]) <= b[j - m].seq  BY <3>3, <3>4, <3>5, <3>6
    <3> QED  BY <3>1, <3>7
  <2>3. CASE i > m /\ j > m
    <3>1. i - m \in 1 .. n /\ c[i] = b[i - m] /\ j - m \in 1 .. n /\ c[j] = b[j - m]
      BY <2>3, <1>0, <1>1, <1>3
    <3>2. i - m < j - m  BY <1>5, <1>0, <1>1
    <3> QED  BY <3>1, <3>2, <1>g
  <2> QED  BY <2>1, <2>2, <2>3, <1>0, <1>1, <1>3, <1>5
<1>6. ASSUME NEW i \in 1 .. Len(c), i < Len(c) PROVE EndOf(c[i]) = c[i + 1].seq
  <2>1. CASE i < m
    <3>1. i \in 1 .. m /\ i + 1 \in 1 .. m  BY <2>1, <1>0
    <3> QED  BY <2>1, <3>1, <1>1, <1>f
  <2>2. CASE i = m
    <3>1. m \in 1 .. m /\ 1 \in 1 .. n /\ m > 0 /\ n > 0  BY <2>2, <1>0, <1>1, <1>6
    <3>2. c[m] = a[m] /\ c[m + 1] = b[1]  BY <3>1, <1>1
    <3> QED  BY <2>2, <3>1, <3>2, <1>h
  <2>3. CASE i > m
    <3>1. /\ i - m \in 1 .. n /\ i - m < n /\ (i - m) + 1 \in 1 .. n
          /\ m + (i - m) = i /\ m + ((i - m) + 1) = i + 1
      BY <2>3, <1>0, <1>1, <1>6
    <3>2. c[i] = b[i - m] /\ c[i + 1] = b[(i - m) + 1]  BY <3>1, <1>1
    <3> QED  BY <3>1, <3>2, <1>g
  <2> QED  BY <2>1, <2>2, <2>3, <1>0
<1>7. Chain(c)  BY <1>1, <1>4, <1>5, <1>6 DEF Chain
<1> QED  BY <1>7 DEF c

-----------------------------------------------------------------------------
(* BufsOf is the sum its recursive definition says.                        *)

SumUpTo(g, q, n) == \A i \in 0 .. n : g[i] = IF i = 0 THEN 0 ELSE g[i - 1] + q[i].bufs

Counted(q, n) == \A i \in 1 .. n : q[i].bufs \in Nat

LEMMA SumExists ==
  ASSUME NEW q, NEW k \in Nat, Counted(q, k)
  PROVE  \E g \in [0 .. k -> Nat] : SumUpTo(g, q, k)
<1> DEFINE S == {n \in Nat : n <= k => \E g \in [0 .. n -> Nat] : SumUpTo(g, q, n)}
<1>1. 0 \in S
  <2> DEFINE g == [i \in 0 .. 0 |-> 0]
  <2>1. g \in [0 .. 0 -> Nat] /\ SumUpTo(g, q, 0)  BY DEF SumUpTo
  <2> HIDE DEF g
  <2> QED  BY <2>1
<1>2. ASSUME NEW n \in Nat, n \in S PROVE n + 1 \in S
  <2> SUFFICES ASSUME n + 1 <= k
               PROVE  \E g \in [0 .. n + 1 -> Nat] : SumUpTo(g, q, n + 1)
    OBVIOUS
  <2>1. PICK g \in [0 .. n -> Nat] : SumUpTo(g, q, n)  BY <1>2
  <2> DEFINE h == [i \in 0 .. n + 1 |-> IF i <= n THEN g[i] ELSE g[n] + q[n + 1].bufs]
  <2>2. q[n + 1].bufs \in Nat  BY DEF Counted
  <2>3. h \in [0 .. n + 1 -> Nat]  BY <2>2
  <2>4. SumUpTo(h, q, n + 1)
    <3> SUFFICES ASSUME NEW i \in 0 .. n + 1
                 PROVE  h[i] = IF i = 0 THEN 0 ELSE h[i - 1] + q[i].bufs
      BY DEF SumUpTo
    <3>1. CASE i <= n  BY <3>1, <2>1 DEF SumUpTo
    <3>2. CASE i = n + 1  BY <3>2
    <3> QED  BY <3>1, <3>2
  <2> HIDE DEF h
  <2> QED  BY <2>3, <2>4
<1> HIDE DEF S
<1>3. Nat \subseteq S  BY <1>1, <1>2, Induction
<1>4. k \in S  BY <1>3
<1> QED  BY <1>4 DEF S

LEMMA SumIsFunction ==
  ASSUME NEW q, NEW k \in Nat, Counted(q, k)
  PROVE  \E g \in [0 .. k -> Nat] : SumUpTo(g, q, k) /\ BufsOf(q, k) = g[k]
<1> DEFINE D(g) == [i \in 0 .. k |-> IF i = 0 THEN 0 ELSE g[i - 1] + q[i].bufs]
           f == CHOOSE g : g = D(g)
<1>1. PICK g \in [0 .. k -> Nat] : SumUpTo(g, q, k)  BY SumExists
<1>2. g = D(g)  BY <1>1 DEF SumUpTo
<1>3. f = D(f)  BY <1>2
<1>4. BufsOf(q, k) = f[k]  BY DEF BufsOf
<1>5. SumUpTo(f, q, k)
  <2> HIDE DEF f, D
  <2>1. \A i \in 0 .. k : f[i] = D(f)[i]  BY <1>3
  <2> QED  BY <2>1 DEF D, SumUpTo
<1>6. f \in [0 .. k -> Nat]
  <2> DEFINE T == {n \in Nat : n \in 0 .. k => f[n] \in Nat}
  <2> HIDE DEF f, D
  <2>1. 0 \in T  BY <1>5 DEF SumUpTo
  <2>2. ASSUME NEW n \in Nat, n \in T PROVE n + 1 \in T
    <3> SUFFICES ASSUME n + 1 \in 0 .. k PROVE f[n + 1] \in Nat
      OBVIOUS
    <3>1. f[n + 1] = f[n] + q[n + 1].bufs  BY <1>5 DEF SumUpTo
    <3>2. f[n] \in Nat /\ q[n + 1].bufs \in Nat  BY <2>2 DEF Counted
    <3> QED  BY <3>1, <3>2
  <2> HIDE DEF T
  <2>3. Nat \subseteq T  BY <2>1, <2>2, Induction
  <2>4. \A n \in 0 .. k : f[n] \in Nat  BY <2>3 DEF T
  <2>5. D(f) = [i \in 0 .. k |-> D(f)[i]]  BY DEF D
  <2> QED  BY <1>3, <2>4, <2>5
<1> HIDE DEF f
<1> QED  BY <1>4, <1>5, <1>6

LEMMA SumNat ==
  ASSUME NEW q, NEW k \in Nat, Counted(q, k)
  PROVE  BufsOf(q, k) \in Nat
<1>1. PICK g \in [0 .. k -> Nat] : BufsOf(q, k) = g[k]  BY SumIsFunction
<1>2. k \in 0 .. k  OBVIOUS
<1>3. g[k] \in Nat  BY <1>2
<1> QED  BY <1>1, <1>3

LEMMA SeqCounted ==
  ASSUME NEW q \in Seq(Segment)
  PROVE  Counted(q, Len(q))
BY Elements DEF Counted

\* Two sequences whose segments have as many pbufs have the same sum.
LEMMA SumSame ==
  ASSUME NEW q, NEW r, NEW k \in Nat, Counted(q, k),
         \A i \in 1 .. k : r[i].bufs = q[i].bufs
  PROVE  BufsOf(r, k) = BufsOf(q, k)
<1>1. PICK g \in [0 .. k -> Nat] : SumUpTo(g, q, k) /\ BufsOf(q, k) = g[k]
  BY SumIsFunction
<1>c. Counted(r, k)  BY DEF Counted
<1>2. PICK h \in [0 .. k -> Nat] : SumUpTo(h, r, k) /\ BufsOf(r, k) = h[k]
  BY <1>c, SumIsFunction
<1> DEFINE T == {n \in Nat : n \in 0 .. k => h[n] = g[n]}
<1>3. 0 \in T  BY <1>1, <1>2 DEF SumUpTo
<1>4. ASSUME NEW n \in Nat, n \in T PROVE n + 1 \in T
  BY <1>1, <1>2, <1>4 DEF SumUpTo
<1> HIDE DEF T
<1>5. Nat \subseteq T  BY <1>3, <1>4, Induction
<1>6. k \in T  BY <1>5
<1> QED  BY <1>1, <1>2, <1>6 DEF T

\* The sum up to k and over the m that follow.
LEMMA SumSplits ==
  ASSUME NEW q, NEW r, NEW k \in Nat, NEW m \in Nat,
         Counted(q, k + m),
         \A i \in 1 .. m : r[i].bufs = q[k + i].bufs
  PROVE  BufsOf(q, k + m) = BufsOf(q, k) + BufsOf(r, m)
<1>c. k + m \in Nat /\ Counted(q, k)  BY DEF Counted
<1>1. PICK g \in [0 .. k + m -> Nat] : SumUpTo(g, q, k + m) /\ BufsOf(q, k + m) = g[k + m]
  BY <1>c, SumIsFunction, Zenon
<1>2. PICK h \in [0 .. k -> Nat] : SumUpTo(h, q, k) /\ BufsOf(q, k) = h[k]
  BY <1>c, SumIsFunction
<1>3. Counted(r, m)
  <2> SUFFICES ASSUME NEW i \in 1 .. m PROVE r[i].bufs \in Nat  BY DEF Counted
  <2>1. k + i \in 1 .. k + m  OBVIOUS
  <2>2. q[k + i].bufs \in Nat  BY <2>1 DEF Counted
  <2> QED  BY <2>2
<1>4. PICK f \in [0 .. m -> Nat] : SumUpTo(f, r, m) /\ BufsOf(r, m) = f[m]
  BY <1>3, SumIsFunction
<1>5. g[k] = h[k]
  <2> DEFINE T == {n \in Nat : n \in 0 .. k => g[n] = h[n]}
  <2>1. 0 \in T
    <3>1. 0 \in 0 .. k /\ 0 \in 0 .. k + m  OBVIOUS
    <3> QED  BY <3>1, <1>1, <1>2 DEF SumUpTo
  <2>2. ASSUME NEW n \in Nat, n \in T PROVE n + 1 \in T
    BY <1>1, <1>2, <2>2 DEF SumUpTo
  <2> HIDE DEF T
  <2>3. Nat \subseteq T  BY <2>1, <2>2, Induction
  <2>4. k \in T  BY <2>3
  <2> QED  BY <2>4 DEF T
<1>6. g[k + m] = h[k] + f[m]
  <2> DEFINE T == {n \in Nat : n \in 0 .. m => g[k + n] = h[k] + f[n]}
  <2>1. 0 \in T
    <3>1. k + 0 = k /\ f[0] = 0 /\ h[k] \in Nat  BY <1>4 DEF SumUpTo
    <3> QED  BY <3>1, <1>5
  <2>2. ASSUME NEW n \in Nat, n \in T PROVE n + 1 \in T
    <3> SUFFICES ASSUME n + 1 \in 0 .. m PROVE g[k + (n + 1)] = h[k] + f[n + 1]
      OBVIOUS
    <3>0. /\ k + (n + 1) \in 0 .. k + m /\ k + (n + 1) # 0 /\ (k + (n + 1)) - 1 = k + n
          /\ n + 1 \in 1 .. m /\ n + 1 # 0 /\ (n + 1) - 1 = n /\ n \in 0 .. m
      OBVIOUS
    <3>1. g[k + (n + 1)] = g[k + n] + q[k + (n + 1)].bufs  BY <1>1, <3>0 DEF SumUpTo
    <3>2. f[n + 1] = f[n] + r[n + 1].bufs  BY <1>4, <3>0 DEF SumUpTo
    <3>3. g[k + n] = h[k] + f[n]  BY <2>2, <3>0
    <3>4. r[n + 1].bufs = q[k + (n + 1)].bufs /\ r[n + 1].bufs \in Nat  BY <1>3, <3>0 DEF Counted
    <3>5. h[k] \in Nat /\ f[n] \in Nat  BY <3>0
    <3>6. PICK u \in Nat : u = r[n + 1].bufs  BY <3>4
    <3>7. g[k + (n + 1)] = (h[k] + f[n]) + u  BY <3>1, <3>3, <3>4, <3>6
    <3>8. h[k] + f[n + 1] = (h[k] + f[n]) + u
      <4>1. PICK x \in Nat : x = h[k]  BY <3>5
      <4>2. PICK y \in Nat : y = f[n]  BY <3>5
      <4>3. f[n + 1] = y + u  BY <3>2, <3>6, <4>2
      <4>4. x + (y + u) = (x + y) + u  OBVIOUS
      <4> QED  BY <4>1, <4>2, <4>3, <4>4
    <3> QED  BY <3>7, <3>8
  <2> HIDE DEF T
  <2>3. Nat \subseteq T  BY <2>1, <2>2, Induction
  <2>4. m \in T  BY <2>3
  <2> QED  BY <2>4 DEF T
<1> QED  BY <1>1, <1>2, <1>4, <1>6

\* The same, with the condition on the two sequences as one formula.
Follows(r, q, k, m) == \A i \in 1 .. m : r[i].bufs = q[k + i].bufs

LEMMA SumFollows ==
  ASSUME NEW q, NEW r, NEW k \in Nat, NEW m \in Nat, Counted(q, k + m), Follows(r, q, k, m)
  PROVE  BufsOf(q, k + m) = BufsOf(q, k) + BufsOf(r, m)
BY SumSplits DEF Follows

LEMMA SumOfEqual ==
  ASSUME NEW q, NEW k \in Nat, NEW b \in Nat, \A i \in 1 .. k : q[i].bufs = b
  PROVE  BufsOf(q, k) = k * b
<1>c. Counted(q, k)  BY DEF Counted
<1>1. PICK g \in [0 .. k -> Nat] : SumUpTo(g, q, k) /\ BufsOf(q, k) = g[k]
  BY <1>c, SumIsFunction
<1> DEFINE T == {n \in Nat : n \in 0 .. k => g[n] = n * b}
<1>2. 0 \in T  BY <1>1 DEF SumUpTo
<1>3. ASSUME NEW n \in Nat, n \in T PROVE n + 1 \in T
  <2> SUFFICES ASSUME n + 1 \in 0 .. k PROVE g[n + 1] = (n + 1) * b
    OBVIOUS
  <2>1. g[n + 1] = g[n] + q[n + 1].bufs  BY <1>1 DEF SumUpTo
  <2>2. g[n] = n * b  BY <1>3
  <2>3. q[n + 1].bufs = b  OBVIOUS
  <2>4. (n + 1) * b = n * b + b  OBVIOUS
  <2> QED  BY <2>1, <2>2, <2>3, <2>4
<1> HIDE DEF T
<1>4. Nat \subseteq T  BY <1>2, <1>3, Induction
<1>5. k \in T  BY <1>4
<1> QED  BY <1>1, <1>5 DEF T

-----------------------------------------------------------------------------
(* tcp_enqueue cuts what it is given into a chain.                         *)

LEMMA Sizes ==
  /\ Mss \in Nat /\ Mss > 0 /\ Uint8 \in Nat /\ Uint8 > 0
  /\ SndBuf \in Nat /\ SndQueueLen \in Nat /\ SndQueueLen <= 255
  /\ Bytes \in Nat /\ Losses \in Nat
<1>1. /\ Mss \in Nat \ {0} /\ Uint8 \in Nat \ {0} /\ SndBuf \in 1 .. Uint16 - 1
      /\ SndQueueLen \in 1 .. 255 /\ Bytes \in Nat /\ Losses \in Nat
  BY SendAssumption
<1> QED  BY <1>1

LEMMA Cuts ==
  ASSUME NEW len \in Nat, len # 0
  PROVE  /\ SegmentCount(len) \in Nat \ {0}
         /\ (SegmentCount(len) - 1) * Mss < len
         /\ len <= SegmentCount(len) * Mss
<1>1. Mss \in Nat /\ Mss > 0  BY Sizes
<1> DEFINE a == len + Mss - 1
           n == a \div Mss
<1>2. a \in Nat /\ a >= Mss  BY <1>1
<1> HIDE DEF a
<1>3. n \in Int /\ n * Mss <= a /\ a < n * Mss + Mss  BY <1>1, <1>2, Z3
<1>4. SegmentCount(len) = n  BY DEF SegmentCount, a
<1> HIDE DEF n
<1>5. (n - 1) * Mss = n * Mss - Mss  BY <1>1, <1>3
<1>6. n > 0
  <2> SUFFICES ASSUME n <= 0 PROVE FALSE  BY <1>3
  <2>1. n * Mss <= 0  BY <1>1, <1>3, Z3
  <2> QED  BY <2>1, <1>1, <1>2, <1>3
<1>7. n * Mss \in Int  BY <1>1, <1>3
<1>8. (n - 1) * Mss < len /\ len <= n * Mss  BY <1>1, <1>3, <1>5, <1>7 DEF a
<1> QED  BY <1>3, <1>4, <1>6, <1>8

\* Where the i-th segment starts.
Offset(i) == (i - 1) * Mss

LEMMA Offsets ==
  /\ Offset(1) = 0
  /\ \A i \in Nat : i # 0 => Offset(i) \in Nat /\ Offset(i + 1) = Offset(i) + Mss
  /\ \A i, j \in Nat : i # 0 /\ i < j => Offset(i) + Mss <= Offset(j)
<1>1. Mss \in Nat /\ Mss > 0  BY Sizes
<1>2. Offset(1) = 0  BY <1>1 DEF Offset
<1>3. ASSUME NEW i \in Nat, i # 0 PROVE Offset(i) \in Nat /\ Offset(i + 1) = Offset(i) + Mss
  <2>1. i - 1 \in Nat  BY <1>3
  <2>2. (i - 1) * Mss \in Nat  BY <2>1, <1>1
  <2>3. ((i + 1) - 1) * Mss = (i - 1) * Mss + Mss  BY <1>1
  <2> QED  BY <2>2, <2>3 DEF Offset
<1>4. ASSUME NEW i \in Nat, NEW j \in Nat, i # 0, i < j PROVE Offset(i) + Mss <= Offset(j)
  <2>1. (i - 1) * Mss + Mss = i * Mss  BY <1>1
  <2>2. PICK d \in Nat : j - 1 = i + d  BY <1>4
  <2>3. (i + d) * Mss = i * Mss + d * Mss /\ d * Mss \in Nat /\ i * Mss \in Nat  BY <1>1
  <2> QED  BY <2>1, <2>2, <2>3 DEF Offset
<1> QED  BY <1>2, <1>3, <1>4

\* The stream from b up to b2, in n segments.
Cut(q, n, b, b2, bufs, fin) ==
  /\ Chain(q) /\ n \in Nat \ {0} /\ Len(q) = n /\ q[1].seq = b /\ EndOf(q[n]) = b2
  /\ \A i \in 1 .. n : q[i].bufs = bufs /\ q[i].fin = fin /\ q[i].seq >= b

LEMMA SegmentsAre ==
  ASSUME NEW p, p.snd_lbb \in Nat, written \in Nat, p.snd_lbb = written + 1,
         NEW len \in Nat, NEW fin \in BOOLEAN, NEW bufs \in Nat, fin <=> len = 0
  PROVE  Cut(Segments(p, len, fin, bufs), SegmentCount(len), p.snd_lbb,
             p.snd_lbb + len + (IF fin THEN 1 ELSE 0), bufs, fin)
<1> DEFINE q == Segments(p, len, fin, bufs)
           n == SegmentCount(len)
           b == p.snd_lbb
           L(i) == Smaller(Mss, len - Offset(i))
<1>0. Mss \in Nat /\ Mss > 0  BY Sizes
<1>1. n \in Nat \ {0}  BY Cuts DEF SegmentCount
<1>2. \A i \in 1 .. n : q[i] = [seq |-> b + Offset(i), len |-> L(i),
                               pos |-> b + Offset(i), fin |-> fin, bufs |-> bufs]
  BY DEF Segments, Offset
<1>3. DOMAIN q = 1 .. n  BY DEF Segments
<1>s. q = [i \in 1 .. n |-> q[i]]  BY DEF Segments
<1> HIDE DEF q, n, b, L
<1>4. \A i \in 1 .. n : Offset(i) \in Nat  BY <1>1, Offsets
<1>5. /\ \A i \in 1 .. n : L(i) \in Nat
      /\ \A i \in 1 .. n : i < n => L(i) = Mss
      /\ Offset(n) + L(n) = len
      /\ \A i \in 1 .. n : ~fin => L(i) > 0
  <2>1. CASE len = 0
    <3>1. n = 1  BY <2>1 DEF n, SegmentCount
    <3>2. Offset(1) = 0 /\ L(1) = 0  BY <2>1, <1>0, Offsets DEF L, Smaller
    <3> QED  BY <2>1, <3>1, <3>2
  <2>2. CASE len # 0
    <3>1. Offset(n) < len /\ len <= Offset(n) + Mss
      <4>1. (n - 1) * Mss < len /\ len <= n * Mss  BY <2>2, Cuts DEF n
      <4>2. n * Mss = (n - 1) * Mss + Mss  BY <1>0, <1>1
      <4> QED  BY <4>1, <4>2 DEF Offset
    <3>2. ASSUME NEW i \in 1 .. n, i < n PROVE Offset(i) + Mss < len
      <4>1. i \in Nat /\ i # 0 /\ n \in Nat  BY <1>1
      <4>2. Offset(i) + Mss <= Offset(n)  BY <3>2, <4>1, Offsets
      <4>3. Offset(i) \in Nat /\ Offset(n) \in Nat  BY <1>1, <1>4
      <4> QED  BY <3>1, <4>2, <4>3, <1>0
    <3>3. ASSUME NEW i \in 1 .. n, i < n PROVE L(i) = Mss
      <4>1. Offset(i) \in Nat  BY <1>4
      <4> QED  BY <3>2, <3>3, <4>1, <1>0 DEF L, Smaller
    <3>4. L(n) = len - Offset(n) /\ L(n) \in Nat /\ L(n) > 0
      <4>1. Offset(n) \in Nat  BY <1>1, <1>4
      <4> QED  BY <3>1, <4>1, <1>0 DEF L, Smaller
    <3>5. ASSUME NEW i \in 1 .. n PROVE L(i) \in Nat /\ L(i) > 0
      <4>1. CASE i = n  BY <4>1, <3>4
      <4>2. CASE i # n
        <5>1. i < n  BY <4>2, <1>1
        <5> QED  BY <5>1, <3>3, <1>0
      <4> QED  BY <4>1, <4>2
    <3>6. Offset(n) + L(n) = len
      <4>1. Offset(n) \in Nat  BY <1>1, <1>4
      <4> QED  BY <3>4, <4>1
    <3> QED  BY <3>3, <3>5, <3>6
  <2> QED  BY <2>1, <2>2
<1>6. b \in Nat  BY DEF b
<1>7. ASSUME NEW i \in 1 .. n
      PROVE  /\ q[i] \in Segment /\ q[i].seq = b + Offset(i) /\ q[i].pos = q[i].seq
             /\ q[i].bufs = bufs /\ q[i].fin = fin /\ q[i].seq >= b
             /\ EndOf(q[i]) = b + Offset(i) + L(i) + (IF fin THEN 1 ELSE 0)
             /\ EndOf(q[i]) > q[i].seq
  <2>1. Offset(i) \in Nat /\ L(i) \in Nat /\ (~fin => L(i) > 0)  BY <1>4, <1>5
  <2>2. PICK o \in Nat : o = Offset(i)  BY <2>1
  <2>3. PICK l \in Nat : l = L(i)  BY <2>1
  <2>4. q[i] = [seq |-> b + o, len |-> l, pos |-> b + o, fin |-> fin, bufs |-> bufs]
    BY <1>2, <2>2, <2>3
  <2>5. q[i] \in Segment  BY <2>4, <1>6 DEF Segment
  <2>6. /\ q[i].seq = b + o /\ q[i].pos = b + o /\ q[i].len = l /\ q[i].fin = fin
        /\ q[i].bufs = bufs
    BY <2>4
  <2>7. EndOf(q[i]) = b + o + l + (IF fin THEN 1 ELSE 0)  BY <2>6, <1>6 DEF EndOf, TCPLEN
  <2>8. EndOf(q[i]) > q[i].seq  BY <2>1, <2>3, <2>6, <2>7, <1>6
  <2> QED  BY <2>2, <2>3, <2>5, <2>6, <2>7, <2>8, <1>6
<1>8. q \in Seq(Segment) /\ Len(q) = n
  <2>1. q \in [1 .. n -> Segment]  BY <1>s, <1>7
  <2>2. q \in Seq(Segment)  BY <2>1, <1>1, IsASeq
  <2> QED  BY <2>2, <1>1, <1>3, LenProperties
<1>9. ASSUME NEW i \in 1 .. n, NEW j \in 1 .. n, i < j
      PROVE  EndOf(q[i]) <= q[j].seq /\ (j = i + 1 => EndOf(q[i]) = q[j].seq)
  <2>1. i < n /\ L(i) = Mss  BY <1>1, <1>5, <1>9
  <2>2. ~fin
    <3>1. n # 1  BY <1>1, <1>9
    <3> QED  BY <3>1 DEF n, SegmentCount
  <2>3. EndOf(q[i]) = b + Offset(i) + Mss  BY <2>1, <2>2, <1>0, <1>4, <1>6, <1>7
  <2>4. q[j].seq = b + Offset(j)  BY <1>7
  <2>5. i \in Nat /\ j \in Nat /\ i # 0  OBVIOUS
  <2>6. Offset(i) + Mss <= Offset(j) /\ (j = i + 1 => Offset(j) = Offset(i) + Mss)
    BY <2>5, <1>9, Offsets
  <2>7. Offset(i) \in Nat /\ Offset(j) \in Nat  BY <1>4
  <2> QED  BY <2>3, <2>4, <2>6, <2>7, <1>0, <1>6
<1>10. Chain(q)
  <2>1. \A i \in 1 .. n : q[i].pos = q[i].seq /\ EndOf(q[i]) > q[i].seq  BY <1>7
  <2>2. ASSUME NEW i \in 1 .. n, i < n PROVE EndOf(q[i]) = q[i + 1].seq
    <3>1. i + 1 \in 1 .. n /\ i < i + 1  BY <2>2, <1>1
    <3> QED  BY <3>1, <1>9
  <2> QED  BY <2>1, <2>2, <1>8, <1>9 DEF Chain
<1>11. q[1].seq = b
  <2>1. 1 \in 1 .. n  BY <1>1
  <2> QED  BY <2>1, <1>6, <1>7, Offsets
<1>12. EndOf(q[n]) = b + len + (IF fin THEN 1 ELSE 0)
  <2>1. n \in 1 .. n  BY <1>1
  <2>2. EndOf(q[n]) = b + Offset(n) + L(n) + (IF fin THEN 1 ELSE 0)  BY <2>1, <1>7
  <2>3. Offset(n) \in Nat /\ L(n) \in Nat /\ Offset(n) + L(n) = len  BY <2>1, <1>4, <1>5
  <2> QED  BY <2>2, <2>3, <1>6
<1>13. Cut(q, n, b, b + len + (IF fin THEN 1 ELSE 0), bufs, fin)
  BY <1>1, <1>7, <1>8, <1>10, <1>11, <1>12 DEF Cut
<1> QED  BY <1>13 DEF q, n, b

-----------------------------------------------------------------------------
(* tcp_enqueue puts the chain behind what is queued, the first segment     *)
(* perhaps into the last one of the queue.                                 *)

\* j is q with the bytes and the pbufs of s added to the last segment.
Lengthened(j, q, s) ==
  /\ j \in Seq(Segment) /\ Len(j) = Len(q) /\ Len(q) > 0
  /\ \A i \in 1 .. Len(q) : i < Len(q) => j[i] = q[i]
  /\ \A i \in 1 .. Len(q) : /\ j[i].seq = q[i].seq /\ j[i].pos = q[i].pos
                            /\ j[i].fin = q[i].fin
  /\ EndOf(j[Len(q)]) = EndOf(q[Len(q)]) + s.len
  /\ j[Len(q)].bufs = q[Len(q)].bufs + s.bufs

LEMMA JoinIs ==
  ASSUME NEW u \in Seq(Segment), NEW s \in Segment, Len(u) > 0
  PROVE  Lengthened(Join(u, s), u, s)
<1>0. PICK n \in Nat : n = Len(u) /\ n \in 1 .. n /\ u \in [1 .. n -> Segment]
  <2>1. Len(u) \in Nat  BY Elements
  <2>2. u \in [1 .. Len(u) -> Segment]  BY LenProperties, Elements
  <2>3. Len(u) \in 1 .. Len(u)  BY <2>1
  <2> QED  BY <2>1, <2>2, <2>3
<1>1. s.len \in Nat /\ s.bufs \in Nat  BY SegmentFields
<1>2. /\ u[n].seq \in Nat /\ u[n].len \in Nat /\ u[n].pos \in Nat /\ u[n].fin \in BOOLEAN
      /\ u[n].bufs \in Nat /\ u[n] \in Segment
  BY <1>0, Elements
<1> DEFINE t == [[u[n] EXCEPT !.len = u[n].len + s.len] EXCEPT !.bufs = u[n].bufs + s.bufs]
           j == [u EXCEPT ![n] = t]
<1>3. Join(u, s) = j
  <2>1. Join(u, s) = [u EXCEPT ![n].len = @ + s.len, ![n].bufs = @ + s.bufs]
    BY <1>0 DEF Join
  <2> QED  BY <2>1, <1>0, <1>2 DEF Segment
<1>4. /\ t.seq = u[n].seq /\ t.pos = u[n].pos /\ t.fin = u[n].fin
      /\ t.len = u[n].len + s.len /\ t.bufs = u[n].bufs + s.bufs
  BY <1>1, <1>2 DEF Segment
<1>t. t \in Segment
  <2>1. ASSUME NEW r \in Segment, NEW x \in Nat PROVE [r EXCEPT !.len = x] \in Segment
    BY DEF Segment
  <2>2. ASSUME NEW r \in Segment, NEW x \in Nat PROVE [r EXCEPT !.bufs = x] \in Segment
    BY DEF Segment
  <2>3. [u[n] EXCEPT !.len = u[n].len + s.len] \in Segment
    <3>1. u[n].len + s.len \in Nat  BY <1>1, <1>2
    <3> QED  BY <3>1, <2>1, <1>2
  <2>4. u[n].bufs + s.bufs \in Nat  BY <1>1, <1>2
  <2> QED  BY <2>2, <2>3, <2>4
<1> HIDE DEF t
<1>5. EndOf(t) = EndOf(u[n]) + s.len
  BY <1>1, <1>2, <1>4 DEF EndOf, TCPLEN
<1>6. j \in [1 .. n -> Segment] /\ j[n] = t /\ \A i \in 1 .. n : i # n => j[i] = u[i]
  BY <1>0, <1>t
<1>7. j \in Seq(Segment) /\ Len(j) = n
  <2>1. j \in Seq(Segment)  BY <1>6, IsASeq
  <2> QED  BY <2>1, <1>6, LenProperties
<1> HIDE DEF j
<1>8. Lengthened(j, u, s)
  <2>1. \A i \in 1 .. n : i < n => j[i] = u[i]  BY <1>6
  <2>2. \A i \in 1 .. n : j[i].seq = u[i].seq /\ j[i].pos = u[i].pos /\ j[i].fin = u[i].fin
    BY <1>4, <1>6
  <2>3. EndOf(j[n]) = EndOf(u[n]) + s.len /\ j[n].bufs = u[n].bufs + s.bufs
    BY <1>4, <1>5, <1>6
  <2> QED  BY <1>0, <1>7, <2>1, <2>2, <2>3 DEF Lengthened
<1> QED  BY <1>3, <1>8

LEMMA LengthenedBehind ==
  ASSUME NEW a \in Seq(Segment), NEW u \in Seq(Segment), NEW j, NEW s \in Segment,
         Lengthened(j, u, s)
  PROVE  Lengthened(a \o j, a \o u, s)
<1>0. PICK m \in Nat : m = Len(a)  BY Elements
<1>1. PICK n \in Nat : n = Len(u) /\ n > 0 /\ n \in 1 .. n
  BY Elements DEF Lengthened
<1>2. /\ j \in Seq(Segment) /\ Len(j) = n
      /\ \A i \in 1 .. n : i < n => j[i] = u[i]
      /\ \A i \in 1 .. n : j[i].seq = u[i].seq /\ j[i].pos = u[i].pos /\ j[i].fin = u[i].fin
      /\ EndOf(j[n]) = EndOf(u[n]) + s.len /\ j[n].bufs = u[n].bufs + s.bufs
  BY <1>1 DEF Lengthened
<1> DEFINE c == a \o j
           d == a \o u
<1>3. /\ c \in Seq(Segment) /\ Len(c) = m + n /\ \A i \in 1 .. m : c[i] = a[i]
      /\ \A i \in 1 .. n : c[m + i] = j[i]
  BY <1>0, <1>2, Concatenated
<1>4. /\ Len(d) = m + n /\ \A i \in 1 .. m : d[i] = a[i]
      /\ \A i \in 1 .. n : d[m + i] = u[i]
  BY <1>0, <1>1, Concatenated
<1> HIDE DEF c, d
<1>5. ASSUME NEW i \in 1 .. m + n
      PROVE  /\ i < m + n => c[i] = d[i]
             /\ c[i].seq = d[i].seq /\ c[i].pos = d[i].pos /\ c[i].fin = d[i].fin
  <2>1. CASE i \in 1 .. m  BY <2>1, <1>3, <1>4
  <2>2. CASE i \notin 1 .. m
    <3>1. PICK k \in 1 .. n : i = m + k
      <4>1. i - m \in 1 .. n /\ i = m + (i - m)  BY <2>2
      <4> QED  BY <4>1
    <3>2. c[i] = j[k] /\ d[i] = u[k]  BY <3>1, <1>3, <1>4
    <3>3. i < m + n => k < n  BY <3>1
    <3> QED  BY <3>1, <3>2, <3>3, <1>2
  <2> QED  BY <2>1, <2>2
<1>6. c[m + n] = j[n] /\ d[m + n] = u[n]  BY <1>1, <1>3, <1>4
<1>7. Len(d) > 0  BY <1>1, <1>4
<1>8. Lengthened(c, d, s)  BY <1>2, <1>3, <1>4, <1>5, <1>6, <1>7 DEF Lengthened
<1> QED  BY <1>8 DEF c, d

LEMMA LengthenedChain ==
  ASSUME NEW q, NEW j, NEW s \in Segment, Chain(q), Lengthened(j, q, s)
  PROVE  Chain(j)
<1>0. q \in Seq(Segment)  BY DEF Chain
<1>1. PICK n \in Nat : n = Len(q) /\ n > 0 /\ n \in 1 .. n  BY <1>0, Elements DEF Lengthened
<1>2. /\ j \in Seq(Segment) /\ Len(j) = n
      /\ \A i \in 1 .. n : i < n => j[i] = q[i]
      /\ \A i \in 1 .. n : j[i].seq = q[i].seq /\ j[i].pos = q[i].pos /\ j[i].fin = q[i].fin
      /\ EndOf(j[n]) = EndOf(q[n]) + s.len
  BY <1>1 DEF Lengthened
<1>3. /\ \A i \in 1 .. n : q[i].pos = q[i].seq /\ EndOf(q[i]) > q[i].seq
      /\ \A i, k \in 1 .. n : i < k => EndOf(q[i]) <= q[k].seq
      /\ \A i \in 1 .. n : i < n => EndOf(q[i]) = q[i + 1].seq
  BY <1>1 DEF Chain
<1>4. /\ s.len \in Nat /\ EndOf(q[n]) \in Nat /\ q[n].seq \in Nat
  BY <1>0, <1>1, SegmentFields, Elements
<1>5. ASSUME NEW i \in 1 .. n PROVE j[i].pos = j[i].seq /\ EndOf(j[i]) > j[i].seq
  <2>1. CASE i = n  BY <2>1, <1>2, <1>3, <1>4
  <2>2. CASE i # n
    <3>1. j[i] = q[i]  BY <2>2, <1>2
    <3> QED  BY <3>1, <1>3
  <2> QED  BY <2>1, <2>2
<1>6. ASSUME NEW i \in 1 .. n, NEW k \in 1 .. n, i < k PROVE EndOf(j[i]) <= j[k].seq
  <2>1. i < n  BY <1>6
  <2>2. j[i] = q[i] /\ j[k].seq = q[k].seq  BY <2>1, <1>2
  <2> QED  BY <2>2, <1>3, <1>6
<1>7. ASSUME NEW i \in 1 .. n, i < n PROVE EndOf(j[i]) = j[i + 1].seq
  <2>1. i + 1 \in 1 .. n  BY <1>7
  <2>2. j[i] = q[i] /\ j[i + 1].seq = q[i + 1].seq  BY <2>1, <1>2, <1>7
  <2> QED  BY <2>2, <1>3, <1>7
<1> QED  BY <1>1, <1>2, <1>5, <1>6, <1>7 DEF Chain

LEMMA LengthenedSum ==
  ASSUME NEW q \in Seq(Segment), NEW j, NEW s \in Segment, Lengthened(j, q, s)
  PROVE  BufsOf(j, Len(q)) = BufsOf(q, Len(q)) + s.bufs
<1>1. PICK n \in Nat : Len(q) = n + 1
  <2>1. Len(q) \in Nat /\ Len(q) > 0  BY Elements DEF Lengthened
  <2>2. Len(q) - 1 \in Nat /\ Len(q) = (Len(q) - 1) + 1  BY <2>1
  <2> QED  BY <2>2
<1>2. /\ j \in Seq(Segment) /\ Len(j) = n + 1 /\ j[n + 1].bufs = q[n + 1].bufs + s.bufs
      /\ \A i \in 1 .. n + 1 : i < n + 1 => j[i] = q[i]
  BY <1>1 DEF Lengthened
<1>3. /\ Counted(q, n + 1) /\ Counted(j, n + 1) /\ s.bufs \in Nat
  BY <1>1, <1>2, Elements, SegmentFields DEF Counted
<1>c. n + 1 \in Nat  OBVIOUS
<1>4. PICK g \in [0 .. n + 1 -> Nat] : SumUpTo(g, q, n + 1) /\ BufsOf(q, n + 1) = g[n + 1]
  BY <1>3, <1>c, SumIsFunction
<1>5. PICK h \in [0 .. n + 1 -> Nat] : SumUpTo(h, j, n + 1) /\ BufsOf(j, n + 1) = h[n + 1]
  BY <1>3, <1>c, SumIsFunction
<1>6. g[n] = h[n]
  <2> DEFINE T == {k \in Nat : k \in 0 .. n => g[k] = h[k]}
  <2>1. 0 \in T
    <3>1. 0 \in 0 .. n + 1  OBVIOUS
    <3> QED  BY <3>1, <1>4, <1>5 DEF SumUpTo
  <2>2. ASSUME NEW k \in Nat, k \in T PROVE k + 1 \in T
    <3> SUFFICES ASSUME k + 1 \in 0 .. n PROVE g[k + 1] = h[k + 1]
      OBVIOUS
    <3>1. k + 1 \in 0 .. n + 1 /\ k + 1 # 0 /\ (k + 1) - 1 = k /\ k \in 0 .. n  OBVIOUS
    <3>2. g[k + 1] = g[k] + q[k + 1].bufs /\ h[k + 1] = h[k] + j[k + 1].bufs
      BY <3>1, <1>4, <1>5 DEF SumUpTo
    <3>3. j[k + 1] = q[k + 1]
      <4>1. k + 1 \in 1 .. n + 1 /\ k + 1 < n + 1  OBVIOUS
      <4> QED  BY <4>1, <1>2
    <3> QED  BY <3>1, <3>2, <3>3, <2>2
  <2> HIDE DEF T
  <2>3. Nat \subseteq T  BY <2>1, <2>2, Induction
  <2>4. n \in T  BY <2>3
  <2> QED  BY <2>4 DEF T
<1>7. n + 1 \in 0 .. n + 1 /\ n + 1 # 0 /\ (n + 1) - 1 = n /\ n + 1 \in 1 .. n + 1  OBVIOUS
<1>8. g[n + 1] = g[n] + q[n + 1].bufs /\ h[n + 1] = h[n] + j[n + 1].bufs
  BY <1>4, <1>5, <1>7 DEF SumUpTo
<1>9. q[n + 1].bufs \in Nat /\ g[n] \in Nat  BY <1>3, <1>7 DEF Counted
<1>10. PICK x \in Nat : x = g[n]  BY <1>9
<1>11. PICK y \in Nat : y = q[n + 1].bufs  BY <1>9
<1>12. PICK z \in Nat : z = s.bufs  BY <1>3
<1>13. h[n + 1] = x + (y + z) /\ g[n + 1] = x + y
  BY <1>2, <1>6, <1>8, <1>10, <1>11, <1>12
<1>14. x + (y + z) = (x + y) + z  OBVIOUS
<1> QED  BY <1>1, <1>4, <1>5, <1>12, <1>13, <1>14

\* What has been sent lies before what is new: a queue whose segments are old
\* ones, the last of them perhaps longer, and new ones.
LEMMA SentBesideNew ==
  ASSUME NEW W, NEW q, NEW b \in Nat, Sent(W, q, b), NEW c \in Seq(Segment),
         NEW b2 \in Nat, b <= b2,
         \A i \in 1 .. Len(c) :
           \/ c[i].seq >= b
           \/ \E k \in 1 .. Len(q) : /\ c[i].seq = q[k].seq /\ c[i].fin = q[k].fin
                                     /\ c[i] = q[k] \/ EndOf(q[k]) = b
  PROVE  Sent(W, c, b2)
<1>1. ASSUME NEW w \in W
      PROVE  /\ w.seq \in Nat /\ w.len \in Nat /\ w.fin \in BOOLEAN
             /\ w.seq < EndOf(w) /\ EndOf(w) <= b /\ EndOf(w) \in Nat
  BY DEF Sent, EndOf, TCPLEN
<1>2. ASSUME NEW w \in W, NEW i \in 1 .. Len(c) PROVE Apart(w, c[i])
  <2>0. c[i].seq \in Nat  BY Elements
  <2>1. CASE c[i].seq >= b  BY <2>0, <2>1, <1>1 DEF Apart
  <2>2. ASSUME NEW k \in 1 .. Len(q), c[i].seq = q[k].seq, c[i].fin = q[k].fin,
               c[i] = q[k] \/ EndOf(q[k]) = b
        PROVE  Apart(w, c[i])
    <3>1. Apart(w, q[k])  BY DEF Sent
    <3>2. CASE c[i] = q[k]  BY <3>1, <3>2
    <3>3. CASE EndOf(q[k]) = b
      <4>1. ~(c[i].seq < w.seq)
        <5> SUFFICES ASSUME c[i].seq < w.seq PROVE FALSE  OBVIOUS
        <5>1. b <= w.seq  BY <3>1, <3>3, <2>2 DEF Apart
        <5> QED  BY <5>1, <1>1
      <4> QED  BY <3>1, <4>1, <2>2 DEF Apart
    <3> QED  BY <2>2, <3>2, <3>3
  <2> QED  BY <2>1, <2>2
<1>3. \A w \in W : EndOf(w) <= b2  BY <1>1
<1>4. \A w, v \in W : Apart(w, v)  BY DEF Sent
<1> QED  BY <1>1, <1>2, <1>3, <1>4 DEF Sent

\* The chain q is put behind the queues a and u.
PutBehind(c, a, u, q, x, b, b2, W) ==
  /\ c \in Seq(Segment) /\ Chain(a \o c) /\ Spans(a \o c, x, b2) /\ Sent(W, a \o c, b2)
  /\ BufsOf(a \o c, Len(a \o c)) = BufsOf(a \o u, Len(a \o u)) + BufsOf(q, Len(q))

LEMMA LastOfSpan ==
  ASSUME NEW q \in Seq(Segment), NEW x, NEW b, Spans(q, x, b), Len(q) > 0
  PROVE  /\ EndOf(q[Len(q)]) = b /\ q[1].seq <= x /\ x < EndOf(q[1])
         /\ 1 \in 1 .. Len(q) /\ Len(q) \in 1 .. Len(q)
<1>1. Len(q) \in Nat /\ q # <<>>  BY Elements
<1> QED  BY <1>1 DEF Spans

LEMMA SpanIs ==
  ASSUME NEW q \in Seq(Segment), NEW x, NEW b, Len(q) > 0,
         EndOf(q[Len(q)]) = b, q[1].seq <= x, x < EndOf(q[1])
  PROVE  Spans(q, x, b)
<1>1. q # <<>>  BY Elements
<1> QED  BY <1>1 DEF Spans

LEMMA Appended ==
  ASSUME NEW a \in Seq(Segment), NEW u \in Seq(Segment), Chain(a \o u),
         NEW x \in Nat, NEW b \in Nat, Spans(a \o u, x, b),
         NEW q, Chain(q), Len(q) > 0, q[1].seq = b,
         \A i \in 1 .. Len(q) : q[i].seq >= b,
         NEW b2 \in Nat, EndOf(q[Len(q)]) = b2, b <= b2,
         NEW W, Sent(W, a \o u, b)
  PROVE  PutBehind(u \o q, a, u, q, x, b, b2, W)
<1> DEFINE Q == a \o u
           C == Q \o q
<1>0. q \in Seq(Segment) /\ u \o q \in Seq(Segment) /\ Q \in Seq(Segment)
  <2>1. q \in Seq(Segment)  BY Zenon DEF Chain
  <2> QED  BY <2>1, Concatenated, Zenon
<1>1. a \o (u \o q) = C  BY <1>0, ConcatAssociative, SMTT(30)
<1>2. PICK n \in Nat : n = Len(Q)  BY <1>0, Elements
<1>3. PICK m \in Nat : m = Len(q) /\ m > 0 /\ m \in 1 .. m /\ 1 \in 1 .. m
  <2>1. Len(q) \in Nat  BY <1>0, Elements
  <2> QED  BY <2>1
<1> HIDE DEF Q
<1>4. /\ C \in Seq(Segment) /\ Len(C) = n + m
      /\ \A i \in 1 .. n : i \in 1 .. n + m /\ C[i] = Q[i]
      /\ \A i \in 1 .. m : n + i \in 1 .. n + m /\ C[n + i] = q[i]
  <2>1. Q \in Seq(Segment) /\ q \in Seq(Segment)  BY <1>0
  <2>2. /\ Q \o q \in Seq(Segment) /\ Len(Q \o q) = Len(Q) + Len(q)
        /\ \A i \in 1 .. Len(Q) : i \in 1 .. Len(Q) + Len(q) /\ (Q \o q)[i] = Q[i]
        /\ \A i \in 1 .. Len(q) : /\ Len(Q) + i \in 1 .. Len(Q) + Len(q)
                                   /\ (Q \o q)[Len(Q) + i] = q[i]
    BY <2>1, Concatenated, Zenon
  <2> QED  BY <1>2, <1>3, <2>2
<1>5. Chain(C)
  <2>1. Len(Q) > 0 => EndOf(Q[Len(Q)]) = q[1].seq  BY <1>0, LastOfSpan DEF Q
  <2> QED  BY <2>1, ChainConcat DEF Q
<1> HIDE DEF C
<1>6. Spans(C, x, b2)
  <2>1. Len(C) > 0 /\ EndOf(C[Len(C)]) = b2  BY <1>3, <1>4
  <2>2. CASE n = 0
    <3>1. Q = <<>>  BY <2>2, <1>0, <1>2, Elements
    <3>2. x = b  BY <3>1 DEF Spans, Q
    <3>3. C[1] = q[1]
      <4>1. n + 1 = 1  BY <2>2
      <4> QED  BY <4>1, <1>3, <1>4
    <3>4. EndOf(q[1]) > q[1].seq  BY <1>3 DEF Chain
    <3>5. q[1].seq <= x /\ x < EndOf(q[1])
      <4>1. EndOf(q[1]) \in Nat  BY <1>0, <1>3, Elements
      <4> QED  BY <3>2, <3>4, <4>1
    <3> QED  BY <2>1, <3>3, <3>5, <1>4, SpanIs
  <2>3. CASE n # 0
    <3>1. 1 \in 1 .. n /\ Len(Q) > 0  BY <2>3, <1>2
    <3>2. C[1] = Q[1]  BY <3>1, <1>4
    <3>3. Q[1].seq <= x /\ x < EndOf(Q[1])  BY <3>1, <1>0, LastOfSpan DEF Q
    <3> QED  BY <2>1, <3>2, <3>3, <1>4, SpanIs
  <2> QED  BY <2>2, <2>3
<1>7. Sent(W, C, b2)
  <2>1. ASSUME NEW i \in 1 .. Len(C)
        PROVE  \/ C[i].seq >= b
               \/ \E k \in 1 .. Len(Q) : /\ C[i].seq = Q[k].seq /\ C[i].fin = Q[k].fin
                                         /\ C[i] = Q[k] \/ EndOf(Q[k]) = b
    <3>1. CASE i \in 1 .. n  BY <3>1, <1>2, <1>4
    <3>2. CASE i \notin 1 .. n
      <4>1. PICK k \in 1 .. m : i = n + k
        <5>1. i - n \in 1 .. m /\ i = n + (i - n)  BY <3>2, <1>4
        <5> QED  BY <5>1
      <4>2. C[i] = q[k]  BY <4>1, <1>4
      <4> QED  BY <4>1, <4>2, <1>3
    <3> QED  BY <3>1, <3>2
  <2>2. Sent(W, Q, b) /\ C \in Seq(Segment)  BY <1>4 DEF Q
  <2> HIDE DEF C
  <2> QED  BY <2>1, <2>2, SentBesideNew
<1>8. BufsOf(C, Len(C)) = BufsOf(Q, Len(Q)) + BufsOf(q, Len(q))
  <2>1. Counted(C, n + m) /\ Counted(Q, n)
    BY <1>0, <1>2, <1>4, Elements DEF Counted
  <2>2. \A i \in 1 .. m : q[i].bufs = C[n + i].bufs  BY <1>4
  <2>3. BufsOf(C, n + m) = BufsOf(C, n) + BufsOf(q, m)  BY <2>1, <2>2, SumSplits
  <2>4. BufsOf(C, n) = BufsOf(Q, n)  BY <2>1, <1>4, SumSame
  <2> QED  BY <2>3, <2>4, <1>2, <1>3, <1>4
<1> QED  BY <1>0, <1>1, <1>5, <1>6, <1>7, <1>8 DEF PutBehind, Q

LEMMA Joined ==
  ASSUME NEW a \in Seq(Segment), NEW u \in Seq(Segment), Chain(a \o u),
         NEW x \in Nat, NEW b \in Nat, Spans(a \o u, x, b),
         NEW q, Chain(q), Len(q) > 0, q[1].seq = b, ~q[1].fin, Len(u) > 0,
         \A i \in 1 .. Len(q) : q[i].seq >= b,
         NEW b2 \in Nat, EndOf(q[Len(q)]) = b2, b <= b2,
         NEW W, Sent(W, a \o u, b)
  PROVE  PutBehind(Join(u, q[1]) \o Tail(q), a, u, q, x, b, b2, W)
<1> DEFINE Q == a \o u
           v == Join(u, q[1])
           J == a \o v
           t == Rest(q, 1)
           C == J \o t
<1>0. q \in Seq(Segment) /\ Q \in Seq(Segment)
  BY Concatenated DEF Chain
<1>2. PICK n \in Nat : n = Len(Q) /\ n > 0 /\ n \in 1 .. n /\ 1 \in 1 .. n
  <2>1. Len(Q) \in Nat /\ Len(u) \in Nat /\ Len(a) \in Nat /\ Len(Q) = Len(a) + Len(u)
    BY <1>0, Elements, Concatenated
  <2>2. Len(Q) > 0  BY <2>1
  <2> HIDE DEF Q
  <2> QED  BY <2>1, <2>2
<1>3. PICK m \in Nat : m = Len(q) /\ m > 0 /\ m \in 1 .. m /\ 1 \in 1 .. m /\ 1 \in 0 .. m
  <2>1. Len(q) \in Nat  BY <1>0, Elements
  <2> QED  BY <2>1
<1>4. q[1] \in Segment  BY <1>0, <1>3, Elements
<1>5. Lengthened(v, u, q[1])  BY <1>4, JoinIs
<1>6. v \in Seq(Segment)  BY <1>5 DEF Lengthened
<1>7. Lengthened(J, Q, q[1])  BY <1>4, <1>5, LengthenedBehind
<1>8. t \in Seq(Segment) /\ Len(t) = m - 1 /\ Chain(t)
      /\ \A i \in 1 .. m - 1 : 1 + i \in 1 .. m /\ t[i] = q[1 + i]
  BY <1>0, <1>3, RestIs, ChainRest
<1>9. Tail(q) = t  BY <1>0, TailIs
<1> HIDE DEF v, t
<1>10. v \o t \in Seq(Segment) /\ a \o (v \o t) = C
  <2>1. v \o t \in Seq(Segment)  BY <1>6, <1>8, Concatenated
  <2>2. a \o (v \o t) = (a \o v) \o t  BY <1>6, <1>8, Associative
  <2> QED  BY <2>1, <2>2
<1> HIDE DEF J, Q
<1>11. /\ J \in Seq(Segment) /\ Len(J) = n
       /\ \A i \in 1 .. n : i < n => J[i] = Q[i]
       /\ \A i \in 1 .. n : J[i].seq = Q[i].seq /\ J[i].pos = Q[i].pos /\ J[i].fin = Q[i].fin
       /\ EndOf(J[n]) = EndOf(Q[n]) + q[1].len
  BY <1>2, <1>7 DEF Lengthened
<1>12. EndOf(Q[n]) = b /\ Q[1].seq <= x /\ x < EndOf(Q[1])
  BY <1>0, <1>2, LastOfSpan DEF Q
<1>13. EndOf(J[n]) = EndOf(q[1])
  <2>1. q[1].len \in Nat  BY <1>4, SegmentFields
  <2> QED  BY <2>1, <1>11, <1>12 DEF EndOf, TCPLEN
<1>14. /\ C \in Seq(Segment) /\ Len(C) = n + (m - 1)
       /\ \A i \in 1 .. n : i \in 1 .. n + (m - 1) /\ C[i] = J[i]
       /\ \A i \in 1 .. m - 1 : n + i \in 1 .. n + (m - 1) /\ C[n + i] = t[i]
  <2>1. PICK l \in Nat : l = m - 1  BY <1>3
  <2>2. Len(t) = l /\ Len(J) = n  BY <2>1, <1>8, <1>11
  <2>3. /\ C \in Seq(Segment) /\ Len(C) = Len(J) + Len(t)
        /\ \A i \in 1 .. Len(J) : i \in 1 .. Len(J) + Len(t) /\ C[i] = J[i]
        /\ \A i \in 1 .. Len(t) : /\ Len(J) + i \in 1 .. Len(J) + Len(t)
                                  /\ C[Len(J) + i] = t[i]
    <3>1. J \in Seq(Segment) /\ t \in Seq(Segment)  BY <1>8, <1>11
    <3> QED  BY <3>1, Concatenated
  <2>4. /\ C \in Seq(Segment) /\ Len(C) = n + l
        /\ \A i \in 1 .. n : i \in 1 .. n + l /\ C[i] = J[i]
        /\ \A i \in 1 .. l : n + i \in 1 .. n + l /\ C[n + i] = t[i]
    <3> HIDE DEF C
    <3> QED  BY <2>2, <2>3
  <2> QED  BY <2>1, <2>4
<1>15. Chain(C)
  <2>1. Chain(J)  BY <1>4, <1>7, LengthenedChain DEF Q
  <2>2. Len(t) > 0 => EndOf(J[n]) = t[1].seq
    <3> SUFFICES ASSUME Len(t) > 0 PROVE EndOf(J[n]) = t[1].seq
      OBVIOUS
    <3>1. 1 \in 1 .. m - 1 /\ 1 < m /\ 1 + 1 = 2  BY <1>3, <1>8
    <3>2. t[1] = q[1 + 1]  BY <3>1, <1>8
    <3>3. EndOf(q[1]) = q[1 + 1].seq  BY <3>1, <1>3 DEF Chain
    <3> QED  BY <3>2, <3>3, <1>13
  <2> QED  BY <2>1, <2>2, <1>8, <1>11, ChainConcat
<1> HIDE DEF C
<1>16. Spans(C, x, b2)
  <2>1. Len(C) > 0  BY <1>2, <1>3, <1>14
  <2>2. EndOf(C[Len(C)]) = b2
    <3>1. CASE m = 1
      <4>1. Len(C) = n /\ C[n] = J[n]  BY <3>1, <1>2, <1>14
      <4> QED  BY <4>1, <3>1, <1>3, <1>13
    <3>2. CASE m # 1
      <4>1. m - 1 \in 1 .. m - 1 /\ 1 + (m - 1) = m  BY <3>2, <1>3
      <4>2. C[n + (m - 1)] = t[m - 1] /\ t[m - 1] = q[m]  BY <4>1, <1>8, <1>14
      <4> QED  BY <4>2, <1>3, <1>14
    <3> QED  BY <3>1, <3>2
  <2>3. C[1].seq <= x /\ x < EndOf(C[1])
    <3>1. C[1] = J[1] /\ J[1].seq = Q[1].seq  BY <1>2, <1>11, <1>14
    <3>2. CASE n = 1
      <4>1. EndOf(Q[1]) = b /\ q[1].len \in Nat  BY <3>2, <1>4, <1>12, SegmentFields
      <4>2. EndOf(J[1]) = b + q[1].len  BY <3>2, <4>1, <1>11
      <4> QED  BY <3>1, <4>1, <4>2, <1>12
    <3>3. CASE n # 1
      <4>1. J[1] = Q[1]  BY <3>3, <1>2, <1>11
      <4> QED  BY <3>1, <4>1, <1>12
    <3> QED  BY <3>2, <3>3
  <2> QED  BY <2>1, <2>2, <2>3, <1>14, SpanIs
<1>17. Sent(W, C, b2)
  <2>1. ASSUME NEW i \in 1 .. Len(C)
        PROVE  \/ C[i].seq >= b
               \/ \E k \in 1 .. Len(Q) : /\ C[i].seq = Q[k].seq /\ C[i].fin = Q[k].fin
                                         /\ C[i] = Q[k] \/ EndOf(Q[k]) = b
    <3>1. CASE i \in 1 .. n
      <4>1. C[i] = J[i] /\ J[i].seq = Q[i].seq /\ J[i].fin = Q[i].fin
        BY <3>1, <1>11, <1>14
      <4>2. J[i] = Q[i] \/ EndOf(Q[i]) = b
        <5>1. i < n \/ i = n  BY <3>1
        <5> QED  BY <3>1, <5>1, <1>11, <1>12
      <4> QED  BY <3>1, <4>1, <4>2, <1>2
    <3>2. CASE i \notin 1 .. n
      <4>1. PICK k \in 1 .. m - 1 : i = n + k
        <5>1. i - n \in 1 .. m - 1 /\ i = n + (i - n)  BY <3>2, <1>14
        <5> QED  BY <5>1
      <4>2. C[i] = t[k] /\ t[k] = q[1 + k] /\ 1 + k \in 1 .. m  BY <4>1, <1>8, <1>14
      <4> QED  BY <4>2, <1>3
    <3> QED  BY <3>1, <3>2
  <2>2. Sent(W, Q, b) /\ C \in Seq(Segment)  BY <1>14 DEF Q
  <2> HIDE DEF C
  <2> QED  BY <2>1, <2>2, SentBesideNew
<1>18. BufsOf(C, Len(C)) = BufsOf(Q, Len(Q)) + BufsOf(q, Len(q))
  <2>1. Counted(C, n + (m - 1)) /\ Counted(J, n) /\ Counted(q, m) /\ m - 1 \in Nat
    <3>1. m - 1 \in Nat  BY <1>3
    <3>2. Counted(C, Len(C)) /\ Counted(J, Len(J)) /\ Counted(q, Len(q))
      BY <1>0, <1>11, <1>14, SeqCounted
    <3> QED  BY <3>1, <3>2, <1>3, <1>11, <1>14
  <2>2. \A i \in 1 .. m - 1 : t[i].bufs = C[n + i].bufs  BY <1>14
  <2>3. BufsOf(C, n + (m - 1)) = BufsOf(C, n) + BufsOf(t, m - 1)
    <3>1. PICK l \in Nat : l = m - 1  BY <2>1
    <3>2. Counted(C, n + l) /\ \A i \in 1 .. l : t[i].bufs = C[n + i].bufs
      BY <2>1, <2>2, <3>1
    <3>3. BufsOf(C, n + l) = BufsOf(C, n) + BufsOf(t, l)  BY <3>2, SumSplits
    <3> QED  BY <3>1, <3>3
  <2>4. BufsOf(C, n) = BufsOf(J, n)  BY <2>1, <1>14, SumSame
  <2>5. BufsOf(J, n) = BufsOf(Q, n) + q[1].bufs  BY <1>0, <1>2, <1>4, <1>7, LengthenedSum
  <2>6. BufsOf(q, m) = q[1].bufs + BufsOf(t, m - 1)
    <3>1. 1 \in Nat /\ 1 + (m - 1) = m  BY <1>3
    <3>2. \A i \in 1 .. m - 1 : t[i].bufs = q[1 + i].bufs  BY <1>8
    <3>3. BufsOf(q, 1 + (m - 1)) = BufsOf(q, 1) + BufsOf(t, m - 1)
      <4>1. PICK l \in Nat : l = m - 1  BY <2>1
      <4>2. Counted(q, 1 + l) /\ \A i \in 1 .. l : t[i].bufs = q[1 + i].bufs
        BY <2>1, <3>1, <3>2, <4>1
      <4>3. BufsOf(q, 1 + l) = BufsOf(q, 1) + BufsOf(t, l)  BY <4>2, SumSplits
      <4> QED  BY <4>1, <4>3
    <3>4. BufsOf(q, 1) = 1 * q[1].bufs
      <4>1. q[1].bufs \in Nat /\ \A i \in 1 .. 1 : q[i].bufs = q[1].bufs
        BY <1>4, SegmentFields
      <4> QED  BY <3>1, <4>1, SumOfEqual
    <3>5. q[1].bufs \in Nat  BY <1>4, SegmentFields
    <3> QED  BY <3>1, <3>3, <3>4, <3>5
  <2>7. BufsOf(Q, n) \in Nat /\ BufsOf(t, m - 1) \in Nat /\ q[1].bufs \in Nat
    <3>1. Counted(Q, n)  BY <1>0, <1>2, SeqCounted
    <3>2. Counted(t, m - 1)
      <4>1. Counted(t, Len(t))  BY <1>8, SeqCounted
      <4> QED  BY <4>1, <1>8
    <3>3. q[1].bufs \in Nat  BY <1>4, SegmentFields
    <3>4. BufsOf(Q, n) \in Nat  BY <3>1, SumNat
    <3>5. BufsOf(t, m - 1) \in Nat  BY <2>1, <3>2, SumNat
    <3> QED  BY <3>3, <3>4, <3>5
  <2>8. BufsOf(C, n + (m - 1)) = BufsOf(Q, n) + BufsOf(q, m)
    <3>1. PICK y \in Nat : y = BufsOf(Q, n)  BY <2>7
    <3>2. PICK z \in Nat : z = BufsOf(t, m - 1)  BY <2>7
    <3>3. PICK o \in Nat : o = q[1].bufs  BY <2>7
    <3>4. BufsOf(C, n + (m - 1)) = (y + o) + z  BY <2>3, <2>4, <2>5, <3>1, <3>2, <3>3
    <3>5. BufsOf(q, m) = o + z  BY <2>6, <3>2, <3>3
    <3>6. (y + o) + z = y + (o + z)  OBVIOUS
    <3> QED  BY <3>1, <3>4, <3>5, <3>6
  <2> QED  BY <2>8, <1>2, <1>3, <1>14
<1>19. PutBehind(v \o t, a, u, q, x, b, b2, W)
  <2>1. Q = a \o u  BY DEF Q
  <2> QED  BY <2>1, <1>10, <1>15, <1>16, <1>17, <1>18 DEF PutBehind
<1> QED  BY <1>9, <1>19 DEF v

-----------------------------------------------------------------------------
(* Arithmetic modulo the width of a field.                                 *)

LEMMA Modulo ==
  ASSUME NEW x \in Int, NEW d \in Int, NEW M \in Nat \ {0}
  PROVE  ((x % M) + d) % M = (x + d) % M /\ x % M \in 0 .. M - 1
<1> DEFINE k == x \div M
           r == x % M
<1>1. k \in Int /\ r \in Int /\ 0 <= r /\ r < M /\ x = M * k + r  BY Z3
<1> HIDE DEF k, r
<1>2. (r + d) % M = (x + d) % M
  <2> DEFINE k2 == (r + d) \div M
             r2 == (r + d) % M
  <2>1. k2 \in Int /\ r2 \in Int /\ 0 <= r2 /\ r2 < M /\ r + d = M * k2 + r2  BY <1>1, Z3
  <2> HIDE DEF k2, r2
  <2>2. x + d = M * (k + k2) + r2  BY <1>1, <2>1, Z3
  <2> DEFINE k3 == (x + d) \div M
             r3 == (x + d) % M
  <2>3. k3 \in Int /\ r3 \in Int /\ 0 <= r3 /\ r3 < M /\ x + d = M * k3 + r3  BY Z3
  <2> HIDE DEF k3, r3
  <2>4. PICK e \in Int : e = (k + k2) - k3  BY <1>1, <2>1, <2>3
  <2>5. M * e = r3 - r2
    <3>1. M * (k + k2) = M * k3 + M * e  BY <2>4, <1>1, <2>1, <2>3, Z3
    <3>2. PICK y \in Int : y = M * k3  BY <2>3
    <3>3. PICK z \in Int : z = M * e  BY <2>4
    <3>4. x + d = (y + z) + r2 /\ x + d = y + r3  BY <3>1, <3>2, <3>3, <2>2, <2>3
    <3>5. z = r3 - r2
      <4> HIDE <3>1, <3>2, <3>3
      <4> QED  BY <3>4, <2>1, <2>3
    <3> QED  BY <3>3, <3>5
  <2>6. e = 0
    <3>1. ~(e >= 1)
      <4> SUFFICES ASSUME e >= 1 PROVE FALSE  OBVIOUS
      <4>1. M * e >= M  BY Z3
      <4> QED  BY <4>1, <2>1, <2>3, <2>5
    <3>2. ~(e <= -1)
      <4> SUFFICES ASSUME e <= -1 PROVE FALSE  OBVIOUS
      <4>1. M * e <= -M  BY Z3
      <4> QED  BY <4>1, <2>1, <2>3, <2>5
    <3> QED  BY <3>1, <3>2
  <2>7. r2 = r3  BY <2>1, <2>3, <2>5, <2>6
  <2> QED  BY <2>7 DEF r2, r3
<1> QED  BY <1>1, <1>2 DEF r

LEMMA Small ==
  ASSUME NEW M \in Nat \ {0}, NEW x \in 0 .. M - 1
  PROVE  x % M = x
BY Z3

-----------------------------------------------------------------------------
(* tcp_enqueue.                                                            *)

\* What an operation on p that moves no segment out of the queues leaves.
Alike(r, p) ==
  /\ DOMAIN r = Fields /\ r.state \in States
  /\ r.unsent \in Seq(Segment) /\ r.unacked \in Seq(Segment) /\ Queued(r) = Queued(p)
  /\ r.lastack = p.lastack /\ r.snd_lbb = p.snd_lbb
  /\ r.snd_buf = p.snd_buf /\ r.snd_queuelen = p.snd_queuelen
  /\ r.snd_max \in Nat /\ r.snd_max <= p.snd_lbb
  /\ r.nrtx \in 0 .. 255 /\ r.rtime \in 0 .. Uint8 - 1
  /\ r.state = "CLOSED" <=> p.state = "CLOSED"

LEMMA AlikeQueues ==
  ASSUME NEW p, NEW r, NEW W, Queues(p, W), Alike(r, p)
  PROVE  Queues(r, W)
<1>1. Left(r) = Left(p)  BY DEF Left, Alike
<1>2. r.lastack \in Nat /\ r.snd_lbb \in Nat /\ r.snd_max <= r.snd_lbb
  BY DEF Alike, Queues
<1>3. r.snd_buf \in 0 .. Uint16 - 1 /\ r.snd_queuelen \in 0 .. SndQueueLen
  BY DEF Alike, Queues
<1>4. Chain(Queued(r)) /\ Sent(W, Queued(r), r.snd_lbb)  BY DEF Alike, Queues
<1>5. ASSUME r.state # "CLOSED"
      PROVE  /\ Spans(Queued(r), r.lastack, r.snd_lbb) /\ r.snd_buf = Left(r)
             /\ r.snd_queuelen = BufsOf(Queued(r), Len(Queued(r)))
  BY <1>1, <1>5 DEF Alike, Queues
<1>6. /\ DOMAIN r = Fields /\ r.state \in States
      /\ r.unsent \in Seq(Segment) /\ r.unacked \in Seq(Segment) /\ r.snd_max \in Nat
      /\ r.nrtx \in 0 .. 255 /\ r.rtime \in 0 .. Uint8 - 1
  BY DEF Alike
<1> QED  BY <1>2, <1>3, <1>4, <1>5, <1>6 DEF Queues

LEMMA Enqueued ==
  ASSUME NEW p, NEW W, Queues(p, W), p.state = "ESTABLISHED",
         written \in Nat, p.snd_lbb = written + 1,
         NEW len \in Nat, NEW fin \in BOOLEAN, NEW bufs \in Nat, fin <=> len = 0,
         Room(p, len, bufs), NEW e, e = Enqueue(p, len, fin, bufs)
  PROVE  /\ Queues(e, W) /\ e.state = p.state
         /\ e.snd_lbb = p.snd_lbb + len + (IF fin THEN 1 ELSE 0)
<1> DEFINE q == Segments(p, len, fin, bufs)
           f == IF fin THEN 1 ELSE 0
           n == SegmentCount(len)
           a == p.unacked
           u == p.unsent
           b == p.snd_lbb
           b2 == b + len + f
           x == p.lastack
           c == Queue(u, q)
<1>1. /\ DOMAIN p = Fields /\ p.state \in States
      /\ u \in Seq(Segment) /\ a \in Seq(Segment)
      /\ x \in Nat /\ b \in Nat /\ p.snd_max \in Nat /\ p.snd_max <= b
      /\ p.nrtx \in 0 .. 255 /\ p.rtime \in 0 .. Uint8 - 1
      /\ p.snd_buf \in 0 .. Uint16 - 1 /\ p.snd_queuelen \in 0 .. SndQueueLen
      /\ Chain(a \o u) /\ Sent(W, a \o u, b) /\ Spans(a \o u, x, b)
      /\ p.snd_buf = Left(p) /\ p.snd_queuelen = BufsOf(a \o u, Len(a \o u))
  BY DEF Queues, Queued
<1>2. /\ DOMAIN e = Fields /\ e.unsent = c /\ e.snd_lbb = b2
      /\ e.snd_buf = SpaceAfter(p, len, fin) /\ e.snd_queuelen = p.snd_queuelen + n * bufs
      /\ e.unacked = a /\ e.state = p.state /\ e.lastack = x
      /\ e.snd_max = p.snd_max /\ e.nrtx = p.nrtx /\ e.rtime = p.rtime
  BY <1>1 DEF Fields, Enqueue
<1>3. /\ Chain(q) /\ n \in Nat \ {0} /\ Len(q) = n /\ q[1].seq = b /\ EndOf(q[n]) = b2
      /\ \A i \in 1 .. n : q[i].bufs = bufs /\ q[i].fin = fin /\ q[i].seq >= b
  <2>1. Cut(q, n, b, b2, bufs, fin)  BY <1>1, SegmentsAre
  <2> QED  BY <2>1 DEF Cut
<1>4. f \in Nat /\ b2 \in Nat /\ b <= b2  BY <1>1
<1> HIDE DEF q, f, n, b, b2, a, u, x, c
<1>5. PutBehind(c, a, u, q, x, b, b2, W)
  <2>0. /\ 1 \in 1 .. n /\ n > 0  BY <1>3
  <2>1. CASE Joins(u, q[1])
    <3>1. c = Join(u, q[1]) \o Tail(q)  BY <2>1 DEF c, Queue
    <3>2. Len(u) > 0 /\ ~q[1].fin
      <4>1. u # <<>> /\ ~q[1].fin  BY <2>1 DEF Joins
      <4>2. Len(u) \in Nat /\ Len(u) # 0  BY <4>1, <1>1, Elements
      <4> QED  BY <4>1, <4>2
    <3> QED  BY <3>1, <3>2, <2>0, <1>1, <1>3, <1>4, Joined
  <2>2. CASE ~Joins(u, q[1])
    <3>1. c = u \o q  BY <2>2 DEF c, Queue
    <3> QED  BY <3>1, <2>0, <1>1, <1>3, <1>4, Appended
  <2> QED  BY <2>1, <2>2
<1>6. /\ c \in Seq(Segment) /\ Chain(a \o c) /\ Spans(a \o c, x, b2) /\ Sent(W, a \o c, b2)
      /\ BufsOf(a \o c, Len(a \o c)) = BufsOf(a \o u, Len(a \o u)) + BufsOf(q, Len(q))
  BY <1>5 DEF PutBehind
<1>7. BufsOf(q, Len(q)) = n * bufs  BY <1>3, SumOfEqual
<1>8. e.snd_queuelen \in 0 .. SndQueueLen
  <2>1. p.snd_queuelen + n * bufs <= SndQueueLen  BY DEF Room, n
  <2>2. n * bufs \in Nat  BY <1>3
  <2> QED  BY <2>1, <2>2, <1>1, <1>2, Sizes
<1>9. e.snd_buf \in 0 .. Uint16 - 1 /\ e.snd_buf = Left(e)
  <2>1. Uint16 \in Nat \ {0}  BY DEF Uint16
  <2>2. PICK y \in Int : y = SndBuf - (b - x)  BY <1>1, Sizes
  <2>3. p.snd_buf = y % Uint16  BY <2>2, <1>1 DEF Left, b, x
  <2>4. PICK d \in Int : d = 0 - (len + f)  BY <1>4
  <2>5. e.snd_buf = ((y % Uint16) + d) % Uint16
    <3>1. PICK z \in Int : z = p.snd_buf  BY <2>1, <1>1
    <3>2. z - len - f = z + d  BY <2>4, <1>4
    <3>3. e.snd_buf = (z - len - f) % Uint16  BY <3>1, <1>2 DEF SpaceAfter, f
    <3> QED  BY <3>1, <3>2, <3>3, <2>3
  <2>6. Left(e) = (y + d) % Uint16
    <3>1. SndBuf - (b2 - x) = y + d  BY <2>2, <2>4, <1>1, <1>4, Sizes DEF b2
    <3>2. Left(e) = (SndBuf - (b2 - x)) % Uint16  BY <1>2 DEF Left
    <3> QED  BY <3>1, <3>2
  <2>7. y + d \in Int  OBVIOUS
  <2>8. ((y % Uint16) + d) % Uint16 = (y + d) % Uint16 /\ (y + d) % Uint16 \in 0 .. Uint16 - 1
    BY <2>1, <2>7, Modulo
  <2> QED  BY <2>5, <2>6, <2>8
<1>10. Queued(e) = a \o c  BY <1>2 DEF Queued
<1>11. e.snd_max <= b2  BY <1>1, <1>2, <1>4
<1>12. e.snd_queuelen = BufsOf(Queued(e), Len(Queued(e)))
  BY <1>1, <1>2, <1>6, <1>7, <1>10
<1>13. Queues(e, W)
  BY <1>1, <1>2, <1>4, <1>6, <1>8, <1>9, <1>10, <1>11, <1>12 DEF Queues
<1> QED  BY <1>2, <1>13 DEF b, b2, f

-----------------------------------------------------------------------------
(* tcp_output and tcp_rexmit_seg.                                          *)

PacketsOf(q) == {Packet(q[i]) : i \in 1 .. Len(q)}

LEMMA SendCountIs ==
  ASSUME NEW p, p.unsent \in Seq(Segment)
  PROVE  SendCount(p) \in 0 .. Len(p.unsent)
<1> DEFINE B == {i \in 1 .. Len(p.unsent) : ~InWindow(p, p.unsent[i])}
<1>1. Len(p.unsent) \in Nat  BY Elements
<1>2. PICK k \in 0 .. Len(p.unsent) :
        (\A i \in 1 .. k : i \notin B) /\ (k < Len(p.unsent) => k + 1 \in B)
  <2>1. B \subseteq 1 .. Len(p.unsent)  OBVIOUS
  <2> HIDE DEF B
  <2> QED  BY <2>1, <1>1, WalkStops
<1>3. \A i \in 1 .. k : i \in 1 .. Len(p.unsent)  BY <1>1
<1>4. Sendable(p, k)  BY <1>2, <1>3 DEF Sendable
<1> QED  BY <1>4 DEF SendCount


LEMMA AlikeSelf ==
  ASSUME NEW p, NEW W, Queues(p, W)
  PROVE  Alike(p, p)
BY DEF Alike, Queues

\* tcp_output moves the segments it sends to the end of the other queue.
LEMMA Outputs ==
  ASSUME NEW p, NEW W, Queues(p, W), p.state # "CLOSED"
  PROVE  /\ Alike(Output(p), p) /\ Output(p).state = p.state
         /\ Transmitted(p) \subseteq PacketsOf(Queued(p))
<1> DEFINE a == p.unacked
           u == p.unsent
           k == SendCount(p)
           r == Output(p)
<1>1. /\ DOMAIN p = Fields /\ p.state \in States
      /\ u \in Seq(Segment) /\ a \in Seq(Segment)
      /\ p.snd_max \in Nat /\ p.snd_max <= p.snd_lbb /\ p.snd_lbb \in Nat
      /\ p.nrtx \in 0 .. 255 /\ Chain(Queued(p)) /\ Spans(Queued(p), p.lastack, p.snd_lbb)
  BY DEF Queues
<1>2. k \in 0 .. Len(u) /\ Len(u) \in Nat /\ Len(a) \in Nat  BY <1>1, SendCountIs, Elements
<1>3. /\ Queued(p) \in Seq(Segment) /\ Len(Queued(p)) = Len(a) + Len(u)
      /\ \A i \in 1 .. Len(u) : /\ Len(a) + i \in 1 .. Len(Queued(p))
                                /\ Queued(p)[Len(a) + i] = u[i]
  BY <1>1, QueuedIs
<1>4. Transmitted(p) \subseteq PacketsOf(Queued(p))
  <2> SUFFICES ASSUME NEW i \in 1 .. k PROVE Packet(u[i]) \in PacketsOf(Queued(p))
    BY DEF Transmitted
  <2>1. i \in 1 .. Len(u)  BY <1>2
  <2> HIDE DEF a, u, k
  <2>2. Len(a) + i \in 1 .. Len(Queued(p)) /\ Queued(p)[Len(a) + i] = u[i]  BY <2>1, <1>3
  <2> QED  BY <2>2 DEF PacketsOf
<1>5. CASE k = 0
  <2>1. r = p  BY <1>5 DEF Output
  <2> QED  BY <2>1, <1>4, AlikeSelf
<1>6. CASE k # 0
  <2>1. /\ DOMAIN r = Fields /\ r.state = p.state
        /\ r.unsent = Rest(u, k) /\ r.unacked = a \o Front(u, k)
        /\ r.lastack = p.lastack /\ r.snd_lbb = p.snd_lbb
        /\ r.snd_buf = p.snd_buf /\ r.snd_queuelen = p.snd_queuelen
        /\ r.snd_max = Larger(p.snd_max, EndOf(u[k]))
        /\ r.nrtx = p.nrtx /\ r.rtime = 0
    BY <1>1, <1>6 DEF Fields, Output, Measure
  <2> HIDE DEF a, u, k, r
  <2>2. /\ Front(u, k) \in Seq(Segment) /\ Rest(u, k) \in Seq(Segment)
        /\ Front(u, k) \o Rest(u, k) = u
    BY <1>1, <1>2, FrontIs, RestIs, FrontAndRest
  <2>3. a \o Front(u, k) \in Seq(Segment)  BY <1>1, <2>2, Concatenated
  <2>4. Queued(r) = Queued(p)
    <3>1. Queued(r) = (a \o Front(u, k)) \o Rest(u, k)  BY <2>1 DEF Queued
    <3>2. a \o (Front(u, k) \o Rest(u, k)) = (a \o Front(u, k)) \o Rest(u, k)
      BY <1>1, <2>2, Associative
    <3> QED  BY <3>1, <3>2, <2>2 DEF Queued, a, u
  <2>5. EndOf(u[k]) \in Nat /\ EndOf(u[k]) <= p.snd_lbb
    <3>1. k \in 1 .. Len(u)  BY <1>2, <1>6
    <3>2. Len(a) + k \in 1 .. Len(Queued(p)) /\ Queued(p)[Len(a) + k] = u[k]  BY <3>1, <1>3
    <3>3. PICK j \in 1 .. Len(Queued(p)) : Queued(p)[j] = u[k]  BY <3>2
    <3>4. Len(Queued(p)) \in Nat /\ Len(Queued(p)) > 0  BY <1>3, Elements
    <3>5. /\ EndOf(Queued(p)[Len(Queued(p))]) = p.snd_lbb
          /\ Len(Queued(p)) \in 1 .. Len(Queued(p))
      BY <1>1, <1>3, <3>4, LastOfSpan
    <3>6. EndOf(Queued(p)[j]) <= EndOf(Queued(p)[Len(Queued(p))])
      BY <1>1, <3>4, <3>5, EndsGrow
    <3>7. EndOf(u[k]) \in Nat  BY <1>1, <3>1, Elements
    <3> QED  BY <3>3, <3>5, <3>6, <3>7
  <2>6. r.snd_max \in Nat /\ r.snd_max <= p.snd_lbb  BY <1>1, <2>1, <2>5 DEF Larger
  <2>7. 0 \in 0 .. Uint8 - 1  BY Sizes
  <2>8. Alike(r, p)  BY <1>1, <2>1, <2>2, <2>3, <2>4, <2>6, <2>7 DEF Alike
  <2> QED  BY <1>4, <2>1, <2>8 DEF r
<1> QED  BY <1>5, <1>6

-----------------------------------------------------------------------------
(* The steps that leave the queues alone or exchange segments between them. *)

LEMMA AlikeTransitive ==
  ASSUME NEW p, NEW r, NEW s, Alike(r, p), Alike(s, r)
  PROVE  Alike(s, p)
BY DEF Alike

\* r differs from p in other fields only, or in the two counters of the timer.
Beside(r, p) ==
  /\ DOMAIN r = Fields /\ r.state \in States
  /\ r.unsent = p.unsent /\ r.unacked = p.unacked
  /\ r.lastack = p.lastack /\ r.snd_lbb = p.snd_lbb /\ r.snd_max = p.snd_max
  /\ r.snd_buf = p.snd_buf /\ r.snd_queuelen = p.snd_queuelen
  /\ r.nrtx \in 0 .. 255 /\ r.rtime \in 0 .. Uint8 - 1
  /\ r.state = "CLOSED" <=> p.state = "CLOSED"

LEMMA BesideAlike ==
  ASSUME NEW p, NEW r, NEW W, Queues(p, W), Beside(r, p)
  PROVE  Alike(r, p)
<1>1. Queued(r) = Queued(p)  BY DEF Beside, Queued
<1> QED  BY <1>1 DEF Beside, Alike, Queues

LEMMA Counters ==
  /\ 0 \in 0 .. 255 /\ 0 \in 0 .. Uint8 - 1
  /\ \A i \in 0 .. 255 : (i + 1) % 256 \in 0 .. 255
  /\ \A i \in 0 .. Uint8 - 1 : (i + 1) % Uint8 \in 0 .. Uint8 - 1
<1>1. Uint8 \in Nat \ {0} /\ Uint8 > 0  BY Sizes
<1>2. 0 \in 0 .. Uint8 - 1  BY <1>1
<1>3. \A i \in 0 .. 255 : (i + 1) % 256 \in 0 .. 255  OBVIOUS
<1>4. ASSUME NEW i \in 0 .. Uint8 - 1 PROVE (i + 1) % Uint8 \in 0 .. Uint8 - 1
  <2>1. i + 1 \in Int  OBVIOUS
  <2> QED  BY <2>1, <1>1, Modulo
<1> QED  BY <1>2, <1>3, <1>4

LEMMA RexmitBeside ==
  ASSUME NEW p, NEW W, Queues(p, W)
  PROVE  Beside(Rexmit(p), p) /\ Rexmit(p).state = p.state
<1>1. DOMAIN p = Fields /\ p.state \in States /\ p.nrtx \in 0 .. 255 /\ p.rtime \in 0 .. Uint8 - 1
  BY DEF Queues
<1>2. CASE InWindow(p, p.unacked[1])
  <2> DEFINE r == [p EXCEPT !.nrtx = (p.nrtx + 1) % 256, !.rtime = 0, !.timing = FALSE]
  <2>1. Rexmit(p) = r  BY <1>2 DEF Rexmit
  <2>2. /\ DOMAIN r = Fields /\ r.state = p.state
        /\ r.unsent = p.unsent /\ r.unacked = p.unacked
        /\ r.lastack = p.lastack /\ r.snd_lbb = p.snd_lbb /\ r.snd_max = p.snd_max
        /\ r.snd_buf = p.snd_buf /\ r.snd_queuelen = p.snd_queuelen
        /\ r.nrtx = (p.nrtx + 1) % 256 /\ r.rtime = 0
    BY <1>1 DEF Fields
  <2> HIDE DEF r
  <2>3. r.nrtx \in 0 .. 255 /\ r.rtime \in 0 .. Uint8 - 1  BY <1>1, <2>2, Counters
  <2> QED  BY <2>1, <2>2, <2>3, <1>1 DEF Beside
<1>3. CASE ~InWindow(p, p.unacked[1])
  <2>1. Rexmit(p) = p  BY <1>3 DEF Rexmit
  <2> QED  BY <2>1, <1>1 DEF Beside
<1> QED  BY <1>2, <1>3

LEMMA WindowBeside ==
  ASSUME NEW p, NEW W, Queues(p, W), NEW n, NEW w
  PROVE  Beside(UpdateWindow(p, n, w), p) /\ UpdateWindow(p, n, w).state = p.state
<1>1. DOMAIN p = Fields /\ p.state \in States /\ p.nrtx \in 0 .. 255 /\ p.rtime \in 0 .. Uint8 - 1
  BY DEF Queues
<1> DEFINE r == [p EXCEPT !.snd_wnd = w, !.snd_wl2 = n]
<1>2. Beside(p, p)  BY <1>1 DEF Beside
<1>3. r.state = p.state /\ Beside(r, p)
  BY <1>1 DEF Beside, Fields
<1>4. UpdateWindow(p, n, w) = r \/ UpdateWindow(p, n, w) = p  BY DEF UpdateWindow
<1> QED  BY <1>2, <1>3, <1>4

LEMMA DuplicateAlike ==
  ASSUME NEW p, NEW W, Queues(p, W)
  PROVE  Alike(Duplicate(p), p) /\ Duplicate(p).state = p.state
<1> DEFINE d == CountDuplicate(p)
           t == Larger((d.snd_max - d.lastack) \div 2, 2 * Mss)
           r == [Rexmit(d) EXCEPT !.ssthresh = t, !.cwnd = (t + 3 * Mss) % Cwnds, !.infr = TRUE]
           s == [d EXCEPT !.cwnd = Widen(@, Mss)]
<1>1. DOMAIN p = Fields /\ p.state \in States /\ p.nrtx \in 0 .. 255 /\ p.rtime \in 0 .. Uint8 - 1
  BY DEF Queues
<1>2. Beside(d, p) /\ d.state = p.state  BY <1>1 DEF CountDuplicate, Beside, Fields
<1>3. Duplicate(p) = r \/ Duplicate(p) = s \/ Duplicate(p) = d  BY DEF Duplicate
<1> HIDE DEF d, t
<1>4. Alike(d, p) /\ Queues(d, W)  BY <1>2, BesideAlike, AlikeQueues
<1>5. Beside(s, d) /\ s.state = d.state  BY <1>2 DEF Beside, Fields
<1>6. Beside(r, d) /\ r.state = d.state
  <2>1. Beside(Rexmit(d), d) /\ Rexmit(d).state = d.state  BY <1>4, RexmitBeside
  <2>2. PICK z : z = Rexmit(d)  OBVIOUS
  <2>3. DOMAIN z = Fields  BY <2>1, <2>2 DEF Beside
  <2>4. r = [z EXCEPT !.ssthresh = t, !.cwnd = (t + 3 * Mss) % Cwnds, !.infr = TRUE]
    BY <2>2
  <2> HIDE DEF r
  <2>5. Beside(r, z) /\ r.state = z.state  BY <2>1, <2>2, <2>3, <2>4 DEF Beside, Fields
  <2> QED  BY <2>1, <2>2, <2>5 DEF Beside
<1> HIDE DEF r, s
<1>7. Alike(s, d) /\ Alike(r, d)  BY <1>4, <1>5, <1>6, BesideAlike
<1>8. Alike(s, p) /\ Alike(r, p)  BY <1>4, <1>7, AlikeTransitive
<1> QED  BY <1>2, <1>3, <1>4, <1>5, <1>6, <1>8

LEMMA EstimateBeside ==
  ASSUME NEW p, NEW W, Queues(p, W), NEW n, NEW m
  PROVE  Beside(Estimate(p, n, m), p) /\ Estimate(p, n, m).state = p.state
<1>1. DOMAIN p = Fields /\ p.state \in States /\ p.nrtx \in 0 .. 255 /\ p.rtime \in 0 .. Uint8 - 1
  BY DEF Queues
<1>2. Beside(p, p)  BY <1>1 DEF Beside
<1>4. \/ Estimate(p, n, m) = p
      \/ \E x, y, z : Estimate(p, n, m) = [p EXCEPT !.sa = x, !.sv = y, !.rto = z, !.timing = FALSE]
  BY DEF Estimate
<1>5. CASE Estimate(p, n, m) = p  BY <1>2, <1>5
<1>6. CASE Estimate(p, n, m) # p
  <2>1. PICK x, y, z : Estimate(p, n, m) = [p EXCEPT !.sa = x, !.sv = y, !.rto = z, !.timing = FALSE]
    BY <1>4, <1>6
  <2>2. PICK r : r = Estimate(p, n, m)  OBVIOUS
  <2>3. r = [p EXCEPT !.sa = x, !.sv = y, !.rto = z, !.timing = FALSE]  BY <2>1, <2>2
  <2>4. Beside(r, p) /\ r.state = p.state  BY <2>3, <1>1 DEF Beside, Fields
  <2> QED  BY <2>2, <2>4
<1> QED  BY <1>5, <1>6

LEMMA ProcessBeside ==
  ASSUME NEW p, NEW W, Queues(p, W), p.state # "CLOSED", NEW n
  PROVE  /\ Beside(Process(p, n), p)
         /\ Process(p, n).state = "ESTABLISHED" => p.state = "ESTABLISHED"
<1>1. DOMAIN p = Fields /\ p.state \in States /\ p.nrtx \in 0 .. 255 /\ p.rtime \in 0 .. Uint8 - 1
  BY DEF Queues
<1>2. Beside(p, p)  BY <1>1 DEF Beside
<1> DEFINE r == [p EXCEPT !.state = "FIN_WAIT_2"]
<1>3. Beside(r, p) /\ r.state = "FIN_WAIT_2"  BY <1>1 DEF Beside, Fields, States
<1>4. Process(p, n) = p \/ Process(p, n) = r  BY DEF Process
<1> QED  BY <1>2, <1>3, <1>4

LEMMA GiveBackAlike ==
  ASSUME NEW p, NEW W, Queues(p, W)
  PROVE  Alike(GiveBack(p), p) /\ GiveBack(p).state = p.state
<1> DEFINE a == p.unacked
           u == p.unsent
           r == [p EXCEPT !.unsent = Tail(a) \o u, !.unacked = Front(a, 1), !.snd_nxt = a[2].seq]
<1>1. /\ DOMAIN p = Fields /\ p.state \in States
      /\ u \in Seq(Segment) /\ a \in Seq(Segment)
      /\ p.snd_max \in Nat /\ p.snd_max <= p.snd_lbb
      /\ p.nrtx \in 0 .. 255 /\ p.rtime \in 0 .. Uint8 - 1
  BY DEF Queues
<1>2. CASE Len(a) > 1
  <2>1. GiveBack(p) = r  BY <1>2 DEF GiveBack
  <2>2. /\ DOMAIN r = Fields /\ r.state = p.state
        /\ r.unsent = Tail(a) \o u /\ r.unacked = Front(a, 1)
        /\ r.lastack = p.lastack /\ r.snd_lbb = p.snd_lbb /\ r.snd_max = p.snd_max
        /\ r.snd_buf = p.snd_buf /\ r.snd_queuelen = p.snd_queuelen
        /\ r.nrtx = p.nrtx /\ r.rtime = p.rtime
    BY <1>1 DEF Fields
  <2> HIDE DEF a, u, r
  <2>3. 1 \in 0 .. Len(a) /\ Len(a) > 0  BY <1>1, <1>2, Elements
  <2>4. /\ Front(a, 1) \in Seq(Segment) /\ Rest(a, 1) \in Seq(Segment)
        /\ Front(a, 1) \o Rest(a, 1) = a /\ Tail(a) = Rest(a, 1)
    BY <1>1, <2>3, FrontIs, RestIs, FrontAndRest, TailIs, ZenonT(60)
  <2>5. Tail(a) \o u \in Seq(Segment)  BY <1>1, <2>4, Concatenated
  <2>6. Queued(r) = Queued(p)
    <3>1. Queued(r) = Front(a, 1) \o (Rest(a, 1) \o u)  BY <2>2, <2>4 DEF Queued
    <3>2. Front(a, 1) \o (Rest(a, 1) \o u) = (Front(a, 1) \o Rest(a, 1)) \o u
      BY <1>1, <2>4, Associative
    <3> QED  BY <3>1, <3>2, <2>4 DEF Queued, a, u
  <2>7. Alike(r, p)  BY <1>1, <2>2, <2>4, <2>5, <2>6 DEF Alike
  <2> QED  BY <2>1, <2>2, <2>7
<1>3. CASE ~(Len(a) > 1)
  <2>1. GiveBack(p) = p  BY <1>3 DEF GiveBack
  <2> QED  BY <2>1, AlikeSelf
<1> QED  BY <1>2, <1>3

LEMMA RetransmitAlike ==
  ASSUME NEW p, NEW W, Queues(p, W)
  PROVE  Alike(Retransmit(p), p) /\ Retransmit(p).state = p.state
<1> DEFINE o == [p EXCEPT !.rto = BackedOff(p)]
           g == GiveBack(o)
           x == Rexmit(g)
           th == Smaller(p.cwnd, p.snd_wnd) \div 2
           r == [x EXCEPT !.ssthresh = IF th < Mss THEN 2 * Mss ELSE th, !.cwnd = Mss]
<1>1. DOMAIN p = Fields /\ p.state \in States /\ p.nrtx \in 0 .. 255 /\ p.rtime \in 0 .. Uint8 - 1
  BY DEF Queues
<1>2. Beside(o, p) /\ o.state = p.state  BY <1>1 DEF Beside, Fields
<1>3. Retransmit(p) = r  BY DEF Retransmit
<1> HIDE DEF o, g, x, th
<1>4. Alike(o, p) /\ Queues(o, W)  BY <1>2, BesideAlike, AlikeQueues
<1>5. Alike(g, o) /\ Queues(g, W) /\ g.state = o.state
  BY <1>4, GiveBackAlike, AlikeQueues DEF g
<1>6. Beside(x, g) /\ x.state = g.state  BY <1>5, RexmitBeside DEF x
<1>7. Alike(x, g) /\ Queues(x, W)  BY <1>5, <1>6, BesideAlike, AlikeQueues
<1>8. Beside(r, x) /\ r.state = x.state  BY <1>6 DEF Beside, Fields
<1> HIDE DEF r
<1>9. Alike(r, x)  BY <1>7, <1>8, BesideAlike
<1>10. Alike(x, o)  BY <1>5, <1>7, AlikeTransitive
<1>11. Alike(x, p)  BY <1>4, <1>10, AlikeTransitive
<1>12. Alike(r, p)  BY <1>9, <1>11, AlikeTransitive
<1> QED  BY <1>2, <1>3, <1>5, <1>6, <1>8, <1>12

-----------------------------------------------------------------------------
(* tcp_receive takes what is acknowledged off both queues.                 *)

LEMMA AckCountIs ==
  ASSUME NEW q \in Seq(Segment), NEW n \in Nat
  PROVE  AckCount(q, n) \in 0 .. Len(q) /\ Acknowledged(q, n, AckCount(q, n))
<1> DEFINE B == {i \in 1 .. Len(q) : EndOf(q[i]) > n}
<1>1. Len(q) \in Nat  BY Elements
<1>2. PICK k \in 0 .. Len(q) :
        (\A i \in 1 .. k : i \notin B) /\ (k < Len(q) => k + 1 \in B)
  <2>1. B \subseteq 1 .. Len(q)  OBVIOUS
  <2> HIDE DEF B
  <2> QED  BY <2>1, <1>1, WalkStops
<1>3. \A i \in 1 .. k : i \in 1 .. Len(q)  BY <1>1
<1>4. \A i \in 1 .. k : EndOf(q[i]) <= n
  <2> SUFFICES ASSUME NEW i \in 1 .. k PROVE EndOf(q[i]) <= n  OBVIOUS
  <2>1. i \in 1 .. Len(q) /\ ~(EndOf(q[i]) > n)  BY <1>2, <1>3
  <2>2. EndOf(q[i]) \in Nat  BY <2>1, Elements
  <2> QED  BY <2>1, <2>2
<1>5. Acknowledged(q, n, k)  BY <1>2, <1>4 DEF Acknowledged
<1> QED  BY <1>5 DEF AckCount

\* From the queue q the first k go, which n acknowledges; bufs pbufs go.
Shortened(r, q, n, k, bufs) ==
  /\ k \in 0 .. Len(q) /\ Acknowledged(q, n, k)
  /\ r = Rest(q, k) /\ BufsOf(q, k) = bufs

LEMMA RestBehind ==
  ASSUME NEW a \in Seq(Segment), NEW u \in Seq(Segment), NEW k \in 0 .. Len(a)
  PROVE  Rest(a, k) \o u = Rest(a \o u, k)
<1> DEFINE r == Rest(a, k)
           c == a \o u
           d == Rest(c, k)
<1>1. PICK m \in Nat : m = Len(a)  BY Elements
<1>2. PICK n \in Nat : n = Len(u)  BY Elements
<1>3. /\ r \in Seq(Segment) /\ Len(r) = m - k
      /\ \A i \in 1 .. m - k : k + i \in 1 .. m /\ r[i] = a[k + i]
  BY <1>1, RestIs
<1>4. /\ c \in Seq(Segment) /\ Len(c) = m + n
      /\ \A i \in 1 .. m : c[i] = a[i]
      /\ \A i \in 1 .. n : c[m + i] = u[i]
  BY <1>1, <1>2, Concatenated
<1> HIDE DEF r, c
<1>5. k \in 0 .. Len(c)  BY <1>1, <1>4
<1>6. /\ d \in Seq(Segment) /\ Len(d) = (m + n) - k
      /\ \A i \in 1 .. (m + n) - k : d[i] = c[k + i]
  BY <1>4, <1>5, RestIs
<1> HIDE DEF d
<1>7. PICK l \in Nat : l = m - k
  <2>1. k \in 0 .. m  BY <1>1
  <2>2. m - k \in Nat  BY <2>1
  <2> QED  BY <2>2
<1>8. /\ r \o u \in Seq(Segment) /\ Len(r \o u) = l + n
      /\ \A i \in 1 .. l : (r \o u)[i] = r[i]
      /\ \A i \in 1 .. n : (r \o u)[l + i] = u[i]
  <2>1. Len(r) = l  BY <1>3, <1>7
  <2> QED  BY <2>1, <1>2, <1>3, Concatenated
<1>9. ASSUME NEW i \in 1 .. l + n PROVE (r \o u)[i] = d[i]
  <2>1. d[i] = c[k + i]
    <3>1. i \in 1 .. (m + n) - k  BY <1>7
    <3> QED  BY <3>1, <1>6
  <2>2. CASE i \in 1 .. l
    <3>1. i \in 1 .. m - k  BY <2>2, <1>7
    <3>2. k + i \in 1 .. m /\ r[i] = a[k + i]  BY <3>1, <1>3
    <3> QED  BY <3>2, <2>1, <2>2, <1>4, <1>8
  <2>3. CASE i \notin 1 .. l
    <3>1. PICK j \in 1 .. n : i = l + j
      <4>1. i - l \in 1 .. n /\ i = l + (i - l)  BY <2>3
      <4> QED  BY <4>1
    <3>2. k + i = m + j  BY <3>1, <1>7
    <3>3. (r \o u)[i] = u[j] /\ c[m + j] = u[j]  BY <3>1, <1>4, <1>8
    <3> QED  BY <2>1, <3>2, <3>3
  <2> QED  BY <2>2, <2>3
<1>10. Len(d) = l + n  BY <1>6, <1>7
<1>11. r \o u = d
  <2>1. PICK z : z = r \o u  OBVIOUS
  <2>2. z \in Seq(Segment) /\ Len(z) = Len(d) /\ \A i \in 1 .. Len(z) : z[i] = d[i]
    BY <2>1, <1>8, <1>9, <1>10
  <2>3. z = d  BY <2>2, <1>6, SeqEqual
  <2> QED  BY <2>1, <2>3
<1> QED  BY <1>11 DEF r, c, d

\* If the whole first queue goes, what is left is what is left of the second.
LEMMA RestBeyond ==
  ASSUME NEW a \in Seq(Segment), NEW u \in Seq(Segment), NEW k \in 0 .. Len(u)
  PROVE  Rest(a, Len(a)) \o Rest(u, k) = Rest(a \o u, Len(a) + k) /\ Len(a) + k \in 0 .. Len(a \o u)
<1> DEFINE c == a \o u
           r == Rest(u, k)
           e == Rest(a, Len(a))
<1>1. PICK m \in Nat : m = Len(a)  BY Elements
<1>2. PICK n \in Nat : n = Len(u)  BY Elements
<1>3. /\ r \in Seq(Segment) /\ Len(r) = n - k
      /\ \A i \in 1 .. n - k : k + i \in 1 .. n /\ r[i] = u[k + i]
  BY <1>2, RestIs
<1>4. /\ c \in Seq(Segment) /\ Len(c) = m + n
      /\ \A i \in 1 .. n : c[m + i] = u[i]
  BY <1>1, <1>2, Concatenated
<1>5. e = <<>>
  <2>1. Len(a) \in 0 .. Len(a)  BY <1>1
  <2>2. e \in Seq(Segment) /\ Len(e) = Len(a) - Len(a)  BY <2>1, RestIs
  <2> HIDE DEF e
  <2>3. Len(e) = 0  BY <2>2, <1>1
  <2> QED  BY <2>2, <2>3, Elements
<1> HIDE DEF r, c, e
<1>6. e \o r = r  BY <1>3, <1>5, ConcatEmptySeq
<1>7. m + k \in 0 .. Len(c) /\ Len(c) - (m + k) = n - k  BY <1>2, <1>4
<1> DEFINE d == Rest(c, m + k)
<1>8. /\ d \in Seq(Segment) /\ Len(d) = Len(c) - (m + k)
      /\ \A i \in 1 .. Len(c) - (m + k) : d[i] = c[(m + k) + i]
  BY <1>4, <1>7, RestIs
<1> HIDE DEF d
<1>9. ASSUME NEW i \in 1 .. n - k PROVE r[i] = d[i]
  <2>1. k + i \in 1 .. n /\ r[i] = u[k + i]  BY <1>3
  <2>2. d[i] = c[(m + k) + i]  BY <1>7, <1>8
  <2>3. (m + k) + i = m + (k + i)  BY <1>2
  <2>4. c[m + (k + i)] = u[k + i]  BY <2>1, <1>4
  <2> QED  BY <2>1, <2>2, <2>3, <2>4
<1>10. r = d  BY <1>3, <1>7, <1>8, <1>9, SeqEqual
<1> QED  BY <1>1, <1>6, <1>7, <1>10 DEF r, c, d, e

LEMMA Removed ==
  ASSUME NEW a \in Seq(Segment), NEW u \in Seq(Segment), Chain(a \o u), NEW n \in Nat,
         NEW ka, ka = AckCount(a, n), NEW ku, ku = AckCount(u, n)
  PROVE  \E k : Shortened(Rest(a, ka) \o Rest(u, ku), a \o u, n, k, BufsOf(a, ka) + BufsOf(u, ku))
<1> DEFINE c == a \o u
<1>1. PICK la \in Nat : la = Len(a)  BY Elements
<1>2. PICK lu \in Nat : lu = Len(u)  BY Elements
<1>3. ka \in 0 .. la /\ Acknowledged(a, n, ka) /\ ka \in Nat  BY <1>1, AckCountIs
<1>4. ku \in 0 .. lu /\ Acknowledged(u, n, ku) /\ ku \in Nat  BY <1>2, AckCountIs
<1>5. /\ c \in Seq(Segment) /\ Len(c) = la + lu
      /\ \A i \in 1 .. la : i \in 1 .. la + lu /\ c[i] = a[i]
      /\ \A i \in 1 .. lu : la + i \in 1 .. la + lu /\ c[la + i] = u[i]
  BY <1>1, <1>2, Concatenated
<1>6. Chain(c)  OBVIOUS
<1>7. Counted(a, la) /\ Counted(u, lu) /\ Counted(c, la + lu)
  <2> HIDE DEF c
  <2> QED  BY <1>1, <1>2, <1>5, SeqCounted
<1>8. CASE ka < la
  <2>1. a[ka + 1] = c[ka + 1] /\ EndOf(c[ka + 1]) > n /\ ka + 1 \in 1 .. la + lu /\ ka + 1 \in 1 .. la
    <3>1. ka + 1 \in 1 .. la  BY <1>8, <1>3
    <3>2. EndOf(a[ka + 1]) > n  BY <1>8, <1>1, <1>3 DEF Acknowledged
    <3> QED  BY <3>1, <3>2, <1>5
  <2>2. ku = 0
    <3> SUFFICES ASSUME ku # 0 PROVE FALSE  OBVIOUS
    <3>1. 1 \in 1 .. ku /\ 1 \in 1 .. lu  BY <1>4
    <3>2. EndOf(u[1]) <= n  BY <3>1, <1>4 DEF Acknowledged
    <3>3. c[la + 1] = u[1] /\ la + 1 \in 1 .. la + lu  BY <3>1, <1>5
    <3>4. EndOf(c[ka + 1]) <= EndOf(c[la + 1])
      <4>1. ka + 1 <= la + 1  BY <1>3
      <4>2. ka + 1 \in 1 .. Len(c) /\ la + 1 \in 1 .. Len(c)  BY <2>1, <3>3, <1>5
      <4> HIDE DEF c
      <4> QED  BY <4>1, <4>2, <1>6, EndsGrow
    <3>5. EndOf(c[ka + 1]) \in Nat /\ EndOf(u[1]) \in Nat
      <4>1. ka + 1 \in 1 .. Len(c)  BY <2>1, <1>5
      <4> HIDE DEF c
      <4> QED  BY <4>1, <3>1, <1>2, <1>5, Elements
    <3>6. PICK x \in Nat : x = EndOf(c[ka + 1])  BY <3>5
    <3>7. PICK y \in Nat : y = EndOf(u[1])  BY <3>5
    <3>8. x > n /\ y <= n  BY <2>1, <3>2, <3>6, <3>7
    <3>9. x <= y  BY <3>3, <3>4, <3>6, <3>7
    <3> QED  BY <3>8, <3>9
  <2>3. Rest(u, ku) = u
    <3>1. 0 \in 0 .. Len(u)  BY <1>2
    <3>2. /\ Rest(u, 0) \in Seq(Segment) /\ Len(Rest(u, 0)) = Len(u) - 0
          /\ \A i \in 1 .. Len(u) - 0 : Rest(u, 0)[i] = u[0 + i]
      BY <3>1, RestIs
    <3>3. PICK z : z = Rest(u, 0)  OBVIOUS
    <3>4. Len(z) = Len(u) /\ \A i \in 1 .. Len(u) : z[i] = u[i]  BY <3>2, <3>3, <1>2
    <3>5. z = u  BY <3>2, <3>3, <3>4, SeqEqual
    <3> QED  BY <2>2, <3>3, <3>5
  <2>4. Rest(a, ka) \o u = Rest(c, ka)  BY <1>1, <1>3, RestBehind
  <2>5. Acknowledged(c, n, ka)
    <3>1. ASSUME NEW i \in 1 .. ka PROVE EndOf(c[i]) <= n
      <4>1. i \in 1 .. la  BY <1>3
      <4>2. EndOf(a[i]) <= n  BY <1>3 DEF Acknowledged
      <4> QED  BY <4>1, <4>2, <1>5
    <3> QED  BY <3>1, <2>1 DEF Acknowledged
  <2>6. BufsOf(c, ka) = BufsOf(a, ka) + BufsOf(u, ku)
    <3>1. Counted(a, ka)  BY <1>3, <1>7 DEF Counted
    <3>2. \A i \in 1 .. ka : c[i].bufs = a[i].bufs
      <4>1. \A i \in 1 .. ka : i \in 1 .. la  BY <1>3
      <4> QED  BY <4>1, <1>5
    <3>3. BufsOf(c, ka) = BufsOf(a, ka)
      <4> HIDE DEF c
      <4> QED  BY <3>1, <3>2, <1>3, SumSame
    <3>4. BufsOf(u, 0) = 0
      <4>1. 0 \in Nat /\ \A i \in 1 .. 0 : u[i].bufs = 0  OBVIOUS
      <4>2. BufsOf(u, 0) = 0 * 0  BY <4>1, SumOfEqual
      <4> QED  BY <4>2
    <3>5. BufsOf(a, ka) \in Nat  BY <3>1, <1>3, SumNat
    <3> QED  BY <3>3, <3>4, <3>5, <2>2
  <2>7. ka \in 0 .. Len(c)  BY <1>3, <1>5
  <2>8. Shortened(Rest(a, ka) \o Rest(u, ku), c, n, ka, BufsOf(a, ka) + BufsOf(u, ku))
    BY <2>3, <2>4, <2>5, <2>6, <2>7 DEF Shortened
  <2> QED  BY <2>8
<1>9. CASE ~(ka < la)
  <2>1. ka = la  BY <1>9, <1>3
  <2>2. Rest(a, ka) \o Rest(u, ku) = Rest(c, la + ku) /\ la + ku \in 0 .. Len(c)
    BY <2>1, <1>1, <1>2, <1>4, RestBeyond
  <2>3. Acknowledged(c, n, la + ku)
    <3>1. ASSUME NEW i \in 1 .. la + ku PROVE EndOf(c[i]) <= n
      <4>1. CASE i \in 1 .. la
        <5>1. EndOf(a[i]) <= n  BY <4>1, <2>1, <1>3 DEF Acknowledged
        <5> QED  BY <5>1, <4>1, <1>5
      <4>2. CASE i \notin 1 .. la
        <5>1. PICK j \in 1 .. ku : i = la + j
          <6>1. i - la \in 1 .. ku /\ i = la + (i - la)  BY <4>2, <1>4
          <6> QED  BY <6>1
        <5>2. j \in 1 .. lu  BY <1>4
        <5>3. EndOf(u[j]) <= n  BY <1>4 DEF Acknowledged
        <5> QED  BY <5>1, <5>2, <5>3, <1>5
      <4> QED  BY <4>1, <4>2
    <3>2. ASSUME la + ku < Len(c) PROVE EndOf(c[(la + ku) + 1]) > n
      <4>1. ku < lu /\ ku + 1 \in 1 .. lu  BY <3>2, <1>4, <1>5
      <4>2. EndOf(u[ku + 1]) > n  BY <4>1, <1>2, <1>4 DEF Acknowledged
      <4>3. (la + ku) + 1 = la + (ku + 1)  BY <1>4
      <4>4. c[la + (ku + 1)] = u[ku + 1]  BY <4>1, <1>5
      <4> QED  BY <4>2, <4>3, <4>4
    <3> QED  BY <3>1, <3>2 DEF Acknowledged
  <2>4. BufsOf(c, la + ku) = BufsOf(a, ka) + BufsOf(u, ku)
    <3>1. Counted(c, la + ku)
      <4>1. \A i \in 1 .. la + ku : i \in 1 .. la + lu  BY <1>4
      <4> QED  BY <4>1, <1>7 DEF Counted
    <3>2. \A i \in 1 .. ku : u[i].bufs = c[la + i].bufs
      <4>1. \A i \in 1 .. ku : i \in 1 .. lu  BY <1>4
      <4> QED  BY <4>1, <1>5
    <3>3. BufsOf(c, la + ku) = BufsOf(c, la) + BufsOf(u, ku)
      <4> HIDE DEF c
      <4> QED  BY <3>1, <3>2, <1>4, SumSplits
    <3>4. BufsOf(c, la) = BufsOf(a, la)
      <4>1. \A i \in 1 .. la : c[i].bufs = a[i].bufs  BY <1>5
      <4> HIDE DEF c
      <4> QED  BY <4>1, <1>7, SumSame
    <3> QED  BY <3>3, <3>4, <2>1
  <2>5. Shortened(Rest(a, ka) \o Rest(u, ku), c, n, la + ku, BufsOf(a, ka) + BufsOf(u, ku))
    BY <2>2, <2>3, <2>4 DEF Shortened
  <2> QED  BY <2>5
<1> QED  BY <1>8, <1>9

\* What is left of a queue of the stream from x to b is the stream from n.
LEMMA ShortenedSpan ==
  ASSUME NEW q, Chain(q), NEW x \in Nat, NEW b \in Nat, Spans(q, x, b),
         NEW n \in Nat, x < n, n <= b, NEW r, NEW k, NEW bufs, Shortened(r, q, n, k, bufs)
  PROVE  Spans(r, n, b)
<1>0. q \in Seq(Segment)  BY DEF Chain
<1>1. PICK l \in Nat : l = Len(q)  BY <1>0, Elements
<1>2. k \in 0 .. l /\ Acknowledged(q, n, k) /\ r = Rest(q, k)  BY <1>1 DEF Shortened
<1>3. l > 0
  <2> SUFFICES ASSUME l = 0 PROVE FALSE  OBVIOUS
  <2>1. q = <<>>  BY <1>0, <1>1, Elements
  <2>2. x = b  BY <2>1 DEF Spans
  <2> QED  BY <2>2
<1>4. EndOf(q[l]) = b /\ q[1].seq <= x /\ 1 \in 1 .. l /\ l \in 1 .. l
  BY <1>0, <1>1, <1>3, LastOfSpan
<1>5. /\ r \in Seq(Segment) /\ Len(r) = l - k
      /\ \A i \in 1 .. l - k : r[i] = q[k + i]
  BY <1>0, <1>1, <1>2, RestIs
<1>6. CASE k = l
  <2>1. r = <<>>
    <3>1. Len(r) = 0  BY <1>5, <1>6
    <3> QED  BY <3>1, <1>5, Elements
  <2>2. b <= n
    <3>1. l \in 1 .. k  BY <1>4, <1>6
    <3> QED  BY <3>1, <1>2, <1>4 DEF Acknowledged
  <2>3. n = b  BY <2>2
  <2> QED  BY <2>1, <2>3 DEF Spans
<1>7. CASE k # l
  <2>1. k < l /\ k \in Nat /\ k + 1 \in 1 .. l /\ 1 \in 1 .. l - k /\ l - k \in 1 .. l - k /\ k + (l - k) = l
    BY <1>2, <1>7
  <2>2. r[1] = q[k + 1] /\ r[l - k] = q[l]  BY <2>1, <1>5
  <2>3. n < EndOf(r[1])
    <3>1. EndOf(q[k + 1]) > n  BY <2>1, <1>1, <1>2 DEF Acknowledged
    <3>2. EndOf(q[k + 1]) \in Nat  BY <2>1, <1>0, <1>1, Elements
    <3> QED  BY <3>1, <3>2, <2>2
  <2>4. r[1].seq <= n
    <3>1. CASE k = 0
      <4>1. r[1].seq <= x /\ r[1].seq \in Nat
        <5>1. q[1].seq \in Nat  BY <1>0, <1>1, <1>4, Elements
        <5> QED  BY <5>1, <3>1, <2>2, <1>4
      <4> QED  BY <4>1
    <3>2. CASE k # 0
      <4>1. k \in 1 .. k /\ k \in 1 .. l  BY <3>2, <2>1
      <4>2. EndOf(q[k]) = q[k + 1].seq  BY <4>1, <2>1, <1>1 DEF Chain
      <4>3. EndOf(q[k]) <= n  BY <4>1, <1>2 DEF Acknowledged
      <4> QED  BY <4>2, <4>3, <2>2
    <3> QED  BY <3>1, <3>2
  <2>5. EndOf(r[Len(r)]) = b  BY <2>2, <1>4, <1>5
  <2>6. Len(r) > 0  BY <2>1, <1>5
  <2> QED  BY <2>3, <2>4, <2>5, <2>6, <1>5, SpanIs
<1> QED  BY <1>6, <1>7

LEMMA ShortenedSum ==
  ASSUME NEW q \in Seq(Segment), NEW r, NEW n, NEW k, NEW bufs, Shortened(r, q, n, k, bufs)
  PROVE  BufsOf(q, Len(q)) = bufs + BufsOf(r, Len(r)) /\ bufs \in Nat /\ BufsOf(r, Len(r)) \in Nat
<1>1. PICK l \in Nat : l = Len(q)  BY Elements
<1>2. k \in 0 .. l /\ r = Rest(q, k) /\ BufsOf(q, k) = bufs /\ k \in Nat
  <2>1. k \in 0 .. l /\ r = Rest(q, k) /\ BufsOf(q, k) = bufs  BY <1>1 DEF Shortened
  <2> QED  BY <2>1
<1>3. PICK m \in Nat : l = k + m
  <2>1. l - k \in Nat /\ l = k + (l - k)  BY <1>2
  <2> QED  BY <2>1
<1>4. /\ r \in Seq(Segment) /\ Len(r) = l - k /\ \A i \in 1 .. l - k : r[i] = q[k + i]
  BY <1>1, <1>2, RestIs
<1>5. l - k = m  BY <1>2, <1>3
<1>6. Counted(q, k + m) /\ Counted(r, m)  BY <1>1, <1>3, <1>4, <1>5, SeqCounted
<1>7. Counted(q, k)
  <2>1. \A i \in 1 .. k : i \in 1 .. k + m  BY <1>2
  <2> QED  BY <2>1, <1>6 DEF Counted
<1>8. \A i \in 1 .. m : r[i].bufs = q[k + i].bufs  BY <1>4, <1>5
<1>9. BufsOf(q, k + m) = BufsOf(q, k) + BufsOf(r, m)
  <2>1. PICK j \in Nat : j = k  BY <1>2
  <2>2. Counted(q, j + m) /\ \A i \in 1 .. m : r[i].bufs = q[j + i].bufs
    BY <2>1, <1>6, <1>8
  <2>3. Follows(r, q, j, m)  BY <2>2 DEF Follows
  <2>4. BufsOf(q, j + m) = BufsOf(q, j) + BufsOf(r, m)  BY <2>2, <2>3, SumFollows
  <2> QED  BY <2>1, <2>4
<1>10. BufsOf(q, k) \in Nat /\ BufsOf(r, m) \in Nat  BY <1>2, <1>6, <1>7, SumNat
<1> QED  BY <1>1, <1>2, <1>3, <1>4, <1>5, <1>9, <1>10

LEMMA SentRest ==
  ASSUME NEW W, NEW q \in Seq(Segment), NEW b, Sent(W, q, b), NEW k \in 0 .. Len(q)
  PROVE  Sent(W, Rest(q, k), b)
<1> DEFINE r == Rest(q, k)
<1>1. /\ Len(r) = Len(q) - k
      /\ \A i \in 1 .. Len(q) - k : k + i \in 1 .. Len(q) /\ r[i] = q[k + i]
  BY RestIs
<1> HIDE DEF r
<1>2. ASSUME NEW w \in W, NEW i \in 1 .. Len(r) PROVE Apart(w, r[i])
  <2>1. k + i \in 1 .. Len(q) /\ r[i] = q[k + i]  BY <1>1
  <2> QED  BY <2>1 DEF Sent
<1>3. Sent(W, r, b)  BY <1>2 DEF Sent
<1> QED  BY <1>3 DEF r

\* tcp_receive of an acknowledgement n of new data.
LEMMA NewDataKept ==
  ASSUME NEW p, NEW W, Queues(p, W), p.state # "CLOSED",
         NEW n \in Nat, p.lastack < n, n <= p.snd_max
  PROVE  Queues(NewData(p, n), W) /\ NewData(p, n).state = p.state
         /\ NewData(p, n).snd_lbb = p.snd_lbb
<1> DEFINE a == p.unacked
           u == p.unsent
           ka == AckCount(a, n)
           ku == AckCount(u, n)
           r == NewData(p, n)
           q == Queued(p)
<1>1. /\ DOMAIN p = Fields /\ p.state \in States
      /\ u \in Seq(Segment) /\ a \in Seq(Segment)
      /\ p.lastack \in Nat /\ p.snd_lbb \in Nat /\ p.snd_max \in Nat /\ p.snd_max <= p.snd_lbb
      /\ p.nrtx \in 0 .. 255 /\ p.rtime \in 0 .. Uint8 - 1
      /\ p.snd_buf \in 0 .. Uint16 - 1 /\ p.snd_queuelen \in 0 .. SndQueueLen
      /\ Chain(q) /\ Sent(W, q, p.snd_lbb) /\ Spans(q, p.lastack, p.snd_lbb)
      /\ p.snd_buf = Left(p) /\ p.snd_queuelen = BufsOf(q, Len(q))
  BY DEF Queues
<1>2. /\ DOMAIN r = Fields /\ r.state = p.state
      /\ r.unsent = Rest(u, ku) /\ r.unacked = Rest(a, ka)
      /\ r.lastack = n /\ r.snd_lbb = p.snd_lbb /\ r.snd_max = p.snd_max
      /\ r.snd_buf = (p.snd_buf + n - p.lastack) % Uint16
      /\ r.snd_queuelen = p.snd_queuelen - BufsOf(u, ku) - BufsOf(a, ka)
      /\ r.nrtx = 0 /\ r.rtime = p.rtime
  BY <1>1 DEF Fields, NewData
<1>3. /\ ka \in 0 .. Len(a) /\ ku \in 0 .. Len(u)  BY <1>1, AckCountIs
<1>4. Rest(a, ka) \in Seq(Segment) /\ Rest(u, ku) \in Seq(Segment)  BY <1>1, <1>3, RestIs
<1>5. Queued(r) = Rest(a, ka) \o Rest(u, ku)  BY <1>2 DEF Queued
<1>q. q = a \o u  BY DEF Queued
<1> HIDE DEF a, u, ka, ku, r, q
<1>6. PICK k : Shortened(Queued(r), q, n, k, BufsOf(a, ka) + BufsOf(u, ku))
  BY <1>1, <1>5, <1>q, Removed DEF ka, ku
<1>7. q \in Seq(Segment) /\ k \in 0 .. Len(q) /\ Queued(r) = Rest(q, k)
  BY <1>1, <1>6 DEF Shortened, Chain
<1>8. Chain(Queued(r)) /\ Sent(W, Queued(r), r.snd_lbb)
  BY <1>1, <1>2, <1>7, ChainRest, SentRest
<1>9. n <= p.snd_lbb  BY <1>1
<1>10. Spans(Queued(r), r.lastack, r.snd_lbb)
  BY <1>1, <1>2, <1>6, <1>9, ShortenedSpan
<1>11. r.snd_queuelen = BufsOf(Queued(r), Len(Queued(r))) /\ r.snd_queuelen \in 0 .. SndQueueLen
  <2>1. /\ BufsOf(q, Len(q)) = (BufsOf(a, ka) + BufsOf(u, ku)) + BufsOf(Queued(r), Len(Queued(r)))
        /\ BufsOf(Queued(r), Len(Queued(r))) \in Nat
    BY <1>6, <1>7, ShortenedSum
  <2>2. BufsOf(a, ka) \in Nat /\ BufsOf(u, ku) \in Nat
    <3>1. Counted(a, ka) /\ ka \in Nat
      <4>1. Counted(a, Len(a)) /\ Len(a) \in Nat  BY <1>1, SeqCounted, Elements
      <4>2. ka \in Nat /\ \A i \in 1 .. ka : i \in 1 .. Len(a)  BY <4>1, <1>3
      <4> QED  BY <4>1, <4>2 DEF Counted
    <3>2. Counted(u, ku) /\ ku \in Nat
      <4>1. Counted(u, Len(u)) /\ Len(u) \in Nat  BY <1>1, SeqCounted, Elements
      <4>2. ku \in Nat /\ \A i \in 1 .. ku : i \in 1 .. Len(u)  BY <4>1, <1>3
      <4> QED  BY <4>1, <4>2 DEF Counted
    <3> QED  BY <3>1, <3>2, SumNat
  <2>3. PICK x \in Nat : x = BufsOf(a, ka)  BY <2>2
  <2>4. PICK y \in Nat : y = BufsOf(u, ku)  BY <2>2
  <2>5. PICK z \in Nat : z = BufsOf(Queued(r), Len(Queued(r)))  BY <2>1
  <2>6. r.snd_queuelen = ((x + y) + z) - y - x /\ (x + y) + z \in 0 .. SndQueueLen
    BY <2>1, <2>3, <2>4, <2>5, <1>1, <1>2
  <2>7. ((x + y) + z) - y - x = z  OBVIOUS
  <2>8. z \in 0 .. SndQueueLen  BY <2>6, Sizes
  <2> QED  BY <2>5, <2>6, <2>7, <2>8
<1>12. r.snd_buf = Left(r) /\ r.snd_buf \in 0 .. Uint16 - 1
  <2>1. Uint16 \in Nat \ {0}  BY DEF Uint16
  <2>2. PICK y \in Int : y = SndBuf - (p.snd_lbb - p.lastack)  BY <1>1, Sizes
  <2>3. p.snd_buf = y % Uint16  BY <2>2, <1>1 DEF Left
  <2>4. PICK d \in Int : d = n - p.lastack  BY <1>1
  <2>5. r.snd_buf = ((y % Uint16) + d) % Uint16
    <3>1. PICK z \in Int : z = p.snd_buf  BY <2>1, <1>1
    <3>2. z + n - p.lastack = z + d  BY <2>4, <1>1
    <3>3. r.snd_buf = (z + n - p.lastack) % Uint16  BY <3>1, <1>2
    <3> QED  BY <3>1, <3>2, <3>3, <2>3
  <2>6. Left(r) = (y + d) % Uint16
    <3>1. SndBuf - (p.snd_lbb - n) = y + d
      <4>1. PICK s \in Nat : s = SndBuf  BY Sizes
      <4>2. PICK l \in Nat : l = p.snd_lbb  BY <1>1
      <4>3. PICK x \in Nat : x = p.lastack  BY <1>1
      <4>4. y = s - (l - x) /\ d = n - x  BY <2>2, <2>4, <4>1, <4>2, <4>3
      <4>5. s - (l - n) = y + d  BY <4>4
      <4> QED  BY <4>1, <4>2, <4>5
    <3>2. Left(r) = (SndBuf - (p.snd_lbb - n)) % Uint16  BY <1>2 DEF Left
    <3> QED  BY <3>1, <3>2
  <2>7. y + d \in Int  OBVIOUS
  <2>8. ((y % Uint16) + d) % Uint16 = (y + d) % Uint16 /\ (y + d) % Uint16 \in 0 .. Uint16 - 1
    BY <2>1, <2>7, Modulo
  <2> QED  BY <2>5, <2>6, <2>8
<1>13. Queues(r, W)
  <2>1. r.nrtx \in 0 .. 255  BY <1>2, Counters
  <2> QED
    BY <2>1, <1>1, <1>2, <1>4, <1>8, <1>10, <1>11, <1>12, SMTT(30) DEF Queues
<1> QED  BY <1>2, <1>13 DEF r

-----------------------------------------------------------------------------
(* What is sent is cut like the queue.                                     *)

LEMMA QueueApart ==
  ASSUME NEW q, Chain(q), NEW i \in 1 .. Len(q), NEW j \in 1 .. Len(q)
  PROVE  Apart(q[i], q[j])
<1>1. /\ q[i].seq \in Nat /\ q[j].seq \in Nat /\ EndOf(q[i]) \in Nat /\ EndOf(q[j]) \in Nat
      /\ Len(q) \in Nat
  BY Elements DEF Chain
<1>2. EndOf(q[i]) > q[i].seq /\ EndOf(q[j]) > q[j].seq  BY DEF Chain
<1>3. CASE i = j  BY <1>1, <1>3 DEF Apart
<1>4. CASE i < j
  <2>1. EndOf(q[i]) <= q[j].seq  BY <1>4 DEF Chain
  <2> QED  BY <2>1, <1>1, <1>2 DEF Apart
<1>5. CASE j < i
  <2>1. EndOf(q[j]) <= q[i].seq  BY <1>5 DEF Chain
  <2> QED  BY <2>1, <1>1, <1>2 DEF Apart
<1> QED  BY <1>1, <1>3, <1>4, <1>5

\* A packet stands for its segment.
LEMMA PacketIs ==
  ASSUME NEW s \in Segment
  PROVE  /\ Packet(s).seq = s.seq /\ Packet(s).len = s.len /\ Packet(s).fin = s.fin
         /\ EndOf(Packet(s)) = EndOf(s)
         /\ \A t : (Apart(Packet(s), t) <=> Apart(s, t)) /\ (Apart(t, Packet(s)) <=> Apart(t, s))
<1>1. Packet(s).seq = s.seq /\ Packet(s).len = s.len /\ Packet(s).fin = s.fin
  BY DEF Packet
<1>2. EndOf(Packet(s)) = EndOf(s)  BY <1>1 DEF EndOf, TCPLEN
<1> QED  BY <1>1, <1>2 DEF Apart

LEMMA SentMore ==
  ASSUME NEW q, Chain(q), NEW x \in Nat, NEW b \in Nat, Spans(q, x, b),
         NEW W, Sent(W, q, b), NEW V, V \subseteq W \cup PacketsOf(q)
  PROVE  Sent(V, q, b)
<1>0. q \in Seq(Segment)  BY DEF Chain
<1>1. ASSUME NEW i \in 1 .. Len(q)
      PROVE  /\ q[i] \in Segment /\ q[i].seq \in Nat /\ q[i].len \in Nat /\ q[i].fin \in BOOLEAN
             /\ q[i].seq < EndOf(q[i]) /\ EndOf(q[i]) <= b
  <2>1. Len(q) \in Nat /\ Len(q) > 0  BY <1>0, Elements
  <2>2. EndOf(q[Len(q)]) = b /\ Len(q) \in 1 .. Len(q)  BY <1>0, <2>1, LastOfSpan
  <2>3. i <= Len(q)  BY <2>1
  <2>4. EndOf(q[i]) <= EndOf(q[Len(q)])  BY <2>2, <2>3, EndsGrow
  <2>5. /\ q[i] \in Segment /\ q[i].seq \in Nat /\ q[i].len \in Nat /\ q[i].fin \in BOOLEAN
        /\ EndOf(q[i]) \in Nat
    BY <1>0, Elements
  <2>6. EndOf(q[i]) > q[i].seq  BY DEF Chain
  <2> QED  BY <2>2, <2>4, <2>5, <2>6
<1>2. ASSUME NEW v \in V
      PROVE  v \in W \/ \E i \in 1 .. Len(q) : v = Packet(q[i])
  BY DEF PacketsOf
<1>3. ASSUME NEW v \in V
      PROVE  /\ v.seq \in Nat /\ v.len \in Nat /\ v.fin \in BOOLEAN
             /\ v.seq < EndOf(v) /\ EndOf(v) <= b
             /\ \A i \in 1 .. Len(q) : Apart(v, q[i]) /\ Apart(q[i], v)
  <2>1. CASE v \in W
    <3>1. /\ v.seq \in Nat /\ v.len \in Nat /\ v.fin \in BOOLEAN
          /\ v.seq < EndOf(v) /\ EndOf(v) <= b
          /\ \A i \in 1 .. Len(q) : Apart(v, q[i])
      BY <2>1 DEF Sent
    <3>2. \A i \in 1 .. Len(q) : Apart(q[i], v)  BY <3>1 DEF Apart
    <3> QED  BY <3>1, <3>2
  <2>2. CASE v \notin W
    <3>1. PICK j \in 1 .. Len(q) : v = Packet(q[j])  BY <1>2, <2>2
    <3>2. q[j] \in Segment  BY <1>1
    <3>3. /\ v.seq = q[j].seq /\ v.len = q[j].len /\ v.fin = q[j].fin /\ EndOf(v) = EndOf(q[j])
          /\ \A t : (Apart(v, t) <=> Apart(q[j], t)) /\ (Apart(t, v) <=> Apart(t, q[j]))
      BY <3>1, <3>2, PacketIs
    <3>4. \A i \in 1 .. Len(q) : Apart(q[j], q[i]) /\ Apart(q[i], q[j])  BY QueueApart
    <3>5. \A i \in 1 .. Len(q) : Apart(v, q[i]) /\ Apart(q[i], v)  BY <3>3, <3>4
    <3>6. /\ v.seq \in Nat /\ v.len \in Nat /\ v.fin \in BOOLEAN
          /\ v.seq < EndOf(v) /\ EndOf(v) <= b
      BY <3>3, <1>1
    <3> QED  BY <3>5, <3>6
  <2> QED  BY <2>1, <2>2
<1>4. ASSUME NEW v \in V, NEW w \in V PROVE Apart(v, w)
  <2>1. CASE v \in W /\ w \in W  BY <2>1 DEF Sent
  <2>2. CASE v \notin W
    <3>1. PICK j \in 1 .. Len(q) : v = Packet(q[j])  BY <1>2, <2>2
    <3>2. Apart(q[j], w)  BY <1>3
    <3>3. q[j] \in Segment  BY <1>1
    <3>4. Apart(Packet(q[j]), w) <=> Apart(q[j], w)  BY <3>3, PacketIs
    <3> QED  BY <3>1, <3>2, <3>4
  <2>3. CASE w \notin W
    <3>1. PICK j \in 1 .. Len(q) : w = Packet(q[j])  BY <1>2, <2>3
    <3>2. Apart(v, q[j])  BY <1>3
    <3>3. q[j] \in Segment  BY <1>1
    <3>4. Apart(v, Packet(q[j])) <=> Apart(v, q[j])  BY <3>3, PacketIs
    <3> QED  BY <3>1, <3>2, <3>4
  <2> QED  BY <2>1, <2>2, <2>3
<1> QED  BY <1>3, <1>4 DEF Sent

LEMMA SendKept ==
  ASSUME NEW r, NEW W, Queues(r, W), r.state # "CLOSED",
         NEW V, V \subseteq W \cup PacketsOf(Queued(r))
  PROVE  Queues(r, V)
<1>1. /\ Chain(Queued(r)) /\ r.lastack \in Nat /\ r.snd_lbb \in Nat
      /\ Spans(Queued(r), r.lastack, r.snd_lbb) /\ Sent(W, Queued(r), r.snd_lbb)
  BY DEF Queues
<1>2. Sent(V, Queued(r), r.snd_lbb)  BY <1>1, SentMore
<1> QED  BY <1>2 DEF Queues

LEMMA PacketsFinite ==
  ASSUME NEW q \in Seq(Segment)
  PROVE  IsFiniteSet(PacketsOf(q))
<1>1. PICK n \in Nat : n = Len(q)  BY Elements
<1> DEFINE f == [i \in 1 .. n |-> Packet(q[i])]
<1>2. f \in Surjection(1 .. n, PacketsOf(q))  BY <1>1 DEF Surjection, PacketsOf
<1>3. IsFiniteSet(1 .. n)  BY FS_Interval
<1> HIDE DEF f
<1> QED  BY <1>2, <1>3, FS_Surjection

LEMMA TransmitKept ==
  ASSUME NEW q \in Seq(Segment), NEW P, P \subseteq PacketsOf(q),
         losses \in 0 .. Losses, Transmit(P)
  PROVE  losses' \in 0 .. Losses /\ wire' \subseteq wire \cup PacketsOf(q)
<1>1. PICK lost \in SUBSET P : /\ losses + Cardinality(lost) <= Losses
                               /\ losses' = losses + Cardinality(lost)
                               /\ wire' = wire \cup (P \ lost)
  BY DEF Transmit
<1>2. Cardinality(lost) \in Nat
  <2>1. IsFiniteSet(PacketsOf(q))  BY PacketsFinite
  <2>2. lost \in SUBSET PacketsOf(q)  OBVIOUS
  <2>3. IsFiniteSet(lost)  BY <2>1, <2>2, FS_Subset
  <2> QED  BY <2>3, FS_CardinalityType
<1>3. losses' \in 0 .. Losses  BY <1>1, <1>2, Sizes
<1> QED  BY <1>1, <1>3

\* The first segment is queued, if there is one.
LEMMA RepeatedQueued ==
  ASSUME NEW p, NEW W, Queues(p, W), p.unacked # <<>>
  PROVE  Repeated(p) \subseteq PacketsOf(Queued(p))
<1>1. p.unacked \in Seq(Segment) /\ p.unsent \in Seq(Segment)  BY DEF Queues
<1>2. 1 \in 1 .. Len(p.unacked)
  <2>1. Len(p.unacked) \in Nat /\ Len(p.unacked) # 0  BY <1>1, Elements
  <2> QED  BY <2>1
<1>3. 1 \in 1 .. Len(Queued(p)) /\ Queued(p)[1] = p.unacked[1]  BY <1>1, <1>2, QueuedIs
<1>4. Packet(p.unacked[1]) \in PacketsOf(Queued(p))  BY <1>3 DEF PacketsOf
<1> QED  BY <1>4 DEF Repeated

-----------------------------------------------------------------------------
(* Each action keeps the invariant.                                        *)

\* r comes from p by steps of a handler, and W is sent.
Onward(r, p, W) ==
  /\ Queues(r, W) /\ r.snd_lbb = p.snd_lbb
  /\ r.state # "CLOSED"
  /\ r.state = "ESTABLISHED" => p.state = "ESTABLISHED"

LEMMA AlikeOnward ==
  ASSUME NEW p, NEW r, NEW s, NEW W, Onward(r, p, W), Alike(s, r),
         s.state = "ESTABLISHED" => r.state = "ESTABLISHED"
  PROVE  Onward(s, p, W)
<1>1. Queues(s, W)  BY AlikeQueues DEF Onward
<1> QED  BY <1>1 DEF Onward, Alike

\* tcp_output at the end of a handler, which has sent the packets P before.
LEMMA OutputOnward ==
  ASSUME NEW p, NEW r, Onward(r, p, wire), NEW P, P \subseteq PacketsOf(Queued(r)),
         losses \in 0 .. Losses, Transmit(Transmitted(r) \cup P)
  PROVE  Onward(Output(r), p, wire') /\ losses' \in 0 .. Losses
<1>1. Queues(r, wire) /\ r.state # "CLOSED"  BY DEF Onward
<1>2. /\ Alike(Output(r), r) /\ Output(r).state = r.state
      /\ Transmitted(r) \subseteq PacketsOf(Queued(r))
  BY <1>1, Outputs
<1>3. Queued(r) \in Seq(Segment)  BY <1>1 DEF Queues, Chain
<1>4. Transmitted(r) \cup P \subseteq PacketsOf(Queued(r))  BY <1>2
<1>5. losses' \in 0 .. Losses /\ wire' \subseteq wire \cup PacketsOf(Queued(r))
  BY <1>3, <1>4, TransmitKept
<1>6. Queues(r, wire')  BY <1>1, <1>5, SendKept
<1>7. Onward(r, p, wire')  BY <1>6 DEF Onward
<1> QED  BY <1>2, <1>5, <1>7, AlikeOnward

LEMMA InitKept ==
  ASSUME Init
  PROVE  IInv
<1>1. PICK w \in Windows, m \in Rtts, timed \in BOOLEAN :
        pcb = Estimate(
             [state |-> "ESTABLISHED", snd_nxt |-> 1, snd_max |-> 1, lastack |-> 1,
              snd_lbb |-> 1, snd_buf |-> SndBuf, snd_queuelen |-> 0,
              snd_wnd |-> w, snd_wl2 |-> 1, cwnd |-> Mss, ssthresh |-> w,
              dupacks |-> 0, infr |-> FALSE, nrtx |-> 0, rto |-> Sv, rtime |-> 0,
              timing |-> timed, rtseq |-> 0, sa |-> 0, sv |-> Sv,
              unsent |-> <<>>, unacked |-> <<>>], 1, m)
  BY DEF Init
<1> DEFINE i ==
             [state |-> "ESTABLISHED", snd_nxt |-> 1, snd_max |-> 1, lastack |-> 1,
              snd_lbb |-> 1, snd_buf |-> SndBuf, snd_queuelen |-> 0,
              snd_wnd |-> w, snd_wl2 |-> 1, cwnd |-> Mss, ssthresh |-> w,
              dupacks |-> 0, infr |-> FALSE, nrtx |-> 0, rto |-> Sv, rtime |-> 0,
              timing |-> timed, rtseq |-> 0, sa |-> 0, sv |-> Sv,
              unsent |-> <<>>, unacked |-> <<>>]
<1>2. /\ DOMAIN i = Fields /\ i.state = "ESTABLISHED" /\ i.unsent = <<>> /\ i.unacked = <<>>
      /\ i.lastack = 1 /\ i.snd_lbb = 1 /\ i.snd_max = 1 /\ i.nrtx = 0 /\ i.rtime = 0
      /\ i.snd_buf = SndBuf /\ i.snd_queuelen = 0
  BY DEF Fields
<1> HIDE DEF i
<1>3. Queues(i, wire)
  <2>1. wire = {}  BY DEF Init
  <2>2. <<>> \in Seq(Segment) /\ Len(<<>>) = 0  BY EmptySeq
  <2>3. Queued(i) = <<>>
    <3>1. Queued(i) \in Seq(Segment) /\ Len(Queued(i)) = 0 + 0  BY <1>2, <2>2, QueuedIs
    <3> QED  BY <3>1, Elements
  <2>4. Chain(Queued(i)) /\ Sent(wire, Queued(i), i.snd_lbb)
    BY <2>1, <2>2, <2>3 DEF Chain, Sent
  <2>5. Spans(Queued(i), i.lastack, i.snd_lbb)  BY <1>2, <2>3 DEF Spans
  <2>6. i.snd_buf \in 0 .. Uint16 - 1 /\ i.snd_buf = Left(i)
    <3>0. Uint16 \in Nat \ {0}  BY DEF Uint16
    <3>1. SndBuf \in 1 .. Uint16 - 1  BY SendAssumption
    <3>2. SndBuf \in 0 .. Uint16 - 1  BY <3>1
    <3>3. SndBuf - (1 - 1) = SndBuf  BY <3>1
    <3>4. SndBuf % Uint16 = SndBuf  BY <3>0, <3>2, Small
    <3> QED  BY <3>2, <3>3, <3>4, <1>2 DEF Left
  <2>7. BufsOf(Queued(i), Len(Queued(i))) = 0
    <3>1. 0 \in Nat /\ \A k \in 1 .. 0 : <<>>[k].bufs = 0  OBVIOUS
    <3>2. BufsOf(<<>>, 0) = 0 * 0  BY <3>1, SumOfEqual
    <3> QED  BY <3>2, <2>2, <2>3
  <2>8. 0 \in 0 .. SndQueueLen /\ 1 \in Nat /\ 1 <= 1  BY Sizes
  <2>9. i.state \in States  BY <1>2 DEF States
  <2> QED  BY <1>2, <2>2, <2>4, <2>5, <2>6, <2>7, <2>8, <2>9, Counters DEF Queues
<1>4. Beside(Estimate(i, 1, m), i) /\ Estimate(i, 1, m).state = i.state  BY <1>3, EstimateBeside
<1>5. pcb = Estimate(i, 1, m)  BY <1>1 DEF i
<1>6. Queues(pcb, wire)  BY <1>3, <1>4, <1>5, BesideAlike, AlikeQueues
<1>7. written = 0 /\ losses = 0 /\ peer = 1 /\ acks = {1} /\ pcb.snd_lbb = 1
  BY <1>2, <1>4, <1>5 DEF Init, Beside
<1>8. written \in 0 .. Bytes /\ losses \in 0 .. Losses  BY <1>7, Sizes
<1> QED  BY <1>6, <1>7, <1>8 DEF IInv

LEMMA WriteKept ==
  ASSUME IInv, NEW len \in 1 .. Bytes, NEW bufs \in {1, 2}, Write(len, bufs)
  PROVE  IInv'
<1> DEFINE p == Enqueue(pcb, len, FALSE, bufs)
<1>1. /\ Queues(pcb, wire) /\ pcb.state = "ESTABLISHED" /\ pcb.snd_lbb = written + 1
      /\ written \in Nat /\ losses \in 0 .. Losses
  BY DEF IInv, Write
<1>2. len \in Nat /\ bufs \in Nat /\ (FALSE <=> len = 0) /\ Room(pcb, len, bufs)
  BY Sizes DEF Write
<1>3. Queues(p, wire) /\ p.state = "ESTABLISHED" /\ p.snd_lbb = pcb.snd_lbb + len + 0
  <2>1. PICK fin \in BOOLEAN : fin = FALSE  OBVIOUS
  <2>2. p = Enqueue(pcb, len, fin, bufs) /\ (fin <=> len = 0)  BY <2>1, <1>2
  <2> HIDE DEF p
  <2>3. /\ Queues(p, wire) /\ p.state = pcb.state
        /\ p.snd_lbb = pcb.snd_lbb + len + (IF fin THEN 1 ELSE 0)
    BY <2>2, <1>1, <1>2, Enqueued
  <2> QED  BY <2>1, <2>3, <1>1
<1>4. /\ written' = written + len /\ written + len <= Bytes
      /\ IF pcb.unacked = <<>>
         THEN pcb' = Output(p) /\ Transmit(Transmitted(p))
         ELSE pcb' = p /\ UNCHANGED <<wire, losses>>
      /\ UNCHANGED <<peer, acks>>
  BY DEF Write
<1> HIDE DEF p
<1>5. Onward(p, p, wire)  BY <1>3 DEF Onward
<1>6. Onward(pcb', p, wire') /\ losses' \in 0 .. Losses
  <2>1. CASE pcb.unacked = <<>>
    <3>1. pcb' = Output(p) /\ Transmit(Transmitted(p) \cup {})  BY <1>4, <2>1
    <3>2. {} \subseteq PacketsOf(Queued(p))  OBVIOUS
    <3> QED  BY <3>1, <3>2, <1>1, <1>5, OutputOnward
  <2>2. CASE pcb.unacked # <<>>  BY <2>2, <1>1, <1>4, <1>5
  <2> QED  BY <2>1, <2>2
<1>7. written' \in 0 .. Bytes /\ pcb'.snd_lbb = written' + 1
  <2>1. pcb'.snd_lbb = p.snd_lbb  BY <1>6 DEF Onward
  <2> QED  BY <2>1, <1>1, <1>2, <1>3, <1>4, Sizes
<1> QED  BY <1>4, <1>6, <1>7 DEF IInv, Onward

LEMMA CloseKept ==
  ASSUME IInv, Close
  PROVE  IInv'
<1> DEFINE e == Enqueue(pcb, 0, TRUE, 1)
           p == [e EXCEPT !.state = "FIN_WAIT_1"]
<1>1. /\ Queues(pcb, wire) /\ pcb.state = "ESTABLISHED" /\ pcb.snd_lbb = written + 1
      /\ written \in Nat /\ losses \in 0 .. Losses
  BY DEF IInv, Close
<1>2. Room(pcb, 0, 1) /\ pcb' = Output(p) /\ Transmit(Transmitted(p)) /\ UNCHANGED <<written, peer, acks>>
  BY DEF Close
<1>3. Queues(e, wire) /\ e.state = "ESTABLISHED"
  <2>1. PICK fin \in BOOLEAN : fin = TRUE  OBVIOUS
  <2>2. PICK len \in Nat : len = 0  OBVIOUS
  <2>3. PICK bufs \in Nat : bufs = 1  OBVIOUS
  <2>4. e = Enqueue(pcb, len, fin, bufs) /\ (fin <=> len = 0) /\ Room(pcb, len, bufs)
    BY <2>1, <2>2, <2>3, <1>2
  <2> HIDE DEF e
  <2>5. Queues(e, wire) /\ e.state = pcb.state  BY <2>4, <1>1, Enqueued
  <2> QED  BY <2>5, <1>1
<1> HIDE DEF e
<1>4. /\ DOMAIN e = Fields /\ e.nrtx \in 0 .. 255 /\ e.rtime \in 0 .. Uint8 - 1  BY <1>3 DEF Queues
<1>5. p.state = "FIN_WAIT_1" /\ Beside(p, e)  BY <1>3, <1>4 DEF Beside, Fields, States
<1> HIDE DEF p
<1>6. Queues(p, wire)  BY <1>3, <1>5, BesideAlike, AlikeQueues
<1>7. Onward(p, p, wire)  BY <1>5, <1>6 DEF Onward
<1>8. Onward(pcb', p, wire') /\ losses' \in 0 .. Losses
  <2>1. pcb' = Output(p) /\ Transmit(Transmitted(p) \cup {})  BY <1>2
  <2>2. {} \subseteq PacketsOf(Queued(p))  OBVIOUS
  <2> QED  BY <2>1, <2>2, <1>1, <1>7, OutputOnward
<1>9. pcb'.state # "ESTABLISHED"  BY <1>5, <1>8 DEF Onward
<1> QED  BY <1>2, <1>8, <1>9 DEF IInv, Onward

LEMMA AckKept ==
  ASSUME IInv, NEW n \in acks, NEW w \in Windows, NEW m \in Rtts, Ack(n, w, m)
  PROVE  IInv'
<1> DEFINE u == UpdateWindow(pcb, n, w)
           r == Receive(u, n)
           e == Estimate(r, n, m)
           p == Process(e, n)
           P == IF n = pcb.lastack /\ FastRetransmits(CountDuplicate(u)) THEN Repeated(u) ELSE {}
<1>1. /\ Queues(pcb, wire) /\ pcb.state # "CLOSED" /\ losses \in 0 .. Losses /\ n \in Nat
  BY DEF IInv, Ack
<1>2. pcb' = Output(p) /\ Transmit(Transmitted(p) \cup P) /\ UNCHANGED <<written, peer, acks>>
  BY DEF Ack
<1> HIDE DEF u, r, e, p, P
<1>3. Onward(pcb, pcb, wire)  BY <1>1 DEF Onward
<1>4. Beside(u, pcb) /\ u.state = pcb.state  BY <1>1, WindowBeside DEF u
<1>5. Alike(u, pcb)  BY <1>1, <1>4, BesideAlike
<1>6. Onward(u, pcb, wire)  BY <1>3, <1>4, <1>5, AlikeOnward
<1>7. Queues(u, wire) /\ u.state # "CLOSED" /\ u.lastack = pcb.lastack
  BY <1>4, <1>6 DEF Onward, Beside
<1>8. Onward(r, pcb, wire) /\ (n = u.lastack => Queued(r) = Queued(u))
  <2>1. CASE n = u.lastack
    <3>1. r = Duplicate(u)  BY <2>1 DEF r, Receive
    <3>2. Alike(r, u) /\ r.state = u.state  BY <3>1, <1>7, DuplicateAlike
    <3>3. Onward(r, pcb, wire)  BY <3>2, <1>6, AlikeOnward
    <3> QED  BY <3>2, <3>3 DEF Alike
  <2>2. CASE n # u.lastack /\ u.lastack < n /\ n <= u.snd_max
    <3>1. r = NewData(u, n)  BY <2>2 DEF r, Receive
    <3>2. Queues(r, wire) /\ r.state = u.state /\ r.snd_lbb = u.snd_lbb
      BY <3>1, <2>2, <1>1, <1>7, NewDataKept
    <3> QED  BY <3>2, <2>2, <1>6 DEF Onward
  <2>3. CASE n # u.lastack /\ ~(u.lastack < n /\ n <= u.snd_max)
    <3>1. r = u  BY <2>3 DEF r, Receive
    <3> QED  BY <3>1, <1>6
  <2> QED  BY <2>1, <2>2, <2>3
<1>9. Queues(r, wire) /\ r.state # "CLOSED"  BY <1>8 DEF Onward
<1>10. Beside(e, r) /\ e.state = r.state  BY <1>9, EstimateBeside DEF e
<1>11. Alike(e, r)  BY <1>9, <1>10, BesideAlike
<1>12. Onward(e, pcb, wire)  BY <1>8, <1>10, <1>11, AlikeOnward
<1>13. Queues(e, wire) /\ e.state # "CLOSED"  BY <1>12 DEF Onward
<1>14. Beside(p, e) /\ (p.state = "ESTABLISHED" => e.state = "ESTABLISHED")
  BY <1>13, ProcessBeside DEF p
<1>15. Alike(p, e)  BY <1>13, <1>14, BesideAlike
<1>16. Onward(p, pcb, wire)  BY <1>12, <1>14, <1>15, AlikeOnward
<1>17. Queued(p) = Queued(r)  BY <1>11, <1>15 DEF Alike
<1>18. P \subseteq PacketsOf(Queued(p))
  <2>1. CASE n = pcb.lastack /\ FastRetransmits(CountDuplicate(u))
    <3>1. P = Repeated(u)  BY <2>1 DEF P
    <3>2. Queued(p) = Queued(u)  BY <2>1, <1>7, <1>8, <1>17
    <3>3. u.unacked # <<>>
      <4>1. DOMAIN u = Fields  BY <1>7 DEF Queues
      <4>2. CountDuplicate(u).unacked = u.unacked  BY <4>1 DEF Fields, CountDuplicate
      <4> QED  BY <2>1, <4>2 DEF FastRetransmits
    <3> QED  BY <3>1, <3>2, <3>3, <1>7, RepeatedQueued
  <2>2. CASE ~(n = pcb.lastack /\ FastRetransmits(CountDuplicate(u)))
    BY <2>2 DEF P
  <2> QED  BY <2>1, <2>2
<1>19. Onward(pcb', pcb, wire') /\ losses' \in 0 .. Losses
  BY <1>1, <1>2, <1>16, <1>18, OutputOnward
<1> QED  BY <1>2, <1>19 DEF IInv, Onward

LEMMA SlowTimerKept ==
  ASSUME IInv, NEW polled \in BOOLEAN, SlowTimer(polled)
  PROVE  IInv'
<1> DEFINE p == [pcb EXCEPT !.rtime = IF pcb.unacked = <<>> THEN 0 ELSE (@ + 1) % Uint8]
           r == IF TimedOut(p) THEN Retransmit(p) ELSE p
           P == IF TimedOut(p) THEN Repeated(p) ELSE {}
           T == IF polled THEN Transmitted(r) ELSE {}
<1>1. /\ Queues(pcb, wire) /\ pcb.state # "CLOSED" /\ losses \in 0 .. Losses
  BY DEF IInv, SlowTimer
<1>2. /\ pcb' = IF polled THEN Output(r) ELSE r
      /\ Transmit(P \cup T) /\ UNCHANGED <<written, peer, acks>>
  BY DEF SlowTimer
<1>3. /\ DOMAIN pcb = Fields /\ pcb.state \in States /\ pcb.nrtx \in 0 .. 255
      /\ pcb.rtime \in 0 .. Uint8 - 1
  BY <1>1 DEF Queues
<1>4. Beside(p, pcb) /\ p.state = pcb.state
  <2>1. (IF pcb.unacked = <<>> THEN 0 ELSE (pcb.rtime + 1) % Uint8) \in 0 .. Uint8 - 1
    BY <1>3, Counters
  <2>2. PICK t \in 0 .. Uint8 - 1 : t = IF pcb.unacked = <<>> THEN 0 ELSE (pcb.rtime + 1) % Uint8
    BY <2>1
  <2>3. p = [pcb EXCEPT !.rtime = t]  BY <2>2
  <2> HIDE DEF p
  <2> QED  BY <2>3, <1>3 DEF Beside, Fields
<1> HIDE DEF p, r, P, T
<1>5. Onward(pcb, pcb, wire)  BY <1>1 DEF Onward
<1>6. Alike(p, pcb)  BY <1>1, <1>4, BesideAlike
<1>7. Onward(p, pcb, wire)  BY <1>4, <1>5, <1>6, AlikeOnward
<1>8. Queues(p, wire)  BY <1>7 DEF Onward
<1>9. Onward(r, pcb, wire) /\ Queued(r) = Queued(p)
  <2>1. CASE TimedOut(p)
    <3>1. r = Retransmit(p)  BY <2>1 DEF r
    <3>2. Alike(r, p) /\ r.state = p.state  BY <3>1, <1>8, RetransmitAlike
    <3>3. Onward(r, pcb, wire)  BY <3>2, <1>7, AlikeOnward
    <3> QED  BY <3>2, <3>3 DEF Alike
  <2>2. CASE ~TimedOut(p)
    <3>1. r = p  BY <2>2 DEF r
    <3> QED  BY <3>1, <1>7
  <2> QED  BY <2>1, <2>2
<1>10. P \subseteq PacketsOf(Queued(r))
  <2>1. CASE TimedOut(p)
    <3>1. P = Repeated(p) /\ p.unacked # <<>>  BY <2>1 DEF P, TimedOut
    <3> QED  BY <3>1, <1>8, <1>9, RepeatedQueued
  <2>2. CASE ~TimedOut(p)  BY <2>2 DEF P
  <2> QED  BY <2>1, <2>2
<1>11. Onward(pcb', pcb, wire') /\ losses' \in 0 .. Losses
  <2>1. CASE polled
    <3>1. pcb' = Output(r) /\ T = Transmitted(r)  BY <2>1, <1>2 DEF T
    <3>2. P \cup T = Transmitted(r) \cup P  BY <3>1
    <3>3. Transmit(Transmitted(r) \cup P)  BY <3>2, <1>2
    <3> QED  BY <3>1, <3>3, <1>1, <1>9, <1>10, OutputOnward
  <2>2. CASE ~polled
    <3>1. pcb' = r /\ T = {}  BY <2>2, <1>2 DEF T
    <3>2. Transmit(P)
      <4>1. P \cup T = P  BY <3>1
      <4> QED  BY <4>1, <1>2
    <3>3. Queues(r, wire) /\ r.state # "CLOSED"  BY <1>9 DEF Onward
    <3>4. Queued(r) \in Seq(Segment)  BY <3>3 DEF Queues, Chain
    <3>5. losses' \in 0 .. Losses /\ wire' \subseteq wire \cup PacketsOf(Queued(r))
      BY <3>2, <3>4, <1>1, <1>10, TransmitKept
    <3>6. Queues(r, wire')  BY <3>3, <3>5, SendKept
    <3> QED  BY <3>1, <3>5, <3>6, <1>9 DEF Onward
  <2> QED  BY <2>1, <2>2
<1> QED  BY <1>2, <1>11 DEF IInv, Onward

LEMMA GiveUpKept ==
  ASSUME IInv, GiveUp
  PROVE  IInv'
<1>1. /\ Queues(pcb, wire) /\ pcb' = Purge(pcb)
      /\ UNCHANGED <<written, wire, losses, peer, acks>>
  BY DEF IInv, GiveUp
<1>2. PICK r : r = Purge(pcb)  OBVIOUS
<1>3. /\ DOMAIN pcb = Fields /\ pcb.lastack \in Nat /\ pcb.snd_lbb \in Nat /\ pcb.snd_max \in Nat
      /\ pcb.snd_max <= pcb.snd_lbb /\ pcb.nrtx \in 0 .. 255 /\ pcb.rtime \in 0 .. Uint8 - 1
      /\ pcb.snd_buf \in 0 .. Uint16 - 1 /\ pcb.snd_queuelen \in 0 .. SndQueueLen
      /\ Sent(wire, Queued(pcb), pcb.snd_lbb)
  BY <1>1 DEF Queues
<1>4. /\ DOMAIN r = Fields /\ r.state = "CLOSED" /\ r.unsent = <<>> /\ r.unacked = <<>>
      /\ r.lastack = pcb.lastack /\ r.snd_lbb = pcb.snd_lbb /\ r.snd_max = pcb.snd_max
      /\ r.nrtx = pcb.nrtx /\ r.rtime = pcb.rtime
      /\ r.snd_buf = pcb.snd_buf /\ r.snd_queuelen = pcb.snd_queuelen
  BY <1>2, <1>3 DEF Fields, Purge
<1>5. <<>> \in Seq(Segment) /\ Len(<<>>) = 0  BY EmptySeq
<1>6. Queued(r) = <<>>
  <2>1. Queued(r) \in Seq(Segment) /\ Len(Queued(r)) = 0 + 0  BY <1>4, <1>5, QueuedIs
  <2> QED  BY <2>1, Elements
<1>7. Chain(Queued(r)) /\ Sent(wire, Queued(r), r.snd_lbb)
  BY <1>3, <1>4, <1>5, <1>6 DEF Chain, Sent
<1>8. r.state \in States  BY <1>4 DEF States
<1>9. Queues(r, wire)  BY <1>3, <1>4, <1>5, <1>7, <1>8 DEF Queues
<1> QED  BY <1>1, <1>2, <1>4, <1>9 DEF IInv

LEMMA PeerReceiveKept ==
  ASSUME IInv, NEW s \in wire, PeerReceive(s)
  PROVE  IInv'
<1>1. s.seq \in Nat /\ s.len \in Nat /\ s.fin \in BOOLEAN  BY DEF IInv, Queues, Sent
<1>2. EndOf(s) \in Nat  BY <1>1 DEF EndOf, TCPLEN
<1> QED  BY <1>2 DEF IInv, PeerReceive

\* The queues stay one chain that spans what is written and not acknowledged,
\* and every segment on the wire lies apart from it, whatever tcp_output,
\* tcp_receive and tcp_slowtmr do.
THEOREM SendInvariant == Spec => []IInv
<1>1. Init => IInv  BY InitKept
<1>2. IInv /\ [Next]_vars => IInv'
  <2> SUFFICES ASSUME IInv, [Next]_vars PROVE IInv'
    OBVIOUS
  <2>1. CASE \E len \in 1 .. Bytes, bufs \in {1, 2} : Write(len, bufs)  BY <2>1, WriteKept
  <2>2. CASE Close  BY <2>2, CloseKept
  <2>3. CASE \E n \in acks, w \in Windows, m \in Rtts : Ack(n, w, m)  BY <2>3, AckKept
  <2>4. CASE \E polled \in BOOLEAN : SlowTimer(polled)  BY <2>4, SlowTimerKept
  <2>5. CASE GiveUp  BY <2>5, GiveUpKept
  <2>6. CASE \E s \in wire : PeerReceive(s)  BY <2>6, PeerReceiveKept
  <2>7. CASE UNCHANGED vars  BY <2>7 DEF IInv, vars
  <2> QED  BY <2>1, <2>2, <2>3, <2>4, <2>5, <2>6, <2>7 DEF Next
<1> QED  BY <1>1, <1>2, PTL DEF Spec

-----------------------------------------------------------------------------
(* What follows from the invariant.                                        *)

\* The fields whose width the source does not keep: cwnd wraps around, and
\* nothing bounds the round trips that rto is computed from.
CountersFit ==
  /\ pcb.cwnd \in 1 .. Cwnds - 1
  /\ pcb.ssthresh \in 0 .. Uint16 - 1 /\ pcb.rto \in 0 .. Uint16 - 1

LEMMA QueuesSuffice ==
  ASSUME IInv
  PROVE  NothingLost /\ Accounting /\ SenderRegular
<1>1. Queues(pcb, wire)  BY DEF IInv
<1> DEFINE q == Queued(pcb)
<1>2. Chain(q) /\ q \in Seq(Segment) /\ Sent(wire, q, pcb.snd_lbb)  BY <1>1 DEF Queues, Chain
<1>3. Accounting  BY <1>1 DEF Queues, Accounting, Left
<1>4. NothingLost
  <2> SUFFICES ASSUME pcb.state # "CLOSED"
               PROVE  /\ q = <<>> => pcb.lastack = pcb.snd_lbb
                      /\ q # <<>> => q[1].seq <= pcb.lastack /\ pcb.lastack < EndOf(q[1])
                                       /\ EndOf(q[Len(q)]) = pcb.snd_lbb
                      /\ \A i \in 1 .. Len(q) :
                           /\ q[i].pos = q[i].seq
                           /\ i < Len(q) => EndOf(q[i]) = q[i + 1].seq
    BY DEF NothingLost
  <2>1. Spans(q, pcb.lastack, pcb.snd_lbb)  BY <1>1 DEF Queues
  <2> HIDE DEF q
  <2>2. /\ q = <<>> => pcb.lastack = pcb.snd_lbb
        /\ q # <<>> => q[1].seq <= pcb.lastack /\ pcb.lastack < EndOf(q[1])
                         /\ EndOf(q[Len(q)]) = pcb.snd_lbb
    BY <2>1 DEF Spans
  <2>3. \A i \in 1 .. Len(q) : q[i].pos = q[i].seq /\ (i < Len(q) => EndOf(q[i]) = q[i + 1].seq)
    BY <1>2 DEF Chain
  <2> QED  BY <2>2, <2>3
<1>5. SenderRegular
  <2>1. \A s, t \in wire : Apart(s, t)  BY <1>2 DEF Sent
  <2> QED  BY <2>1 DEF SenderRegular, Apart
<1> QED  BY <1>3, <1>4, <1>5

\* Whatever the application writes, the network loses and the timer sends
\* again: tcp_enqueue, tcp_output, tcp_receive and tcp_slowtmr lose no byte of
\* the stream and double none, and snd_buf and snd_queuelen stay right.
THEOREM StreamQueued == Spec => [](NothingLost /\ Accounting)
<1>1. IInv => NothingLost /\ Accounting  BY QueuesSuffice
<1> QED  BY <1>1, SendInvariant, PTL

\* SenderSane, as the run checks it, in every state in which the counters of
\* the congestion control have not left their widths.
THEOREM SenderSaneCorrect == Spec => [](CountersFit => SenderSane)
<1>1. IInv => (CountersFit => SenderSane)
  <2> SUFFICES ASSUME IInv, CountersFit PROVE SenderSane
    OBVIOUS
  <2>1. NothingLost /\ Accounting  BY QueuesSuffice
  <2>2. TypeOK
    <3>1. /\ pcb.state \in States /\ pcb.snd_buf \in 0 .. Uint16 - 1
          /\ pcb.snd_queuelen \in 0 .. SndQueueLen
          /\ pcb.nrtx \in 0 .. 255 /\ pcb.rtime \in 0 .. Uint8 - 1
          /\ pcb.unsent \in Seq(Segment) /\ pcb.unacked \in Seq(Segment)
      BY DEF IInv, Queues
    <3>2. pcb.snd_queuelen \in 0 .. 255
      <4>1. PICK x \in 0 .. SndQueueLen : x = pcb.snd_queuelen  BY <3>1
      <4>2. x \in 0 .. 255  BY Sizes
      <4> QED  BY <4>1, <4>2
    <3> QED  BY <3>1, <3>2 DEF TypeOK, CountersFit, IInv, States
  <2> QED  BY <2>1, <2>2 DEF SenderSane
<1> QED  BY <1>1, SendInvariant, PTL

\* No segment that was ever sent starts inside another one, and the FIN is
\* never added to one: what TcpReceiveProofs assumes of the peer holds of this
\* sender.
THEOREM SenderRegularCorrect == Spec => []SenderRegular
<1>1. IInv => SenderRegular  BY QueuesSuffice
<1> QED  BY <1>1, SendInvariant, PTL
=============================================================================
