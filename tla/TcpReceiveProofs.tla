-------------------------- MODULE TcpReceiveProofs --------------------------
(***************************************************************************)
(* Proofs about tcp_receive, for every stream, window and way to cut the   *)
(* stream into segments that is Regular.  What makes the invariant         *)
(* inductive is that the queue then holds segments as they were sent: no   *)
(* segment is ever cut, except at the head of one that is delivered.       *)
(***************************************************************************)
EXTENDS TcpReceive, TLAPS, SequenceTheorems

\* The queue holds segments as the peer sent them.
QueueAsSent == \A i \in 1 .. Len(ooseq) : ooseq[i] \in Sent

IInv ==
  /\ TypeOK /\ DeliveredIsPrefix /\ NothingSkipped /\ QueueInOrder /\ EndAfterData
  /\ QueueAsSent

\* The invariant holds when the connection is established.
LEMMA InitIInv == Init => IInv
<1> SUFFICES ASSUME Init PROVE IInv
  OBVIOUS
<1>0. delay \in BOOLEAN /\ got_fin \in BOOLEAN
  BY Zenon DEF Init
<1> USE StreamAssumption DEF Init
<1>1. ooseq = <<>> /\ Len(ooseq) = 0 /\ passed = <<>> /\ Len(passed) = 0
  OBVIOUS
<1>2. TypeOK
  <2>0. state \in {"ESTABLISHED", "CLOSE_WAIT"}
    OBVIOUS
  <2>2. rcv_nxt \in Nat /\ heard \in Nat /\ rcv_wnd \in 0 .. Wnd /\ read \in 0 .. Len(passed)
    BY <1>1
  <2>3. ooseq \in Seq(Segment) /\ passed \in Seq([pos : Nat, len : Nat])
    BY <1>1, EmptySeq
  <2> QED
    BY <1>0, <2>0, <2>2, <2>3 DEF TypeOK
<1>3. DeliveredIsPrefix /\ QueueInOrder /\ QueueAsSent
  BY <1>1 DEF DeliveredIsPrefix, QueueInOrder, QueueAsSent
<1>4. NothingSkipped /\ EndAfterData
  BY <1>1 DEF NothingSkipped, NextByte, EndAfterData
<1> QED
  BY <1>2, <1>3, <1>4 DEF IInv

\* What trimming the head of a segment leaves of it.
LEMMA HeadTrimmed ==
  ASSUME TypeOK, NEW s \in Sent
  PROVE  /\ TrimHead(s) \in Segment
         /\ TrimHead(s).pos = TrimHead(s).seq
         /\ TrimHead(s).fin = s.fin
         /\ TrimHead(s).seq + TrimHead(s).len = s.seq + s.len
         /\ s.seq <= TrimHead(s).seq
         /\ TrimHead(s).seq # rcv_nxt => TrimHead(s) = s
<1>1. Conforming(s)
  BY StreamAssumption
<1>2. CASE s.seq < rcv_nxt /\ rcv_nxt < s.seq + s.len
  <2> DEFINE d == rcv_nxt - s.seq
  <2>1. /\ s \in Segment /\ s.pos = s.seq /\ s.seq \in Nat /\ s.len \in Nat /\ s.fin \in BOOLEAN
        /\ s.seq + d = rcv_nxt /\ s.len - d \in Nat /\ rcv_nxt \in Nat
    BY <1>1, <1>2 DEF Conforming, Segment, TypeOK
  <2>2. TrimHead(s) = [s EXCEPT !.seq = rcv_nxt, !.len = s.len - d, !.pos = s.pos + d]
    BY <1>2 DEF TrimHead
  <2>3. /\ TrimHead(s).seq = rcv_nxt /\ TrimHead(s).len = s.len - d
        /\ TrimHead(s).pos = rcv_nxt /\ TrimHead(s).fin = s.fin
        /\ TrimHead(s) \in Segment
    <3> HIDE DEF d
    <3> QED
      BY <2>1, <2>2 DEF Segment
  <2> QED
    BY <1>2, <2>1, <2>3
<1>3. CASE ~(s.seq < rcv_nxt /\ rcv_nxt < s.seq + s.len)
  BY <1>1, <1>3 DEF TrimHead, Conforming, Segment, TypeOK
<1> QED
  BY <1>2, <1>3

\* The bounds of a segment of the stream.
LEMMA SentBounds ==
  ASSUME NEW s \in Sent
  PROVE  /\ s \in Segment
         /\ s.seq \in Nat /\ s.len \in Nat /\ s.pos \in Nat /\ s.fin \in BOOLEAN
         /\ s.seq >= 1 /\ s.pos = s.seq
         /\ TCPLEN(s) \in Nat /\ TCPLEN(s) > 0
         /\ s.seq + TCPLEN(s) <= End
         /\ s.seq + s.len <= Bytes + 1
         /\ s.fin => Closes /\ s.seq + s.len = Bytes + 1 /\ s.seq + TCPLEN(s) = End
         /\ ~s.fin => TCPLEN(s) = s.len
         /\ End \in Nat
  BY StreamAssumption DEF Conforming, Segment, TCPLEN, End

\* A segment in sequence is not cut at the tail, and the queue starts after it.
LEMMA TailUntouched ==
  ASSUME IInv, Regular, NEW s \in Sent, TrimHead(s).seq = rcv_nxt
  PROVE  /\ TrimTail(TrimHead(s)) = TrimHead(s)
         /\ ooseq # <<>> => rcv_nxt + TCPLEN(TrimHead(s)) <= ooseq[1].seq
<1> DEFINE t == TrimHead(s)
<1>1. /\ t \in Segment /\ t.fin = s.fin /\ t.seq + t.len = s.seq + s.len /\ s.seq <= t.seq
      /\ t.seq \in Nat /\ t.len \in Nat
  BY HeadTrimmed DEF IInv, Segment
<1>2. rcv_nxt + TCPLEN(t) = s.seq + TCPLEN(s)
  BY <1>1, SentBounds DEF TCPLEN
<1>3. CASE ooseq = <<>>
  BY <1>3 DEF TrimTail
<1>4. CASE ooseq # <<>>
  <2>1. Len(ooseq) >= 1 /\ 1 \in 1 .. Len(ooseq) /\ ooseq[1] \in Sent /\ rcv_nxt < ooseq[1].seq
    BY <1>4, EmptySeq, LenProperties DEF IInv, TypeOK, QueueInOrder, QueueAsSent
  <2>2. ooseq[1].seq \in Nat
    BY <2>1, SentBounds
  <2>3. s.seq + TCPLEN(s) <= ooseq[1].seq
    BY <1>1, <2>1, <2>2, SentBounds DEF Regular, IInv, TypeOK
  <2>4. CASE ooseq[1].seq <= t.seq + t.len
    <3>1. ooseq[1].seq - t.seq = t.len
      BY <1>1, <1>2, <2>2, <2>3, <2>4, SentBounds DEF TCPLEN
    <3>2. [t EXCEPT !.len = t.len] = t
      BY <1>1 DEF Segment
    <3> QED
      BY <1>1, <1>2, <1>4, <2>3, <2>4, <3>1, <3>2 DEF TrimTail, Uint16
  <2>5. CASE ~(ooseq[1].seq <= t.seq + t.len)
    BY <1>2, <2>3, <2>5 DEF TrimTail
  <2> QED
    BY <2>4, <2>5
<1> QED
  BY <1>3, <1>4

\* A sequence, one more element and a run of others.
LEMMA ThreeParts ==
  ASSUME NEW S, NEW p \in Seq(S), NEW c \in S, NEW k \in Nat, NEW d \in [1 .. k -> S]
  PROVE  /\ p \o <<c>> \o d \in Seq(S)
         /\ Len(p \o <<c>> \o d) = Len(p) + 1 + k
         /\ \A i \in 1 .. Len(p) : (p \o <<c>> \o d)[i] = p[i]
         /\ (p \o <<c>> \o d)[Len(p) + 1] = c
         /\ \A j \in 1 .. k : (p \o <<c>> \o d)[Len(p) + 1 + j] = d[j]
<1>1. d \in Seq(S) /\ Len(d) = k
  OBVIOUS
<1>2. <<c>> \in Seq(S) /\ Len(<<c>>) = 1 /\ <<c>>[1] = c
  OBVIOUS
<1>3. /\ p \o <<c>> \in Seq(S) /\ Len(p) \in Nat
      /\ Len(p \o <<c>>) = Len(p) + 1
      /\ \A i \in 1 .. Len(p) : (p \o <<c>>)[i] = p[i]
      /\ (p \o <<c>>)[Len(p) + 1] = c
  BY <1>2, ConcatProperties, LenProperties
<1> DEFINE u == p \o <<c>>
<1>4. u \in Seq(S) /\ Len(u) = Len(p) + 1
  BY <1>3
<1>5. u \o d = p \o <<c>> \o d
  OBVIOUS
<1>6. \A i \in 1 .. Len(p) : u[i] = p[i]
  BY <1>3
<1>7. u[Len(p) + 1] = c
  BY <1>3
<1> HIDE DEF u
<1>8. /\ u \o d \in Seq(S)
      /\ Len(u \o d) = Len(u) + Len(d)
      /\ \A i \in 1 .. Len(u) + Len(d) : (u \o d)[i] = IF i <= Len(u) THEN u[i] ELSE d[i - Len(u)]
  BY <1>1, <1>4, ConcatProperties, Zenon
<1> DEFINE r == u \o d
<1>9. /\ r \in Seq(S) /\ Len(r) = Len(p) + 1 + k
      /\ \A i \in 1 .. Len(p) + 1 + k : r[i] = IF i <= Len(p) + 1 THEN u[i] ELSE d[i - (Len(p) + 1)]
  BY <1>1, <1>4, <1>8
<1> HIDE DEF r
<1>10. Len(p) \in Nat
  BY <1>3
<1>11. ASSUME NEW i \in 1 .. Len(p) PROVE r[i] = p[i]
  <2>1. i \in 1 .. Len(p) + 1 + k /\ i <= Len(p) + 1
    BY <1>10
  <2> QED
    BY <1>6, <1>9, <2>1, Zenon
<1>12. r[Len(p) + 1] = c
  <2>1. Len(p) + 1 \in 1 .. Len(p) + 1 + k /\ Len(p) + 1 <= Len(p) + 1
    BY <1>10
  <2> QED
    BY <1>7, <1>9, <2>1, Zenon
<1>13. \A m \in 1 .. k : r[Len(p) + 1 + m] = d[m]
  <2> SUFFICES ASSUME NEW m \in 1 .. k PROVE r[Len(p) + 1 + m] = d[m]
    OBVIOUS
  <2>1. /\ Len(p) + 1 + m \in 1 .. Len(p) + 1 + k /\ ~(Len(p) + 1 + m <= Len(p) + 1)
        /\ (Len(p) + 1 + m) - (Len(p) + 1) = m
    BY <1>10
  <2> QED
    BY <1>9, <2>1
<1> QED
  BY <1>5, <1>9, <1>11, <1>12, <1>13, Zenon DEF r

\* The facts about the queue that the steps use.
LEMMA QueueFacts ==
  ASSUME IInv
  PROVE  /\ Len(ooseq) \in Nat /\ ooseq \in Seq(Segment)
         /\ \A i \in 1 .. Len(ooseq) :
              /\ ooseq[i] \in Sent /\ ooseq[i] \in Segment
              /\ ooseq[i].seq \in Nat /\ ooseq[i].len \in Nat /\ ooseq[i].fin \in BOOLEAN
              /\ TCPLEN(ooseq[i]) \in Nat /\ TCPLEN(ooseq[i]) > 0
              /\ rcv_nxt < ooseq[i].seq /\ ooseq[i].pos = ooseq[i].seq
              /\ ooseq[i].seq + TCPLEN(ooseq[i]) <= End
              /\ ooseq[i].seq + ooseq[i].len <= Bytes + 1
              /\ ooseq[i].fin => /\ Closes /\ ooseq[i].seq + ooseq[i].len = Bytes + 1
                                 /\ ooseq[i].seq + TCPLEN(ooseq[i]) = End
              /\ ~ooseq[i].fin => TCPLEN(ooseq[i]) = ooseq[i].len
  <1>1. Len(ooseq) \in Nat /\ ooseq \in Seq(Segment)
    BY LenProperties DEF IInv, TypeOK
  <1>2. ASSUME NEW i \in 1 .. Len(ooseq)
        PROVE  ooseq[i] \in Sent /\ rcv_nxt < ooseq[i].seq
    BY <1>2 DEF IInv, QueueAsSent, QueueInOrder
  <1> QED
    BY <1>1, <1>2, SentBounds

\* Taking the next segment in sequence, and what follows on from the queue,
\* keeps the invariant.
LEMMA InSequenceStep ==
  ASSUME IInv, Regular, NEW s \in Sent, NEW a \in BOOLEAN,
         TrimHead(s).seq = rcv_nxt, InSequence(TrimHead(s), a),
         state' \in {"ESTABLISHED", "CLOSE_WAIT"}, read' = read
  PROVE  IInv'
<1> DEFINE t == TrimHead(s)
           n == rcv_nxt + TCPLEN(t)
           L == Len(ooseq)
           P == Len(passed)
<1>1. /\ t \in Segment /\ t.seq = rcv_nxt /\ t.pos = rcv_nxt /\ t.fin = s.fin
      /\ t.seq + t.len = s.seq + s.len /\ t.len \in Nat /\ rcv_nxt \in Nat
      /\ t.fin \in BOOLEAN /\ rcv_wnd \in 0 .. Wnd /\ Wnd \in Nat /\ Bytes \in Nat
  BY HeadTrimmed, StreamAssumption DEF IInv, TypeOK, Segment
<1>2. /\ TrimTail(t) = t
      /\ L > 0 => n <= ooseq[1].seq
  BY TailUntouched, EmptySeq DEF IInv, TypeOK
<1>3. /\ L \in Nat /\ P \in Nat /\ End \in Nat
      /\ passed \in Seq([pos : Nat, len : Nat])
  BY SentBounds, LenProperties DEF IInv, TypeOK
<1>4. /\ n \in Nat /\ rcv_nxt < n /\ n <= End
      /\ rcv_nxt + t.len <= Bytes + 1
      /\ t.fin => Closes /\ rcv_nxt + t.len = Bytes + 1 /\ n = End
      /\ ~t.fin => n = rcv_nxt + t.len
  <2>1. t.fin \/ t.len > 0
    BY <1>1, SentBounds DEF TrimHead, TCPLEN, IInv, TypeOK
  <2> QED
    BY <1>1, <2>1, SentBounds DEF TCPLEN
<1>5. Payload(t, t) = [pos |-> rcv_nxt, len |-> t.len]
  BY <1>1 DEF Payload, Smaller
<1>6. PICK k \in 0 .. L :
        /\ Chain(n, ooseq, k)
        /\ rcv_nxt' = Follows(n, ooseq, k + 1)
        /\ rcv_wnd' = WindowAfter(Follows(n, ooseq, k + 1) - rcv_nxt)
        /\ ooseq' = SubSeq(ooseq, k + 1, L)
        /\ passed' = passed \o <<Payload(t, t)>>
                       \o [i \in 1 .. k |-> [pos |-> ooseq[i].pos, len |-> ooseq[i].len]]
        /\ got_fin' = (got_fin \/ t.fin)
        /\ IF t.fin THEN Ack(a) ELSE AckLater(a)
  BY <1>2 DEF InSequence
<1> HIDE DEF t, n, L, P
<1>7. k \in Nat /\ k <= L
  BY <1>3, <1>6
<1>Q. \A i \in 1 .. L :
        /\ ooseq[i] \in Sent /\ ooseq[i] \in Segment
        /\ ooseq[i].seq \in Nat /\ ooseq[i].len \in Nat
        /\ TCPLEN(ooseq[i]) \in Nat /\ TCPLEN(ooseq[i]) > 0
        /\ rcv_nxt < ooseq[i].seq /\ ooseq[i].pos = ooseq[i].seq
        /\ ooseq[i].seq + TCPLEN(ooseq[i]) <= End
        /\ ooseq[i].seq + ooseq[i].len <= Bytes + 1
        /\ ooseq[i].fin => /\ Closes /\ ooseq[i].seq + ooseq[i].len = Bytes + 1
                           /\ ooseq[i].seq + TCPLEN(ooseq[i]) = End
        /\ ~ooseq[i].fin => TCPLEN(ooseq[i]) = ooseq[i].len
  BY QueueFacts DEF L
<1>K. k > 0 => k \in 1 .. L
  BY <1>3, <1>7
\* The queue that is left.
<1>8. /\ ooseq' \in Seq(Segment) /\ Len(ooseq') = L - k
      /\ \A i \in 1 .. L - k : ooseq'[i] = ooseq[k + i]
  <2>1. \A i \in k + 1 .. L : ooseq[i] \in Segment
    BY <1>7, <1>3, <1>K, <1>Q
  <2>2. k + 1 \in Int /\ L \in Int
    BY <1>3, <1>7
  <2>3. /\ SubSeq(ooseq, k + 1, L) \in Seq(Segment)
        /\ Len(SubSeq(ooseq, k + 1, L)) = IF k + 1 <= L THEN L - (k + 1) + 1 ELSE 0
        /\ \A i \in 1 .. L - (k + 1) + 1 : SubSeq(ooseq, k + 1, L)[i] = ooseq[k + 1 + i - 1]
    BY <2>1, <2>2, SubSeqProperties
  <2>4. ooseq' = SubSeq(ooseq, k + 1, L)
    BY <1>6
  <2> DEFINE q == SubSeq(ooseq, k + 1, L)
  <2>5. /\ q \in Seq(Segment)
        /\ Len(q) = IF k + 1 <= L THEN L - (k + 1) + 1 ELSE 0
        /\ \A i \in 1 .. L - (k + 1) + 1 : q[i] = ooseq[k + 1 + i - 1]
        /\ ooseq' = q
    BY <2>3, <2>4
  <2> HIDE DEF q
  <2>6. Len(q) = L - k
    BY <1>3, <1>7, <2>5
  <2>7. ASSUME NEW i \in 1 .. L - k PROVE q[i] = ooseq[k + i]
    <3>1. i \in 1 .. L - (k + 1) + 1 /\ k + 1 + i - 1 = k + i
      BY <1>3, <1>7
    <3> QED
      BY <2>5, <3>1
  <2> QED
    BY <2>5, <2>6, <2>7
\* The chunks that are passed on.
<1>9. /\ passed' \in Seq([pos : Nat, len : Nat]) /\ Len(passed') = P + 1 + k
      /\ \A i \in 1 .. P : passed'[i] = passed[i]
      /\ passed'[P + 1].pos = rcv_nxt /\ passed'[P + 1].len = t.len
      /\ \A j \in 1 .. k : /\ passed'[P + 1 + j].pos = ooseq[j].seq
                           /\ passed'[P + 1 + j].len = ooseq[j].len
  <2> DEFINE S == [pos : Nat, len : Nat]
             c == [pos |-> rcv_nxt, len |-> t.len]
             d == [i \in 1 .. k |-> [pos |-> ooseq[i].pos, len |-> ooseq[i].len]]
  <2>1. c \in S /\ c.pos = rcv_nxt /\ c.len = t.len
    BY <1>1
  <2>2. ASSUME NEW i \in 1 .. k
        PROVE  ooseq[i].pos \in Nat /\ ooseq[i].len \in Nat /\ ooseq[i].pos = ooseq[i].seq
    BY <1>3, <1>7, <1>K, <1>Q
  <2>3. d \in [1 .. k -> S] /\ \A i \in 1 .. k : d[i].pos = ooseq[i].seq /\ d[i].len = ooseq[i].len
    BY <2>2
  <2>4. passed' = passed \o <<c>> \o d
    BY <1>5, <1>6
  <2> HIDE DEF S, c, d
  <2>5. passed \in Seq(S)
    BY <1>3 DEF S
  <2>6. /\ passed' \in Seq(S)
        /\ Len(passed') = Len(passed) + 1 + k
        /\ \A i \in 1 .. Len(passed) : passed'[i] = passed[i]
        /\ passed'[Len(passed) + 1] = c
        /\ \A j \in 1 .. k : passed'[Len(passed) + 1 + j] = d[j]
    <3> DEFINE r == passed \o <<c>> \o d
    <3>1. /\ r \in Seq(S)
          /\ Len(r) = Len(passed) + 1 + k
          /\ \A i \in 1 .. Len(passed) : r[i] = passed[i]
          /\ r[Len(passed) + 1] = c
          /\ \A j \in 1 .. k : r[Len(passed) + 1 + j] = d[j]
      <4>1. k \in Nat
        BY <1>7
      <4>2. c \in S
        BY <2>1
      <4>3. d \in [1 .. k -> S]
        BY <2>3
      <4> QED
        BY <4>1, <4>2, <4>3, <2>5, ThreeParts
    <3>2. passed' = r
      BY <2>4
    <3> HIDE DEF r
    <3> QED
      BY <3>1, <3>2
  <2> QED
    BY <2>1, <2>3, <2>6 DEF P, S
\* Where the chain ends.
<1>10. /\ \A i \in 1 .. k : ooseq[i].seq = IF i = 1 THEN n ELSE ooseq[i - 1].seq + TCPLEN(ooseq[i - 1])
       /\ rcv_nxt' = IF k = 0 THEN n ELSE ooseq[k].seq + TCPLEN(ooseq[k])
       /\ k < L => ooseq[k + 1].seq # rcv_nxt'
  <2>1. Follows(n, ooseq, k + 1) = IF k = 0 THEN n ELSE ooseq[k].seq + TCPLEN(ooseq[k])
    BY <1>7 DEF Follows
  <2>2. /\ \A i \in 1 .. k : ooseq[i].seq = Follows(n, ooseq, i)
        /\ k < L => ooseq[k + 1].seq # Follows(n, ooseq, k + 1)
    BY <1>6 DEF Chain, L
  <2>3. \A i \in 1 .. k : Follows(n, ooseq, i) = IF i = 1 THEN n ELSE ooseq[i - 1].seq + TCPLEN(ooseq[i - 1])
    BY DEF Follows
  <2>4. rcv_nxt' = Follows(n, ooseq, k + 1)
    BY <1>6
  <2> QED
    BY <2>1, <2>2, <2>3, <2>4
<1>11. rcv_nxt' \in Nat /\ rcv_nxt <= rcv_nxt' /\ rcv_nxt' <= End
  <2>1. CASE k = 0
    BY <1>1, <1>4, <1>10, <2>1
  <2>2. CASE k > 0
    <3>1. /\ ooseq[k].seq \in Nat /\ TCPLEN(ooseq[k]) \in Nat /\ rcv_nxt < ooseq[k].seq
          /\ ooseq[k].seq + TCPLEN(ooseq[k]) <= End
      BY <1>K, <1>Q, <2>2
    <3>2. rcv_nxt' = ooseq[k].seq + TCPLEN(ooseq[k])
      BY <1>10, <2>2
    <3> QED
      BY <1>1, <3>1, <3>2
  <2> QED
    BY <1>7, <2>1, <2>2
<1>12. \A i \in 1 .. L - k : rcv_nxt' < ooseq[k + i].seq
  <2> SUFFICES ASSUME NEW i \in 1 .. L - k PROVE rcv_nxt' < ooseq[k + i].seq
    OBVIOUS
  <2>1. /\ k + i \in 1 .. Len(ooseq) /\ k + 1 \in 1 .. Len(ooseq)
        /\ k > 0 => k \in 1 .. Len(ooseq) /\ k < k + 1
        /\ i > 1 => k + 1 < k + i
    BY <1>3, <1>7 DEF L
  <2>2. /\ k > 0 => ooseq[k].seq + TCPLEN(ooseq[k]) <= ooseq[k + 1].seq
        /\ i > 1 => ooseq[k + 1].seq + TCPLEN(ooseq[k + 1]) <= ooseq[k + i].seq
    BY <2>1 DEF IInv, QueueInOrder
  <2>3. rcv_nxt' <= ooseq[k + 1].seq
    BY <1>2, <1>3, <1>7, <1>10, <2>1, <2>2 DEF L
  <2>4. /\ ooseq[k + 1].seq \in Nat /\ TCPLEN(ooseq[k + 1]) \in Nat
        /\ ooseq[k + i].seq \in Nat
    BY <2>1, <1>Q DEF L
  <2>5. k < L
    BY <1>3, <1>7
  <2>6. rcv_nxt' < ooseq[k + 1].seq
    BY <1>10, <1>11, <2>3, <2>4, <2>5
  <2>7. CASE i = 1
    BY <2>6, <2>7
  <2>8. CASE i > 1
    BY <1>11, <2>2, <2>4, <2>6, <2>8
  <2> QED
    BY <2>7, <2>8
\* The FIN comes last.
<1>13. /\ k > 0 => ~t.fin
       /\ \A j \in 1 .. k : j < k => ~ooseq[j].fin
  <2>1. ASSUME k > 0, t.fin PROVE FALSE
    <3>1. 1 \in 1 .. k /\ 1 \in 1 .. L
      BY <1>3, <1>7, <2>1
    <3>2. ooseq[1].seq = End
      BY <1>4, <1>10, <2>1, <3>1
    <3>3. /\ ooseq[1].seq \in Nat /\ TCPLEN(ooseq[1]) \in Nat /\ TCPLEN(ooseq[1]) > 0
          /\ ooseq[1].seq + TCPLEN(ooseq[1]) <= End
      BY <1>Q, <3>1
    <3> QED
      BY <1>3, <3>2, <3>3
  <2>2. ASSUME NEW j \in 1 .. k, j < k, ooseq[j].fin PROVE FALSE
    <3>1. j + 1 \in 1 .. k /\ j + 1 \in 1 .. L /\ j \in 1 .. L /\ j + 1 # 1 /\ (j + 1) - 1 = j
      BY <1>3, <1>7, <2>2
    <3>2. ooseq[j].seq + TCPLEN(ooseq[j]) = End
      BY <1>Q, <2>2, <3>1
    <3>3. ooseq[j + 1].seq = End
      BY <1>10, <3>1, <3>2
    <3>4. /\ ooseq[j + 1].seq \in Nat /\ TCPLEN(ooseq[j + 1]) \in Nat /\ TCPLEN(ooseq[j + 1]) > 0
          /\ ooseq[j + 1].seq + TCPLEN(ooseq[j + 1]) <= End
      BY <1>Q, <3>1
    <3> QED
      BY <1>3, <3>3, <3>4
  <2> QED
    BY <2>1, <2>2
<1>14. rcv_nxt = NextByte
  BY <1>4, <1>3, <1>1 DEF IInv, NothingSkipped
<1>15. NextByte' = IF k = 0 THEN rcv_nxt + t.len ELSE ooseq[k].seq + ooseq[k].len
  <2>1. passed' # <<>> /\ Len(passed') = P + 1 + k
    BY <1>3, <1>7, <1>9
  <2>2. NextByte' = passed'[P + 1 + k].pos + passed'[P + 1 + k].len
    BY <2>1 DEF NextByte
  <2>3. CASE k = 0
    BY <1>3, <1>9, <2>2, <2>3
  <2>4. CASE k > 0
    BY <1>7, <1>9, <2>2, <2>4
  <2> QED
    BY <1>7, <2>3, <2>4
<1>16. TypeOK'
  <2>1. rcv_wnd' \in 0 .. Wnd
    BY <1>1, <1>6, <1>11 DEF WindowAfter, Larger
  <2>2. heard' \in Nat
    BY <1>6, <1>11 DEF IInv, TypeOK, Ack, AckLater, Larger
  <2>3. delay' \in BOOLEAN
    BY <1>6, Zenon DEF Ack, AckLater
  <2>4. got_fin' \in BOOLEAN
    BY <1>6, Zenon
  <2>5. read' \in 0 .. Len(passed')
    BY <1>3, <1>7, <1>9 DEF IInv, TypeOK, P
  <2> QED
    BY <1>8, <1>9, <1>11, <2>1, <2>2, <2>3, <2>4, <2>5 DEF TypeOK
<1>17. DeliveredIsPrefix'
  <2> SUFFICES ASSUME NEW i \in 1 .. P + 1 + k
               PROVE  passed'[i].pos = IF i = 1 THEN 1
                                       ELSE passed'[i - 1].pos + passed'[i - 1].len
    BY <1>9 DEF DeliveredIsPrefix
  <2>1. CASE i <= P
    <3>1. i \in 1 .. P /\ (i # 1 => i - 1 \in 1 .. P)
      BY <1>3, <2>1
    <3>2. passed'[i] = passed[i] /\ (i # 1 => passed'[i - 1] = passed[i - 1])
      BY <1>9, <3>1
    <3>3. passed[i].pos = IF i = 1 THEN 1 ELSE passed[i - 1].pos + passed[i - 1].len
      BY <3>1 DEF IInv, DeliveredIsPrefix, P
    <3> QED
      BY <3>2, <3>3
  <2>2. CASE i = P + 1
    <3>1. CASE P = 0
      BY <1>3, <1>9, <1>14, <2>2, <3>1, EmptySeq DEF NextByte, P
    <3>2. CASE P > 0
      <4>1. passed # <<>> /\ i - 1 = P /\ P \in 1 .. P /\ i # 1
        BY <1>3, <2>2, <3>2, EmptySeq DEF P
      <4>2. rcv_nxt = passed[P].pos + passed[P].len
        BY <1>14, <4>1 DEF NextByte, P
      <4> QED
        BY <1>9, <2>2, <4>1, <4>2
    <3> QED
      BY <1>3, <3>1, <3>2
  <2>3. CASE i > P + 1
    <3> DEFINE j == i - P - 1
    <3>1. j \in 1 .. k /\ i = P + 1 + j /\ i # 1
      BY <1>3, <1>7, <2>3
    <3>2. passed'[i].pos = ooseq[j].seq
      BY <1>9, <3>1
    <3>3. CASE j = 1
      <4>1. i - 1 = P + 1 /\ k > 0 /\ 1 \in 1 .. k
        BY <1>3, <1>7, <3>1, <3>3
      <4>2. ooseq[1].seq = n /\ n = rcv_nxt + t.len
        BY <1>4, <1>10, <1>13, <4>1
      <4> QED
        BY <1>9, <3>1, <3>2, <3>3, <4>1, <4>2
    <3>4. CASE j > 1
      <4>1. j - 1 \in 1 .. k /\ j - 1 < k /\ i - 1 = P + 1 + (j - 1)
        BY <1>3, <1>7, <3>1, <3>4
      <4>2. passed'[i - 1].pos = ooseq[j - 1].seq /\ passed'[i - 1].len = ooseq[j - 1].len
        BY <1>9, <4>1
      <4>3. TCPLEN(ooseq[j - 1]) = ooseq[j - 1].len
        <5>1. j - 1 \in 1 .. L /\ ~ooseq[j - 1].fin
          BY <1>3, <1>7, <1>13, <4>1
        <5> QED
          BY <1>Q, <5>1
      <4> QED
        BY <1>10, <3>1, <3>2, <3>4, <4>2, <4>3
    <3>5. j = 1 \/ j > 1
      BY <1>3, <1>7, <3>1
    <3> QED
      BY <3>3, <3>4, <3>5
  <2> QED
    BY <1>3, <2>1, <2>2, <2>3
<1>18. NothingSkipped'
  <2>1. CASE k = 0
    <3>1. rcv_nxt' = n /\ NextByte' = rcv_nxt + t.len
      BY <1>10, <1>15, <2>1
    <3> QED
      BY <1>4, <3>1 DEF NothingSkipped, End
  <2>2. CASE k > 0
    <3>1. rcv_nxt' = ooseq[k].seq + TCPLEN(ooseq[k]) /\ NextByte' = ooseq[k].seq + ooseq[k].len
      BY <1>10, <1>15, <2>2
    <3>2. /\ ooseq[k].fin => /\ Closes /\ ooseq[k].seq + ooseq[k].len = Bytes + 1
                              /\ ooseq[k].seq + TCPLEN(ooseq[k]) = End
          /\ ~ooseq[k].fin => TCPLEN(ooseq[k]) = ooseq[k].len
      BY <1>K, <1>Q, <2>2
    <3> QED
      BY <3>1, <3>2 DEF NothingSkipped, End
  <2> QED
    BY <1>7, <2>1, <2>2
<1>19. QueueInOrder'
  <2>1. ASSUME NEW i \in 1 .. Len(ooseq')
        PROVE  /\ rcv_nxt' < ooseq'[i].seq /\ ooseq'[i].pos = ooseq'[i].seq
               /\ ooseq'[i].seq + TCPLEN(ooseq'[i]) <= End
    <3>1. i \in 1 .. L - k /\ k + i \in 1 .. L /\ ooseq'[i] = ooseq[k + i]
      BY <1>3, <1>7, <1>8
    <3> QED
      BY <1>12, <1>Q, <3>1
  <2>2. ASSUME NEW i \in 1 .. Len(ooseq'), NEW j \in 1 .. Len(ooseq'), i < j
        PROVE  ooseq'[i].seq + TCPLEN(ooseq'[i]) <= ooseq'[j].seq
    <3>1. k + i \in 1 .. Len(ooseq) /\ k + j \in 1 .. Len(ooseq) /\ k + i < k + j
      BY <1>3, <1>7, <1>8, <2>2 DEF L
    <3>2. ooseq'[i] = ooseq[k + i] /\ ooseq'[j] = ooseq[k + j]
      BY <1>8
    <3> QED
      BY <3>1, <3>2 DEF IInv, QueueInOrder
  <2> QED
    BY <2>1, <2>2 DEF QueueInOrder
<1>20. QueueAsSent'
  <2>1. ASSUME NEW i \in 1 .. Len(ooseq') PROVE ooseq'[i] \in Sent
    <3>1. k + i \in 1 .. L /\ ooseq'[i] = ooseq[k + i]
      BY <1>3, <1>7, <1>8
    <3> QED
      BY <1>Q, <3>1
  <2> QED
    BY <2>1 DEF QueueAsSent
<1>21. EndAfterData'
  <2> SUFFICES ASSUME got_fin' PROVE NextByte' = Bytes + 1
    BY DEF EndAfterData
  <2>1. got_fin \/ t.fin
    BY <1>6
  <2>2. k = 0
    <3>1. CASE t.fin
      BY <1>7, <1>13, <3>1
    <3>2. CASE got_fin
      <4>1. rcv_nxt = Bytes + 1
        BY <1>14, <3>2 DEF IInv, EndAfterData
      <4>2. ASSUME k > 0 PROVE FALSE
        <5>1. /\ rcv_nxt < ooseq[k].seq /\ ooseq[k].seq + ooseq[k].len <= Bytes + 1
              /\ ooseq[k].seq \in Nat /\ ooseq[k].len \in Nat
          BY <1>K, <1>Q, <4>2
        <5> QED
          BY <1>1, <4>1, <5>1
      <4> QED
        BY <1>7, <4>2
    <3> QED
      BY <2>1, <3>1, <3>2
  <2>3. rcv_nxt + t.len = Bytes + 1
    BY <1>1, <1>4, <1>14, <2>1 DEF IInv, EndAfterData
  <2> QED
    BY <1>15, <2>2, <2>3
<1> QED
  BY <1>16, <1>17, <1>18, <1>19, <1>20, <1>21 DEF IInv

\* Nothing is cut off a segment that the next one does not start in.
LEMMA NothingCut ==
  ASSUME Regular, NEW u \in Sent, NEW v \in Sent, u.seq < v.seq
  PROVE  CutBefore(u, v.seq) = u /\ u.seq + TCPLEN(u) <= v.seq
<1>1. u.seq + TCPLEN(u) <= v.seq
  BY DEF Regular
<1>2. ~(u.seq + u.len > v.seq)
  BY <1>1, SentBounds DEF TCPLEN
<1> QED
  BY <1>1, <1>2 DEF CutBefore

\* Queueing a segment that is early keeps the queue as it should be.
LEMMA InsertStep ==
  ASSUME IInv, Regular, NEW s \in Sent, rcv_nxt < s.seq, NEW i \in 0 .. Len(ooseq),
         Place(ooseq, i, s), ooseq' = Insert(ooseq, i, s), rcv_nxt' = rcv_nxt
  PROVE  ooseq' \in Seq(Segment) /\ QueueInOrder' /\ QueueAsSent'
<1> DEFINE L == Len(ooseq)
<1>1. L \in Nat /\ i \in Nat /\ i <= L /\ rcv_nxt \in Nat /\ ooseq \in Seq(Segment) /\ s.seq \in Nat
  BY LenProperties, SentBounds DEF IInv, TypeOK
<1>2. \A j \in 1 .. L : ooseq[j] \in Sent /\ ooseq[j].seq \in Nat /\ rcv_nxt < ooseq[j].seq
  BY QueueFacts
<1>3. ASSUME NEW j \in 1 .. L, NEW m \in 1 .. L, j < m
      PROVE  ooseq[j].seq < ooseq[m].seq
  <2>1. ooseq[j].seq + TCPLEN(ooseq[j]) <= ooseq[m].seq
    BY <1>3 DEF IInv, QueueInOrder
  <2>2. TCPLEN(ooseq[j]) \in Nat /\ TCPLEN(ooseq[j]) > 0 /\ ooseq[j].seq \in Nat /\ ooseq[m].seq \in Nat
    BY <1>2, SentBounds
  <2> QED
    BY <2>1, <2>2
<1>4. /\ \A j \in 1 .. i : ooseq[j].seq < s.seq
      /\ \A j \in i + 1 .. L : s.seq <= ooseq[j].seq
  BY DEF Place
\* It is enough that the new queue holds segments of the peer in strict order.
<1>5. ASSUME NEW K \in Nat, ooseq' \in [1 .. K -> Sent],
             \A j \in 1 .. K : rcv_nxt < ooseq'[j].seq,
             \A j, m \in 1 .. K : j < m => ooseq'[j].seq < ooseq'[m].seq
      PROVE  ooseq' \in Seq(Segment) /\ QueueInOrder' /\ QueueAsSent'
  <2>1. \A j \in 1 .. K : ooseq'[j] \in Sent /\ ooseq'[j] \in Segment
    BY <1>5, SentBounds
  <2>2. ooseq' \in Seq(Sent) /\ Len(ooseq') = K
    BY <1>5
  <2>3. ooseq' \in Seq(Segment)
    <3>1. Sent \subseteq Segment
      BY SentBounds
    <3> QED
      BY <2>2, <3>1, SeqMonotonic
  <2>4. ASSUME NEW j \in 1 .. K
        PROVE  ooseq'[j].pos = ooseq'[j].seq /\ ooseq'[j].seq + TCPLEN(ooseq'[j]) <= End
    BY <2>1, SentBounds
  <2>5. ASSUME NEW j \in 1 .. K, NEW m \in 1 .. K, j < m
        PROVE  ooseq'[j].seq + TCPLEN(ooseq'[j]) <= ooseq'[m].seq
    <3>1. ooseq'[j] \in Sent /\ ooseq'[m] \in Sent /\ ooseq'[j].seq < ooseq'[m].seq
      BY <1>5, <2>1, <2>5
    <3> QED
      BY <3>1, NothingCut
  <2>6. QueueInOrder'
    BY <1>5, <2>2, <2>4, <2>5 DEF QueueInOrder
  <2> QED
    BY <2>1, <2>2, <2>3, <2>6 DEF QueueAsSent
<1>6. CASE i < L /\ ooseq[i + 1].seq = s.seq
  <2>1. i + 1 \in 1 .. L
    BY <1>1, <1>6
  <2>2. ooseq' = IF s.len > ooseq[i + 1].len THEN [ooseq EXCEPT ![i + 1] = s] ELSE ooseq
    BY <1>6 DEF Insert, ReplaceIn
  <2>3. ooseq \in [1 .. L -> Segment]
    BY <1>1, LenProperties
  <2>4. ooseq \in [1 .. L -> Sent]
    BY <1>2, <2>3
  <2>5. ooseq' \in [1 .. L -> Sent]
    BY <2>1, <2>2, <2>4
  <2>6. \A j \in 1 .. L : ooseq'[j].seq = ooseq[j].seq
    BY <1>6, <2>1, <2>2, <2>4
  <2> QED
    BY <1>1, <1>2, <1>3, <1>5, <2>5, <2>6
<1>7. CASE ~(i < L /\ ooseq[i + 1].seq = s.seq)
  <2>1. ooseq' = [j \in 1 .. L + 1 |->
                    IF j < i THEN ooseq[j]
                    ELSE IF j = i THEN CutBefore(ooseq[j], s.seq)
                    ELSE IF j > i + 1 THEN ooseq[j - 1]
                    ELSE IF j <= L THEN CutBefore(s, ooseq[j].seq) ELSE s]
    BY <1>7 DEF Insert, InsertAfter
  <2>2. ASSUME NEW j \in 1 .. i PROVE j \in 1 .. L /\ ooseq[j].seq < s.seq
    BY <1>1, <1>4
  <2>3. ASSUME NEW j \in i + 1 .. L PROVE j \in 1 .. L /\ s.seq < ooseq[j].seq
    <3>1. j \in 1 .. L /\ i + 1 \in 1 .. L /\ i < L /\ s.seq <= ooseq[i + 1].seq /\ ooseq[i + 1].seq # s.seq
      BY <1>1, <1>4, <1>7
    <3>2. ooseq[i + 1].seq \in Nat /\ ooseq[j].seq \in Nat /\ (i + 1 < j => ooseq[i + 1].seq < ooseq[j].seq)
      BY <1>2, <1>3, <3>1
    <3> QED
      BY <1>1, <3>1, <3>2
  <2>4. \A j \in 1 .. L + 1 :
          ooseq'[j] = IF j <= i THEN ooseq[j] ELSE IF j = i + 1 THEN s ELSE ooseq[j - 1]
    <3> SUFFICES ASSUME NEW j \in 1 .. L + 1
                 PROVE  ooseq'[j] = IF j <= i THEN ooseq[j] ELSE IF j = i + 1 THEN s ELSE ooseq[j - 1]
      OBVIOUS
    <3>1. CASE j = i
      <4>1. j \in 1 .. L /\ ooseq[j] \in Sent /\ ooseq[j].seq < s.seq
        BY <1>1, <1>2, <2>2, <3>1
      <4>2. CutBefore(ooseq[j], s.seq) = ooseq[j]
        BY <4>1, NothingCut
      <4> QED
        BY <1>1, <2>1, <3>1, <4>2
    <3>2. CASE j = i + 1 /\ j <= L
      <4>1. j \in 1 .. L /\ ooseq[j] \in Sent /\ s.seq < ooseq[j].seq
        BY <1>1, <1>2, <2>3, <3>2
      <4>2. CutBefore(s, ooseq[j].seq) = s
        BY <4>1, NothingCut
      <4> QED
        BY <1>1, <2>1, <3>2, <4>2
    <3>3. CASE j # i /\ ~(j = i + 1 /\ j <= L)
      BY <1>1, <2>1, <3>3
    <3> QED
      BY <3>1, <3>2, <3>3
  <2>5. \A j \in 1 .. L + 1 : ooseq'[j] \in Sent /\ rcv_nxt < ooseq'[j].seq
    <3> SUFFICES ASSUME NEW j \in 1 .. L + 1 PROVE ooseq'[j] \in Sent /\ rcv_nxt < ooseq'[j].seq
      OBVIOUS
    <3>1. CASE j <= i
      BY <1>1, <1>2, <2>4, <3>1
    <3>2. CASE j = i + 1
      BY <1>1, <2>4, <3>2
    <3>3. CASE j > i + 1
      <4>1. j - 1 \in 1 .. L /\ ooseq'[j] = ooseq[j - 1]
        BY <1>1, <2>4, <3>3
      <4> QED
        BY <1>2, <4>1
    <3> QED
      BY <1>1, <3>1, <3>2, <3>3
  <2>6. \A j, m \in 1 .. L + 1 : j < m => ooseq'[j].seq < ooseq'[m].seq
    <3> SUFFICES ASSUME NEW j \in 1 .. L + 1, NEW m \in 1 .. L + 1, j < m
                 PROVE  ooseq'[j].seq < ooseq'[m].seq
      OBVIOUS
    <3>1. CASE j <= i /\ m <= i
      BY <1>1, <1>3, <2>4, <3>1
    <3>2. CASE j <= i /\ m = i + 1
      BY <1>1, <2>2, <2>4, <3>2
    <3>3. CASE j <= i /\ m > i + 1
      <4>1. j \in 1 .. L /\ m - 1 \in 1 .. L /\ j < m - 1 /\ ooseq'[j] = ooseq[j] /\ ooseq'[m] = ooseq[m - 1]
        BY <1>1, <2>4, <3>3
      <4> QED
        BY <1>3, <4>1
    <3>4. CASE j = i + 1 /\ m > i + 1
      <4>1. m - 1 \in i + 1 .. L /\ ooseq'[j] = s /\ ooseq'[m] = ooseq[m - 1]
        BY <1>1, <2>4, <3>4
      <4> QED
        BY <2>3, <4>1
    <3>5. CASE j > i + 1 /\ m > i + 1
      <4>1. /\ j - 1 \in 1 .. L /\ m - 1 \in 1 .. L /\ j - 1 < m - 1
            /\ ooseq'[j] = ooseq[j - 1] /\ ooseq'[m] = ooseq[m - 1]
        BY <1>1, <2>4, <3>5
      <4> QED
        BY <1>3, <4>1
    <3> QED
      BY <1>1, <3>1, <3>2, <3>3, <3>4, <3>5
  <2>7. ooseq' \in [1 .. L + 1 -> Sent] /\ L + 1 \in Nat
    BY <1>1, <2>1, <2>5
  <2> QED
    BY <1>5, <2>5, <2>6, <2>7
<1> QED
  BY <1>6, <1>7

\* A step that leaves the sequence and what was passed on alone keeps the
\* invariant, if it keeps the queue as it should be.
LEMMA QueueStep ==
  ASSUME IInv, TypeOK', ooseq' \in Seq(Segment) /\ QueueInOrder' /\ QueueAsSent',
         rcv_nxt' = rcv_nxt, got_fin' = got_fin, passed' = passed
  PROVE  IInv'
<1>1. NextByte' = NextByte
  BY DEF NextByte
<1>2. DeliveredIsPrefix' /\ NothingSkipped' /\ EndAfterData'
  BY <1>1 DEF IInv, DeliveredIsPrefix, NothingSkipped, EndAfterData
<1> QED
  BY <1>2 DEF IInv

\* An empty queue is as it should be, and so is one that stays as it is.
LEMMA QueueKept ==
  ASSUME IInv, rcv_nxt' = rcv_nxt, ooseq' = ooseq \/ ooseq' = <<>>
  PROVE  ooseq' \in Seq(Segment) /\ QueueInOrder' /\ QueueAsSent'
<1>1. CASE ooseq' = ooseq
  BY <1>1 DEF IInv, TypeOK, QueueInOrder, QueueAsSent
<1>2. CASE ooseq' = <<>>
  <2>1. Len(ooseq') = 0 /\ ooseq' \in Seq(Segment)
    BY <1>2, EmptySeq
  <2> QED
    BY <2>1 DEF QueueInOrder, QueueAsSent
<1> QED
  BY <1>1, <1>2

\* Sending an acknowledgement keeps the types.
LEMMA AckTypes ==
  ASSUME IInv, NEW a \in BOOLEAN, rcv_nxt' = rcv_nxt,
         Ack(a) \/ AckLater(a) \/ (delay' = delay /\ heard' = heard)
  PROVE  delay' \in BOOLEAN /\ heard' \in Nat
<1>1. delay \in BOOLEAN
  BY Zenon DEF IInv, TypeOK
<1>2. delay' \in BOOLEAN
  BY <1>1, Zenon DEF Ack, AckLater
<1>3. heard' \in Nat
  BY DEF IInv, TypeOK, Ack, AckLater, Larger
<1> QED
  BY <1>2, <1>3

\* A segment, whatever its place in the sequence, keeps the invariant.
LEMMA ArriveStep ==
  ASSUME IInv, Regular, NEW s \in Sent, NEW c \in BOOLEAN, NEW a \in BOOLEAN, Arrive(s, c, a)
  PROVE  IInv'
<1> DEFINE t == TrimHead(s)
<1>1. state' \in {"ESTABLISHED", "CLOSE_WAIT"} /\ read' = read
  BY DEF Arrive, IInv, TypeOK
<1>2. CASE t.seq = rcv_nxt /\ InSequence(t, a)
  BY <1>1, <1>2, InSequenceStep
<1>3. ASSUME rcv_nxt' = rcv_nxt, rcv_wnd' = rcv_wnd, got_fin' = got_fin, passed' = passed,
             delay' \in BOOLEAN, heard' \in Nat,
             ooseq' \in Seq(Segment) /\ QueueInOrder' /\ QueueAsSent'
      PROVE  IInv'
  <2>1. got_fin' \in BOOLEAN
    BY <1>3, Zenon DEF IInv, TypeOK
  <2>2. rcv_nxt' \in Nat /\ rcv_wnd' \in 0 .. Wnd /\ read' \in 0 .. Len(passed')
    BY <1>1, <1>3 DEF IInv, TypeOK
  <2>3. passed' \in Seq([pos : Nat, len : Nat])
    BY <1>3 DEF IInv, TypeOK
  <2>4. TypeOK'
    BY <1>1, <1>3, <2>1, <2>2, <2>3, Zenon DEF TypeOK
  <2> QED
    BY <1>3, <2>4, QueueStep
<1>4. CASE InWindow(t) /\ t.seq # rcv_nxt /\ OutOfSequence(t, c, a)
  <2>1. t = s
    BY <1>4, HeadTrimmed DEF IInv
  <2>2. rcv_nxt < s.seq
    BY <1>4, <2>1, SentBounds DEF InWindow, IInv, TypeOK
  <2>3. /\ rcv_nxt' = rcv_nxt /\ rcv_wnd' = rcv_wnd /\ got_fin' = got_fin /\ passed' = passed
        /\ Ack(a)
    BY <1>4 DEF OutOfSequence
  <2>4. ooseq' \in Seq(Segment) /\ QueueInOrder' /\ QueueAsSent'
    <3>1. CASE ooseq' = ooseq
      BY <2>3, <3>1, QueueKept
    <3>2. CASE \E i \in 0 .. Len(ooseq) : Place(ooseq, i, s) /\ ooseq' = Insert(ooseq, i, s)
      BY <2>2, <2>3, <3>2, InsertStep
    <3> QED
      BY <1>4, <2>1, <3>1, <3>2 DEF OutOfSequence
  <2>5. delay' \in BOOLEAN /\ heard' \in Nat
    BY <2>3, AckTypes
  <2> QED
    BY <1>3, <2>3, <2>4, <2>5
<1>5. CASE OutsideWindow(t, a)
  <2>1. /\ rcv_nxt' = rcv_nxt /\ rcv_wnd' = rcv_wnd /\ got_fin' = got_fin /\ passed' = passed
        /\ ooseq' = ooseq
        /\ Ack(a) \/ (delay' = delay /\ heard' = heard)
    BY <1>5 DEF OutsideWindow
  <2>2. ooseq' \in Seq(Segment) /\ QueueInOrder' /\ QueueAsSent'
    BY <2>1, QueueKept
  <2>3. delay' \in BOOLEAN /\ heard' \in Nat
    BY <2>1, AckTypes
  <2> QED
    BY <1>3, <2>1, <2>2, <2>3
<1> QED
  BY <1>2, <1>4, <1>5 DEF Arrive

\* The steps of the application and of the timers, and a segment without data.
LEMMA OtherStep ==
  ASSUME IInv, NEW a \in BOOLEAN,
         \/ \E seq \in 1 .. End : ArriveEmpty(seq, a)
         \/ Recved(a) \/ FastTimer(a) \/ SlowTimer
         \/ UNCHANGED vars
  PROVE  IInv'
<1>1. /\ rcv_nxt' = rcv_nxt /\ got_fin' = got_fin /\ passed' = passed /\ state' = state
      /\ ooseq' = ooseq \/ ooseq' = <<>>
  BY DEF ArriveEmpty, Recved, FastTimer, SlowTimer, vars
<1>2. Ack(a) \/ AckLater(a) \/ (delay' = delay /\ heard' = heard)
  BY DEF ArriveEmpty, Recved, FastTimer, SlowTimer, vars
<1>3. delay' \in BOOLEAN /\ heard' \in Nat
  BY <1>1, <1>2, AckTypes
<1>4. ooseq' \in Seq(Segment) /\ QueueInOrder' /\ QueueAsSent'
  BY <1>1, QueueKept
<1>5. rcv_wnd' \in 0 .. Wnd /\ read' \in 0 .. Len(passed')
  <2>1. CASE rcv_wnd' = rcv_wnd /\ read' = read
    BY <1>1, <2>1 DEF IInv, TypeOK
  <2>2. CASE Recved(a)
    <3>1. read < Len(passed) /\ read \in Nat /\ Len(passed) \in Nat /\ Wnd \in Nat /\ rcv_wnd \in 0 .. Wnd
      BY <2>2, StreamAssumption, LenProperties DEF Recved, IInv, TypeOK
    <3>2. passed[read + 1] \in [pos : Nat, len : Nat]
      <4>1. read + 1 \in 1 .. Len(passed)
        BY <3>1
      <4>2. passed \in [1 .. Len(passed) -> [pos : Nat, len : Nat]]
        BY LenProperties DEF IInv, TypeOK
      <4> QED
        BY <4>1, <4>2, Zenon
    <3> QED
      BY <1>1, <2>2, <3>1, <3>2 DEF Recved, Smaller
  <2> QED
    BY <2>1, <2>2 DEF ArriveEmpty, FastTimer, SlowTimer, vars
<1>6. got_fin' \in BOOLEAN
  BY <1>1, Zenon DEF IInv, TypeOK
<1>7. /\ state' \in {"ESTABLISHED", "CLOSE_WAIT"} /\ rcv_nxt' \in Nat
      /\ passed' \in Seq([pos : Nat, len : Nat])
  BY <1>1 DEF IInv, TypeOK
<1>8. TypeOK'
  BY <1>3, <1>4, <1>5, <1>6, <1>7, Zenon DEF TypeOK
<1> QED
  BY <1>1, <1>4, <1>8, QueueStep

\* The invariant is inductive for a Regular peer.
LEMMA NextStep ==
  ASSUME IInv, Regular, [Next]_vars
  PROVE  IInv'
<1>1. CASE \E s \in Sent, c, a \in BOOLEAN : Arrive(s, c, a)
  BY <1>1, ArriveStep
<1>2. CASE \E seq \in 1 .. End, a \in BOOLEAN : ArriveEmpty(seq, a)
  BY <1>2, OtherStep
<1>3. CASE \E a \in BOOLEAN : Recved(a) \/ FastTimer(a)
  BY <1>3, OtherStep
<1>4. CASE SlowTimer \/ UNCHANGED vars
  <2>1. TRUE \in BOOLEAN
    OBVIOUS
  <2> QED
    BY <1>4, <2>1, OtherStep
<1> QED
  BY <1>1, <1>2, <1>3, <1>4 DEF Next

\* tcp_receive keeps the invariant as long as the peer is Regular.
THEOREM TcpInvariant == Regular /\ Spec => []IInv
<1>1. Regular /\ IInv /\ [Next]_vars => IInv'
  BY NextStep
<1>2. Regular => []Regular
  <2>1. Regular => Regular'
    BY DEF Regular, TCPLEN
  <2> QED
    BY <2>1, PTL
<1> QED
  BY <1>1, <1>2, InitIInv, PTL DEF Spec

\* The fields of struct tcp_pcb keep their types; in particular the receive
\* window stays between 0 and TCP_WND.
THEOREM TcpTypeCorrect == Regular /\ Spec => []TypeOK
<1>1. IInv => TypeOK
  BY DEF IInv
<1> QED
  BY <1>1, TcpInvariant, PTL

\* Whatever the network does to the segments of a Regular peer, tcp_receive
\* passes on a prefix of the stream.
THEOREM TcpDelivery == Regular /\ Spec => []DeliveredIsPrefix
<1>1. IInv => DeliveredIsPrefix
  BY DEF IInv
<1> QED
  BY <1>1, TcpInvariant, PTL

\* No byte is acknowledged that has not been passed to the application.
THEOREM TcpNothingSkipped == Regular /\ Spec => []NothingSkipped
<1>1. IInv => NothingSkipped
  BY DEF IInv
<1> QED
  BY <1>1, TcpInvariant, PTL

\* The out-of-sequence queue is sorted, without overlaps and ahead of rcv_nxt.
THEOREM TcpQueueInOrder == Regular /\ Spec => []QueueInOrder
<1>1. IInv => QueueInOrder
  BY DEF IInv
<1> QED
  BY <1>1, TcpInvariant, PTL

\* The end of the stream is reported only once all of the stream is.
THEOREM TcpEndAfterData == Regular /\ Spec => []EndAfterData
<1>1. IInv => EndAfterData
  BY DEF IInv
<1> QED
  BY <1>1, TcpInvariant, PTL

(* tcp_receive keeps its window, its queue and rcv_nxt, whatever the       *)
(* network does with the segments of a peer that repeats them as they were.*)
THEOREM ReceiverCorrect == Regular /\ Spec => []ReceiverSane
<1>1. IInv => ReceiverSane
  BY DEF IInv, ReceiverSane
<1> QED
  BY <1>1, TcpInvariant, PTL
=============================================================================
