----------------------------- MODULE TcpReceive -----------------------------
(***************************************************************************)
(* The receiving half of a TCP connection of the router (tcp_input.c),     *)
(* from the moment it is ESTABLISHED by a passive open until its own       *)
(* application closes it.  The peer owns a stream of Bytes bytes, which    *)
(* ends in a FIN if Closes, and transmits the segments of Sent.  The       *)
(* network loses, repeats, delays and reorders them, so any segment of     *)
(* Sent may arrive at any time, again and again.                           *)
(*                                                                         *)
(* Byte i of the stream has sequence number i: sequence numbers are        *)
(* counted from the peer's first byte, and never wrap, because the code    *)
(* compares only numbers that lie within a window of each other.  A        *)
(* segment carries its payload as the position pos of its first byte in    *)
(* the stream, so that a payload moved out of step with seq shows.         *)
(***************************************************************************)
EXTENDS Integers, Sequences

CONSTANTS
  Bytes,    \* the length of the peer's stream
  Closes,   \* whether the peer ends its stream with a FIN
  Sent,     \* the segments the peer transmits
  Wnd       \* TCP_WND, the receive window

VARIABLES
  state,    \* pcb->state, ESTABLISHED or CLOSE_WAIT
  rcv_nxt,  \* the next sequence number expected
  rcv_wnd,  \* the window that is advertised
  ooseq,    \* the queue of segments out of sequence
  delay,    \* flag TF_ACK_DELAY: an acknowledgement is due
  got_fin,  \* flag TF_GOT_FIN: the application hears of the end of the stream
  passed,   \* the chunks of the stream passed to the application, oldest first
  read,     \* how many of them it has reported to tcp_recved
  heard     \* the highest acknowledgement that reached the peer

vars == <<state, rcv_nxt, rcv_wnd, ooseq, delay, got_fin, passed, read, heard>>

\* The sequence number after the whole stream, its FIN included.
End == Bytes + 1 + (IF Closes THEN 1 ELSE 0)

Segment == [seq : Nat, len : Nat, pos : Nat, fin : BOOLEAN]

\* What a peer that follows the protocol may send: a stretch of its stream,
\* with the FIN only on a segment that reaches the end.
Conforming(s) ==
  /\ s \in Segment
  /\ s.seq >= 1 /\ s.pos = s.seq
  /\ s.seq + s.len <= Bytes + 1
  /\ s.fin => Closes /\ s.seq + s.len = Bytes + 1
  /\ s.len > 0 \/ s.fin

ASSUME StreamAssumption ==
  /\ Bytes \in Nat /\ Closes \in BOOLEAN /\ Wnd \in Nat \ {0}
  /\ Bytes < 65535
  /\ \A s \in Sent : Conforming(s)

-----------------------------------------------------------------------------
(* Segments and the queue of segments out of sequence.                     *)

LengthAndOne(s) == s.len + 1 \* mutant: every segment counts one more

\* TCP_TCPLEN
TCPLEN(s) == s.len + (IF s.fin THEN 1 ELSE 0)

\* A difference stored in the 16 bits of a length.
Uint16(n) == IF n < 0 THEN n + 65536 ELSE n

Smaller(m, n) == IF m < n THEN m ELSE n

Larger(m, n) == IF m > n THEN m ELSE n

TrimHeadNoPayload(s) == \* mutant: the payload pointer is not moved
  IF s.seq < rcv_nxt /\ rcv_nxt < s.seq + s.len
  THEN [s EXCEPT !.seq = rcv_nxt, !.len = s.len - (rcv_nxt - s.seq)]
  ELSE s

\* What is before rcv_nxt is cut off, if any data is left after that.
TrimHead(s) ==
  IF s.seq < rcv_nxt /\ rcv_nxt < s.seq + s.len
  THEN [s EXCEPT !.seq = rcv_nxt,
                 !.len = s.len - (rcv_nxt - s.seq),
                 !.pos = s.pos + (rcv_nxt - s.seq)]
  ELSE s

InWindow(s) == rcv_nxt <= s.seq /\ s.seq < rcv_nxt + rcv_wnd

\* A segment in sequence is cut where the queue starts.
TrimTail(s) ==
  IF ooseq # <<>> /\ ooseq[1].seq <= s.seq + s.len
  THEN [s EXCEPT !.len = Uint16(ooseq[1].seq - s.seq)]
  ELSE s

\* pbuf_realloc only ever shortens, so the payload of s cut to t.
Payload(s, t) == [pos |-> s.pos, len |-> Smaller(s.len, t.len)]

\* The place in the sequence where segment i of queue q has to start if it
\* and all before it follow on from n.
Follows(n, q, i) == IF i = 1 THEN n ELSE q[i - 1].seq + TCPLEN(q[i - 1])

\* Exactly the first k segments of q follow on from n.
Chain(n, q, k) ==
  /\ \A i \in 1 .. k : q[i].seq = Follows(n, q, i)
  /\ k < Len(q) => q[k + 1].seq # Follows(n, q, k + 1)

\* Cut in front of sequence number n.
CutBefore(s, n) == IF s.seq + s.len > n THEN [s EXCEPT !.len = n - s.seq] ELSE s

\* s takes the place of a segment that starts where it does, if it is longer.
ReplaceIn(q, i, s) == IF s.len > q[i].len THEN [q EXCEPT ![i] = s] ELSE q

\* s goes between segments i and i + 1, and overlaps are cut.
InsertAfter(q, i, s) ==
  [j \in 1 .. Len(q) + 1 |->
     IF j < i THEN q[j]
     ELSE IF j = i THEN CutBefore(q[j], s.seq)
     ELSE IF j > i + 1 THEN q[j - 1]
     ELSE IF j <= Len(q) THEN CutBefore(s, q[j].seq) ELSE s]

\* The queue is in the order of the sequence numbers: s belongs after i others.
Place(q, i, s) ==
  /\ \A j \in 1 .. i : q[j].seq < s.seq
  /\ \A j \in i + 1 .. Len(q) : s.seq <= q[j].seq

Insert(q, i, s) ==
  IF i < Len(q) /\ q[i + 1].seq = s.seq THEN ReplaceIn(q, i + 1, s) ELSE InsertAfter(q, i, s)

\* The window after n sequence numbers have been taken.
WindowAfter(n) == Larger(0, rcv_wnd - n)

-----------------------------------------------------------------------------
Init ==
  /\ state = "ESTABLISHED" /\ rcv_nxt = 1 /\ rcv_wnd = Wnd
  /\ ooseq = <<>> /\ delay = FALSE /\ got_fin = FALSE
  /\ passed = <<>> /\ read = 0 /\ heard = 1

\* tcp_output sends an acknowledgement now.  It may be lost, or not be sent
\* at all for want of memory; the flags are cleared all the same.
Ack(arrives) ==
  /\ delay' = FALSE
  /\ heard' = IF arrives THEN Larger(heard, rcv_nxt') ELSE heard

\* tcp_ack: every second acknowledgement is sent, the others wait.
AckLater(arrives) ==
  IF delay THEN Ack(arrives) ELSE delay' = TRUE /\ heard' = heard

\* The segment is the next in sequence: its data, and that of the segments
\* on the queue that follow on, goes to the application.  The code hands over
\* no empty pbuf; here the FIN alone is a chunk without bytes.
InSequence(s, arrives) ==
  LET t == TrimTail(s)
      n == rcv_nxt + TCPLEN(t)
  IN  \E k \in 0 .. Len(ooseq) :
        /\ Chain(n, ooseq, k)
        /\ rcv_nxt' = Follows(n, ooseq, k + 1)
        /\ rcv_wnd' = WindowAfter(Follows(n, ooseq, k + 1) - rcv_nxt)
        /\ ooseq' = SubSeq(ooseq, k + 1, Len(ooseq))
        /\ passed' = passed \o <<Payload(s, t)>>
                       \o [i \in 1 .. k |-> [pos |-> ooseq[i].pos, len |-> ooseq[i].len]]
        /\ got_fin' = (got_fin \/ s.fin)
        /\ IF s.fin THEN Ack(arrives) ELSE AckLater(arrives)

OutOfSequenceFin(s, copied, arrives) == \* mutant: an early FIN is reported
  /\ \/ ~copied /\ ooseq' = ooseq
     \/ copied /\ \E i \in 0 .. Len(ooseq) : Place(ooseq, i, s) /\ ooseq' = Insert(ooseq, i, s)
  /\ got_fin' = (got_fin \/ s.fin)
  /\ UNCHANGED <<rcv_nxt, rcv_wnd, passed>>
  /\ Ack(arrives)

\* The segment is in the window and early: it is acknowledged at once, with
\* what is still expected, and queued if there is memory for a copy.
OutOfSequence(s, copied, arrives) ==
  /\ \/ ~copied /\ ooseq' = ooseq
     \/ copied /\ \E i \in 0 .. Len(ooseq) : Place(ooseq, i, s) /\ ooseq' = Insert(ooseq, i, s)
  /\ UNCHANGED <<rcv_nxt, rcv_wnd, got_fin, passed>>
  /\ Ack(arrives)

OutsideIgnored(s, arrives) == \* mutant: a repeated FIN is not answered
  UNCHANGED <<rcv_nxt, rcv_wnd, ooseq, got_fin, passed, delay, heard>>

\* The segment is outside the window and is dropped.  Only a FIN is answered.
OutsideWindow(s, arrives) ==
  /\ UNCHANGED <<rcv_nxt, rcv_wnd, ooseq, got_fin, passed>>
  /\ IF s.fin THEN Ack(arrives) ELSE UNCHANGED <<delay, heard>>

\* tcp_input of a segment with data or a FIN.  The FIN moves the connection
\* to CLOSE_WAIT wherever it is in the sequence.
Arrive(s, copied, arrives) ==
  /\ LET t == TrimHead(s)
     IN  \/ InWindow(t) /\ t.seq = rcv_nxt /\ InSequence(t, arrives)
         \/ InWindow(t) /\ t.seq # rcv_nxt /\ OutOfSequence(t, copied, arrives)
         \/ ~InWindow(t) /\ OutsideWindow(t, arrives)
  /\ state' = IF s.fin THEN "CLOSE_WAIT" ELSE state
  /\ UNCHANGED read

\* tcp_input of a segment without data at seq: an old one, or one beyond the
\* window, is answered.
ArriveEmpty(seq, arrives) ==
  /\ rcv_nxt > seq \/ seq >= rcv_nxt + rcv_wnd
  /\ UNCHANGED <<state, rcv_nxt, rcv_wnd, ooseq, got_fin, passed, read>>
  /\ Ack(arrives)

\* tcp_recved: the application has consumed the next chunk.
Recved(arrives) ==
  /\ read < Len(passed) /\ passed[read + 1].len > 0
  /\ read' = read + 1
  /\ rcv_wnd' = Smaller(rcv_wnd + passed[read + 1].len, Wnd)
  /\ UNCHANGED <<state, rcv_nxt, ooseq, got_fin, passed>>
  /\ AckLater(arrives)

\* tcp_fasttmr sends the acknowledgement that is due.
FastTimer(arrives) ==
  /\ delay
  /\ UNCHANGED <<state, rcv_nxt, rcv_wnd, ooseq, got_fin, passed, read>>
  /\ Ack(arrives)

\* tcp_slowtmr gives up the queue of a connection that has been idle.
SlowTimer ==
  /\ ooseq # <<>>
  /\ ooseq' = <<>>
  /\ UNCHANGED <<state, rcv_nxt, rcv_wnd, delay, got_fin, passed, read, heard>>

Next ==
  \/ \E s \in Sent, copied, arrives \in BOOLEAN : Arrive(s, copied, arrives)
  \/ \E seq \in 1 .. End, arrives \in BOOLEAN : ArriveEmpty(seq, arrives)
  \/ \E arrives \in BOOLEAN : Recved(arrives) \/ FastTimer(arrives)
  \/ SlowTimer

Spec == Init /\ [][Next]_vars

\* The segment the peer has to repeat: the first byte, or the FIN, that it has
\* not heard to be acknowledged is in it.
Awaited(s) == s.seq <= heard /\ heard < s.seq + TCPLEN(s)

\* The peer repeats what is not acknowledged and probes a closed window with it,
\* and nothing else is certain to be sent.  The network does not lose everything
\* that is sent again and again; the timer and the application run.
Fairness ==
  /\ SF_vars(\E s \in Sent, copied \in BOOLEAN : Awaited(s) /\ Arrive(s, copied, TRUE))
  /\ WF_vars(\E arrives \in BOOLEAN : FastTimer(arrives))
  /\ WF_vars(\E arrives \in BOOLEAN : Recved(arrives))

FairSpec == Spec /\ Fairness

-----------------------------------------------------------------------------
(* Properties.                                                             *)

\* The variables have the types of struct tcp_pcb.
TypeOK ==
  /\ state \in {"ESTABLISHED", "CLOSE_WAIT"}
  /\ rcv_nxt \in Nat /\ rcv_wnd \in 0 .. Wnd
  /\ ooseq \in Seq(Segment)
  /\ delay \in BOOLEAN /\ got_fin \in BOOLEAN
  /\ passed \in Seq([pos : Nat, len : Nat])
  /\ read \in 0 .. Len(passed) /\ heard \in Nat

\* The bytes passed to the application by tcp_receive are the peer's stream
\* from its first byte on, without a gap, a repetition or a wrong byte.
DeliveredIsPrefix ==
  \A i \in 1 .. Len(passed) :
    passed[i].pos = IF i = 1 THEN 1 ELSE passed[i - 1].pos + passed[i - 1].len

\* The first byte that has not been passed to the application.
NextByte ==
  IF passed = <<>> THEN 1 ELSE passed[Len(passed)].pos + passed[Len(passed)].len

\* rcv_nxt, which every acknowledgement carries, never runs ahead of what the
\* application has been given: no byte is acknowledged and then lost.
NothingSkipped == rcv_nxt = NextByte \/ (rcv_nxt = End /\ Closes /\ NextByte = Bytes + 1)

\* The queue of tcp_receive is in order and without overlaps, is all in the
\* future, and the payloads are where the sequence numbers say.
QueueInOrder ==
  /\ \A i \in 1 .. Len(ooseq) :
       /\ rcv_nxt < ooseq[i].seq /\ ooseq[i].pos = ooseq[i].seq
       /\ ooseq[i].seq + TCPLEN(ooseq[i]) <= End
  /\ \A i, j \in 1 .. Len(ooseq) :
       i < j => ooseq[i].seq + TCPLEN(ooseq[i]) <= ooseq[j].seq

\* The application is told of the end of the stream only after all of it.
EndAfterData == got_fin => NextByte = Bytes + 1

\* A FIN that has been taken into the sequence, and is acknowledged from then
\* on, has been reported to the application.
FinReported == Closes /\ rcv_nxt = End => got_fin

\* The acknowledgement of what has been taken is lost, and none is due.
AckLost == heard < rcv_nxt /\ ~delay

\* A peer that repeats only what is not acknowledged hears in the end that all
\* of its stream has arrived, through a closed window, lost segments and a
\* dropped queue (tcp_receive, tcp_recved, tcp_fasttmr), or else a lost
\* acknowledgement of data is to blame.  That of the FIN is always made good:
\* tcp_process answers it whenever it comes.
AllAcknowledged == <>(heard = End) \/ <>[](AckLost /\ heard <= Bytes)

\* "Segments that fall out of the window are ACKed" (the comment at the end of
\* tcp_receive), so that a peer whose acknowledgement was lost hears of it when
\* it repeats the segment.
OutsideIsAcked == <>(heard = End)

\* A peer that never starts a segment inside another one.  It may add data to
\* a segment it repeats, as tcp_enqueue does, but no FIN.
Regular ==
  \A s, t \in Sent :
    /\ s.seq < t.seq => s.seq + TCPLEN(s) <= t.seq
    /\ s.seq = t.seq => s.fin = t.fin

\* tcp_receive as a whole: the window stays between 0 and TCP_WND, the queue of
\* early segments is sorted, without overlaps and ahead of rcv_nxt, and rcv_nxt
\* covers nothing that was not passed on.
ReceiverSane == TypeOK /\ QueueInOrder /\ NothingSkipped
=============================================================================
