------------------------------ MODULE TcpSend ------------------------------
(***************************************************************************)
(* The sending half of a TCP connection of the router (tcp_output.c, the   *)
(* acknowledgement half of tcp_receive in tcp_input.c and the              *)
(* retransmission timer of tcp_slowtmr in tcp.c), from ESTABLISHED by a    *)
(* passive open until its FIN is acknowledged or it is given up.  The peer *)
(* sends acknowledgements only.                                            *)
(*                                                                         *)
(* Byte i of the application's stream has sequence number i.  A segment    *)
(* carries its payload as the position pos of its first byte in that       *)
(* stream, taken from the pointer into the application's data, while seq   *)
(* comes from snd_lbb.  bufs is the number of pbufs of the segment.        *)
(*                                                                         *)
(* The network loses some transmissions; the others may arrive at any      *)
(* time, again and again.  So may the acknowledgements of the peer.        *)
(***************************************************************************)
EXTENDS Integers, Sequences, FiniteSets

CONSTANTS
  Mss,          \* pcb->mss
  SndBuf,       \* TCP_SND_BUF
  SndQueueLen,  \* TCP_SND_QUEUELEN
  MaxRtx,       \* TCP_MAXRTX
  Backoff,      \* tcp_backoff, from nrtx = 0 on
  Sv,           \* 3000 / TCP_SLOW_INTERVAL, the first deviation of the round trip
  Uint8,        \* the number of values of rtime, which has 8 bits
  Cwnds,        \* the number of values of cwnd, which has 16 bits
  Windows,      \* the windows the peer advertises
  Rtts,         \* the round-trip times that are measured, in ticks
  MaxDups,      \* bound: how often an acknowledgement repeats the last one
  Bytes,        \* bound: how much the application writes
  Losses        \* bound: how many transmissions the network loses

VARIABLES
  pcb,      \* struct tcp_pcb
  written,  \* how much of the application's data tcp_write has accepted
  wire,     \* the segments in the network that are not lost
  losses,   \* how many have been lost
  peer,     \* the next sequence number the peer expects
  acks      \* the acknowledgement numbers the peer has sent

vars == <<pcb, written, wire, losses, peer, acks>>

Uint16 == 65536

ASSUME SendAssumption ==
  /\ Mss \in Nat \ {0} /\ SndBuf \in 1 .. Uint16 - 1 /\ SndQueueLen \in 1 .. 255
  /\ MaxRtx \in Nat /\ Len(Backoff) > MaxRtx
  /\ Sv \in Nat \ {0} /\ Uint8 \in Nat \ {0} /\ MaxDups \in Nat
  /\ Cwnds \in Nat /\ Cwnds > Mss
  /\ Windows \subseteq 0 .. Uint16 - 1 /\ Rtts \subseteq Nat /\ Bytes \in Nat /\ Losses \in Nat

Smaller(m, n) == IF m < n THEN m ELSE n

Larger(m, n) == IF m > n THEN m ELSE n

\* TCP_TCPLEN
TCPLEN(s) == s.len + (IF s.fin THEN 1 ELSE 0)

EndOf(s) == s.seq + TCPLEN(s)

\* The first k elements of s, and the others.
Front(s, k) == SubSeq(s, 1, k)

Rest(s, k) == SubSeq(s, k + 1, Len(s))

\* What is transmitted of a segment: its header and its payload.
Packet(s) == [seq |-> s.seq, len |-> s.len, pos |-> s.pos, fin |-> s.fin]

-----------------------------------------------------------------------------
(* tcp_enqueue.                                                            *)

\* Data of len bytes is cut into this many segments; a FIN alone is one.
SegmentCount(len) == IF len = 0 THEN 1 ELSE (len + Mss - 1) \div Mss

SegmentsNxt(p, len, fin, bufs) == \* mutant: numbered from snd_nxt, not snd_lbb
  [i \in 1 .. SegmentCount(len) |->
     [seq |-> p.snd_nxt + (i - 1) * Mss, len |-> Smaller(Mss, len - (i - 1) * Mss),
      pos |-> written + 1 + (i - 1) * Mss, fin |-> fin, bufs |-> bufs]]

\* The segments for the next len bytes of the application.
Segments(p, len, fin, bufs) ==
  [i \in 1 .. SegmentCount(len) |->
     [seq |-> p.snd_lbb + (i - 1) * Mss,
      len |-> Smaller(Mss, len - (i - 1) * Mss),
      pos |-> written + 1 + (i - 1) * Mss,
      fin |-> fin, bufs |-> bufs]]

\* There is room in the send buffer, and in the queue for the new pbufs.
Room(p, len, bufs) ==
  /\ len <= p.snd_buf
  /\ p.snd_queuelen < SndQueueLen
  /\ p.snd_queuelen + SegmentCount(len) * bufs <= SndQueueLen

JoinsAny(u, s) == u # <<>> /\ u[Len(u)].len + s.len <= Mss \* mutant: to a FIN, and of a FIN too

\* The first new segment is chained to the last unsent one, if it fits.
Joins(u, s) ==
  /\ u # <<>>
  /\ ~u[Len(u)].fin /\ ~s.fin
  /\ u[Len(u)].len + s.len <= Mss

Join(u, s) ==
  [u EXCEPT ![Len(u)].len = @ + s.len, ![Len(u)].bufs = @ + s.bufs]

Queue(u, q) == IF Joins(u, q[1]) THEN Join(u, q[1]) \o Tail(q) ELSE u \o q

\* snd_buf is unsigned: a FIN goes out even when the buffer is full.
SpaceAfter(p, len, fin) == (p.snd_buf - len - (IF fin THEN 1 ELSE 0)) % Uint16

Enqueue(p, len, fin, bufs) ==
  [p EXCEPT
     !.unsent = Queue(p.unsent, Segments(p, len, fin, bufs)),
     !.snd_lbb = p.snd_lbb + len + (IF fin THEN 1 ELSE 0),
     !.snd_buf = SpaceAfter(p, len, fin),
     !.snd_queuelen = p.snd_queuelen + SegmentCount(len) * bufs]

-----------------------------------------------------------------------------
(* tcp_output and tcp_rexmit_seg.                                          *)

\* The segment lies within the peer's window and the congestion window.
InWindow(p, s) == s.seq - p.lastack + s.len <= Smaller(p.snd_wnd, p.cwnd)

\* The first k unsent segments, and no more, are in the window.
Sendable(p, k) ==
  /\ \A i \in 1 .. k : InWindow(p, p.unsent[i])
  /\ k < Len(p.unsent) => ~InWindow(p, p.unsent[k + 1])

SendCount(p) == CHOOSE k \in 0 .. Len(p.unsent) : Sendable(p, k)

Transmitted(p) == {Packet(p.unsent[i]) : i \in 1 .. SendCount(p)}

\* tcp_output_segment starts a measurement of the round trip if none runs.
Measure(p, s) == [p EXCEPT !.timing = TRUE, !.rtseq = IF p.timing THEN p.rtseq ELSE s.seq]

Output(p) ==
  LET k == SendCount(p)
  IN  IF k = 0 THEN p
      ELSE [Measure(p, p.unsent[1]) EXCEPT
              !.rtime = 0,
              !.unsent = Rest(p.unsent, k),
              !.unacked = p.unacked \o Front(p.unsent, k),
              !.snd_nxt = EndOf(p.unsent[k]),
              !.snd_max = Larger(p.snd_max, EndOf(p.unsent[k]))]

\* The first segment that is not acknowledged is sent again, if the window
\* allows it.
Repeated(p) == IF InWindow(p, p.unacked[1]) THEN {Packet(p.unacked[1])} ELSE {}

Rexmit(p) ==
  IF InWindow(p, p.unacked[1])
  THEN [p EXCEPT !.nrtx = (p.nrtx + 1) % 256, !.rtime = 0, !.timing = FALSE]
  ELSE p

-----------------------------------------------------------------------------
(* The acknowledgement half of tcp_receive.                                *)

\* An acknowledgement with a newer number, or one that opens the window,
\* sets the window.
UpdateWindow(p, n, w) ==
  IF p.snd_wl2 < n \/ (p.snd_wl2 = n /\ w > p.snd_wnd)
  THEN [p EXCEPT !.snd_wnd = w, !.snd_wl2 = n]
  ELSE p

\* Adds to the congestion window.  The test for an overflow compares integers
\* and is always true; the 16 bits are cut afterwards.
Widen(c, n) == (c + n) % Cwnds

CountDuplicate(p) == [p EXCEPT !.dupacks = (@ + 1) % 256]

FastRetransmits(p) == p.dupacks >= 3 /\ p.unacked # <<>> /\ ~p.infr

\* The acknowledgement repeats the last one: the third one makes the first
\* segment go out again.
Duplicate(p) ==
  LET d == CountDuplicate(p)
      t == Larger((d.snd_max - d.lastack) \div 2, 2 * Mss)
  IN  IF FastRetransmits(d)
      THEN [Rexmit(d) EXCEPT !.ssthresh = t, !.cwnd = (t + 3 * Mss) % Cwnds, !.infr = TRUE]
      ELSE IF d.dupacks >= 3 /\ d.unacked # <<>>
      THEN [d EXCEPT !.cwnd = Widen(@, Mss)]
      ELSE d

\* The first k segments of q, and no more, are acknowledged by n.
Acknowledged(q, n, k) ==
  /\ \A i \in 1 .. k : EndOf(q[i]) <= n
  /\ k < Len(q) => EndOf(q[k + 1]) > n

AckCount(q, n) == CHOOSE k \in 0 .. Len(q) : Acknowledged(q, n, k)

\* The pbufs of the first k segments of q.
BufsOf(q, k) ==
  LET sum[i \in 0 .. k] == IF i = 0 THEN 0 ELSE sum[i - 1] + q[i].bufs
  IN  sum[k]

\* Slow start or congestion avoidance.
Grow(c, threshold) ==
  IF c < threshold THEN Widen(c, Mss) ELSE Widen(c, (Mss * Mss) \div c)

\* The acknowledgement covers new data: what it covers leaves the queues.
\* Segments the timer has put back on unsent may be acknowledged there.
NewData(p, n) ==
  LET ku == AckCount(p.unsent, n)
      ka == AckCount(p.unacked, n)
      c == IF p.infr THEN p.ssthresh ELSE p.cwnd
  IN  [p EXCEPT
         !.infr = FALSE, !.nrtx = 0, !.dupacks = 0,
         !.rto = (p.sa \div 8) + p.sv,
         !.snd_buf = (p.snd_buf + n - p.lastack) % Uint16,
         !.lastack = n,
         !.cwnd = Grow(c, p.ssthresh),
         !.unsent = Rest(p.unsent, ku),
         !.unacked = Rest(p.unacked, ka),
         !.snd_queuelen = @ - BufsOf(p.unsent, ku) - BufsOf(p.unacked, ka),
         !.snd_nxt = IF ku > 0 /\ ku < Len(p.unsent) THEN p.unsent[ku + 1].seq ELSE @]

\* The round-trip time m that has been measured goes into the time-out.
Estimate(p, n, m) ==
  LET e == m - p.sa \div 8
      a == IF e < 0 THEN -e ELSE e
      sv == p.sv + a - p.sv \div 4
  IN  IF p.timing /\ p.rtseq < n
      THEN [p EXCEPT !.sa = @ + e, !.sv = sv, !.rto = (p.sa + e) \div 8 + sv, !.timing = FALSE]
      ELSE p

\* p after the acknowledgement n, its window already updated.
Receive(p, n) ==
  IF n = p.lastack THEN Duplicate(p)
  ELSE IF p.lastack < n /\ n <= p.snd_max THEN NewData(p, n) ELSE p

\* tcp_process: the FIN is acknowledged.
Process(p, n) ==
  IF p.state = "FIN_WAIT_1" /\ n = p.snd_nxt THEN [p EXCEPT !.state = "FIN_WAIT_2"] ELSE p

-----------------------------------------------------------------------------
(* tcp_slowtmr.                                                            *)

\* The new time-out, in the 16 bits of rto; a shift by 32 or more is taken
\* modulo 32, as the processor does.
BackedOff(p) ==
  LET b == Backoff[p.nrtx + 1] % 32
  IN  IF b >= 16 THEN 0 ELSE (((p.sa \div 8) + p.sv) * 2 ^ b) % Uint16

\* All but the first unacknowledged segment go back on the unsent queue.
GiveBack(p) ==
  IF Len(p.unacked) > 1
  THEN [p EXCEPT !.unsent = Tail(p.unacked) \o p.unsent,
                 !.unacked = Front(p.unacked, 1),
                 !.snd_nxt = p.unacked[2].seq]
  ELSE p

TimedOutIdle(p) == \* mutant: the timer stands still when nothing more waits to be sent
  p.unacked # <<>> /\ p.unsent # <<>> /\ p.rtime >= p.rto

TimedOut(p) == p.unacked # <<>> /\ p.rtime >= p.rto

Retransmit(p) ==
  LET t == Smaller(p.cwnd, p.snd_wnd) \div 2
  IN  [Rexmit(GiveBack([p EXCEPT !.rto = BackedOff(p)])) EXCEPT
         !.ssthresh = IF t < Mss THEN 2 * Mss ELSE t, !.cwnd = Mss]

\* tcp_pcb_purge
Purge(p) == [p EXCEPT !.unsent = <<>>, !.unacked = <<>>, !.state = "CLOSED"]

-----------------------------------------------------------------------------
\* The pcb of tcp_new and of the listener's handshake, when the peer's
\* acknowledgement with window w has made it ESTABLISHED.  The SYN may have
\* been timed.
Init ==
  /\ \E w \in Windows, m \in Rtts, timed \in BOOLEAN :
       pcb = Estimate(
             [state |-> "ESTABLISHED", snd_nxt |-> 1, snd_max |-> 1, lastack |-> 1,
              snd_lbb |-> 1, snd_buf |-> SndBuf, snd_queuelen |-> 0,
              snd_wnd |-> w, snd_wl2 |-> 1, cwnd |-> Mss, ssthresh |-> w,
              dupacks |-> 0, infr |-> FALSE, nrtx |-> 0, rto |-> Sv, rtime |-> 0,
              timing |-> timed, rtseq |-> 0, sa |-> 0, sv |-> Sv,
              unsent |-> <<>>, unacked |-> <<>>], 1, m)
  /\ written = 0 /\ wire = {} /\ losses = 0 /\ peer = 1 /\ acks = {1}

\* sr_lwip_output of the packets, some of which the network loses.
Transmit(packets) ==
  \E lost \in SUBSET packets :
    /\ losses + Cardinality(lost) <= Losses
    /\ losses' = losses + Cardinality(lost)
    /\ wire' = wire \cup (packets \ lost)

\* do_write: data goes out at once only if nothing is unacknowledged.  bufs is
\* 1 if tcp_write copies the data and 2 if it does not.
Write(len, bufs) ==
  LET p == Enqueue(pcb, len, FALSE, bufs)
  IN  /\ pcb.state = "ESTABLISHED"
      /\ written + len <= Bytes
      /\ Room(pcb, len, bufs)
      /\ written' = written + len
      /\ IF pcb.unacked = <<>>
         THEN pcb' = Output(p) /\ Transmit(Transmitted(p))
         ELSE pcb' = p /\ UNCHANGED <<wire, losses>>
      /\ UNCHANGED <<peer, acks>>

\* tcp_close: the FIN is a segment of its own.
Close ==
  LET p == [Enqueue(pcb, 0, TRUE, 1) EXCEPT !.state = "FIN_WAIT_1"]
  IN  /\ pcb.state = "ESTABLISHED"
      /\ Room(pcb, 0, 1)
      /\ pcb' = Output(p)
      /\ Transmit(Transmitted(p))
      /\ UNCHANGED <<written, peer, acks>>

\* tcp_input of an acknowledgement n with window w: u, r and p are the pcb
\* after the window update, the queues and the state.
Ack(n, w, m) ==
  /\ pcb.state # "CLOSED" /\ n \in acks
  /\ n = pcb.lastack => pcb.dupacks < MaxDups \/ w > pcb.snd_wnd
  /\ \E u \in {UpdateWindow(pcb, n, w)} :
     \E r \in {Receive(u, n)} :
     \E p \in {Process(Estimate(r, n, m), n)} :
       /\ pcb' = Output(p)
       /\ Transmit(Transmitted(p)
                     \cup (IF n = pcb.lastack /\ FastRetransmits(CountDuplicate(u))
                           THEN Repeated(u) ELSE {}))
  /\ UNCHANGED <<written, peer, acks>>

\* tcp_slowtmr with poll_tcp, which is due at every fourth tick.  rtime is
\* read only while a segment is unacknowledged, and is 0 when it becomes so.
SlowTimer(polled) ==
  /\ pcb.state # "CLOSED" /\ pcb.nrtx # MaxRtx
  /\ \E p \in {[pcb EXCEPT !.rtime = IF pcb.unacked = <<>> THEN 0 ELSE (@ + 1) % Uint8]} :
     \E r \in {IF TimedOut(p) THEN Retransmit(p) ELSE p} :
       /\ pcb' = IF polled THEN Output(r) ELSE r
       /\ Transmit((IF TimedOut(p) THEN Repeated(p) ELSE {})
                     \cup (IF polled THEN Transmitted(r) ELSE {}))
  /\ UNCHANGED <<written, peer, acks>>

\* tcp_slowtmr gives the connection up, or ends the wait for the peer's FIN.
GiveUp ==
  /\ pcb.state # "CLOSED"
  /\ pcb.nrtx = MaxRtx \/ pcb.state = "FIN_WAIT_2"
  /\ pcb' = Purge(pcb)
  /\ UNCHANGED <<written, wire, losses, peer, acks>>

\* The peer receives a segment that continues what it has.
PeerReceive(s) ==
  /\ s \in wire /\ s.seq <= peer /\ peer < EndOf(s)
  /\ peer' = EndOf(s) /\ acks' = acks \cup {EndOf(s)}
  /\ UNCHANGED <<pcb, written, wire, losses>>

Next ==
  \/ \E len \in 1 .. Bytes, bufs \in {1, 2} : Write(len, bufs)
  \/ Close
  \/ \E n \in acks, w \in Windows, m \in Rtts : Ack(n, w, m)
  \/ \E polled \in BOOLEAN : SlowTimer(polled)
  \/ GiveUp
  \/ \E s \in wire : PeerReceive(s)

Spec == Init /\ [][Next]_vars

\* The timer runs and polls now and then.  What the network has not lost
\* arrives, and so does the acknowledgement of it, with whatever window.
Fairness ==
  /\ WF_vars(\E polled \in BOOLEAN : SlowTimer(polled))
  /\ SF_vars(SlowTimer(TRUE))
  /\ WF_vars(GiveUp)
  /\ WF_vars(\E s \in wire : PeerReceive(s))
  /\ WF_vars(\E w \in Windows, m \in Rtts : pcb.lastack < peer /\ Ack(peer, w, m))

FairSpec == Spec /\ Fairness

-----------------------------------------------------------------------------
(* Properties.                                                             *)

Segment == [seq : Nat, len : Nat, pos : Nat, fin : BOOLEAN, bufs : Nat]

\* The fields of the pcb have the types of struct tcp_pcb.
TypeOK ==
  /\ pcb.state \in {"ESTABLISHED", "FIN_WAIT_1", "FIN_WAIT_2", "CLOSED"}
  /\ pcb.snd_buf \in 0 .. Uint16 - 1 /\ pcb.snd_queuelen \in 0 .. 255
  /\ pcb.cwnd \in 1 .. Cwnds - 1 /\ pcb.ssthresh \in 0 .. Uint16 - 1
  /\ pcb.nrtx \in 0 .. 255 /\ pcb.rto \in 0 .. Uint16 - 1 /\ pcb.rtime \in 0 .. Uint8 - 1
  /\ pcb.unsent \in Seq(Segment) /\ pcb.unacked \in Seq(Segment)
  /\ written \in 0 .. Bytes /\ losses \in 0 .. Losses
  /\ peer \in Nat /\ acks \subseteq Nat

\* All that is queued, in the order in which it was written.
Queued(p) == p.unacked \o p.unsent

\* tcp_enqueue, tcp_output, tcp_receive and tcp_slowtmr move segments between
\* the queues: together they hold, without a gap or a repetition, the stream
\* from the last acknowledgement to the last byte written, each payload with
\* its own sequence number, until the connection is given up.
NothingLost ==
  LET q == Queued(pcb)
  IN  pcb.state # "CLOSED" =>
        /\ q = <<>> => pcb.lastack = pcb.snd_lbb
        /\ q # <<>> => q[1].seq <= pcb.lastack /\ pcb.lastack < EndOf(q[1])
                         /\ EndOf(q[Len(q)]) = pcb.snd_lbb
        /\ \A i \in 1 .. Len(q) :
             /\ q[i].pos = q[i].seq
             /\ i < Len(q) => EndOf(q[i]) = q[i + 1].seq

\* The assumption of TcpReceiveProofs about the peer holds of the code itself:
\* however tcp_slowtmr puts segments back and tcp_enqueue adds to them, no
\* segment that was ever sent starts inside another one, and no segment that
\* was sent without the FIN is sent with it.
SenderRegular ==
  \A s, t \in wire :
    /\ s.seq < t.seq => EndOf(s) <= t.seq
    /\ s.seq = t.seq => s.fin = t.fin

\* snd_buf and snd_queuelen are what is left of the buffer and the number of
\* pbufs on the two queues, although a FIN may take snd_buf below 0.
Accounting ==
  pcb.state # "CLOSED" =>
    /\ pcb.snd_buf = (SndBuf - (pcb.snd_lbb - pcb.lastack)) % Uint16
    /\ pcb.snd_queuelen = BufsOf(Queued(pcb), Len(Queued(pcb)))

\* The first segment that is queued fits the peer's window and the congestion
\* window.
WindowOpen == Queued(pcb) # <<>> => InWindow(pcb, Queued(pcb)[1])

\* rtime, which has 8 bits, can reach the time-out.
TimerReaches == pcb.rto < Uint8

\* Whatever was written is acknowledged, or the connection is given up, through
\* lost segments and acknowledgements, time-outs and fast retransmissions: the
\* sender stops only for good if the peer leaves its window closed (the code has
\* no persist timer), the congestion window wraps to 0 or the time-out has been
\* shifted out of the reach of rtime.
AllSent ==
  []<>(WindowOpen /\ TimerReaches) =>
    ((pcb.lastack < pcb.snd_lbb) ~> (pcb.lastack = pcb.snd_lbb \/ pcb.state = "CLOSED"))

\* "Maximum number of retransmissions of data segments" (lwipopts.h) and
\* "Double retransmission time-out" (tcp_slowtmr): to a peer whose window is
\* open a segment is repeated until it is acknowledged or the connection is
\* given up after TCP_MAXRTX attempts.
RepeatedOrGivenUp ==
  (pcb.lastack < pcb.snd_lbb) ~> (pcb.lastack = pcb.snd_lbb \/ pcb.state = "CLOSED")

\* The sender's queues and the counters that tcp_enqueue, tcp_receive and
\* tcp_slowtmr keep beside them: nothing is lost or doubled, and snd_buf and
\* snd_queuelen always fit the queues.
SenderSane == TypeOK /\ NothingLost /\ Accounting
=============================================================================
