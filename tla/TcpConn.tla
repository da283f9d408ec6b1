------------------------------ MODULE TcpConn ------------------------------
(***************************************************************************)
(* The control blocks of TCP: their pool, the three lists of tcp.c and the *)
(* state machine of tcp_input.c, for two hosts that run this code.         *)
(*                                                                         *)
(* Only SYN, FIN and RST are sent; the data of a connection is in TcpSend  *)
(* and TcpReceive.  A host has at most one segment on the way, and the     *)
(* window is never closed, so unsent is always empty and snd_lbb is        *)
(* snd_nxt.  tcp_ticks is left out: a timer may expire at any time.        *)
(*                                                                         *)
(* Once sent, a segment may arrive at any time, again and again, or never. *)
(***************************************************************************)
EXTENDS Integers, Sequences, FiniteSets

CONSTANTS
  Hosts,      \* the two hosts
  Clients,    \* the hosts that connect; the others listen
  Pool,       \* the pool MEMP_TCP_PCB of each host
  Listeners,  \* the size of the pool MEMP_TCP_PCB_LISTEN
  Server,     \* the port to which a host may listen
  FirstPort, LastPort,  \* the range of tcp_new_port
  Wnd,        \* rcv_wnd
  Ticks,      \* by how much tcp_next_iss moves on
  MaxSent,    \* bound: how many different segments are sent
  MaxIss      \* bound: no new connection of a host after this sequence number

VARIABLES
  host,  \* the control blocks of each host
  net    \* all the segments that have been sent

vars == <<host, net>>

ASSUME ConnAssumption ==
  /\ IsFiniteSet(Hosts) /\ Cardinality(Hosts) = 2 /\ Clients \subseteq Hosts
  /\ \A h \in Hosts : IsFiniteSet(Pool[h]) /\ MaxIss[h] \in Nat
  /\ Listeners \in Nat \ {0} /\ Server \in Nat \ {0} /\ Wnd \in Nat \ {0}
  /\ FirstPort \in Nat \ {0} /\ LastPort \in Nat
  /\ \A h \in Hosts : LastPort - FirstPort >= Cardinality(Pool[h]) + Listeners
  /\ Server \notin FirstPort .. LastPort
  /\ Ticks \in Nat \ {0, 1, 2} /\ MaxSent \in Nat

Other(h) == CHOOSE g \in Hosts : g # h

Members(q) == {q[i] : i \in 1 .. Len(q)}

\* TCP_RMV: the first occurrence is taken off the list.
Without(q, x) ==
  IF x \notin Members(q) THEN q
  ELSE LET i == CHOOSE j \in 1 .. Len(q) : q[j] = x /\ \A k \in 1 .. j - 1 : q[k] # x
       IN  [k \in 1 .. Len(q) - 1 |-> q[IF k < i THEN k ELSE k + 1]]

\* A free control block.
NoPcb == [used |-> FALSE, held |-> FALSE, state |-> "CLOSED", lport |-> 0, rport |-> 0,
          snd_nxt |-> 0, lastack |-> 0, rcv_nxt |-> 0, unacked |-> {}, delay |-> FALSE,
          gotfin |-> FALSE]

FreePcbs(S) == {s \in DOMAIN S.pcb : ~S.pcb[s].used}

-----------------------------------------------------------------------------
(* What is sent.  S is a host, and S.out what it sends in this step.       *)

Emit(S, lport, rport, flags, seq, ackno) ==
  [S EXCEPT !.out = @ \cup {[sport |-> lport, dport |-> rport, flags |-> flags,
                             seq |-> seq, ackno |-> ackno]}]

\* tcp_output_segment of a segment of s.
SendSegment(S, s, seg) ==
  LET p == S.pcb[s] IN Emit(S, p.lport, p.rport, seg.flags, seg.seq, p.rcv_nxt)

\* tcp_ack_now, and tcp_output when it finds TF_ACK_NOW.
AckNow(S, s) ==
  LET p == S.pcb[s]
  IN  [Emit(S, p.lport, p.rport, {"ACK"}, p.snd_nxt, p.rcv_nxt) EXCEPT
         !.pcb[s].delay = FALSE]

\* tcp_ack: the second acknowledgement that is due goes out at once.
AckDelayed(S, s) ==
  IF S.pcb[s].delay THEN AckNow(S, s) ELSE [S EXCEPT !.pcb[s].delay = TRUE]

\* tcp_enqueue of a SYN or FIN, and tcp_output.
SendCtrl(S, s, flag) ==
  LET p == S.pcb[s]
      opening == p.state = "SYN_SENT"
      seg == [seq |-> p.snd_nxt, flags |-> IF opening THEN {flag} ELSE {flag, "ACK"}]
  IN  [SendSegment(S, s, seg) EXCEPT
         !.pcb[s] = [p EXCEPT !.unacked = {seg}, !.snd_nxt = p.snd_nxt + 1,
                              !.delay = opening /\ p.delay]]

\* tcp_rst
Rst(S, seq, ackno, lport, rport) == Emit(S, lport, rport, {"RST", "ACK"}, seq, ackno)

-----------------------------------------------------------------------------
(* Lists and pool.                                                         *)

\* memp_free
Free(S, s) == [S EXCEPT !.pcb[s] = NoPcb]

\* tcp_pcb_purge
Purge(S, s) ==
  IF S.pcb[s].state \in {"CLOSED", "TIME_WAIT", "LISTEN"} THEN S
  ELSE [S EXCEPT !.pcb[s].unacked = {}]

\* tcp_pcb_remove: an acknowledgement that is due goes out first.
PcbRemove(S, s) ==
  LET R == Purge([S EXCEPT !.active = Without(@, s), !.tw = Without(@, s)], s)
      A == IF R.pcb[s].state # "TIME_WAIT" /\ R.pcb[s].delay THEN AckNow(R, s) ELSE R
  IN  [A EXCEPT !.pcb[s].state = "CLOSED"]

\* tcp_abort of a pcb that is not listening.
Abort(S, s) ==
  LET p == S.pcb[s]
      F == Free(PcbRemove(S, s), s)
  IN  IF p.state = "TIME_WAIT" THEN F ELSE Rst(F, p.snd_nxt, p.rcv_nxt, p.lport, p.rport)

TimeWaitTwice(S, s) == \* mutant: not taken off tcp_active_pcbs
  [Purge(AckNow(S, s), s) EXCEPT !.tw = <<s>> \o @, !.pcb[s].state = "TIME_WAIT"]

\* From an active state to TIME_WAIT.
TimeWait(S, s) ==
  [Purge(AckNow(S, s), s) EXCEPT
     !.active = Without(@, s), !.tw = <<s>> \o @, !.pcb[s].state = "TIME_WAIT"]

\* tcp_memp_reclaim: the newest pcb in TIME_WAIT is dropped; without one, a
\* connection that has been idle, if there is one, is aborted.
Reclaim(S) ==
  IF S.tw # <<>>
  THEN {Free([S EXCEPT !.tw = Tail(@)], Head(S.tw))}
  ELSE {S} \cup {Abort(S, s) : s \in Members(S.active)}

\* memp_malloc2: how a host may be left when it needs a pcb.
Allocate(S) == IF FreePcbs(S) # {} THEN {S} ELSE Reclaim(S)

\* tcp_new, with the new initial sequence number of tcp_next_iss.
NewPcb(S, s) ==
  LET iss == S.iss + Ticks
  IN  [S EXCEPT !.iss = iss,
                !.pcb[s] = [NoPcb EXCEPT !.used = TRUE, !.snd_nxt = iss, !.lastack = iss]]

PortsInUse(S) == Members(S.listen) \cup {S.pcb[s].lport : s \in Members(S.active) \cup Members(S.tw)}

PortsActive(S) == Members(S.listen) \cup {S.pcb[s].lport : s \in Members(S.active)}

\* tcp_new_port: the next port, from the last one on, that no pcb has.
NewPort(S) ==
  LET size == LastPort - FirstPort + 1
      nth(i) == FirstPort + ((S.port - FirstPort + i) % size)
      first == CHOOSE i \in 1 .. size :
                 /\ nth(i) \notin PortsInUse(S)
                 /\ \A j \in 1 .. i - 1 : nth(j) \in PortsInUse(S)
  IN  nth(first)

-----------------------------------------------------------------------------
(* The demultiplexing of tcp_input and the parts of tcp_process.           *)

Matches(p, m) == p.rport = m.sport /\ p.lport = m.dport

Matching(S, q, m) == {s \in Members(q) : Matches(S.pcb[s], m)}

\* The active pcb that a segment is for goes to the front of the list.
ToFront(S, s) == [S EXCEPT !.active = <<s>> \o Without(@, s)]

Length(m) == IF m.flags \cap {"SYN", "FIN"} # {} THEN 1 ELSE 0

\* tcp_receive: the acknowledgement, then the SYN or FIN of the segment.
TakeAck(S, s, m) ==
  LET p == S.pcb[s]
  IN  IF "ACK" \in m.flags /\ p.lastack < m.ackno /\ m.ackno <= p.snd_nxt
      THEN [S EXCEPT !.pcb[s].lastack = m.ackno,
                     !.pcb[s].unacked = {x \in @ : x.seq >= m.ackno}]
      ELSE S

TakeAgain(S, s, m) == \* mutant: a repeated FIN counts again
  IF Length(m) = 0 THEN S ELSE AckDelayed([S EXCEPT !.pcb[s].rcv_nxt = @ + 1], s)

TakeSequence(S, s, m) ==
  LET p == S.pcb[s]
      inside == p.rcv_nxt <= m.seq /\ m.seq < p.rcv_nxt + Wnd
      next == m.seq = p.rcv_nxt
      taken == [S EXCEPT !.pcb[s].rcv_nxt = @ + 1,
                         !.pcb[s].gotfin = @ \/ "FIN" \in m.flags]
  IN  IF Length(m) = 0 THEN (IF inside THEN S ELSE AckNow(S, s))
      ELSE IF ~inside THEN S
      ELSE IF next THEN AckDelayed(taken, s) ELSE AckNow(S, s)

Receive(S, s, m) == TakeSequence(TakeAck(S, s, m), s, m)

\* The segment acknowledges all that was sent, the FIN included.
AcksFin(S, s, m) == "ACK" \in m.flags /\ m.ackno = S.pcb[s].snd_nxt

\* Is a RST acceptable?
Acceptable(p, m) ==
  IF p.state = "SYN_SENT" THEN m.ackno = p.snd_nxt
  ELSE p.rcv_nxt <= m.seq /\ m.seq <= p.rcv_nxt + Wnd

-----------------------------------------------------------------------------
Init ==
  /\ host = [h \in Hosts |->
               [pcb |-> [s \in Pool[h] |-> NoPcb], active |-> <<>>, tw |-> <<>>, listen |-> <<>>,
                port |-> FirstPort, iss |-> 0, out |-> {}]]
  /\ net = {}

\* Host h becomes S; what S sends is on its way to the other host.
Becomes(h, S) ==
  /\ host' = [host EXCEPT ![h] = [S EXCEPT !.out = {}]]
  /\ net' = net \cup {[to |-> Other(h), seg |-> m] : m \in S.out}
  /\ Cardinality(net') <= MaxSent

\* tcp_new, tcp_bind to the server's port and tcp_listen.  A pcb that cannot
\* be bound stays with the application; one for which there is no room among
\* the listening ones is in state LISTEN, and nobody has it.
Listen(h) ==
  /\ h \notin Clients /\ host[h].iss < MaxIss[h]
  /\ \E S \in Allocate(host[h]) :
       IF FreePcbs(S) = {} THEN Becomes(h, S)
       ELSE LET s == CHOOSE x \in FreePcbs(S) : TRUE
                N == NewPcb(S, s)
            IN  IF Server \in PortsActive(N)
                THEN Becomes(h, [N EXCEPT !.pcb[s].held = TRUE])
                ELSE IF Len(N.listen) = Listeners
                THEN Becomes(h, [N EXCEPT !.pcb[s].state = "LISTEN", !.pcb[s].lport = Server])
                ELSE Becomes(h, [Free(N, s) EXCEPT !.listen = <<Server>> \o @])

\* tcp_close of a listening pcb.
CloseListen(h, port) ==
  /\ port \in Members(host[h].listen)
  /\ Becomes(h, [host[h] EXCEPT !.listen = Without(@, port)])

\* tcp_new and tcp_connect.  Without memory for the SYN the pcb stays on the
\* list and nothing is sent.
Connect(h, memory) ==
  /\ h \in Clients /\ host[h].iss < MaxIss[h]
  /\ \E S \in Allocate(host[h]) :
       IF FreePcbs(S) = {} THEN Becomes(h, S)
       ELSE LET s == CHOOSE x \in FreePcbs(S) : TRUE
                N == NewPcb(S, s)
                port == NewPort(N)
                R == [N EXCEPT !.active = <<s>> \o @, !.port = port,
                        !.pcb[s] = [@ EXCEPT !.held = TRUE, !.state = "SYN_SENT",
                                             !.lport = port, !.rport = Server,
                                             !.snd_nxt = N.iss - 1, !.lastack = N.iss - 1]]
            IN  IF memory THEN Becomes(h, SendCtrl(R, s, "SYN"))
                ELSE Becomes(h, [R EXCEPT !.pcb[s].snd_nxt = N.iss])

\* tcp_close
Close(h, s) ==
  LET S == [host[h] EXCEPT !.pcb[s].held = FALSE]
      next == [ESTABLISHED |-> "FIN_WAIT_1", CLOSE_WAIT |-> "LAST_ACK"]
      p == S.pcb[s]
  IN  /\ host[h].pcb[s].held
      /\ CASE p.state = "SYN_SENT" -> Becomes(h, Free(PcbRemove(S, s), s))
           [] p.state \in DOMAIN next ->
                Becomes(h, [SendCtrl(S, s, "FIN") EXCEPT !.pcb[s].state = next[p.state]])
           [] OTHER -> Becomes(h, S)

\* do_delconn when tcp_close has no memory for the FIN.
CloseFails(h, s) ==
  /\ host[h].pcb[s].held /\ host[h].pcb[s].state \in {"ESTABLISHED", "CLOSE_WAIT"}
  /\ Becomes(h, Abort(host[h], s))

\* m arrives at h, for the active pcb s.
Arrives(h, m, s) == [to |-> h, seg |-> m] \in net /\ s \in Matching(host[h], host[h].active, m)

ArrivesIn(h, m, s, states) ==
  Arrives(h, m, s) /\ "RST" \notin m.flags /\ host[h].pcb[s].state \in states

\* A RST: errf is called and the pcb is freed, on whichever list it is.
InputReset(h, m, s) ==
  LET S == host[h]
      F == IF s \in Members(S.active) THEN ToFront(S, s) ELSE S
  IN  /\ [to |-> h, seg |-> m] \in net /\ "RST" \in m.flags
      /\ \/ s \in Matching(S, S.active, m)
         \/ Matching(S, S.active, m) = {} /\ s \in Matching(S, S.tw, m)
      /\ Becomes(h, IF Acceptable(S.pcb[s], m)
                    THEN Free(PcbRemove([F EXCEPT !.pcb[s].delay = FALSE], s), s) ELSE F)

\* SYN_SENT: the answer to the SYN.  The acknowledgement is delayed.
InputSynSent(h, m, s) ==
  LET F == ToFront(host[h], s)
      p == F.pcb[s]
      answer == {"SYN", "ACK"} \subseteq m.flags /\ \E x \in p.unacked : m.ackno = x.seq + 1
  IN  /\ ArrivesIn(h, m, s, {"SYN_SENT"})
      /\ Becomes(h, IF answer
                    THEN AckDelayed([F EXCEPT !.pcb[s] = [p EXCEPT
                           !.rcv_nxt = m.seq + 1, !.lastack = m.ackno, !.unacked = {},
                           !.state = "ESTABLISHED"]], s)
                    ELSE F)

\* SYN_RCVD: the SYN is acknowledged and the listener's accept is called; if
\* that fails the connection is aborted.
InputSynRcvd(h, m, s, accepted) ==
  LET F == ToFront(host[h], s)
      p == F.pcb[s]
      E == [F EXCEPT !.pcb[s] = [p EXCEPT !.state = "ESTABLISHED", !.held = TRUE]]
      answer == "ACK" \in m.flags /\ p.lastack < m.ackno /\ m.ackno <= p.snd_nxt
  IN  /\ ArrivesIn(h, m, s, {"SYN_RCVD"})
      /\ Becomes(h, IF ~answer THEN F
                    ELSE IF accepted THEN Receive(E, s, m) ELSE Abort(E, s))

\* ESTABLISHED and CLOSE_WAIT
InputOpen(h, m, s) ==
  LET R == Receive(ToFront(host[h], s), s, m)
  IN  /\ ArrivesIn(h, m, s, {"ESTABLISHED", "CLOSE_WAIT"})
      /\ Becomes(h, IF "FIN" \in m.flags
                    THEN [AckNow(R, s) EXCEPT !.pcb[s].state = "CLOSE_WAIT"] ELSE R)

\* FIN_WAIT_1
InputFinWait1(h, m, s) ==
  LET R == Receive(ToFront(host[h], s), s, m)
      acked == AcksFin(R, s, m)
  IN  /\ ArrivesIn(h, m, s, {"FIN_WAIT_1"})
      /\ Becomes(h, IF "FIN" \in m.flags
                    THEN (IF acked THEN TimeWait(R, s)
                          ELSE [AckNow(R, s) EXCEPT !.pcb[s].state = "CLOSING"])
                    ELSE IF acked THEN [R EXCEPT !.pcb[s].state = "FIN_WAIT_2"] ELSE R)

\* FIN_WAIT_2
InputFinWait2(h, m, s) ==
  LET R == Receive(ToFront(host[h], s), s, m)
  IN  /\ ArrivesIn(h, m, s, {"FIN_WAIT_2"})
      /\ Becomes(h, IF "FIN" \in m.flags THEN TimeWait(R, s) ELSE R)

\* CLOSING
InputClosing(h, m, s) ==
  LET R == Receive(ToFront(host[h], s), s, m)
  IN  /\ ArrivesIn(h, m, s, {"CLOSING"})
      /\ Becomes(h, IF AcksFin(R, s, m) THEN TimeWait(R, s) ELSE R)

\* LAST_ACK: the pcb is CLOSED, and freed by tcp_input.
InputLastAck(h, m, s) ==
  LET R == Receive(ToFront(host[h], s), s, m)
  IN  /\ ArrivesIn(h, m, s, {"LAST_ACK"})
      /\ Becomes(h, IF AcksFin(R, s, m) THEN Free(PcbRemove(R, s), s) ELSE R)

\* TIME_WAIT: a SYN or FIN is acknowledged.
InputTimeWait(h, m, s) ==
  LET S == host[h]
      R == [S EXCEPT !.pcb[s].rcv_nxt = IF m.seq + Length(m) > @ THEN m.seq + Length(m) ELSE @]
  IN  /\ [to |-> h, seg |-> m] \in net /\ "RST" \notin m.flags
      /\ Matching(S, S.active, m) = {} /\ s \in Matching(S, S.tw, m)
      /\ Becomes(h, IF Length(m) > 0 THEN AckNow(R, s) ELSE R)

\* LISTEN: an acknowledgement is answered by a RST, a SYN by a new pcb.
InputListen(h, m) ==
  LET S == host[h]
  IN  /\ [to |-> h, seg |-> m] \in net /\ m.dport \in Members(S.listen)
      /\ "RST" \notin m.flags
      /\ Matching(S, S.active, m) = {} /\ Matching(S, S.tw, m) = {}
      /\ IF "ACK" \in m.flags
         THEN Becomes(h, Rst(S, m.ackno + 1, m.seq + Length(m), m.dport, m.sport))
         ELSE /\ S.iss < MaxIss[h]
              /\ \E A \in Allocate(S) :
                   IF FreePcbs(A) = {} THEN Becomes(h, A)
                   ELSE LET s == CHOOSE x \in FreePcbs(A) : TRUE
                            N == NewPcb(A, s)
                            R == [N EXCEPT !.active = <<s>> \o @,
                                    !.pcb[s] = [@ EXCEPT !.state = "SYN_RCVD", !.lport = m.dport,
                                                         !.rport = m.sport, !.rcv_nxt = m.seq + 1]]
                        IN  Becomes(h, SendCtrl(R, s, "SYN"))

\* No pcb at all: the answer is a RST.
InputNobody(h, m) ==
  LET S == host[h]
  IN  /\ [to |-> h, seg |-> m] \in net /\ m.dport \notin Members(S.listen)
      /\ Matching(S, S.active, m) = {} /\ Matching(S, S.tw, m) = {}
      /\ "RST" \notin m.flags
      /\ Becomes(h, Rst(S, m.ackno, m.seq + Length(m), m.dport, m.sport))

\* tcp_fasttmr, for one pcb.
FastTimer(h, s) ==
  /\ s \in Members(host[h].active) /\ host[h].pcb[s].delay
  /\ Becomes(h, AckNow(host[h], s))

\* tcp_slowtmr sends the unacknowledged segment again.
Retransmit(h, s, seg) ==
  /\ s \in Members(host[h].active) /\ seg \in host[h].pcb[s].unacked
  /\ Becomes(h, SendSegment(host[h], s, seg))

\* tcp_slowtmr removes a pcb after too many retransmissions, or too long in a
\* state.  An acknowledgement that is due is not sent.
Expire(h, s) ==
  LET p == host[h].pcb[s]
  IN  /\ \/ s \in Members(host[h].active) /\ (p.unacked # {} \/ p.state \in {"FIN_WAIT_2", "SYN_RCVD"})
         \/ s \in Members(host[h].tw)
      /\ Becomes(h, Free([host[h] EXCEPT !.active = Without(@, s), !.tw = Without(@, s)], s))

\* tcp_mem_reclaim, when any part of the host runs out of memory.
MemReclaim(h, s) ==
  /\ s \in Members(host[h].active)
  /\ Becomes(h, Abort(host[h], s))

Input(h, m) ==
  \/ \E s \in Pool[h] : \/ InputReset(h, m, s) \/ InputSynSent(h, m, s)
                     \/ \E accepted \in BOOLEAN : InputSynRcvd(h, m, s, accepted)
                     \/ InputOpen(h, m, s) \/ InputFinWait1(h, m, s) \/ InputFinWait2(h, m, s)
                     \/ InputClosing(h, m, s) \/ InputLastAck(h, m, s) \/ InputTimeWait(h, m, s)
  \/ InputListen(h, m)
  \/ InputNobody(h, m)

Next ==
  \E h \in Hosts :
    \/ Listen(h)
    \/ \E port \in Members(host[h].listen) : CloseListen(h, port)
    \/ \E memory \in BOOLEAN : Connect(h, memory)
    \/ \E s \in Pool[h] : Close(h, s) \/ CloseFails(h, s) \/ FastTimer(h, s) \/ Expire(h, s) \/ MemReclaim(h, s)
    \/ \E s \in Pool[h] : \E seg \in host[h].pcb[s].unacked : Retransmit(h, s, seg)
    \/ \E m \in {x.seg : x \in {y \in net : y.to = h}} : Input(h, m)

Spec == Init /\ [][Next]_vars

-----------------------------------------------------------------------------
(* Properties.                                                             *)

States == {"CLOSED", "LISTEN", "SYN_SENT", "SYN_RCVD", "ESTABLISHED", "FIN_WAIT_1",
           "FIN_WAIT_2", "CLOSE_WAIT", "CLOSING", "LAST_ACK", "TIME_WAIT"}

\* The fields of a pcb have the types of struct tcp_pcb, and lists hold pcbs.
TypeOK ==
  \A h \in Hosts :
    /\ \A s \in Pool[h] :
         LET p == host[h].pcb[s]
         IN  /\ p.state \in States /\ {p.used, p.held, p.delay, p.gotfin} \subseteq BOOLEAN
             /\ p.lport \in Nat /\ p.rport \in Nat
             /\ p.snd_nxt \in Nat /\ p.lastack \in 0 .. p.snd_nxt /\ p.rcv_nxt \in Nat
    /\ Members(host[h].active) \cup Members(host[h].tw) \subseteq Pool[h]
    /\ Len(host[h].listen) <= Listeners /\ host[h].port \in FirstPort .. LastPort
    /\ host[h].out = {}

\* The axioms of tcp.h about the lists: a pcb that is not CLOSED is on one list
\* and on one only, and its state fits the list, after any sequence of calls,
\* segments, timers and reclaims.
ListsSane ==
  \A h \in Hosts :
    LET S == host[h]
        both == S.active \o S.tw
    IN  /\ Cardinality(Members(both)) = Len(both)
        /\ \A s \in Pool[h] : S.pcb[s].state # "CLOSED" => s \in Members(both)
        /\ \A s \in Members(S.active) : S.pcb[s].used /\ S.pcb[s].state \notin {"CLOSED", "LISTEN", "TIME_WAIT"}
        /\ \A s \in Members(S.tw) : S.pcb[s].used /\ S.pcb[s].state = "TIME_WAIT"

\* tcp_new_port and the demultiplexing keep connections apart: no two pcbs of
\* a host have the same pair of ports, so that a segment has one receiver.
OneReceiver ==
  \A h \in Hosts : \A s, t \in Members(host[h].active) \cup Members(host[h].tw) :
    s # t => <<host[h].pcb[s].lport, host[h].pcb[s].rport>> # <<host[h].pcb[t].lport, host[h].pcb[t].rport>>

Synchronized == {"ESTABLISHED", "FIN_WAIT_1", "FIN_WAIT_2", "CLOSE_WAIT", "CLOSING", "LAST_ACK"}

\* Two ends that both hold a connection open agree on it: what one has had
\* acknowledged the other has received, and what one has received was sent.
Agreement ==
  \A h \in Hosts : \A s \in Pool[h], t \in Pool[Other(h)] :
    LET p == host[h].pcb[s]
        q == host[Other(h)].pcb[t]
    IN  (p.state \in Synchronized /\ q.state \in Synchronized /\ p.lport = q.rport /\ p.rport = q.lport)
          => p.lastack <= q.rcv_nxt /\ q.rcv_nxt <= p.snd_nxt

\* Control blocks and lists together (TCP_REG, TCP_RMV, tcp_pcb_remove,
\* tcp_memp_reclaim, tcp_new_port): the fields of every block, the axioms of
\* tcp.h, and no two blocks that a segment could be meant for.
PcbsSane == TypeOK /\ ListsSane /\ OneReceiver
=============================================================================
