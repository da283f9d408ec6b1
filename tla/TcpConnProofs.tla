---------------------------- MODULE TcpConnProofs ----------------------------
(***************************************************************************)
(* Control blocks and the agreement of the two ends, for any pools, ports  *)
(* and numbers of segments.                                                *)
(*                                                                         *)
(* Agreement needs to know when the two blocks of a pair of ports belong   *)
(* to the same connection: ports are used again, old segments arrive, and  *)
(* a client can be in SYN_SENT while the server still has the block of an  *)
(* earlier connection, or has one that answers an old SYN.  The invariant  *)
(* (Pair) calls them Engaged once the client side has seen the SYN of the  *)
(* server's block.  From then on a client that still waits can only get    *)
(* acknowledgements that are too old for it, and one that is synchronized  *)
(* agrees with the server.                                                 *)
(*                                                                         *)
(* The operators of TcpConn that an action is made of are taken one by     *)
(* one: each of them changes one block or sends one segment, and keeps the *)
(* invariant of the two sides (World) and of the lists (Lists).            *)
(***************************************************************************)
EXTENDS TcpConn, FiniteSetTheorems, SequenceTheorems, NaturalsInduction,
        WellFoundedInduction, TLAPS

FlagSets == {{"SYN"}, {"SYN", "ACK"}, {"FIN", "ACK"}, {"ACK"}, {"RST", "ACK"}}

Segments == [seq : Nat, flags : FlagSets]

Messages == [sport : Nat, dport : Nat, flags : FlagSets, seq : Nat, ackno : Nat]

Pcbs == [used : BOOLEAN, held : BOOLEAN, state : States, lport : Nat, rport : Nat,
         snd_nxt : Nat, lastack : Nat, rcv_nxt : Nat, unacked : SUBSET Segments,
         delay : BOOLEAN, gotfin : BOOLEAN]

(* What matters of a host to the other one: its blocks, its last initial   *)
(* sequence number and all that it has sent.                               *)
Sides(h) == [pcb : [Pool[h] -> Pcbs], iss : Nat, sent : SUBSET Messages]

Ports == FirstPort .. LastPort

Opening == {"SYN_SENT", "SYN_RCVD"}

Live(p) == p.state # "CLOSED"

(* The number after the last one that a host can have used.  The SYN of a  *)
(* client has the number before its iss, the SYN of a server the iss, and  *)
(* the FIN has the next one.                                               *)
Top(h, i) == IF h \in Clients THEN i + 1 ELSE i + 2

(* A block of h, when h has come to the iss i and the other host to j.     *)
GoodPcb(h, p, i, j) == Live(p) =>
  /\ p.state \in Opening \cup Synchronized \cup {"TIME_WAIT"}
  /\ p.snd_nxt <= Top(h, i) /\ p.rcv_nxt <= Top(Other(h), j)
  /\ p.state \in Opening \cup {"ESTABLISHED", "CLOSE_WAIT"} => p.snd_nxt < Top(h, i)
  /\ p.state \in Opening => p.snd_nxt = p.lastack + 1 /\ p.delay = FALSE
  /\ p.state = "SYN_SENT" => p.rcv_nxt = 0
  /\ \A x \in p.unacked :
       /\ x.seq < p.snd_nxt /\ "RST" \notin x.flags
       /\ p.state \in Opening => x.seq = p.lastack /\ "SYN" \in x.flags
       /\ p.state # "SYN_SENT" => "ACK" \in x.flags
       /\ p.state = "SYN_SENT" => x.flags = {"SYN"}
  /\ h \in Clients => p.state # "SYN_RCVD" /\ p.lport \in Ports /\ p.rport = Server
  /\ h \notin Clients => p.state # "SYN_SENT" /\ p.lport = Server /\ p.rport \in Ports

(* A segment that h has sent.                                              *)
GoodMsg(h, m, i, j) == "RST" \notin m.flags =>
  /\ m.seq + Length(m) <= Top(h, i)
  /\ "ACK" \in m.flags => m.ackno <= Top(Other(h), j)
  /\ "ACK" \notin m.flags =>
       h \in Clients /\ m.flags = {"SYN"} /\ m.sport \in Ports /\ m.dport = Server

(* m was sent from the port of p to its peer.                              *)
On(p, m) == Live(p) /\ "RST" \notin m.flags /\ m.sport = p.lport /\ m.dport = p.rport

(* m is for p and acknowledges something.                                  *)
AckFor(p, m) == Live(p) /\ "RST" \notin m.flags /\ "ACK" \in m.flags /\ Matches(p, m)

(* Segments are below snd_nxt.  Those of earlier blocks with these ports   *)
(* end before the first number of one that is opening, and the others are  *)
(* its SYN.                                                                *)
Own(p, m) == On(p, m) =>
  /\ m.seq + Length(m) <= p.snd_nxt
  /\ p.state \in Opening => \/ m.seq + Length(m) < p.lastack
                            \/ m.seq >= p.lastack /\ "SYN" \in m.flags
  /\ p.state = "SYN_RCVD" /\ m.seq >= p.lastack => m.ackno = p.rcv_nxt

Heard(p, m) == AckFor(p, m) => m.ackno <= p.snd_nxt

Matched(p, q) == Live(p) /\ Live(q) /\ p.lport = q.rport /\ p.rport = q.lport

Reached(p, q) == Matched(p, q) => p.rcv_nxt <= q.snd_nxt /\ q.rcv_nxt <= p.snd_nxt

(* The side of the client p, which has sent M, has seen the SYN of q.      *)
Engaged(p, q, M) ==
  \/ q.state \in Synchronized
  \/ /\ q.state = "SYN_RCVD"
     /\ p.rcv_nxt > q.lastack \/ \E m \in M : AckFor(q, m) /\ m.ackno > q.lastack

(* The acknowledgements that the server has sent, or would send, are all   *)
(* from before the client's SYN.                                           *)
TooOld(p, q, K) ==
  q.rcv_nxt < p.lastack /\ \A m \in K : AckFor(p, m) => m.ackno < p.lastack

Agree(p, q, M, K) ==
  /\ p.lastack <= q.rcv_nxt /\ q.lastack <= p.rcv_nxt
  /\ \A m \in K : AckFor(p, m) => m.ackno <= q.rcv_nxt
  /\ \A m \in M : AckFor(q, m) => m.ackno <= p.rcv_nxt

(* A block p of a client and a block q of a server; K is what the server   *)
(* has sent.                                                               *)
Pair(p, q, M, K) == p.rport = Server /\ Matched(p, q) =>
  /\ q.state = "SYN_RCVD" /\ p.state \in Synchronized => p.rcv_nxt # q.lastack
  /\ Engaged(p, q, M) /\ p.state = "SYN_SENT" => TooOld(p, q, K)
  /\ Engaged(p, q, M) /\ p.state \in Synchronized => Agree(p, q, M, K)

(* A block p of h, seen from all the rest; B is the other side.            *)
Fits(h, p, A, B) ==
  /\ GoodPcb(h, p, A.iss, B.iss)
  /\ \A m \in A.sent : Own(p, m)
  /\ \A m \in B.sent : Heard(p, m)
  /\ \A t \in Pool[Other(h)] : /\ Reached(p, B.pcb[t])
                               /\ Pair(p, B.pcb[t], A.sent, B.sent)
                               /\ Pair(B.pcb[t], p, B.sent, A.sent)

Apart(p, q) == Live(p) /\ Live(q) => p.lport # q.lport \/ p.rport # q.rport

SideOK(h, A, B) ==
  /\ A \in Sides(h)
  /\ \A s \in Pool[h] : Fits(h, A.pcb[s], A, B)
  /\ \A s, t \in Pool[h] : s # t => Apart(A.pcb[s], A.pcb[t])
  /\ \A m \in A.sent : GoodMsg(h, m, A.iss, B.iss)

World(h, A, B) == SideOK(h, A, B) /\ SideOK(Other(h), B, A)

-----------------------------------------------------------------------------
(* The two hosts.                                                          *)

LEMMA OtherHost ==
  ASSUME NEW h \in Hosts
  PROVE  Other(h) \in Hosts /\ Other(h) # h /\ Other(Other(h)) = h
         /\ \A g \in Hosts : g = h \/ g = Other(h)
<1>1. IsFiniteSet(Hosts) /\ Cardinality(Hosts) = 2  BY ConnAssumption
<1>2. IsFiniteSet(Hosts \ {h}) /\ Cardinality(Hosts \ {h}) = 1
  <2>1. /\ IsFiniteSet(Hosts \ {h})
        /\ Cardinality(Hosts \ {h}) = Cardinality(Hosts) - 1
    BY <1>1, FS_RemoveElement
  <2> QED  BY <1>1, <2>1
<1>3. PICK g : Hosts \ {h} = {g}  BY <1>2, FS_Singleton
<1>4. g \in Hosts /\ g # h /\ \A x \in Hosts : x = h \/ x = g  BY <1>3
<1>5. Other(h) = g  BY <1>4 DEF Other
<1>6. Other(g) = h  BY <1>4 DEF Other
<1> QED  BY <1>4, <1>5, <1>6

LEMMA WorldSwap ==
  ASSUME NEW h \in Hosts, NEW A, NEW B, World(h, A, B)
  PROVE  World(Other(h), B, A)
BY OtherHost DEF World

-----------------------------------------------------------------------------
(* The three ways in which a side changes.                                 *)

(* One block is replaced.                                                  *)
LEMMA ReplacePcb ==
  ASSUME NEW h \in Hosts, NEW A, NEW B, World(h, A, B), NEW s \in Pool[h], NEW p \in Pcbs,
         Fits(h, p, A, B), \A t \in Pool[h] \ {s} : Apart(p, A.pcb[t])
  PROVE  World(h, [A EXCEPT !.pcb[s] = p], B)
<1> DEFINE A2 == [A EXCEPT !.pcb[s] = p]
           g == Other(h)
<1>1. A \in Sides(h) /\ SideOK(h, A, B) /\ SideOK(g, B, A)  BY DEF World, SideOK
<1>2. /\ A2 \in Sides(h) /\ A2.iss = A.iss /\ A2.sent = A.sent /\ A2.pcb[s] = p
      /\ \A t \in Pool[h] \ {s} : A2.pcb[t] = A.pcb[t]
  BY <1>1 DEF Sides
<1>3. Other(g) = h  BY OtherHost
<1> HIDE DEF A2, g
<1>4. SideOK(h, A2, B)
  <2>1. \A t \in Pool[h] : Fits(h, A2.pcb[t], A2, B)
    <3> TAKE t \in Pool[h]
    <3>1. Fits(h, A2.pcb[t], A, B)  BY <1>1, <1>2 DEF SideOK
    <3> QED  BY <3>1, <1>2 DEF Fits
  <2>2. \A u, t \in Pool[h] : u # t => Apart(A2.pcb[u], A2.pcb[t])
    <3> TAKE u, t \in Pool[h]
    <3> HAVE u # t
    <3>1. CASE u = s  BY <3>1, <1>2
    <3>2. CASE t = s  BY <3>2, <1>2 DEF Apart
    <3>3. CASE u # s /\ t # s  BY <3>3, <1>1, <1>2 DEF SideOK
    <3> QED  BY <3>1, <3>2, <3>3
  <2>3. \A m \in A2.sent : GoodMsg(h, m, A2.iss, B.iss)  BY <1>1, <1>2 DEF SideOK
  <2> QED  BY <1>2, <2>1, <2>2, <2>3 DEF SideOK
<1>5. SideOK(g, B, A2)
  <2>1. \A t \in Pool[g] : Fits(g, B.pcb[t], B, A2)
    <3> TAKE t \in Pool[g]
    <3>1. Fits(g, B.pcb[t], B, A)  BY <1>1 DEF SideOK
    <3>2. ASSUME NEW u \in Pool[h]
          PROVE  /\ Reached(B.pcb[t], A2.pcb[u])
                 /\ Pair(B.pcb[t], A2.pcb[u], B.sent, A2.sent)
                 /\ Pair(A2.pcb[u], B.pcb[t], A2.sent, B.sent)
      <4>1. CASE u = s
        <5>1. Reached(p, B.pcb[t]) /\ Pair(p, B.pcb[t], A.sent, B.sent)
              /\ Pair(B.pcb[t], p, B.sent, A.sent)
          BY DEF Fits, g
        <5>2. Reached(B.pcb[t], p)  BY <5>1 DEF Reached, Matched
        <5> QED  BY <4>1, <5>1, <5>2, <1>2
      <4>2. CASE u # s  BY <4>2, <3>1, <1>2, <1>3 DEF Fits
      <4> QED  BY <4>1, <4>2
    <3> QED  BY <3>1, <3>2, <1>2, <1>3 DEF Fits
  <2> QED  BY <1>1, <1>2, <2>1 DEF SideOK
<1> QED  BY <1>4, <1>5 DEF World, A2, g

(* One segment is sent.                                                    *)
LEMMA SendMsg ==
  ASSUME NEW h \in Hosts, NEW A, NEW B, World(h, A, B), NEW e \in Messages,
         GoodMsg(h, e, A.iss, B.iss),
         \A s \in Pool[h] : Own(A.pcb[s], e),
         \A t \in Pool[Other(h)] : Heard(B.pcb[t], e),
         \A s \in Pool[h], t \in Pool[Other(h)] :
           /\ Pair(A.pcb[s], B.pcb[t], A.sent \cup {e}, B.sent)
           /\ Pair(B.pcb[t], A.pcb[s], B.sent, A.sent \cup {e})
  PROVE  World(h, [A EXCEPT !.sent = A.sent \cup {e}], B)
<1> DEFINE A2 == [A EXCEPT !.sent = A.sent \cup {e}]
           g == Other(h)
<1>1. A \in Sides(h) /\ SideOK(h, A, B) /\ SideOK(g, B, A)  BY DEF World, SideOK
<1>2. A2 \in Sides(h) /\ A2.iss = A.iss /\ A2.sent = A.sent \cup {e} /\ A2.pcb = A.pcb
  BY <1>1 DEF Sides
<1>3. Other(g) = h  BY OtherHost
<1>4. \A s \in Pool[h] : Fits(h, A2.pcb[s], A2, B)
  <2> TAKE s \in Pool[h]
  <2>1. Fits(h, A.pcb[s], A, B)  BY <1>1 DEF SideOK
  <2> HIDE DEF A2
  <2> QED  BY <2>1, <1>2 DEF Fits
<1>5. \A t \in Pool[g] : Fits(g, B.pcb[t], B, A2)
  <2> TAKE t \in Pool[g]
  <2>1. Fits(g, B.pcb[t], B, A)  BY <1>1 DEF SideOK
  <2> HIDE DEF A2
  <2> QED  BY <2>1, <1>2, <1>3 DEF Fits
<1>6. \A m \in A2.sent : GoodMsg(h, m, A2.iss, B.iss)  BY <1>1, <1>2 DEF SideOK
<1> HIDE DEF A2
<1>7. SideOK(h, A2, B)  BY <1>1, <1>2, <1>4, <1>6 DEF SideOK
<1>8. SideOK(g, B, A2)  BY <1>1, <1>2, <1>5 DEF SideOK
<1> QED  BY <1>7, <1>8 DEF World, A2

(* The initial sequence numbers move on.                                   *)
LEMMA RaiseIss ==
  ASSUME NEW h \in Hosts, NEW A, NEW B, World(h, A, B), NEW i \in Nat, i >= A.iss
  PROVE  World(h, [A EXCEPT !.iss = i], B)
<1> DEFINE A2 == [A EXCEPT !.iss = i]
           g == Other(h)
<1>1. A \in Sides(h) /\ B \in Sides(g) /\ SideOK(h, A, B) /\ SideOK(g, B, A)
  BY DEF World, SideOK
<1>2. A2 \in Sides(h) /\ A2.iss = i /\ A2.sent = A.sent /\ A2.pcb = A.pcb
  BY <1>1 DEF Sides
<1>3. Other(g) = h  BY OtherHost
<1>4. A.iss \in Nat /\ B.iss \in Nat  BY <1>1 DEF Sides
<1>5. Top(h, A.iss) \in Nat /\ Top(h, i) \in Nat /\ Top(h, A.iss) <= Top(h, i)
  BY <1>4 DEF Top
<1> HIDE DEF A2, g
<1>6. \A s \in Pool[h] : Fits(h, A2.pcb[s], A2, B)
  <2> TAKE s \in Pool[h]
  <2>1. Fits(h, A.pcb[s], A, B)  BY <1>1 DEF SideOK
  <2>2. A.pcb[s].snd_nxt \in Nat  BY <1>1 DEF Sides, Pcbs
  <2>3. GoodPcb(h, A.pcb[s], A.iss, B.iss)  BY <2>1 DEF Fits
  <2>4. GoodPcb(h, A.pcb[s], i, B.iss)  BY <2>2, <2>3, <1>5 DEF GoodPcb
  <2> QED  BY <2>1, <2>4, <1>2 DEF Fits
<1>7. \A t \in Pool[g] : Fits(g, B.pcb[t], B, A2)
  <2> TAKE t \in Pool[g]
  <2>1. Fits(g, B.pcb[t], B, A)  BY <1>1 DEF SideOK
  <2>2. B.pcb[t].rcv_nxt \in Nat  BY <1>1 DEF Sides, Pcbs
  <2>3. GoodPcb(g, B.pcb[t], B.iss, A.iss)  BY <2>1 DEF Fits
  <2>4. GoodPcb(g, B.pcb[t], B.iss, i)  BY <2>2, <2>3, <1>3, <1>5 DEF GoodPcb
  <2> QED  BY <2>1, <2>4, <1>2, <1>3 DEF Fits
<1>8. \A m \in A2.sent : GoodMsg(h, m, A2.iss, B.iss)
  <2> TAKE m \in A2.sent
  <2>1. m \in Messages /\ GoodMsg(h, m, A.iss, B.iss)  BY <1>1, <1>2 DEF SideOK, Sides
  <2>2. m.seq + Length(m) \in Nat  BY <2>1 DEF Messages, Length
  <2> QED  BY <2>1, <2>2, <1>2, <1>5 DEF GoodMsg
<1>9. \A m \in B.sent : GoodMsg(g, m, B.iss, A2.iss)
  <2> TAKE m \in B.sent
  <2>1. m \in Messages /\ GoodMsg(g, m, B.iss, A.iss)  BY <1>1 DEF SideOK, Sides
  <2>2. m.ackno \in Nat  BY <2>1 DEF Messages
  <2> QED  BY <2>1, <2>2, <1>2, <1>3, <1>5 DEF GoodMsg
<1>10. SideOK(h, A2, B)  BY <1>1, <1>2, <1>6, <1>8 DEF SideOK
<1>11. SideOK(g, B, A2)  BY <1>1, <1>2, <1>7, <1>9 DEF SideOK
<1> QED  BY <1>10, <1>11 DEF World, A2, g

-----------------------------------------------------------------------------
(* What happens to one block.                                              *)

LEMMA WorldFacts ==
  ASSUME NEW h \in Hosts, NEW A, NEW B, World(h, A, B)
  PROVE  /\ A \in Sides(h) /\ B \in Sides(Other(h)) /\ A.iss \in Nat /\ B.iss \in Nat
         /\ \A s \in Pool[h] : A.pcb[s] \in Pcbs /\ Fits(h, A.pcb[s], A, B)
         /\ \A t \in Pool[Other(h)] : B.pcb[t] \in Pcbs /\ Fits(Other(h), B.pcb[t], B, A)
         /\ \A m \in A.sent : m \in Messages /\ GoodMsg(h, m, A.iss, B.iss)
         /\ \A m \in B.sent : m \in Messages /\ GoodMsg(Other(h), m, B.iss, A.iss)
BY DEF World, SideOK, Sides

LEMMA PcbType ==
  ASSUME NEW p \in Pcbs
  PROVE  /\ p.snd_nxt \in Nat /\ p.lastack \in Nat /\ p.rcv_nxt \in Nat /\ p.state \in States
         /\ p.lport \in Nat /\ p.rport \in Nat /\ p.unacked \subseteq Segments
BY DEF Pcbs

LEMMA MsgType ==
  ASSUME NEW m \in Messages
  PROVE  /\ m.seq \in Nat /\ m.ackno \in Nat /\ Length(m) \in {0, 1}
         /\ m.sport \in Nat /\ m.dport \in Nat /\ m.flags \in FlagSets
BY DEF Messages, Length

(* A block that leaves the connection says nothing.                        *)
LEMMA DropPcb ==
  ASSUME NEW h \in Hosts, NEW A, NEW B, World(h, A, B), NEW s \in Pool[h], NEW p \in Pcbs,
         p.state = "CLOSED"
  PROVE  World(h, [A EXCEPT !.pcb[s] = p], B)
<1>1. ~Live(p)  BY DEF Live
<1>2. Fits(h, p, A, B)
  BY <1>1 DEF Fits, GoodPcb, Own, On, Heard, AckFor, Reached, Pair, Matched
<1> QED  BY <1>1, <1>2, ReplacePcb DEF Apart

SamePlace(p, q) == p.lport = q.lport /\ p.rport = q.rport

(* A block that stays on its ports is apart from the others as before.     *)
LEMMA StaysApart ==
  ASSUME NEW h \in Hosts, NEW A, NEW B, World(h, A, B), NEW s \in Pool[h],
         NEW p, SamePlace(p, A.pcb[s]), Live(A.pcb[s])
  PROVE  \A t \in Pool[h] \ {s} : Apart(p, A.pcb[t])
BY DEF World, SideOK, Apart, SamePlace

(* States that are alike to the other end.                                 *)
StateMoves(a, b) ==
  \/ a = b
  \/ /\ a \in Synchronized /\ b \in Synchronized \cup {"TIME_WAIT"}
     /\ b \in {"ESTABLISHED", "CLOSE_WAIT"} => a \in {"ESTABLISHED", "CLOSE_WAIT"}

LEMMA QuietPcb ==
  ASSUME NEW h \in Hosts, NEW A, NEW B, World(h, A, B), NEW s \in Pool[h], NEW p \in Pcbs,
         SamePlace(p, A.pcb[s]), StateMoves(A.pcb[s].state, p.state),
         p.snd_nxt = A.pcb[s].snd_nxt, p.lastack = A.pcb[s].lastack,
         p.rcv_nxt = A.pcb[s].rcv_nxt, p.unacked \subseteq A.pcb[s].unacked,
         p.state \in Opening => p.delay = FALSE
  PROVE  World(h, [A EXCEPT !.pcb[s] = p], B)
<1>1. CASE p.state = "CLOSED"  BY <1>1, DropPcb
<1>2. CASE p.state # "CLOSED"
  <2> DEFINE p0 == A.pcb[s]
  <2>1. p0 \in Pcbs /\ Fits(h, p0, A, B)  BY WorldFacts
  <2> HIDE DEF p0
  <2>2. p0.state # "CLOSED"  BY <1>2 DEF p0, StateMoves, Synchronized
  <2>3. /\ Live(p) /\ Live(p0) /\ p.lport = p0.lport /\ p.rport = p0.rport
        /\ p.snd_nxt = p0.snd_nxt /\ p.lastack = p0.lastack /\ p.rcv_nxt = p0.rcv_nxt
        /\ p.unacked \subseteq p0.unacked
    BY <1>2, <2>2 DEF Live, SamePlace, p0
  <2>4. /\ p.state \in Opening <=> p0.state \in Opening
        /\ p.state = "SYN_SENT" <=> p0.state = "SYN_SENT"
        /\ p.state = "SYN_RCVD" <=> p0.state = "SYN_RCVD"
        /\ p.state \in Synchronized => p0.state \in Synchronized
        /\ p.state \in {"ESTABLISHED", "CLOSE_WAIT"} => p0.state \in {"ESTABLISHED", "CLOSE_WAIT"}
        /\ p.state \in Opening \cup Synchronized \cup {"TIME_WAIT"}
    BY <2>1, <2>3 DEF StateMoves, Synchronized, Opening, p0, Fits, GoodPcb
  <2>5. GoodPcb(h, p, A.iss, B.iss)
    <3>1. GoodPcb(h, p0, A.iss, B.iss)  BY <2>1 DEF Fits
    <3> QED  BY <3>1, <2>3, <2>4 DEF GoodPcb
  <2>6. \A m \in A.sent : Own(p, m)  BY <2>1, <2>3, <2>4 DEF Fits, Own, On
  <2>7. \A m : AckFor(p, m) <=> AckFor(p0, m)  BY <2>3 DEF AckFor, Matches
  <2>8. \A m \in B.sent : Heard(p, m)  BY <2>1, <2>3, <2>7 DEF Fits, Heard
  <2>9. ASSUME NEW t \in Pool[Other(h)]
        PROVE  /\ Reached(p, B.pcb[t])
               /\ Pair(p, B.pcb[t], A.sent, B.sent) /\ Pair(B.pcb[t], p, B.sent, A.sent)
    <3> DEFINE q == B.pcb[t]
    <3>1. Reached(p0, q) /\ Pair(p0, q, A.sent, B.sent) /\ Pair(q, p0, B.sent, A.sent)
      BY <2>1 DEF Fits
    <3> HIDE DEF q
    <3>2. Matched(p, q) <=> Matched(p0, q)  BY <2>3 DEF Matched
    <3>3. Matched(q, p) <=> Matched(q, p0)  BY <2>3 DEF Matched
    <3>4. Reached(p, q)  BY <3>1, <3>2, <2>3 DEF Reached
    <3>5. Engaged(p, q, A.sent) <=> Engaged(p0, q, A.sent)  BY <2>3 DEF Engaged
    <3>6. Engaged(q, p, B.sent) => Engaged(q, p0, B.sent)
      BY <2>3, <2>4, <2>7 DEF Engaged
    <3>7. TooOld(p, q, B.sent) <=> TooOld(p0, q, B.sent)  BY <2>3, <2>7 DEF TooOld
    <3>8. TooOld(q, p, A.sent) <=> TooOld(q, p0, A.sent)  BY <2>3 DEF TooOld
    <3>9. Agree(p, q, A.sent, B.sent) <=> Agree(p0, q, A.sent, B.sent)
      BY <2>3, <2>7 DEF Agree
    <3>10. Agree(q, p, B.sent, A.sent) <=> Agree(q, p0, B.sent, A.sent)
      BY <2>3, <2>7 DEF Agree
    <3>11. Pair(p, q, A.sent, B.sent)
      BY <3>1, <3>2, <3>5, <3>7, <3>9, <2>3, <2>4 DEF Pair
    <3>12. Pair(q, p, B.sent, A.sent)
      BY <3>1, <3>3, <3>6, <3>8, <3>10, <2>3, <2>4 DEF Pair
    <3> QED  BY <3>4, <3>11, <3>12 DEF q
  <2>10. Fits(h, p, A, B)  BY <2>5, <2>6, <2>8, <2>9 DEF Fits
  <2>11. \A t \in Pool[h] \ {s} : Apart(p, A.pcb[t])
    BY <2>2, StaysApart DEF Live, p0
  <2> QED  BY <2>10, <2>11, ReplacePcb
<1> QED  BY <1>1, <1>2

(* The FIN takes the next number.                                          *)
LEMMA FinPcb ==
  ASSUME NEW h \in Hosts, NEW A, NEW B, World(h, A, B), NEW s \in Pool[h], NEW p \in Pcbs,
         SamePlace(p, A.pcb[s]), A.pcb[s].state \in {"ESTABLISHED", "CLOSE_WAIT"},
         p.state \in {"FIN_WAIT_1", "LAST_ACK"},
         p.snd_nxt = A.pcb[s].snd_nxt + 1, p.lastack = A.pcb[s].lastack,
         p.rcv_nxt = A.pcb[s].rcv_nxt,
         p.unacked = {[seq |-> A.pcb[s].snd_nxt, flags |-> {"FIN", "ACK"}]}
  PROVE  World(h, [A EXCEPT !.pcb[s] = p], B)
<1> DEFINE p0 == A.pcb[s]
<1>1. p0 \in Pcbs /\ Fits(h, p0, A, B)  BY WorldFacts
<1> HIDE DEF p0
<1>2. /\ Live(p) /\ Live(p0) /\ p.lport = p0.lport /\ p.rport = p0.rport
      /\ p.snd_nxt = p0.snd_nxt + 1 /\ p.lastack = p0.lastack /\ p.rcv_nxt = p0.rcv_nxt
      /\ p.state \in Synchronized /\ p0.state \in Synchronized
      /\ p.state \notin Opening /\ p0.state \notin Opening
      /\ p.state \notin {"ESTABLISHED", "CLOSE_WAIT", "SYN_SENT", "SYN_RCVD"}
      /\ p0.state \notin {"SYN_SENT", "SYN_RCVD"}
  BY DEF Live, SamePlace, Synchronized, Opening, p0
<1>3. p0.snd_nxt \in Nat /\ p.snd_nxt \in Nat  BY <1>1, PcbType
<1>4. p0.rcv_nxt \in Nat /\ p0.lastack \in Nat  BY <1>1, PcbType
<1>5. A.iss \in Nat /\ Top(h, A.iss) \in Nat  BY WorldFacts DEF Top
<1>6. GoodPcb(h, p, A.iss, B.iss)
  <2>1. GoodPcb(h, p0, A.iss, B.iss)  BY <1>1 DEF Fits
  <2>2. p0.snd_nxt < Top(h, A.iss) /\ p.rcv_nxt <= Top(Other(h), B.iss)
    BY <1>2, <2>1 DEF GoodPcb, p0
  <2>3. p.snd_nxt <= Top(h, A.iss)  BY <1>2, <1>3, <1>5, <2>2
  <2>4. \A x \in p.unacked : x.seq < p.snd_nxt /\ "RST" \notin x.flags /\ "ACK" \in x.flags
    BY <1>2, <1>3 DEF p0
  <2> QED  BY <1>2, <2>1, <2>2, <2>3, <2>4 DEF GoodPcb
<1>7. \A m \in A.sent : Own(p, m)
  <2> TAKE m \in A.sent
  <2>1. m.seq + Length(m) \in Nat  BY WorldFacts, MsgType
  <2> QED  BY <1>1, <1>2, <1>3, <2>1 DEF Fits, Own, On
<1>8. \A m : AckFor(p, m) <=> AckFor(p0, m)  BY <1>2 DEF AckFor, Matches
<1>9. \A m \in B.sent : Heard(p, m)
  <2> TAKE m \in B.sent
  <2>1. m.ackno \in Nat  BY WorldFacts, MsgType
  <2> QED  BY <1>1, <1>2, <1>3, <1>8, <2>1 DEF Fits, Heard
<1>10. ASSUME NEW t \in Pool[Other(h)]
       PROVE  /\ Reached(p, B.pcb[t])
              /\ Pair(p, B.pcb[t], A.sent, B.sent) /\ Pair(B.pcb[t], p, B.sent, A.sent)
  <2> DEFINE q == B.pcb[t]
  <2>1. Reached(p0, q) /\ Pair(p0, q, A.sent, B.sent) /\ Pair(q, p0, B.sent, A.sent)
    BY <1>1 DEF Fits
  <2>2. q.rcv_nxt \in Nat  BY WorldFacts, PcbType
  <2> HIDE DEF q
  <2>3. Matched(p, q) <=> Matched(p0, q)  BY <1>2 DEF Matched
  <2>4. Matched(q, p) <=> Matched(q, p0)  BY <1>2 DEF Matched
  <2>5. Reached(p, q)  BY <2>1, <2>2, <2>3, <1>2, <1>3 DEF Reached
  <2>6. Engaged(p, q, A.sent) <=> Engaged(p0, q, A.sent)  BY <1>2 DEF Engaged
  <2>7. Engaged(q, p, B.sent) /\ Engaged(q, p0, B.sent)  BY <1>2 DEF Engaged
  <2>8. TooOld(q, p, A.sent) <=> TooOld(q, p0, A.sent)  BY <1>2 DEF TooOld
  <2>9. Agree(p, q, A.sent, B.sent) <=> Agree(p0, q, A.sent, B.sent)
    BY <1>2, <1>8 DEF Agree
  <2>10. Agree(q, p, B.sent, A.sent) <=> Agree(q, p0, B.sent, A.sent)
    BY <1>2, <1>8 DEF Agree
  <2>11. Pair(p, q, A.sent, B.sent)  BY <2>1, <2>3, <2>6, <2>9, <1>2 DEF Pair
  <2>12. Pair(q, p, B.sent, A.sent)  BY <2>1, <2>4, <2>7, <2>8, <2>10, <1>2 DEF Pair
  <2> QED  BY <2>5, <2>11, <2>12 DEF q
<1>11. Fits(h, p, A, B)  BY <1>6, <1>7, <1>9, <1>10 DEF Fits
<1>12. \A t \in Pool[h] \ {s} : Apart(p, A.pcb[t])  BY <1>2, StaysApart DEF p0
<1> QED  BY <1>11, <1>12, ReplacePcb

(* An acknowledgement is taken.                                            *)
LEMMA AckedPcb ==
  ASSUME NEW h \in Hosts, NEW A, NEW B, World(h, A, B), NEW s \in Pool[h], NEW p \in Pcbs,
         SamePlace(p, A.pcb[s]), A.pcb[s].state \in Synchronized, p.state = A.pcb[s].state,
         p.snd_nxt = A.pcb[s].snd_nxt, p.rcv_nxt = A.pcb[s].rcv_nxt,
         p.unacked \subseteq A.pcb[s].unacked,
         NEW m \in B.sent, AckFor(A.pcb[s], m), p.lastack = m.ackno
  PROVE  World(h, [A EXCEPT !.pcb[s] = p], B)
<1> DEFINE p0 == A.pcb[s]
<1>1. p0 \in Pcbs /\ Fits(h, p0, A, B)  BY WorldFacts
<1> HIDE DEF p0
<1>2. /\ Live(p) /\ Live(p0) /\ p.lport = p0.lport /\ p.rport = p0.rport
      /\ p.snd_nxt = p0.snd_nxt /\ p.rcv_nxt = p0.rcv_nxt /\ p.unacked \subseteq p0.unacked
      /\ p.state = p0.state /\ p.state \in Synchronized
      /\ p.state \notin Opening /\ p.state \notin {"SYN_SENT", "SYN_RCVD"}
  BY DEF Live, SamePlace, Synchronized, Opening, p0
<1>3. GoodPcb(h, p, A.iss, B.iss)
  <2>1. GoodPcb(h, p0, A.iss, B.iss)  BY <1>1 DEF Fits
  <2> QED  BY <1>2, <2>1 DEF GoodPcb
<1>4. \A n \in A.sent : Own(p, n)  BY <1>1, <1>2 DEF Fits, Own, On
<1>5. \A n : AckFor(p, n) <=> AckFor(p0, n)  BY <1>2 DEF AckFor, Matches
<1>6. \A n \in B.sent : Heard(p, n)  BY <1>1, <1>2, <1>5 DEF Fits, Heard
<1>7. ASSUME NEW t \in Pool[Other(h)]
      PROVE  /\ Reached(p, B.pcb[t])
             /\ Pair(p, B.pcb[t], A.sent, B.sent) /\ Pair(B.pcb[t], p, B.sent, A.sent)
  <2> DEFINE q == B.pcb[t]
  <2>1. Reached(p0, q) /\ Pair(p0, q, A.sent, B.sent) /\ Pair(q, p0, B.sent, A.sent)
    BY <1>1 DEF Fits
  <2> HIDE DEF q
  <2>3. Matched(p, q) <=> Matched(p0, q)  BY <1>2 DEF Matched
  <2>4. Matched(q, p) <=> Matched(q, p0)  BY <1>2 DEF Matched
  <2>5. Reached(p, q)  BY <2>1, <2>3, <1>2 DEF Reached
  <2>6. Engaged(p, q, A.sent) <=> Engaged(p0, q, A.sent)  BY <1>2 DEF Engaged
  <2>7. Engaged(q, p, B.sent) /\ Engaged(q, p0, B.sent)  BY <1>2 DEF Engaged
  <2>8. TooOld(q, p, A.sent) <=> TooOld(q, p0, A.sent)  BY <1>2 DEF TooOld
  <2>9. Agree(p0, q, A.sent, B.sent) => Agree(p, q, A.sent, B.sent)
    BY <1>2, <1>5 DEF Agree, p0
  <2>10. Agree(q, p0, B.sent, A.sent) => Agree(q, p, B.sent, A.sent)
    BY <1>2, <1>5 DEF Agree, p0
  <2>11. Pair(p, q, A.sent, B.sent)  BY <2>1, <2>3, <2>6, <2>9, <1>2 DEF Pair
  <2>12. Pair(q, p, B.sent, A.sent)  BY <2>1, <2>4, <2>7, <2>8, <2>10, <1>2 DEF Pair
  <2> QED  BY <2>5, <2>11, <2>12 DEF q
<1>8. Fits(h, p, A, B)  BY <1>3, <1>4, <1>6, <1>7 DEF Fits
<1>9. \A t \in Pool[h] \ {s} : Apart(p, A.pcb[t])  BY <1>2, StaysApart DEF p0
<1> QED  BY <1>8, <1>9, ReplacePcb

(* A SYN or FIN is taken, or what a block in TIME_WAIT takes for one.      *)
LEMMA TakenPcb ==
  ASSUME NEW h \in Hosts, NEW A, NEW B, World(h, A, B), NEW s \in Pool[h], NEW p \in Pcbs,
         SamePlace(p, A.pcb[s]), p.state = A.pcb[s].state,
         p.snd_nxt = A.pcb[s].snd_nxt, p.lastack = A.pcb[s].lastack,
         p.unacked \subseteq A.pcb[s].unacked,
         NEW m \in B.sent, "RST" \notin m.flags, Matches(A.pcb[s], m),
         p.rcv_nxt = m.seq + Length(m), p.rcv_nxt >= A.pcb[s].rcv_nxt,
         \/ A.pcb[s].state = "TIME_WAIT"
         \/ A.pcb[s].state \in Synchronized /\ m.seq = A.pcb[s].rcv_nxt /\ Length(m) = 1
  PROVE  World(h, [A EXCEPT !.pcb[s] = p], B)
<1> DEFINE p0 == A.pcb[s]
           g == Other(h)
<1>1. p0 \in Pcbs /\ Fits(h, p0, A, B)  BY WorldFacts
<1>2. /\ m \in Messages /\ GoodMsg(g, m, B.iss, A.iss)
      /\ \A t \in Pool[g] : B.pcb[t] \in Pcbs /\ Own(B.pcb[t], m)
  BY WorldFacts DEF Fits
<1>3. Other(g) = h  BY OtherHost
<1> HIDE DEF p0, g
<1>4. /\ Live(p) /\ Live(p0) /\ p.lport = p0.lport /\ p.rport = p0.rport
      /\ p.snd_nxt = p0.snd_nxt /\ p.lastack = p0.lastack /\ p.unacked \subseteq p0.unacked
      /\ p.state = p0.state /\ p.state \in Synchronized \cup {"TIME_WAIT"}
      /\ p.state \notin Opening /\ p.state \notin {"SYN_SENT", "SYN_RCVD"}
  BY DEF Live, SamePlace, Synchronized, Opening, p0
<1>5. /\ p.rcv_nxt = m.seq + Length(m) /\ p.rcv_nxt >= p0.rcv_nxt
      /\ p.state \in Synchronized => m.seq = p0.rcv_nxt /\ p.rcv_nxt = m.seq + 1 /\ Length(m) = 1
  BY DEF p0, Synchronized
<1>6. m.seq \in Nat /\ Length(m) \in {0, 1} /\ p.rcv_nxt \in Nat /\ p0.rcv_nxt \in Nat
  BY <1>1, <1>2, PcbType, MsgType
<1>7. GoodPcb(h, p, A.iss, B.iss)
  <2>1. GoodPcb(h, p0, A.iss, B.iss)  BY <1>1 DEF Fits
  <2>2. p.rcv_nxt <= Top(g, B.iss)  BY <1>2, <1>5 DEF GoodMsg
  <2> QED  BY <1>4, <2>1, <2>2 DEF GoodPcb, g
<1>8. \A n \in A.sent : Own(p, n)  BY <1>1, <1>4 DEF Fits, Own, On
<1>9. \A n : AckFor(p, n) <=> AckFor(p0, n)  BY <1>4 DEF AckFor, Matches
<1>10. \A n \in B.sent : Heard(p, n)  BY <1>1, <1>4, <1>9 DEF Fits, Heard
<1>11. ASSUME NEW t \in Pool[Other(h)]
       PROVE  /\ Reached(p, B.pcb[t])
              /\ Pair(p, B.pcb[t], A.sent, B.sent) /\ Pair(B.pcb[t], p, B.sent, A.sent)
  <2> DEFINE q == B.pcb[t]
  <2>1. Reached(p0, q) /\ Pair(p0, q, A.sent, B.sent) /\ Pair(q, p0, B.sent, A.sent)
    BY <1>1 DEF Fits
  <2>2. q \in Pcbs /\ Own(q, m)  BY <1>2 DEF g
  <2> HIDE DEF q
  <2>3. q.snd_nxt \in Nat /\ q.lastack \in Nat /\ q.rcv_nxt \in Nat  BY <2>2, PcbType
  <2>4. Matched(p, q) => Matched(p0, q) /\ On(q, m)
    BY <1>4 DEF Matched, On, Matches, p0
  <2>5. Matched(q, p) => Matched(q, p0) /\ On(q, m)
    BY <1>4 DEF Matched, On, Matches, p0
  <2>6. Reached(p, q)  BY <2>1, <2>2, <2>4, <1>4, <1>5 DEF Reached, Own
  <2>7. Pair(p, q, A.sent, B.sent)
    <3> SUFFICES ASSUME p.rport = Server, Matched(p, q), p.state \in Synchronized
                 PROVE  /\ q.state = "SYN_RCVD" => p.rcv_nxt # q.lastack
                        /\ Engaged(p, q, A.sent) => Agree(p, q, A.sent, B.sent)
      BY <1>4 DEF Pair
    <3>1. p.rcv_nxt = m.seq + 1 /\ m.seq = p0.rcv_nxt /\ m.seq + Length(m) = m.seq + 1
      BY <1>5
    <3>2. q.state = "SYN_RCVD" => p.rcv_nxt # q.lastack
      BY <2>2, <2>3, <2>4, <3>1, <1>6 DEF Own, Opening
    <3>3. Agree(p0, q, A.sent, B.sent) => Agree(p, q, A.sent, B.sent)
      <4> SUFFICES ASSUME Agree(p0, q, A.sent, B.sent) PROVE Agree(p, q, A.sent, B.sent)
        OBVIOUS
      <4>1. p0.rcv_nxt <= p.rcv_nxt  BY <1>5
      <4>2. q.lastack <= p.rcv_nxt  BY <4>1, <2>3, <1>6 DEF Agree
      <4>3. \A n \in A.sent : AckFor(q, n) => n.ackno <= p.rcv_nxt
        <5> TAKE n \in A.sent
        <5>1. n.ackno \in Nat  BY WorldFacts, MsgType
        <5> QED  BY <5>1, <4>1, <1>6 DEF Agree
      <4> QED  BY <4>2, <4>3, <1>4, <1>9 DEF Agree
    <3>4. Engaged(p0, q, A.sent) => Agree(p0, q, A.sent, B.sent)
      BY <2>1, <2>4, <1>4 DEF Pair
    <3>5. ASSUME Engaged(p, q, A.sent), ~Engaged(p0, q, A.sent) PROVE FALSE
      <4>1. q.state = "SYN_RCVD" /\ p.rcv_nxt > q.lastack /\ p0.rcv_nxt <= q.lastack
        BY <3>5, <1>6, <2>3 DEF Engaged
      <4>2. p0.rcv_nxt = q.lastack
        BY <4>1, <3>1, <2>3, <1>6
      <4> QED  BY <4>1, <4>2, <2>1, <2>4, <1>4 DEF Pair
    <3> QED  BY <3>2, <3>3, <3>4, <3>5
  <2>8. Pair(q, p, B.sent, A.sent)
    <3> SUFFICES ASSUME q.rport = Server, Matched(q, p)
                 PROVE  /\ Engaged(q, p, B.sent) /\ q.state = "SYN_SENT" => TooOld(q, p, A.sent)
                        /\ Engaged(q, p, B.sent) /\ q.state \in Synchronized =>
                             Agree(q, p, B.sent, A.sent)
      BY <1>4 DEF Pair
    <3>1. Engaged(q, p, B.sent) => p.state \in Synchronized /\ Engaged(q, p0, B.sent)
      BY <1>4 DEF Engaged
    <3>2. ASSUME Engaged(q, p, B.sent), q.state = "SYN_SENT" PROVE TooOld(q, p, A.sent)
      <4>1. TooOld(q, p0, A.sent)  BY <3>1, <3>2, <2>1, <2>5 DEF Pair
      <4>2. p.rcv_nxt = m.seq + 1 /\ m.seq = p0.rcv_nxt /\ m.seq + Length(m) = m.seq + 1
        BY <1>5, <3>1, <3>2
      <4>3. p0.rcv_nxt < q.lastack  BY <4>1 DEF TooOld
      <4>4. p.rcv_nxt < q.lastack
        BY <2>2, <2>3, <2>5, <4>2, <4>3, <1>6, <3>2 DEF Own, Opening
      <4> QED  BY <4>1, <4>4 DEF TooOld
    <3>3. ASSUME Engaged(q, p, B.sent), q.state \in Synchronized
          PROVE  Agree(q, p, B.sent, A.sent)
      <4>1. Agree(q, p0, B.sent, A.sent)  BY <3>1, <3>3, <2>1, <2>5 DEF Pair
      <4>2. p0.rcv_nxt <= p.rcv_nxt  BY <1>5
      <4>3. q.lastack <= p.rcv_nxt  BY <4>1, <4>2, <2>3, <1>6 DEF Agree
      <4>4. \A n \in A.sent : AckFor(q, n) => n.ackno <= p.rcv_nxt
        <5> TAKE n \in A.sent
        <5>1. n.ackno \in Nat  BY WorldFacts, MsgType
        <5> QED  BY <5>1, <4>1, <4>2, <1>6 DEF Agree
      <4> QED  BY <4>1, <4>3, <4>4, <1>4, <1>9 DEF Agree
    <3> QED  BY <3>2, <3>3
  <2> QED  BY <2>6, <2>7, <2>8 DEF q
<1>12. Fits(h, p, A, B)  BY <1>7, <1>8, <1>10, <1>11 DEF Fits
<1>13. \A t \in Pool[h] \ {s} : Apart(p, A.pcb[t])  BY <1>4, StaysApart DEF p0
<1> QED  BY <1>12, <1>13, ReplacePcb

(* The answer to the SYN: a client's block is synchronized.                *)
LEMMA AnsweredPcb ==
  ASSUME NEW h \in Hosts, NEW A, NEW B, World(h, A, B), NEW s \in Pool[h], NEW p \in Pcbs,
         SamePlace(p, A.pcb[s]), A.pcb[s].state = "SYN_SENT", p.state = "ESTABLISHED",
         p.snd_nxt = A.pcb[s].snd_nxt, p.unacked = {},
         NEW m \in B.sent, AckFor(A.pcb[s], m), "SYN" \in m.flags,
         m.ackno = A.pcb[s].snd_nxt, p.lastack = m.ackno, p.rcv_nxt = m.seq + 1
  PROVE  World(h, [A EXCEPT !.pcb[s] = p], B)
<1> DEFINE p0 == A.pcb[s]
           g == Other(h)
<1>1. p0 \in Pcbs /\ Fits(h, p0, A, B) /\ GoodPcb(h, p0, A.iss, B.iss)
  BY WorldFacts DEF Fits
<1>2. /\ m \in Messages /\ GoodMsg(g, m, B.iss, A.iss)
      /\ \A t \in Pool[g] : B.pcb[t] \in Pcbs /\ Own(B.pcb[t], m)
  BY WorldFacts DEF Fits
<1> HIDE DEF p0, g
<1>3. /\ Live(p) /\ Live(p0) /\ p.lport = p0.lport /\ p.rport = p0.rport
      /\ p.snd_nxt = p0.snd_nxt /\ p.unacked = {} /\ p0.state = "SYN_SENT"
      /\ p.state = "ESTABLISHED" /\ p.state \in Synchronized /\ p.state \notin Opening
      /\ p.lastack = p.snd_nxt /\ m.ackno = p.snd_nxt
      /\ "RST" \notin m.flags /\ Matches(p0, m)
  BY DEF Live, SamePlace, Synchronized, Opening, p0, AckFor
<1>4. h \in Clients /\ p0.lport \in Ports /\ p0.rport = Server /\ p0.snd_nxt < Top(h, A.iss)
      /\ p0.snd_nxt = p0.lastack + 1
  BY <1>1, <1>3 DEF GoodPcb, Opening
<1>5. Length(m) = 1 /\ p.rcv_nxt = m.seq + Length(m)  BY DEF Length
<1>6. m.seq \in Nat /\ p.rcv_nxt \in Nat /\ p0.snd_nxt \in Nat /\ p0.lastack \in Nat
  BY <1>1, <1>2, PcbType, MsgType
<1>7. GoodPcb(h, p, A.iss, B.iss)
  <2>1. p.rcv_nxt <= Top(g, B.iss)  BY <1>2, <1>3, <1>5 DEF GoodMsg
  <2>2. A.iss \in Nat /\ Top(h, A.iss) \in Nat  BY WorldFacts DEF Top
  <2>3. p.snd_nxt < Top(h, A.iss) /\ p.snd_nxt <= Top(h, A.iss)  BY <1>3, <1>4, <1>6, <2>2
  <2> QED  BY <1>3, <1>4, <2>1, <2>3 DEF GoodPcb, g
<1>8. \A n \in A.sent : Own(p, n)  BY <1>1, <1>3 DEF Fits, Own, On
<1>9. \A n : AckFor(p, n) <=> AckFor(p0, n)  BY <1>3 DEF AckFor, Matches
<1>10. \A n \in B.sent : Heard(p, n)  BY <1>1, <1>3, <1>9 DEF Fits, Heard
<1>11. ASSUME NEW t \in Pool[Other(h)]
       PROVE  /\ Reached(p, B.pcb[t])
              /\ Pair(p, B.pcb[t], A.sent, B.sent) /\ Pair(B.pcb[t], p, B.sent, A.sent)
  <2> DEFINE q == B.pcb[t]
  <2>1. Reached(p0, q) /\ Pair(p0, q, A.sent, B.sent)  BY <1>1 DEF Fits
  <2>2. q \in Pcbs /\ Own(q, m)  BY <1>2 DEF g
  <2> HIDE DEF q
  <2>3. q.snd_nxt \in Nat /\ q.lastack \in Nat /\ q.rcv_nxt \in Nat  BY <2>2, PcbType
  <2>4. Matched(p, q) => Matched(p0, q) /\ On(q, m)
    BY <1>3 DEF Matched, On, Matches
  <2>5. Reached(p, q)  BY <2>1, <2>2, <2>4, <1>3, <1>5 DEF Reached, Own
  <2>6. Pair(p, q, A.sent, B.sent)
    <3> SUFFICES ASSUME Matched(p, q)
                 PROVE  /\ q.state = "SYN_RCVD" => p.rcv_nxt # q.lastack
                        /\ Engaged(p, q, A.sent) => Agree(p, q, A.sent, B.sent)
      BY <1>3 DEF Pair
    <3>1. q.state = "SYN_RCVD" => p.rcv_nxt # q.lastack
      BY <2>2, <2>3, <2>4, <1>5, <1>6 DEF Own, Opening
    (* Before this segment the two were not engaged: its number is too new. *)
    <3>2. ~Engaged(p0, q, A.sent)
      <4> SUFFICES ASSUME Engaged(p0, q, A.sent) PROVE FALSE  OBVIOUS
      <4>1. TooOld(p0, q, B.sent)  BY <2>1, <2>4, <1>3, <1>4 DEF Pair
      <4>2. m.ackno < p0.lastack  BY <4>1 DEF TooOld, p0
      <4> QED  BY <4>2, <1>3, <1>4, <1>6
    <3>3. ASSUME Engaged(p, q, A.sent) PROVE Agree(p, q, A.sent, B.sent)
      <4>1. q.state = "SYN_RCVD" /\ p.rcv_nxt > q.lastack
        BY <3>2, <3>3 DEF Engaged
      <4>2. m.seq >= q.lastack
        BY <4>1, <2>2, <2>3, <2>4, <1>5, <1>6 DEF Own, Opening
      <4>3. q.rcv_nxt = p.snd_nxt  BY <4>1, <4>2, <2>2, <2>4, <1>3 DEF Own
      <4>4. p.lastack <= q.rcv_nxt  BY <4>3, <1>3, <1>6
      <4>5. q.lastack <= p.rcv_nxt  BY <4>1, <1>6, <2>3
      <4>6. \A n \in B.sent : AckFor(p, n) => n.ackno <= q.rcv_nxt
        BY <1>10, <4>3 DEF Heard
      <4>7. \A n \in A.sent : AckFor(q, n) => n.ackno <= p.rcv_nxt
        <5> TAKE n \in A.sent
        <5> HAVE AckFor(q, n)
        <5>1. n.ackno \in Nat  BY WorldFacts, MsgType
        <5>2. ~(n.ackno > q.lastack)  BY <3>2, <4>1 DEF Engaged
        <5> QED  BY <5>1, <5>2, <4>1, <1>6, <2>3
      <4> QED  BY <4>4, <4>5, <4>6, <4>7 DEF Agree
    <3> QED  BY <3>1, <3>3
  <2>7. Pair(q, p, B.sent, A.sent)
    <3>1. p.lport # Server  BY <1>3, <1>4, ConnAssumption DEF Ports
    <3> QED  BY <3>1 DEF Pair, Matched
  <2> QED  BY <2>5, <2>6, <2>7 DEF q
<1>12. Fits(h, p, A, B)  BY <1>7, <1>8, <1>10, <1>11 DEF Fits
<1>13. \A t \in Pool[h] \ {s} : Apart(p, A.pcb[t])  BY <1>3, StaysApart DEF p0
<1> QED  BY <1>12, <1>13, ReplacePcb

(* The acknowledgement of the SYN: a server's block is synchronized.       *)
LEMMA AcceptedPcb ==
  ASSUME NEW h \in Hosts, NEW A, NEW B, World(h, A, B), NEW s \in Pool[h], NEW p \in Pcbs,
         SamePlace(p, A.pcb[s]), A.pcb[s].state = "SYN_RCVD", p.state = "ESTABLISHED",
         p.snd_nxt = A.pcb[s].snd_nxt, p.lastack = A.pcb[s].lastack,
         p.rcv_nxt = A.pcb[s].rcv_nxt, p.unacked = A.pcb[s].unacked,
         NEW m \in B.sent, AckFor(A.pcb[s], m), m.ackno > A.pcb[s].lastack
  PROVE  World(h, [A EXCEPT !.pcb[s] = p], B)
<1> DEFINE p0 == A.pcb[s]
<1>1. p0 \in Pcbs /\ Fits(h, p0, A, B) /\ GoodPcb(h, p0, A.iss, B.iss)
  BY WorldFacts DEF Fits
<1> HIDE DEF p0
<1>2. /\ Live(p) /\ Live(p0) /\ p.lport = p0.lport /\ p.rport = p0.rport
      /\ p.snd_nxt = p0.snd_nxt /\ p.lastack = p0.lastack /\ p.rcv_nxt = p0.rcv_nxt
      /\ p.unacked = p0.unacked /\ p0.state = "SYN_RCVD" /\ p.state = "ESTABLISHED"
      /\ p.state \in Synchronized /\ p.state \notin Opening /\ p0.state \in Opening
  BY DEF Live, SamePlace, Synchronized, Opening, p0
<1>3. h \notin Clients /\ p0.rport \in Ports  BY <1>1, <1>2 DEF GoodPcb
<1>4. GoodPcb(h, p, A.iss, B.iss)  BY <1>1, <1>2 DEF GoodPcb
<1>5. \A n \in A.sent : Own(p, n)  BY <1>1, <1>2 DEF Fits, Own, On
<1>6. \A n : AckFor(p, n) <=> AckFor(p0, n)  BY <1>2 DEF AckFor, Matches
<1>7. \A n \in B.sent : Heard(p, n)  BY <1>1, <1>2, <1>6 DEF Fits, Heard
<1>8. ASSUME NEW t \in Pool[Other(h)]
      PROVE  /\ Reached(p, B.pcb[t])
             /\ Pair(p, B.pcb[t], A.sent, B.sent) /\ Pair(B.pcb[t], p, B.sent, A.sent)
  <2> DEFINE q == B.pcb[t]
  <2>1. Reached(p0, q) /\ Pair(q, p0, B.sent, A.sent)  BY <1>1 DEF Fits
  <2> HIDE DEF q
  <2>2. Matched(p, q) <=> Matched(p0, q)  BY <1>2 DEF Matched
  <2>3. Matched(q, p) <=> Matched(q, p0)  BY <1>2 DEF Matched
  <2>4. Reached(p, q)  BY <2>1, <2>2, <1>2 DEF Reached
  <2>5. Engaged(q, p0, B.sent)  BY <1>2 DEF Engaged, p0
  <2>6. TooOld(q, p, A.sent) <=> TooOld(q, p0, A.sent)  BY <1>2 DEF TooOld
  <2>7. Agree(q, p, B.sent, A.sent) <=> Agree(q, p0, B.sent, A.sent)
    BY <1>2, <1>6 DEF Agree
  <2>8. Pair(q, p, B.sent, A.sent)  BY <2>1, <2>3, <2>5, <2>6, <2>7, <1>2 DEF Pair
  <2>9. Pair(p, q, A.sent, B.sent)
    <3>1. p.rport # Server  BY <1>2, <1>3, ConnAssumption DEF Ports
    <3> QED  BY <3>1 DEF Pair
  <2> QED  BY <2>4, <2>8, <2>9 DEF q
<1>9. Fits(h, p, A, B)  BY <1>4, <1>5, <1>7, <1>8 DEF Fits
<1>10. \A t \in Pool[h] \ {s} : Apart(p, A.pcb[t])  BY <1>2, StaysApart DEF p0
<1> QED  BY <1>9, <1>10, ReplacePcb

-----------------------------------------------------------------------------
(* What is sent.                                                           *)

(* A RST means nothing to the invariant.                                   *)
LEMMA SendRst ==
  ASSUME NEW h \in Hosts, NEW A, NEW B, World(h, A, B), NEW e \in Messages, "RST" \in e.flags
  PROVE  World(h, [A EXCEPT !.sent = A.sent \cup {e}], B)
<1>1. GoodMsg(h, e, A.iss, B.iss)  BY DEF GoodMsg
<1>2. \A p : ~On(p, e) /\ ~AckFor(p, e)  BY DEF On, AckFor
<1>3. ASSUME NEW p, NEW q, NEW M, NEW K
      PROVE  /\ Pair(p, q, M, K) => Pair(p, q, M \cup {e}, K)
             /\ Pair(p, q, M, K) => Pair(p, q, M, K \cup {e})
  <2>1. Engaged(p, q, M \cup {e}) <=> Engaged(p, q, M)  BY <1>2 DEF Engaged
  <2>2. TooOld(p, q, K) => TooOld(p, q, K \cup {e})  BY <1>2 DEF TooOld
  <2>3. Agree(p, q, M, K) => Agree(p, q, M \cup {e}, K) /\ Agree(p, q, M, K \cup {e})
    BY <1>2 DEF Agree
  <2> QED  BY <2>1, <2>2, <2>3 DEF Pair
<1>4. \A s \in Pool[h], t \in Pool[Other(h)] :
        Pair(A.pcb[s], B.pcb[t], A.sent, B.sent) /\ Pair(B.pcb[t], A.pcb[s], B.sent, A.sent)
  BY WorldFacts DEF Fits
<1> QED  BY <1>1, <1>2, <1>3, <1>4, SendMsg DEF Own, Heard

(* A segment that is not acknowledged yet, or an empty acknowledgement of  *)
(* a block that is not opening.                                            *)
LEMMA SendOwn ==
  ASSUME NEW h \in Hosts, NEW A, NEW B, World(h, A, B), NEW s \in Pool[h], Live(A.pcb[s]),
         NEW e \in Messages, e.sport = A.pcb[s].lport, e.dport = A.pcb[s].rport,
         e.ackno = A.pcb[s].rcv_nxt,
         \/ \E x \in A.pcb[s].unacked : e.flags = x.flags /\ e.seq = x.seq
         \/ e.flags = {"ACK"} /\ e.seq = A.pcb[s].snd_nxt /\ A.pcb[s].state \notin Opening
  PROVE  World(h, [A EXCEPT !.sent = A.sent \cup {e}], B)
<1> DEFINE p == A.pcb[s]
           g == Other(h)
<1>1. p \in Pcbs /\ Fits(h, p, A, B) /\ GoodPcb(h, p, A.iss, B.iss)
  BY WorldFacts DEF Fits
<1>2. /\ e.sport = p.lport /\ e.dport = p.rport /\ e.ackno = p.rcv_nxt /\ Live(p)
      /\ p.snd_nxt \in Nat /\ p.lastack \in Nat /\ p.rcv_nxt \in Nat
      /\ e.seq \in Nat /\ Length(e) \in {0, 1}
  BY <1>1, PcbType, MsgType
<1>3. \/ \E x \in p.unacked : e.flags = x.flags /\ e.seq = x.seq
      \/ e.flags = {"ACK"} /\ e.seq = p.snd_nxt /\ p.state \notin Opening
  OBVIOUS
<1>4. /\ e.seq + Length(e) <= p.snd_nxt /\ "RST" \notin e.flags
      /\ p.state \in Opening => e.seq = p.lastack /\ "SYN" \in e.flags
      /\ p.state # "SYN_SENT" => "ACK" \in e.flags
      /\ p.state = "SYN_SENT" => e.flags = {"SYN"}
  <2> HIDE DEF p
  <2>1. CASE e.flags = {"ACK"} /\ e.seq = p.snd_nxt /\ p.state \notin Opening
    BY <2>1, <1>2 DEF Length, Opening
  <2>2. ASSUME NEW x \in p.unacked, e.flags = x.flags, e.seq = x.seq
        PROVE  /\ e.seq + Length(e) <= p.snd_nxt /\ "RST" \notin e.flags
               /\ p.state \in Opening => e.seq = p.lastack /\ "SYN" \in e.flags
               /\ p.state # "SYN_SENT" => "ACK" \in e.flags
               /\ p.state = "SYN_SENT" => e.flags = {"SYN"}
    <3>1. /\ x.seq < p.snd_nxt /\ "RST" \notin x.flags
          /\ p.state \in Opening => x.seq = p.lastack /\ "SYN" \in x.flags
          /\ p.state # "SYN_SENT" => "ACK" \in x.flags
          /\ p.state = "SYN_SENT" => x.flags = {"SYN"}
      BY <1>1, <1>2 DEF GoodPcb
    <3>2. e.seq + Length(e) <= p.snd_nxt  BY <2>2, <3>1, <1>2
    <3> QED  BY <2>2, <3>1, <3>2
  <2> QED  BY <1>3, <2>1, <2>2
<1> HIDE DEF p, g
<1>5. GoodMsg(h, e, A.iss, B.iss)
  <2>1. A.iss \in Nat /\ Top(h, A.iss) \in Nat  BY WorldFacts DEF Top
  <2>2. e.seq + Length(e) <= Top(h, A.iss)  BY <1>1, <1>2, <1>4, <2>1 DEF GoodPcb
  <2>3. e.ackno <= Top(Other(h), B.iss)  BY <1>1, <1>2 DEF GoodPcb
  <2>4. "ACK" \notin e.flags =>
          h \in Clients /\ e.flags = {"SYN"} /\ e.sport \in Ports /\ e.dport = Server
    BY <1>1, <1>2, <1>4 DEF GoodPcb
  <2> QED  BY <2>2, <2>3, <2>4 DEF GoodMsg
<1>6. \A u \in Pool[h] : u = s \/ Apart(p, A.pcb[u])  BY DEF World, SideOK, p
<1>7. \A u \in Pool[h] : Own(A.pcb[u], e)
  <2> TAKE u \in Pool[h]
  <2>1. CASE u = s
    BY <2>1, <1>2, <1>4 DEF Own, p
  <2>2. CASE u # s  BY <2>2, <1>2, <1>6 DEF Own, On, Apart
  <2> QED  BY <2>1, <2>2
<1>8. \A t \in Pool[g] : AckFor(B.pcb[t], e) => Matched(p, B.pcb[t]) /\ Matched(B.pcb[t], p)
  BY <1>2 DEF AckFor, Matches, Matched
<1>9. \A t \in Pool[g] : Heard(B.pcb[t], e)
  BY <1>1, <1>2, <1>8 DEF Heard, Fits, Reached, g
<1>10. ASSUME NEW u \in Pool[h], NEW t \in Pool[g]
       PROVE  /\ Pair(A.pcb[u], B.pcb[t], A.sent \cup {e}, B.sent)
              /\ Pair(B.pcb[t], A.pcb[u], B.sent, A.sent \cup {e})
  <2> DEFINE r == A.pcb[u]
             q == B.pcb[t]
  <2>1. Pair(r, q, A.sent, B.sent) /\ Pair(q, r, B.sent, A.sent)
    BY WorldFacts DEF Fits, g
  <2>2. Matched(r, q) \/ Matched(q, r) => (AckFor(q, e) => r = p)
    BY <1>2, <1>6 DEF Matched, AckFor, Matches, Apart, p
  <2> HIDE DEF r, q
  <2>3. Matched(r, q) => (Engaged(r, q, A.sent \cup {e}) => Engaged(r, q, A.sent))
    BY <2>2, <1>2 DEF Engaged
  <2>4. Matched(r, q) => (Agree(r, q, A.sent, B.sent) => Agree(r, q, A.sent \cup {e}, B.sent))
    BY <2>2, <1>2 DEF Agree
  <2>5. Matched(q, r) => (TooOld(q, r, A.sent) => TooOld(q, r, A.sent \cup {e}))
    BY <2>2, <1>2 DEF TooOld
  <2>6. Matched(q, r) => (Agree(q, r, B.sent, A.sent) => Agree(q, r, B.sent, A.sent \cup {e}))
    BY <2>2, <1>2 DEF Agree
  <2>7. Pair(r, q, A.sent \cup {e}, B.sent)  BY <2>1, <2>3, <2>4 DEF Pair
  <2>8. Pair(q, r, B.sent, A.sent \cup {e})  BY <2>1, <2>5, <2>6 DEF Pair
  <2> QED  BY <2>7, <2>8 DEF r, q
<1> QED  BY <1>5, <1>7, <1>9, <1>10, SendMsg DEF g

-----------------------------------------------------------------------------
(* New blocks.                                                             *)

(* All that was before is below the numbers of a new block.                *)
LEMMA BelowTop ==
  ASSUME NEW h \in Hosts, NEW A, NEW B, World(h, A, B)
  PROVE  /\ Top(h, A.iss) \in Nat
         /\ \A m \in A.sent : "RST" \notin m.flags => m.seq + Length(m) <= Top(h, A.iss)
         /\ \A m \in B.sent : "RST" \notin m.flags /\ "ACK" \in m.flags => m.ackno <= Top(h, A.iss)
         /\ \A t \in Pool[Other(h)] : Live(B.pcb[t]) => B.pcb[t].rcv_nxt <= Top(h, A.iss)
<1>1. A.iss \in Nat /\ Other(Other(h)) = h  BY WorldFacts, OtherHost
<1>2. Top(h, A.iss) \in Nat  BY <1>1 DEF Top
<1>3. \A m \in A.sent : "RST" \notin m.flags => m.seq + Length(m) <= Top(h, A.iss)
  BY WorldFacts DEF GoodMsg
<1>4. \A m \in B.sent : "RST" \notin m.flags /\ "ACK" \in m.flags => m.ackno <= Top(h, A.iss)
  BY <1>1, WorldFacts DEF GoodMsg
<1>5. \A t \in Pool[Other(h)] : Live(B.pcb[t]) => B.pcb[t].rcv_nxt <= Top(h, A.iss)
  BY <1>1, WorldFacts DEF Fits, GoodPcb
<1> QED  BY <1>2, <1>3, <1>4, <1>5

(* A side with a new block and the initial sequence number i.              *)
WithPcb(A, i, s, p) == [[A EXCEPT !.iss = i] EXCEPT !.pcb[s] = p]

(* A client's block in SYN_SENT, with or without its SYN.                  *)
LEMMA NewClientPcb ==
  ASSUME NEW h \in Hosts, NEW A, NEW B, World(h, A, B), NEW s \in Pool[h], NEW p \in Pcbs,
         NEW i, i = A.iss + Ticks, h \in Clients,
         p.state = "SYN_SENT", p.lport \in Ports, p.rport = Server,
         p.snd_nxt = i, p.lastack = i - 1, p.rcv_nxt = 0, p.delay = FALSE,
         p.unacked \subseteq {[seq |-> i - 1, flags |-> {"SYN"}]},
         \A t \in Pool[h] \ {s} : Apart(p, A.pcb[t])
  PROVE  World(h, WithPcb(A, i, s, p), B)
<1> DEFINE A2 == [A EXCEPT !.iss = i]
           g == Other(h)
<1>1. A \in Sides(h) /\ A.iss \in Nat /\ B.iss \in Nat  BY WorldFacts
<1>2. i \in Nat /\ i > A.iss + 2  BY <1>1, ConnAssumption
<1>3. A2.iss = i /\ A2.sent = A.sent /\ A2.pcb = A.pcb  BY <1>1 DEF Sides
<1>4. World(h, A2, B)  BY <1>1, <1>2, RaiseIss
<1>5. Top(h, A.iss) = A.iss + 1 /\ Top(h, i) = i + 1 /\ Top(g, B.iss) \in Nat
  BY <1>1, <1>2 DEF Top
<1>6. Live(p)  BY DEF Live
<1> HIDE DEF A2, g
<1>7. GoodPcb(h, p, i, B.iss)
  <2>1. \A x \in p.unacked : x.seq = i - 1 /\ x.flags = {"SYN"}  OBVIOUS
  <2> QED  BY <2>1, <1>2, <1>5 DEF GoodPcb, Opening, g
<1>8. \A m \in A.sent : Own(p, m)
  <2> TAKE m \in A.sent
  <2> SUFFICES ASSUME On(p, m)
               PROVE  m.seq + Length(m) < p.lastack /\ m.seq + Length(m) <= p.snd_nxt
    BY DEF Own
  <2>1. m.seq + Length(m) \in Nat  BY WorldFacts, MsgType
  <2>2. m.seq + Length(m) <= A.iss + 1  BY BelowTop, <1>5 DEF On
  <2> QED  BY <2>1, <2>2, <1>1, <1>2
<1>9. \A m \in B.sent : AckFor(p, m) => m.ackno < p.lastack /\ m.ackno <= p.snd_nxt
  <2> TAKE m \in B.sent
  <2> HAVE AckFor(p, m)
  <2>1. m.ackno \in Nat  BY WorldFacts, MsgType
  <2>2. m.ackno <= A.iss + 1  BY BelowTop, <1>5 DEF AckFor
  <2> QED  BY <2>1, <2>2, <1>1, <1>2
<1>10. ASSUME NEW t \in Pool[Other(h)]
       PROVE  /\ Reached(p, B.pcb[t])
              /\ Pair(p, B.pcb[t], A.sent, B.sent) /\ Pair(B.pcb[t], p, B.sent, A.sent)
  <2> DEFINE q == B.pcb[t]
  <2>1. q.rcv_nxt \in Nat /\ q.snd_nxt \in Nat  BY WorldFacts, PcbType
  <2>2. Live(q) => q.rcv_nxt <= A.iss + 1  BY BelowTop, <1>5
  <2> HIDE DEF q
  <2>3. Live(q) => q.rcv_nxt < p.lastack /\ q.rcv_nxt <= p.snd_nxt /\ p.rcv_nxt <= q.snd_nxt
    BY <2>1, <2>2, <1>1, <1>2
  <2>4. Reached(p, q)  BY <2>3 DEF Reached, Matched
  <2>5. Live(q) => TooOld(p, q, B.sent)  BY <2>3, <1>9 DEF TooOld
  <2>6. Pair(p, q, A.sent, B.sent)  BY <2>5 DEF Pair, Matched, Synchronized
  <2>7. Pair(q, p, B.sent, A.sent)
    <3>1. p.lport # Server  BY ConnAssumption DEF Ports
    <3> QED  BY <3>1 DEF Pair, Matched
  <2> QED  BY <2>4, <2>6, <2>7 DEF q
<1>11. Fits(h, p, A2, B)  BY <1>3, <1>7, <1>8, <1>9, <1>10 DEF Fits, Heard
<1>12. World(h, [A2 EXCEPT !.pcb[s] = p], B)  BY <1>3, <1>4, <1>11, ReplacePcb
<1> QED  BY <1>12 DEF A2, WithPcb

(* A server's block in SYN_RCVD, for the SYN m.                            *)
LEMMA NewServerPcb ==
  ASSUME NEW h \in Hosts, NEW A, NEW B, World(h, A, B), NEW s \in Pool[h], NEW p \in Pcbs,
         NEW i, i = A.iss + Ticks, h \notin Clients,
         NEW m \in B.sent, "RST" \notin m.flags, "ACK" \notin m.flags,
         p.state = "SYN_RCVD", p.lport = Server, m.dport = p.lport, p.rport = m.sport,
         p.snd_nxt = i + 1, p.lastack = i, p.rcv_nxt = m.seq + 1, p.delay = FALSE,
         p.unacked \subseteq {[seq |-> i, flags |-> {"SYN", "ACK"}]},
         \A t \in Pool[h] \ {s} : Apart(p, A.pcb[t])
  PROVE  World(h, WithPcb(A, i, s, p), B)
<1> DEFINE A2 == [A EXCEPT !.iss = i]
           g == Other(h)
<1>1. A \in Sides(h) /\ A.iss \in Nat /\ B.iss \in Nat  BY WorldFacts
<1>2. i \in Nat /\ i > A.iss + 2  BY <1>1, ConnAssumption
<1>3. A2.iss = i /\ A2.sent = A.sent /\ A2.pcb = A.pcb  BY <1>1 DEF Sides
<1>4. World(h, A2, B)  BY <1>1, <1>2, RaiseIss
<1>5. Top(h, A.iss) = A.iss + 2 /\ Top(h, i) = i + 2 /\ Top(g, B.iss) \in Nat
  BY <1>1, <1>2 DEF Top
<1>6. Live(p)  BY DEF Live
<1>7. m \in Messages /\ GoodMsg(g, m, B.iss, A.iss)  BY WorldFacts
<1>8. m.seq \in Nat /\ m.flags = {"SYN"} /\ m.sport \in Ports /\ Length(m) = 1
      /\ m.seq + Length(m) <= Top(g, B.iss)
  BY <1>7, MsgType DEF GoodMsg, Length
<1> HIDE DEF A2, g
<1>9. GoodPcb(h, p, i, B.iss)
  <2>1. \A x \in p.unacked : x.seq = i /\ x.flags = {"SYN", "ACK"}  OBVIOUS
  <2>2. \A x \in p.unacked : /\ x.seq < p.snd_nxt /\ "RST" \notin x.flags
                             /\ x.seq = p.lastack /\ "SYN" \in x.flags /\ "ACK" \in x.flags
    BY <2>1, <1>2
  <2>3. p.snd_nxt < Top(h, i) /\ p.snd_nxt <= Top(h, i) /\ p.rcv_nxt <= Top(g, B.iss)
    BY <1>2, <1>5, <1>8
  <2> QED  BY <2>2, <2>3, <1>8 DEF GoodPcb, Opening, g
<1>10. \A n \in A.sent : Own(p, n)
  <2> TAKE n \in A.sent
  <2> SUFFICES ASSUME On(p, n)
               PROVE  /\ n.seq + Length(n) < p.lastack /\ n.seq + Length(n) <= p.snd_nxt
                      /\ ~(n.seq >= p.lastack)
    BY DEF Own
  <2>1. n.seq \in Nat /\ Length(n) \in {0, 1}  BY WorldFacts, MsgType
  <2>2. n.seq + Length(n) <= A.iss + 2  BY BelowTop, <1>5 DEF On
  <2>3. n.seq + Length(n) < p.lastack /\ n.seq + Length(n) <= p.snd_nxt /\ ~(n.seq >= p.lastack)
    BY <2>1, <2>2, <1>1, <1>2
  <2> QED  BY <2>3
<1>11. \A n \in B.sent : AckFor(p, n) => n.ackno <= p.snd_nxt /\ ~(n.ackno > p.lastack)
  <2> TAKE n \in B.sent
  <2> HAVE AckFor(p, n)
  <2>1. n.ackno \in Nat  BY WorldFacts, MsgType
  <2>2. n.ackno <= A.iss + 2  BY BelowTop, <1>5 DEF AckFor
  <2> QED  BY <2>1, <2>2, <1>1, <1>2
<1>12. ASSUME NEW t \in Pool[Other(h)]
       PROVE  /\ Reached(p, B.pcb[t])
              /\ Pair(p, B.pcb[t], A.sent, B.sent) /\ Pair(B.pcb[t], p, B.sent, A.sent)
  <2> DEFINE q == B.pcb[t]
  <2>1. q.rcv_nxt \in Nat /\ q.snd_nxt \in Nat /\ Own(q, m)  BY WorldFacts, PcbType DEF Fits
  <2>2. Live(q) => q.rcv_nxt <= A.iss + 2  BY BelowTop, <1>5
  <2> HIDE DEF q
  <2>3. Live(q) => q.rcv_nxt < p.lastack /\ q.rcv_nxt <= p.snd_nxt
    BY <2>1, <2>2, <1>1, <1>2
  <2>4. Matched(p, q) => p.rcv_nxt <= q.snd_nxt
    BY <2>1, <1>8 DEF Own, On, Matched
  <2>5. Reached(p, q)  BY <2>3, <2>4 DEF Reached, Matched
  <2>6. Pair(p, q, A.sent, B.sent)
    <3>1. p.rport # Server  BY <1>8, ConnAssumption DEF Ports
    <3> QED  BY <3>1 DEF Pair
  <2>7. Live(q) => q.rcv_nxt # p.lastack /\ ~Engaged(q, p, B.sent)
    <3>1. p.state \notin Synchronized  BY DEF Synchronized
    <3>2. p.lastack \in Nat  BY <1>2
    <3> QED  BY <3>1, <3>2, <2>1, <2>3, <1>11 DEF Engaged
  <2>8. Pair(q, p, B.sent, A.sent)  BY <2>7 DEF Pair, Matched
  <2> QED  BY <2>5, <2>6, <2>8 DEF q
<1>13. Fits(h, p, A2, B)  BY <1>3, <1>9, <1>10, <1>11, <1>12 DEF Fits, Heard
<1>14. World(h, [A2 EXCEPT !.pcb[s] = p], B)  BY <1>3, <1>4, <1>13, ReplacePcb
<1> QED  BY <1>14 DEF A2, WithPcb

-----------------------------------------------------------------------------
(* Lists.                                                                  *)

Distinct(q) == \A i, k \in 1 .. Len(q) : q[i] = q[k] => i = k

LEMMA WithoutList ==
  ASSUME NEW T, NEW q \in Seq(T), Distinct(q), NEW x
  PROVE  /\ Without(q, x) \in Seq(T) /\ Distinct(Without(q, x))
         /\ Members(Without(q, x)) = Members(q) \ {x}
         /\ Len(Without(q, x)) <= Len(q)
<1>1. Len(q) \in Nat /\ \A k \in 1 .. Len(q) : q[k] \in T  OBVIOUS
<1>2. CASE x \notin Members(q)  BY <1>1, <1>2 DEF Without
<1>3. CASE x \in Members(q)
  <2> DEFINE First(j) == q[j] = x /\ \A k \in 1 .. j - 1 : q[k] # x
             i == CHOOSE j \in 1 .. Len(q) : First(j)
             w == [k \in 1 .. Len(q) - 1 |-> q[IF k < i THEN k ELSE k + 1]]
  <2>1. \E j \in 1 .. Len(q) : First(j)
    <3>1. PICK j \in 1 .. Len(q) : q[j] = x  BY <1>3 DEF Members
    <3>2. First(j)  BY <3>1, <1>1 DEF Distinct
    <3> QED  BY <3>2
  <2>2. i \in 1 .. Len(q) /\ q[i] = x  BY <2>1
  <2>3. Without(q, x) = w  BY <1>3 DEF Without
  <2> HIDE DEF i, First
  <2>4. Len(q) - 1 \in Nat  BY <1>1, <2>2
  <2>5. w \in [1 .. Len(q) - 1 -> T]  BY <1>1, <2>2
  <2>6. w \in Seq(T) /\ Len(w) = Len(q) - 1  BY <2>4, <2>5
  <2>7. Distinct(w)
    <3> SUFFICES ASSUME NEW a \in 1 .. Len(q) - 1, NEW b \in 1 .. Len(q) - 1, w[a] = w[b]
                 PROVE  a = b
      BY <2>6 DEF Distinct
    <3> DEFINE up(k) == IF k < i THEN k ELSE k + 1
    <3>1. up(a) \in 1 .. Len(q) /\ up(b) \in 1 .. Len(q) /\ q[up(a)] = q[up(b)]
      BY <1>1, <2>2
    <3>2. up(a) = up(b)  BY <3>1 DEF Distinct
    <3> QED  BY <3>2, <1>1, <2>2
  <2>8. Members(w) = Members(q) \ {x}
    <3>1. ASSUME NEW y \in Members(w) PROVE y \in Members(q) \ {x}
      <4>1. PICK k \in 1 .. Len(q) - 1 : y = w[k]  BY <2>6 DEF Members
      <4> DEFINE u == IF k < i THEN k ELSE k + 1
      <4>2. u \in 1 .. Len(q) /\ u # i /\ y = q[u]  BY <4>1, <1>1, <2>2
      <4> HIDE DEF u
      <4>3. y # x  BY <4>2, <2>2 DEF Distinct
      <4> QED  BY <4>2, <4>3 DEF Members
    <3>2. ASSUME NEW y \in Members(q) \ {x} PROVE y \in Members(w)
      <4>1. PICK k \in 1 .. Len(q) : y = q[k]  BY <3>2 DEF Members
      <4>2. k # i  BY <4>1, <2>2, <3>2
      <4> DEFINE u == IF k < i THEN k ELSE k - 1
      <4>3. u \in 1 .. Len(q) - 1 /\ w[u] = q[k]  BY <4>2, <1>1, <2>2
      <4> HIDE DEF u, w
      <4> QED  BY <4>1, <4>3, <2>6 DEF Members
    <3> QED  BY <3>1, <3>2
  <2> HIDE DEF w
  <2>9. Len(w) <= Len(q)  BY <1>1, <2>6
  <2> QED  BY <2>3, <2>6, <2>7, <2>8, <2>9
<1> QED  BY <1>2, <1>3

(* TCP_REG: the new element is the first.                                  *)
Push(x, q) == <<x>> \o q

LEMMA PushList ==
  ASSUME NEW T, NEW q \in Seq(T), Distinct(q), NEW x \in T, x \notin Members(q)
  PROVE  /\ Push(x, q) \in Seq(T) /\ Distinct(Push(x, q))
         /\ Members(Push(x, q)) = Members(q) \cup {x}
<1> DEFINE w == Push(x, q)
<1>1. Len(q) \in Nat  OBVIOUS
<1>2. /\ w \in Seq(T) /\ Len(w) = Len(q) + 1 /\ w[1] = x
      /\ \A k \in 2 .. Len(q) + 1 : w[k] = q[k - 1]
  BY DEF Push
<1> HIDE DEF w
<1>3. \A k \in 2 .. Len(q) + 1 : w[k] # x
  BY <1>1, <1>2 DEF Members
<1>4. Distinct(w)
  <2> SUFFICES ASSUME NEW a \in 1 .. Len(q) + 1, NEW b \in 1 .. Len(q) + 1, w[a] = w[b]
               PROVE  a = b
    BY <1>2 DEF Distinct
  <2>1. CASE a = 1 \/ b = 1  BY <2>1, <1>1, <1>2, <1>3
  <2>2. CASE a # 1 /\ b # 1
    <3>1. a \in 2 .. Len(q) + 1 /\ b \in 2 .. Len(q) + 1  BY <2>2, <1>1
    <3>2. q[a - 1] = q[b - 1] /\ a - 1 \in 1 .. Len(q) /\ b - 1 \in 1 .. Len(q)
      BY <3>1, <1>1, <1>2
    <3>3. a - 1 = b - 1  BY <3>2 DEF Distinct
    <3> QED  BY <3>1, <3>3
  <2> QED  BY <2>1, <2>2
<1>5. Members(w) = Members(q) \cup {x}
  <2>1. ASSUME NEW y \in Members(w) PROVE y \in Members(q) \cup {x}
    <3>1. PICK k \in 1 .. Len(q) + 1 : y = w[k]  BY <1>2 DEF Members
    <3>2. CASE k = 1  BY <3>1, <3>2, <1>2
    <3>3. CASE k # 1
      <4>1. k \in 2 .. Len(q) + 1 /\ k - 1 \in 1 .. Len(q)  BY <3>3, <1>1
      <4>2. y = q[k - 1]  BY <3>1, <4>1, <1>2
      <4> QED  BY <4>1, <4>2 DEF Members
    <3> QED  BY <3>2, <3>3
  <2>2. ASSUME NEW y \in Members(q) PROVE y \in Members(w)
    <3>1. PICK k \in 1 .. Len(q) : y = q[k]  BY <2>2 DEF Members
    <3>2. k + 1 \in 2 .. Len(q) + 1 /\ k + 1 \in 1 .. Len(w) /\ (k + 1) - 1 = k
      BY <1>1, <1>2
    <3>3. y = w[k + 1]  BY <3>1, <3>2, <1>2
    <3> QED  BY <3>2, <3>3 DEF Members
  <2>3. x \in Members(w)
    <3>1. 1 \in 1 .. Len(w)  BY <1>1, <1>2
    <3> QED  BY <3>1, <1>2 DEF Members
  <2> QED  BY <2>1, <2>2, <2>3
<1> QED  BY <1>2, <1>4, <1>5 DEF w

LEMMA PopList ==
  ASSUME NEW T, NEW q \in Seq(T), Distinct(q), q # << >>
  PROVE  /\ Tail(q) \in Seq(T) /\ Distinct(Tail(q)) /\ Head(q) \in Members(q)
         /\ Members(Tail(q)) = Members(q) \ {Head(q)}
<1> DEFINE w == Tail(q)
<1>1. Len(q) \in Nat /\ Len(q) >= 1 /\ Head(q) = q[1]  BY EmptySeq
<1>2. /\ w \in Seq(T) /\ Len(w) = Len(q) - 1
      /\ \A k \in 1 .. Len(q) - 1 : w[k] = q[k + 1]
  BY <1>1
<1> HIDE DEF w
<1>3. 1 \in 1 .. Len(q)  BY <1>1
<1>4. Head(q) \in Members(q)  BY <1>1, <1>3 DEF Members
<1>5. Distinct(w)
  <2> SUFFICES ASSUME NEW a \in 1 .. Len(q) - 1, NEW b \in 1 .. Len(q) - 1, w[a] = w[b]
               PROVE  a = b
    BY <1>2 DEF Distinct
  <2>1. a + 1 \in 1 .. Len(q) /\ b + 1 \in 1 .. Len(q) /\ q[a + 1] = q[b + 1]
    BY <1>1, <1>2
  <2>2. a + 1 = b + 1  BY <2>1 DEF Distinct
  <2> QED  BY <2>2
<1>6. Members(w) = Members(q) \ {q[1]}
  <2>1. ASSUME NEW y \in Members(w) PROVE y \in Members(q) \ {q[1]}
    <3>1. PICK k \in 1 .. Len(q) - 1 : y = w[k]  BY <1>2 DEF Members
    <3>2. k + 1 \in 1 .. Len(q) /\ y = q[k + 1] /\ k + 1 # 1  BY <3>1, <1>1, <1>2
    <3>3. y # q[1]  BY <3>2, <1>3 DEF Distinct
    <3> QED  BY <3>2, <3>3 DEF Members
  <2>2. ASSUME NEW y \in Members(q) \ {q[1]} PROVE y \in Members(w)
    <3>1. PICK k \in 1 .. Len(q) : y = q[k]  BY <2>2 DEF Members
    <3>2. k # 1  BY <3>1, <2>2
    <3>3. k - 1 \in 1 .. Len(q) - 1 /\ k - 1 \in 1 .. Len(w) /\ (k - 1) + 1 = k
      BY <3>2, <1>1, <1>2
    <3>4. y = w[k - 1]  BY <3>1, <3>3, <1>2
    <3> QED  BY <3>3, <3>4 DEF Members
  <2> QED  BY <2>1, <2>2
<1> QED  BY <1>1, <1>2, <1>4, <1>5, <1>6 DEF w

-----------------------------------------------------------------------------
(* A host in the middle of a step: S has changed and has S.out to send, N  *)
(* is what it has sent before, B the other side.                           *)

HostTypes(h) ==
  [pcb : [Pool[h] -> Pcbs], active : Seq(Pool[h]), tw : Seq(Pool[h]), listen : Seq({Server}),
   port : Ports, iss : Nat, out : SUBSET Messages]

OnActive == Opening \cup Synchronized

(* A block and the lists it is on.                                         *)
Listed(p, onActive, onTw) ==
  /\ p.lastack <= p.snd_nxt /\ p.state # "LISTEN"
  /\ Live(p) => p.used = TRUE
  /\ onActive <=> p.state \in OnActive
  /\ onTw <=> p.state = "TIME_WAIT"

(* Only a server listens, and to one port.                                 *)
ListenOK(h, q) == Len(q) <= 1 /\ (h \in Clients => q = << >>)

Lists(h, S) ==
  /\ S \in HostTypes(h)
  /\ Distinct(S.active) /\ Distinct(S.tw) /\ ListenOK(h, S.listen)
  /\ \A s \in Pool[h] : Listed(S.pcb[s], s \in Members(S.active), s \in Members(S.tw))

Side(S, N) == [pcb |-> S.pcb, iss |-> S.iss, sent |-> N \cup S.out]

HostOK(h, S, N, B) == Lists(h, S) /\ World(h, Side(S, N), B)

LEMMA HostFacts ==
  ASSUME NEW h \in Hosts, NEW S, NEW N, NEW B, HostOK(h, S, N, B)
  PROVE  /\ S \in HostTypes(h) /\ S.pcb \in [Pool[h] -> Pcbs] /\ S.out \subseteq Messages
         /\ S.active \in Seq(Pool[h]) /\ S.tw \in Seq(Pool[h]) /\ S.listen \in Seq({Server})
         /\ S.port \in Ports /\ S.iss \in Nat
         /\ Side(S, N).pcb = S.pcb /\ Side(S, N).iss = S.iss /\ Side(S, N).sent = N \cup S.out
BY DEF HostOK, Lists, HostTypes, Side

(* A block on the active list, or on the other one.                        *)
LEMMA ActivePcb ==
  ASSUME NEW h \in Hosts, NEW S, NEW N, NEW B, HostOK(h, S, N, B), NEW s \in Pool[h]
  PROVE  /\ S.pcb[s] \in Pcbs
         /\ s \in Members(S.active) <=> S.pcb[s].state \in OnActive
         /\ s \in Members(S.tw) <=> S.pcb[s].state = "TIME_WAIT"
         /\ Live(S.pcb[s]) <=> s \in Members(S.active) \/ s \in Members(S.tw)
         /\ S.pcb[s].state \in Opening => S.pcb[s].delay = FALSE
         /\ S.pcb[s].lastack <= S.pcb[s].snd_nxt
<1>1. Listed(S.pcb[s], s \in Members(S.active), s \in Members(S.tw))
  BY DEF HostOK, Lists
<1>2. S.pcb[s] \in Pcbs  BY HostFacts
<1>3. GoodPcb(h, S.pcb[s], S.iss, B.iss)
  BY HostFacts, WorldFacts DEF HostOK, Fits
<1>4. S.pcb[s].state \in States  BY <1>2, PcbType
<1>5. Live(S.pcb[s]) <=> S.pcb[s].state \in OnActive \cup {"TIME_WAIT"}
  BY <1>1, <1>4 DEF Live, States, OnActive, Opening, Synchronized, Listed
<1>6. S.pcb[s].state \in Opening => S.pcb[s].delay = FALSE
  BY <1>3 DEF GoodPcb, Live, Opening
<1> QED  BY <1>1, <1>2, <1>5, <1>6 DEF Listed

(* One block changes and stays where it is.                                *)
LEMMA PutPcb ==
  ASSUME NEW h \in Hosts, NEW S, NEW N, NEW B, HostOK(h, S, N, B), NEW s \in Pool[h],
         NEW p \in Pcbs, Listed(p, s \in Members(S.active), s \in Members(S.tw)),
         World(h, [Side(S, N) EXCEPT !.pcb[s] = p], B)
  PROVE  HostOK(h, [S EXCEPT !.pcb[s] = p], N, B)
<1> DEFINE R == [S EXCEPT !.pcb[s] = p]
<1>1. S \in HostTypes(h)  BY HostFacts
<1>2. /\ R \in HostTypes(h) /\ R.pcb = [S.pcb EXCEPT ![s] = p] /\ R.active = S.active
      /\ R.tw = S.tw /\ R.listen = S.listen /\ R.iss = S.iss /\ R.out = S.out
      /\ S.pcb \in [Pool[h] -> Pcbs]
  BY <1>1 DEF HostTypes
<1>3. Side(R, N) = [Side(S, N) EXCEPT !.pcb[s] = p]  BY <1>2 DEF Side
<1> HIDE DEF R
<1>4. \A t \in Pool[h] : Listed(R.pcb[t], t \in Members(R.active), t \in Members(R.tw))
  <2> TAKE t \in Pool[h]
  <2>1. CASE t = s  BY <2>1, <1>2
  <2>2. CASE t # s  BY <2>2, <1>2 DEF HostOK, Lists
  <2> QED  BY <2>1, <2>2
<1>5. Lists(h, R)  BY <1>2, <1>4 DEF Lists, HostOK
<1> QED  BY <1>3, <1>5 DEF HostOK, R

(* One segment is sent.                                                    *)
LEMMA PutMsg ==
  ASSUME NEW h \in Hosts, NEW S, NEW N, NEW B, HostOK(h, S, N, B), NEW e \in Messages,
         World(h, [Side(S, N) EXCEPT !.sent = Side(S, N).sent \cup {e}], B)
  PROVE  HostOK(h, [S EXCEPT !.out = S.out \cup {e}], N, B)
<1> DEFINE R == [S EXCEPT !.out = S.out \cup {e}]
<1>1. S \in HostTypes(h)  BY HostFacts
<1>2. /\ R \in HostTypes(h) /\ R.pcb = S.pcb /\ R.active = S.active
      /\ R.tw = S.tw /\ R.listen = S.listen /\ R.iss = S.iss /\ R.out = S.out \cup {e}
  BY <1>1 DEF HostTypes
<1>3. N \cup R.out = (N \cup S.out) \cup {e}  BY <1>2
<1>4. Side(R, N) = [Side(S, N) EXCEPT !.sent = Side(S, N).sent \cup {e}]
  BY <1>2, <1>3 DEF Side
<1> HIDE DEF R
<1>5. Lists(h, R)  BY <1>2 DEF Lists, HostOK
<1> QED  BY <1>4, <1>5 DEF HostOK, R

-----------------------------------------------------------------------------
(* The operators of TcpConn that leave a block on its list.                *)

Kept(p, q) == SamePlace(p, q) /\ p.state = q.state

LEMMA QuietHost ==
  ASSUME NEW h \in Hosts, NEW S, NEW N, NEW B, HostOK(h, S, N, B), NEW s \in Pool[h],
         NEW p \in Pcbs, SamePlace(p, S.pcb[s]), p.used = S.pcb[s].used,
         p.snd_nxt = S.pcb[s].snd_nxt, p.lastack = S.pcb[s].lastack,
         p.rcv_nxt = S.pcb[s].rcv_nxt, p.unacked \subseteq S.pcb[s].unacked,
         p.state \in Opening => p.delay = FALSE,
         \/ p.state = S.pcb[s].state
         \/ /\ p.state \in Synchronized /\ S.pcb[s].state \in Synchronized
            /\ StateMoves(S.pcb[s].state, p.state)
  PROVE  HostOK(h, [S EXCEPT !.pcb[s] = p], N, B)
<1>1. World(h, [Side(S, N) EXCEPT !.pcb[s] = p], B)
  <2>1. World(h, Side(S, N), B) /\ Side(S, N).pcb = S.pcb  BY HostFacts DEF HostOK
  <2>2. StateMoves(S.pcb[s].state, p.state)  BY DEF StateMoves
  <2> QED  BY <2>1, <2>2, QuietPcb
<1>2. Listed(S.pcb[s], s \in Members(S.active), s \in Members(S.tw))  BY DEF HostOK, Lists
<1>3. Listed(p, s \in Members(S.active), s \in Members(S.tw))
  BY <1>2 DEF Listed, OnActive, Synchronized, Opening, Live
<1> QED  BY <1>1, <1>3, PutPcb

LEMMA EmitHost ==
  ASSUME NEW h \in Hosts, NEW S, NEW N, NEW B, HostOK(h, S, N, B), NEW s \in Pool[h],
         Live(S.pcb[s]), NEW seq, NEW flags,
         \/ \E x \in S.pcb[s].unacked : flags = x.flags /\ seq = x.seq
         \/ flags = {"ACK"} /\ seq = S.pcb[s].snd_nxt /\ S.pcb[s].state \notin Opening
  PROVE  HostOK(h, Emit(S, S.pcb[s].lport, S.pcb[s].rport, flags, seq, S.pcb[s].rcv_nxt), N, B)
<1> DEFINE p == S.pcb[s]
           e == [sport |-> p.lport, dport |-> p.rport, flags |-> flags,
                 seq |-> seq, ackno |-> p.rcv_nxt]
<1>1. p \in Pcbs /\ World(h, Side(S, N), B) /\ Side(S, N).pcb = S.pcb
  BY HostFacts DEF HostOK
<1>2. /\ p.lport \in Nat /\ p.rport \in Nat /\ p.rcv_nxt \in Nat /\ p.snd_nxt \in Nat
      /\ p.unacked \subseteq Segments
  BY <1>1, PcbType
<1>3. flags \in FlagSets /\ seq \in Nat
  <2>1. CASE flags = {"ACK"} /\ seq = p.snd_nxt  BY <2>1, <1>2 DEF FlagSets
  <2>2. ASSUME NEW x \in p.unacked, flags = x.flags, seq = x.seq
        PROVE  flags \in FlagSets /\ seq \in Nat
    <3>1. x \in Segments  BY <1>2
    <3> QED  BY <3>1, <2>2 DEF Segments
  <2> QED  BY <2>1, <2>2
<1>4. e \in Messages  BY <1>2, <1>3 DEF Messages
<1>5. /\ e.sport = p.lport /\ e.dport = p.rport /\ e.ackno = p.rcv_nxt
      /\ e.flags = flags /\ e.seq = seq
  OBVIOUS
<1> HIDE DEF e
<1>6. World(h, [Side(S, N) EXCEPT !.sent = Side(S, N).sent \cup {e}], B)
  BY <1>1, <1>4, <1>5, SendOwn
<1>7. HostOK(h, [S EXCEPT !.out = S.out \cup {e}], N, B)  BY <1>4, <1>6, PutMsg
<1> QED  BY <1>7 DEF Emit, e

LEMMA RstHost ==
  ASSUME NEW h \in Hosts, NEW S, NEW N, NEW B, HostOK(h, S, N, B),
         NEW seq \in Nat, NEW ackno \in Nat, NEW lport \in Nat, NEW rport \in Nat
  PROVE  HostOK(h, Rst(S, seq, ackno, lport, rport), N, B)
<1> DEFINE e == [sport |-> lport, dport |-> rport, flags |-> {"RST", "ACK"},
                 seq |-> seq, ackno |-> ackno]
<1>1. e \in Messages /\ "RST" \in e.flags  BY DEF Messages, FlagSets
<1> HIDE DEF e
<1>2. World(h, [Side(S, N) EXCEPT !.sent = Side(S, N).sent \cup {e}], B)
  BY <1>1, SendRst DEF HostOK
<1>3. HostOK(h, [S EXCEPT !.out = S.out \cup {e}], N, B)  BY <1>1, <1>2, PutMsg
<1> QED  BY <1>3 DEF Rst, Emit, e

(* tcp_ack_now                                                             *)
LEMMA AckNowHost ==
  ASSUME NEW h \in Hosts, NEW S, NEW N, NEW B, HostOK(h, S, N, B), NEW s \in Pool[h],
         Live(S.pcb[s]), S.pcb[s].state \notin Opening
  PROVE  /\ HostOK(h, AckNow(S, s), N, B) /\ Kept(AckNow(S, s).pcb[s], S.pcb[s])
         /\ AckNow(S, s).pcb = [S.pcb EXCEPT ![s].delay = FALSE]
<1> DEFINE p0 == S.pcb[s]
           E == Emit(S, p0.lport, p0.rport, {"ACK"}, p0.snd_nxt, p0.rcv_nxt)
           p == [p0 EXCEPT !.delay = FALSE]
<1>1. HostOK(h, E, N, B)  BY EmitHost
<1>2. S \in HostTypes(h) /\ S.pcb \in [Pool[h] -> Pcbs] /\ p0 \in Pcbs  BY HostFacts
<1>3. E.pcb = S.pcb /\ E \in HostTypes(h)  BY <1>1, <1>2, HostFacts DEF Emit, HostTypes
<1>4. AckNow(S, s) = [E EXCEPT !.pcb[s] = p]  BY <1>3 DEF AckNow
<1>5. /\ p \in Pcbs /\ SamePlace(p, p0) /\ p.used = p0.used /\ p.snd_nxt = p0.snd_nxt
      /\ p.lastack = p0.lastack /\ p.rcv_nxt = p0.rcv_nxt /\ p.unacked = p0.unacked
      /\ p.delay = FALSE /\ p.state = p0.state
  BY <1>2 DEF Pcbs, SamePlace
<1> HIDE DEF E, p
<1>6. HostOK(h, [E EXCEPT !.pcb[s] = p], N, B)  BY <1>1, <1>3, <1>5, QuietHost
<1>7. [E EXCEPT !.pcb[s] = p].pcb = [S.pcb EXCEPT ![s] = p]  BY <1>3 DEF HostTypes
<1> QED  BY <1>2, <1>4, <1>5, <1>6, <1>7 DEF Kept, p

(* tcp_ack                                                                 *)
LEMMA AckDelayedHost ==
  ASSUME NEW h \in Hosts, NEW S, NEW N, NEW B, HostOK(h, S, N, B), NEW s \in Pool[h],
         Live(S.pcb[s]), S.pcb[s].state \notin Opening
  PROVE  HostOK(h, AckDelayed(S, s), N, B) /\ Kept(AckDelayed(S, s).pcb[s], S.pcb[s])
<1>1. CASE S.pcb[s].delay  BY <1>1, AckNowHost DEF AckDelayed
<1>2. CASE ~S.pcb[s].delay
  <2> DEFINE p0 == S.pcb[s]
             p == [p0 EXCEPT !.delay = TRUE]
  <2>1. S \in HostTypes(h) /\ S.pcb \in [Pool[h] -> Pcbs] /\ p0 \in Pcbs  BY HostFacts
  <2>2. /\ p \in Pcbs /\ SamePlace(p, p0) /\ p.used = p0.used /\ p.snd_nxt = p0.snd_nxt
        /\ p.lastack = p0.lastack /\ p.rcv_nxt = p0.rcv_nxt /\ p.unacked = p0.unacked
        /\ p.state = p0.state
    BY <2>1 DEF Pcbs, SamePlace
  <2>3. AckDelayed(S, s) = [S EXCEPT !.pcb[s] = p]  BY <1>2 DEF AckDelayed
  <2> HIDE DEF p
  <2>4. HostOK(h, [S EXCEPT !.pcb[s] = p], N, B)  BY <2>2, QuietHost
  <2>5. [S EXCEPT !.pcb[s] = p].pcb[s] = p  BY <2>1 DEF HostTypes
  <2> QED  BY <2>2, <2>3, <2>4, <2>5 DEF Kept
<1> QED  BY <1>1, <1>2

(* A segment for the block p that is not a RST.                            *)
Incoming(m, B, p) == m \in B.sent /\ "RST" \notin m.flags /\ Matches(p, m)

(* tcp_receive: the acknowledgement                                        *)
LEMMA TakeAckHost ==
  ASSUME NEW h \in Hosts, NEW S, NEW N, NEW B, HostOK(h, S, N, B), NEW s \in Pool[h],
         S.pcb[s].state \in Synchronized, NEW m, Incoming(m, B, S.pcb[s])
  PROVE  HostOK(h, TakeAck(S, s, m), N, B) /\ Kept(TakeAck(S, s, m).pcb[s], S.pcb[s])
<1> DEFINE p0 == S.pcb[s]
           p == [p0 EXCEPT !.lastack = m.ackno, !.unacked = {x \in p0.unacked : x.seq >= m.ackno}]
<1>1. CASE ~("ACK" \in m.flags /\ p0.lastack < m.ackno /\ m.ackno <= p0.snd_nxt)
  BY <1>1 DEF TakeAck, Kept, SamePlace
<1>2. CASE "ACK" \in m.flags /\ p0.lastack < m.ackno /\ m.ackno <= p0.snd_nxt
  <2>1. S \in HostTypes(h) /\ S.pcb \in [Pool[h] -> Pcbs] /\ p0 \in Pcbs  BY HostFacts
  <2>2. World(h, Side(S, N), B) /\ Side(S, N).pcb = S.pcb  BY HostFacts DEF HostOK
  <2>3. m \in B.sent /\ m \in Messages /\ m.ackno \in Nat
    BY <2>2, WorldFacts, MsgType DEF Incoming
  <2>4. /\ p \in Pcbs /\ SamePlace(p, p0) /\ p.used = p0.used /\ p.snd_nxt = p0.snd_nxt
        /\ p.lastack = m.ackno /\ p.rcv_nxt = p0.rcv_nxt /\ p.unacked \subseteq p0.unacked
        /\ p.state = p0.state
    BY <2>1, <2>3 DEF Pcbs, SamePlace
  <2>5. TakeAck(S, s, m) = [S EXCEPT !.pcb[s] = p]  BY <1>2, <2>1 DEF TakeAck, HostTypes
  <2> HIDE DEF p
  <2>6. AckFor(p0, m)
    BY <1>2 DEF AckFor, Incoming, Live, Synchronized
  <2>7. World(h, [Side(S, N) EXCEPT !.pcb[s] = p], B)
    BY <2>2, <2>3, <2>4, <2>6, AckedPcb
  <2>8. Listed(p0, s \in Members(S.active), s \in Members(S.tw))  BY DEF HostOK, Lists
  <2>9. Listed(p, s \in Members(S.active), s \in Members(S.tw))
    BY <1>2, <2>4, <2>8 DEF Listed, Live
  <2>10. HostOK(h, [S EXCEPT !.pcb[s] = p], N, B)  BY <2>4, <2>7, <2>9, PutPcb
  <2>11. [S EXCEPT !.pcb[s] = p].pcb[s] = p  BY <2>1 DEF HostTypes
  <2> QED  BY <2>4, <2>5, <2>10, <2>11 DEF Kept
<1> QED  BY <1>1, <1>2

(* The number after a segment that has been taken.                         *)
LEMMA TakenHost ==
  ASSUME NEW h \in Hosts, NEW S, NEW N, NEW B, HostOK(h, S, N, B), NEW s \in Pool[h],
         NEW m, Incoming(m, B, S.pcb[s]),
         NEW p \in Pcbs, Kept(p, S.pcb[s]), p.used = S.pcb[s].used,
         p.snd_nxt = S.pcb[s].snd_nxt, p.lastack = S.pcb[s].lastack,
         p.unacked = S.pcb[s].unacked,
         p.rcv_nxt = m.seq + Length(m), p.rcv_nxt >= S.pcb[s].rcv_nxt,
         \/ S.pcb[s].state = "TIME_WAIT"
         \/ S.pcb[s].state \in Synchronized /\ m.seq = S.pcb[s].rcv_nxt /\ Length(m) = 1
  PROVE  HostOK(h, [S EXCEPT !.pcb[s] = p], N, B)
<1>1. World(h, Side(S, N), B) /\ Side(S, N).pcb = S.pcb  BY HostFacts DEF HostOK
<1>2. World(h, [Side(S, N) EXCEPT !.pcb[s] = p], B)
  BY <1>1, TakenPcb DEF Incoming, Kept
<1>3. Listed(S.pcb[s], s \in Members(S.active), s \in Members(S.tw))  BY DEF HostOK, Lists
<1>4. Listed(p, s \in Members(S.active), s \in Members(S.tw))
  BY <1>3 DEF Listed, Live, Kept
<1> QED  BY <1>2, <1>4, PutPcb

(* tcp_receive: the SYN or FIN                                             *)
LEMMA TakeSequenceHost ==
  ASSUME NEW h \in Hosts, NEW S, NEW N, NEW B, HostOK(h, S, N, B), NEW s \in Pool[h],
         S.pcb[s].state \in Synchronized, NEW m, Incoming(m, B, S.pcb[s])
  PROVE  HostOK(h, TakeSequence(S, s, m), N, B) /\ Kept(TakeSequence(S, s, m).pcb[s], S.pcb[s])
<1> DEFINE p0 == S.pcb[s]
           fin == p0.gotfin \/ "FIN" \in m.flags
           p == [p0 EXCEPT !.rcv_nxt = p0.rcv_nxt + 1, !.gotfin = fin]
           T == [S EXCEPT !.pcb[s] = p]
<1>1. Live(p0) /\ p0.state \notin Opening  BY DEF Live, Synchronized, Opening
<1>2. HostOK(h, AckNow(S, s), N, B) /\ Kept(AckNow(S, s).pcb[s], p0)  BY <1>1, AckNowHost
<1>3. Kept(p0, p0)  BY DEF Kept, SamePlace
<1>4. ASSUME Length(m) # 0, m.seq = p0.rcv_nxt
      PROVE  HostOK(h, AckDelayed(T, s), N, B) /\ Kept(AckDelayed(T, s).pcb[s], p0)
  <2>1. S \in HostTypes(h) /\ S.pcb \in [Pool[h] -> Pcbs] /\ p0 \in Pcbs  BY HostFacts
  <2>2. World(h, Side(S, N), B)  BY DEF HostOK
  <2>3. m \in Messages /\ m.seq \in Nat /\ Length(m) \in {0, 1}
    BY <2>2, WorldFacts, MsgType DEF Incoming
  <2>4. Length(m) = 1 /\ p0.rcv_nxt \in Nat  BY <1>4, <2>1, <2>3, PcbType
  <2>5. fin \in BOOLEAN  BY Zenon
  <2> HIDE DEF fin
  <2>6. /\ p \in Pcbs /\ SamePlace(p, p0) /\ p.used = p0.used /\ p.snd_nxt = p0.snd_nxt
        /\ p.lastack = p0.lastack /\ p.rcv_nxt = p0.rcv_nxt + 1 /\ p.unacked = p0.unacked
        /\ p.state = p0.state
    <3>1. p0.rcv_nxt + 1 \in Nat  BY <2>4
    <3>2. p \in Pcbs  BY <2>1, <3>1, <2>5 DEF Pcbs
    <3>3. /\ p.lport = p0.lport /\ p.rport = p0.rport /\ p.used = p0.used
          /\ p.snd_nxt = p0.snd_nxt /\ p.lastack = p0.lastack /\ p.rcv_nxt = p0.rcv_nxt + 1
          /\ p.unacked = p0.unacked /\ p.state = p0.state
      BY <2>1 DEF Pcbs
    <3> QED  BY <3>2, <3>3 DEF SamePlace
  <2> HIDE DEF p
  <2>7. p.rcv_nxt = m.seq + Length(m) /\ p.rcv_nxt >= p0.rcv_nxt  BY <1>4, <2>4, <2>6
  <2>8. HostOK(h, T, N, B)  BY <1>4, <2>4, <2>6, <2>7, TakenHost DEF Kept
  <2>9. T.pcb[s] = p  BY <2>1 DEF HostTypes
  <2> HIDE DEF T
  <2>10. HostOK(h, AckDelayed(T, s), N, B) /\ Kept(AckDelayed(T, s).pcb[s], T.pcb[s])
    BY <1>1, <2>6, <2>8, <2>9, AckDelayedHost DEF Live
  <2> QED  BY <2>6, <2>9, <2>10 DEF Kept, SamePlace
<1>5. [S EXCEPT !.pcb[s].rcv_nxt = @ + 1, !.pcb[s].gotfin = @ \/ "FIN" \in m.flags] = T
  <2>1. S \in HostTypes(h) /\ S.pcb \in [Pool[h] -> Pcbs] /\ p0 \in Pcbs  BY HostFacts
  <2> DEFINE p1 == [p0 EXCEPT !.rcv_nxt = p0.rcv_nxt + 1]
             S1 == [S EXCEPT !.pcb[s] = p1]
  <2>2. S1.pcb[s] = p1 /\ p1.gotfin = p0.gotfin  BY <2>1 DEF HostTypes, Pcbs
  <2>3. [S EXCEPT !.pcb[s].rcv_nxt = @ + 1, !.pcb[s].gotfin = @ \/ "FIN" \in m.flags]
        = [S1 EXCEPT !.pcb[s] = [p1 EXCEPT !.gotfin = p1.gotfin \/ "FIN" \in m.flags]]
    BY <2>2
  <2>4. [S1 EXCEPT !.pcb[s] = [p1 EXCEPT !.gotfin = p1.gotfin \/ "FIN" \in m.flags]]
        = [S1 EXCEPT !.pcb[s] = p]
    BY <2>2
  <2>5. [S1 EXCEPT !.pcb[s] = p] = T  BY <2>1 DEF HostTypes
  <2> QED  BY <2>3, <2>4, <2>5
<1> HIDE DEF T, p0
<1>6. \/ TakeSequence(S, s, m) = S
      \/ TakeSequence(S, s, m) = AckNow(S, s)
      \/ Length(m) # 0 /\ m.seq = p0.rcv_nxt /\ TakeSequence(S, s, m) = AckDelayed(T, s)
  BY <1>5 DEF TakeSequence, p0
<1> QED  BY <1>2, <1>3, <1>4, <1>6 DEF p0

(* tcp_receive                                                             *)
LEMMA ReceiveHost ==
  ASSUME NEW h \in Hosts, NEW S, NEW N, NEW B, HostOK(h, S, N, B), NEW s \in Pool[h],
         S.pcb[s].state \in Synchronized, NEW m, Incoming(m, B, S.pcb[s])
  PROVE  HostOK(h, Receive(S, s, m), N, B) /\ Kept(Receive(S, s, m).pcb[s], S.pcb[s])
<1> DEFINE T == TakeAck(S, s, m)
<1>1. HostOK(h, T, N, B) /\ Kept(T.pcb[s], S.pcb[s])  BY TakeAckHost
<1> HIDE DEF T
<1>2. T.pcb[s].state \in Synchronized /\ Incoming(m, B, T.pcb[s])
  BY <1>1 DEF Kept, SamePlace, Incoming, Matches
<1>3. HostOK(h, TakeSequence(T, s, m), N, B) /\ Kept(TakeSequence(T, s, m).pcb[s], T.pcb[s])
  BY <1>1, <1>2, TakeSequenceHost
<1> QED  BY <1>1, <1>3 DEF Receive, T, Kept, SamePlace

(* From one synchronized state to another.                                 *)
LEMMA MoveHost ==
  ASSUME NEW h \in Hosts, NEW S, NEW N, NEW B, HostOK(h, S, N, B), NEW s \in Pool[h],
         NEW b \in Synchronized, S.pcb[s].state \in Synchronized,
         StateMoves(S.pcb[s].state, b)
  PROVE  HostOK(h, [S EXCEPT !.pcb[s].state = b], N, B)
<1> DEFINE p0 == S.pcb[s]
           p == [p0 EXCEPT !.state = b]
<1>1. S \in HostTypes(h) /\ S.pcb \in [Pool[h] -> Pcbs] /\ p0 \in Pcbs  BY HostFacts
<1>2. b \in States /\ b \notin Opening  BY DEF States, Synchronized, Opening
<1>3. /\ p \in Pcbs /\ SamePlace(p, p0) /\ p.used = p0.used /\ p.snd_nxt = p0.snd_nxt
      /\ p.lastack = p0.lastack /\ p.rcv_nxt = p0.rcv_nxt /\ p.unacked = p0.unacked
      /\ p.state = b
  BY <1>1, <1>2 DEF Pcbs, SamePlace
<1> HIDE DEF p
<1>4. HostOK(h, [S EXCEPT !.pcb[s] = p], N, B)  BY <1>2, <1>3, QuietHost
<1> QED  BY <1>4 DEF p

-----------------------------------------------------------------------------
(* The operators that move a block from one list to another.               *)

(* The side of a host with another block.                                  *)
SidePut(S, N, s, p) == [Side(S, N) EXCEPT !.pcb[s] = p]

LEMMA SideOfPut ==
  ASSUME NEW S, NEW N, NEW s, NEW p, NEW R,
         R.pcb = [S.pcb EXCEPT ![s] = p], R.iss = S.iss, R.out = S.out
  PROVE  Side(R, N) = SidePut(S, N, s, p)
BY DEF Side, SidePut

LEMMA PutLists ==
  ASSUME NEW h \in Hosts, NEW S, NEW N, NEW B, HostOK(h, S, N, B), NEW s \in Pool[h],
         NEW p \in Pcbs, NEW R \in HostTypes(h), R.pcb = [S.pcb EXCEPT ![s] = p],
         R.iss = S.iss, R.out = S.out,
         Distinct(R.active), Distinct(R.tw), ListenOK(h, R.listen),
         \A t \in Pool[h] \ {s} : /\ t \in Members(R.active) <=> t \in Members(S.active)
                                  /\ t \in Members(R.tw) <=> t \in Members(S.tw),
         Listed(p, s \in Members(R.active), s \in Members(R.tw)),
         World(h, [Side(S, N) EXCEPT !.pcb[s] = p], B)
  PROVE  HostOK(h, R, N, B)
<1>1. S.pcb \in [Pool[h] -> Pcbs]  BY HostFacts
<1>2. \A t \in Pool[h] : Listed(R.pcb[t], t \in Members(R.active), t \in Members(R.tw))
  <2> TAKE t \in Pool[h]
  <2>1. CASE t = s  BY <2>1, <1>1
  <2>2. CASE t # s
    <3>1. R.pcb[t] = S.pcb[t]  BY <2>2, <1>1
    <3>2. Listed(S.pcb[t], t \in Members(S.active), t \in Members(S.tw))
      BY DEF HostOK, Lists
    <3> QED  BY <2>2, <3>1, <3>2 DEF Listed
  <2> QED  BY <2>1, <2>2
<1>3. World(h, SidePut(S, N, s, p), B)  BY DEF SidePut
<1>4. Side(R, N) = SidePut(S, N, s, p)  BY SideOfPut, ZenonT(60)
<1>5. World(h, Side(R, N), B)  BY <1>3, <1>4
<1> QED  BY <1>2, <1>5 DEF HostOK, Lists

LEMMA ToFrontHost ==
  ASSUME NEW h \in Hosts, NEW S, NEW N, NEW B, HostOK(h, S, N, B), NEW s \in Pool[h],
         s \in Members(S.active)
  PROVE  HostOK(h, ToFront(S, s), N, B) /\ ToFront(S, s).pcb = S.pcb
<1> DEFINE w == Without(S.active, s)
           a == Push(s, w)
           R == ToFront(S, s)
<1>1. S \in HostTypes(h) /\ S.active \in Seq(Pool[h])  BY HostFacts
<1>2. Distinct(S.active)  BY DEF HostOK, Lists
<1>3. w \in Seq(Pool[h]) /\ Distinct(w) /\ Members(w) = Members(S.active) \ {s}
  BY <1>1, <1>2, WithoutList
<1>4. a \in Seq(Pool[h]) /\ Distinct(a) /\ Members(a) = Members(w) \cup {s}
  <2> HIDE DEF w
  <2> QED  BY <1>3, PushList
<1>5. Members(a) = Members(S.active)  BY <1>3, <1>4
<1>6. R = [S EXCEPT !.active = a]  BY DEF ToFront, Push
<1> HIDE DEF a, w, R
<1>7. /\ R \in HostTypes(h) /\ R.active = a /\ R.pcb = S.pcb /\ R.tw = S.tw
      /\ R.listen = S.listen /\ R.iss = S.iss /\ R.out = S.out
  BY <1>1, <1>4, <1>6 DEF HostTypes
<1>8. Side(R, N) = Side(S, N)  BY <1>7 DEF Side
<1>9. Lists(h, R)  BY <1>4, <1>5, <1>7 DEF HostOK, Lists
<1> QED  BY <1>7, <1>8, <1>9 DEF HostOK, R

LEMMA PurgeFields ==
  ASSUME NEW h \in Hosts, NEW S \in HostTypes(h), NEW s \in Pool[h]
  PROVE  LET R == Purge(S, s)
         IN  /\ R \in HostTypes(h) /\ R.active = S.active /\ R.tw = S.tw /\ R.listen = S.listen
             /\ R.port = S.port /\ R.iss = S.iss /\ R.out = S.out
             /\ R.pcb = [S.pcb EXCEPT ![s] = R.pcb[s]]
             /\ R.pcb[s] \in Pcbs /\ Kept(R.pcb[s], S.pcb[s])
             /\ R.pcb[s].used = S.pcb[s].used /\ R.pcb[s].delay = S.pcb[s].delay
             /\ R.pcb[s].snd_nxt = S.pcb[s].snd_nxt /\ R.pcb[s].lastack = S.pcb[s].lastack
             /\ R.pcb[s].rcv_nxt = S.pcb[s].rcv_nxt /\ R.pcb[s].unacked \subseteq S.pcb[s].unacked
<1> DEFINE p0 == S.pcb[s]
           p == [p0 EXCEPT !.unacked = {}]
           T == [S EXCEPT !.pcb[s] = p]
<1>1. S.pcb \in [Pool[h] -> Pcbs] /\ p0 \in Pcbs  BY DEF HostTypes
<1>2. /\ p \in Pcbs /\ p.used = p0.used /\ p.delay = p0.delay /\ p.snd_nxt = p0.snd_nxt
      /\ p.lastack = p0.lastack /\ p.rcv_nxt = p0.rcv_nxt /\ p.unacked = {}
      /\ p.state = p0.state /\ p.lport = p0.lport /\ p.rport = p0.rport
  BY <1>1 DEF Pcbs
<1>3. /\ T \in HostTypes(h) /\ T.active = S.active /\ T.tw = S.tw /\ T.listen = S.listen
      /\ T.port = S.port /\ T.iss = S.iss /\ T.out = S.out
      /\ T.pcb = [S.pcb EXCEPT ![s] = p]
  <2> HIDE DEF p
  <2> QED  BY <1>1, <1>2 DEF HostTypes
<1>4. Purge(S, s) = S \/ Purge(S, s) = T  BY DEF Purge
<1>5. CASE Purge(S, s) = S
  <2>1. S.pcb = [S.pcb EXCEPT ![s] = S.pcb[s]]  BY <1>1
  <2> QED  BY <1>1, <1>5, <2>1 DEF Kept, SamePlace
<1>6. CASE Purge(S, s) = T
  <2> HIDE DEF T, p
  <2>1. T.pcb[s] = p  BY <1>1, <1>3
  <2> QED  BY <1>1, <1>2, <1>3, <1>6, <2>1 DEF Kept, SamePlace
<1> QED  BY <1>4, <1>5, <1>6

(* From a synchronized state to TIME_WAIT.                                 *)
LEMMA TimeWaitHost ==
  ASSUME NEW h \in Hosts, NEW S, NEW N, NEW B, HostOK(h, S, N, B), NEW s \in Pool[h],
         S.pcb[s].state \in Synchronized
  PROVE  HostOK(h, TimeWait(S, s), N, B)
<1> DEFINE A == AckNow(S, s)
           P == Purge(A, s)
           p == [P.pcb[s] EXCEPT !.state = "TIME_WAIT"]
           a == Without(P.active, s)
           w == Push(s, P.tw)
           R == TimeWait(S, s)
<1>1. HostOK(h, A, N, B) /\ Kept(A.pcb[s], S.pcb[s])
  BY AckNowHost DEF Live, Synchronized, Opening
<1>2. A \in HostTypes(h) /\ A.pcb[s] \in Pcbs /\ A.pcb \in [Pool[h] -> Pcbs]  BY <1>1, HostFacts
<1>3. A.pcb[s].state \in Synchronized  BY <1>1 DEF Kept
<1>4. s \in Members(A.active) /\ s \notin Members(A.tw)
  BY <1>1, <1>3, ActivePcb DEF OnActive, Synchronized
<1> HIDE DEF A
<1>5. /\ P \in HostTypes(h) /\ P.active = A.active /\ P.tw = A.tw /\ P.listen = A.listen
      /\ P.port = A.port /\ P.iss = A.iss /\ P.out = A.out
      /\ P.pcb = [A.pcb EXCEPT ![s] = P.pcb[s]]
      /\ P.pcb[s] \in Pcbs /\ Kept(P.pcb[s], A.pcb[s]) /\ P.pcb[s].used = A.pcb[s].used
      /\ P.pcb[s].snd_nxt = A.pcb[s].snd_nxt /\ P.pcb[s].lastack = A.pcb[s].lastack
      /\ P.pcb[s].rcv_nxt = A.pcb[s].rcv_nxt /\ P.pcb[s].unacked \subseteq A.pcb[s].unacked
  BY <1>2, PurgeFields
<1> HIDE DEF P
<1>6. Distinct(A.active) /\ Distinct(A.tw) /\ ListenOK(h, A.listen)  BY <1>1 DEF HostOK, Lists
<1>7. A.active \in Seq(Pool[h]) /\ A.tw \in Seq(Pool[h])  BY <1>1, HostFacts
<1>8. a \in Seq(Pool[h]) /\ Distinct(a) /\ Members(a) = Members(A.active) \ {s}
  BY <1>5, <1>6, <1>7, WithoutList
<1>9. w \in Seq(Pool[h]) /\ Distinct(w) /\ Members(w) = Members(A.tw) \cup {s}
  BY <1>4, <1>5, <1>6, <1>7, PushList
<1>10. /\ p \in Pcbs /\ p.used = P.pcb[s].used /\ p.snd_nxt = P.pcb[s].snd_nxt
       /\ p.lastack = P.pcb[s].lastack /\ p.rcv_nxt = P.pcb[s].rcv_nxt
       /\ p.unacked = P.pcb[s].unacked /\ p.state = "TIME_WAIT"
       /\ p.lport = P.pcb[s].lport /\ p.rport = P.pcb[s].rport
  BY <1>5 DEF Pcbs, States
<1>11. R = [P EXCEPT !.active = a, !.tw = w, !.pcb[s] = p]
  <2>1. [P EXCEPT !.active = a].tw = P.tw  BY <1>5 DEF HostTypes
  <2>2. [P EXCEPT !.active = a, !.tw = w].pcb[s] = P.pcb[s]  BY <1>5 DEF HostTypes
  <2> QED  BY <2>1, <2>2 DEF TimeWait, Push, A, P
<1> HIDE DEF a, w, p, R
<1>12. /\ R \in HostTypes(h) /\ R.active = a /\ R.tw = w /\ R.listen = A.listen
       /\ R.iss = A.iss /\ R.out = A.out /\ R.pcb = [P.pcb EXCEPT ![s] = p]
  BY <1>5, <1>8, <1>9, <1>10, <1>11 DEF HostTypes
<1>13. R.pcb = [A.pcb EXCEPT ![s] = p]  BY <1>2, <1>5, <1>12
<1>14. World(h, [Side(A, N) EXCEPT !.pcb[s] = p], B)
  <2>1. World(h, Side(A, N), B) /\ Side(A, N).pcb = A.pcb  BY <1>1, HostFacts DEF HostOK
  <2>2. StateMoves(A.pcb[s].state, p.state) /\ SamePlace(p, A.pcb[s]) /\ p.state \notin Opening
    BY <1>3, <1>5, <1>10 DEF StateMoves, Kept, SamePlace, Opening
  <2> QED  BY <1>5, <1>10, <2>1, <2>2, QuietPcb, ZenonT(60)
<1>15. Listed(A.pcb[s], s \in Members(A.active), s \in Members(A.tw))  BY <1>1 DEF HostOK, Lists
<1>16. Listed(p, s \in Members(R.active), s \in Members(R.tw))
  BY <1>3, <1>5, <1>8, <1>9, <1>10, <1>12, <1>15 DEF Listed, Live, OnActive, Opening, Synchronized
<1> QED
  BY <1>1, <1>6, <1>8, <1>9, <1>10, <1>12, <1>13, <1>14, <1>16, PutLists DEF R

(* A block leaves its list and is free again.                              *)
LEMMA DropHost ==
  ASSUME NEW h \in Hosts, NEW S, NEW N, NEW B, HostOK(h, S, N, B), NEW s \in Pool[h],
         NEW R, R \in HostTypes(h), R.pcb = [S.pcb EXCEPT ![s] = NoPcb],
         R.iss = S.iss, R.out = S.out, R.listen = S.listen,
         R.active = Without(S.active, s), R.tw = Without(S.tw, s)
  PROVE  HostOK(h, R, N, B)
<1>1. S.active \in Seq(Pool[h]) /\ S.tw \in Seq(Pool[h])  BY HostFacts
<1>2. Distinct(S.active) /\ Distinct(S.tw) /\ ListenOK(h, S.listen)  BY DEF HostOK, Lists
<1>3. Distinct(R.active) /\ Members(R.active) = Members(S.active) \ {s}
  BY <1>1, <1>2, WithoutList
<1>4. Distinct(R.tw) /\ Members(R.tw) = Members(S.tw) \ {s}
  BY <1>1, <1>2, WithoutList
<1>5. NoPcb \in Pcbs /\ NoPcb.state = "CLOSED"  BY DEF NoPcb, Pcbs, States
<1>6. Listed(NoPcb, s \in Members(R.active), s \in Members(R.tw))
  BY <1>3, <1>4 DEF Listed, NoPcb, OnActive, Opening, Synchronized, Live
<1>7. World(h, [Side(S, N) EXCEPT !.pcb[s] = NoPcb], B)
  BY <1>5, DropPcb DEF HostOK
<1>8. /\ \A t \in Pool[h] \ {s} : t \in Members(R.active) <=> t \in Members(S.active)
      /\ \A t \in Pool[h] \ {s} : t \in Members(R.tw) <=> t \in Members(S.tw)
  BY <1>3, <1>4
<1> HIDE DEF NoPcb
<1> QED  BY <1>2, <1>3, <1>4, <1>5, <1>6, <1>7, <1>8, PutLists

(* tcp_pcb_remove and memp_free                                            *)
LEMMA RemoveHost ==
  ASSUME NEW h \in Hosts, NEW S, NEW N, NEW B, HostOK(h, S, N, B), NEW s \in Pool[h],
         Live(S.pcb[s])
  PROVE  /\ HostOK(h, Free(PcbRemove(S, s), s), N, B)
         /\ Free(PcbRemove(S, s), s).pcb = [S.pcb EXCEPT ![s] = NoPcb]
<1> DEFINE a == Without(S.active, s)
           w == Without(S.tw, s)
           L == [S EXCEPT !.active = a, !.tw = w]
           P == Purge(L, s)
           due == P.pcb[s].state # "TIME_WAIT" /\ P.pcb[s].delay
           A == IF due THEN AckNow(P, s) ELSE P
           C == [A EXCEPT !.pcb[s].state = "CLOSED"]
           F == [C EXCEPT !.pcb[s] = NoPcb]
           T == IF due THEN AckNow(S, s) ELSE S
<1>1. S \in HostTypes(h) /\ S.active \in Seq(Pool[h]) /\ S.tw \in Seq(Pool[h])  BY HostFacts
<1>2. Distinct(S.active) /\ Distinct(S.tw)  BY DEF HostOK, Lists
<1>3. a \in Seq(Pool[h]) /\ w \in Seq(Pool[h])  BY <1>1, <1>2, WithoutList
<1>4. F = Free(PcbRemove(S, s), s)
  <2>1. [S EXCEPT !.active = a].tw = S.tw  BY <1>1 DEF HostTypes
  <2> QED  BY <2>1 DEF Free, PcbRemove
<1> HIDE DEF a, w
<1>5. /\ L \in HostTypes(h) /\ L.pcb = S.pcb /\ L.active = a /\ L.tw = w
      /\ L.listen = S.listen /\ L.iss = S.iss /\ L.out = S.out /\ L.port = S.port
  BY <1>1, <1>3 DEF HostTypes
<1> HIDE DEF L
<1>6. /\ P \in HostTypes(h) /\ P.active = a /\ P.tw = w /\ P.listen = S.listen
      /\ P.iss = S.iss /\ P.out = S.out /\ P.port = S.port
      /\ P.pcb = [S.pcb EXCEPT ![s] = P.pcb[s]]
      /\ P.pcb[s] \in Pcbs /\ Kept(P.pcb[s], S.pcb[s]) /\ P.pcb[s].delay = S.pcb[s].delay
      /\ P.pcb[s].snd_nxt = S.pcb[s].snd_nxt /\ P.pcb[s].rcv_nxt = S.pcb[s].rcv_nxt
  BY <1>5, PurgeFields
<1> HIDE DEF P
<1> DEFINE p0 == S.pcb[s]
           e == [sport |-> p0.lport, dport |-> p0.rport, flags |-> {"ACK"},
                 seq |-> p0.snd_nxt, ackno |-> p0.rcv_nxt]
           sent == IF due THEN S.out \cup {e} ELSE S.out
<1>7. p0 \in Pcbs /\ S.pcb \in [Pool[h] -> Pcbs]  BY <1>1 DEF HostTypes
<1>8. e \in Messages  BY <1>7, PcbType DEF Messages, FlagSets
<1>9. /\ T \in HostTypes(h) /\ [T.pcb EXCEPT ![s] = NoPcb] = [S.pcb EXCEPT ![s] = NoPcb]
      /\ T.active = S.active /\ T.tw = S.tw
      /\ T.listen = S.listen /\ T.iss = S.iss /\ T.out = sent
  <2> HIDE DEF NoPcb
  <2>1. CASE due
    <3> DEFINE p == [p0 EXCEPT !.delay = FALSE]
    <3>1. p \in Pcbs  BY <1>7 DEF Pcbs
    <3>2. AckNow(S, s) = [S EXCEPT !.out = S.out \cup {e}, !.pcb[s] = p]
      BY <1>1 DEF AckNow, Emit, HostTypes
    <3> HIDE DEF p, e
    <3> DEFINE V == S.out \cup {e}
    <3>3. V \subseteq Messages  BY <1>1, <1>8 DEF HostTypes
    <3>4. T = [S EXCEPT !.out = V, !.pcb[s] = p] /\ sent = V  BY <2>1, <3>2
    <3> HIDE DEF T, V, sent
    <3>5. /\ T \in HostTypes(h) /\ T.pcb = [S.pcb EXCEPT ![s] = p]
          /\ T.active = S.active /\ T.tw = S.tw
          /\ T.listen = S.listen /\ T.iss = S.iss /\ T.out = V
      BY <1>1, <3>1, <3>3, <3>4 DEF HostTypes
    <3>6. [T.pcb EXCEPT ![s] = NoPcb] = [S.pcb EXCEPT ![s] = NoPcb]  BY <1>7, <3>5
    <3> QED  BY <3>4, <3>5, <3>6
  <2>2. CASE ~due  BY <2>2, <1>1
  <2> QED  BY <2>1, <2>2
<1>10. /\ F \in HostTypes(h) /\ F.pcb = [S.pcb EXCEPT ![s] = NoPcb]
       /\ F.active = a /\ F.tw = w /\ F.listen = S.listen /\ F.iss = S.iss /\ F.out = sent
  <2>0. NoPcb \in Pcbs  BY DEF NoPcb, Pcbs, States
  <2> HIDE DEF NoPcb
  <2>1. A \in HostTypes(h) /\ A.active = a /\ A.tw = w /\ A.listen = S.listen /\ A.iss = S.iss
        /\ A.out = sent /\ A.port = S.port
        /\ [A.pcb EXCEPT ![s] = NoPcb] = [S.pcb EXCEPT ![s] = NoPcb]
    <3>1. CASE due
      <4> DEFINE p1 == P.pcb[s]
                 p == [p1 EXCEPT !.delay = FALSE]
      <4>1. p \in Pcbs  BY <1>6 DEF Pcbs
      <4>2. AckNow(P, s) = [P EXCEPT !.out = S.out \cup {e}, !.pcb[s] = p]
        BY <1>6 DEF AckNow, Emit, HostTypes, Kept, SamePlace
      <4> HIDE DEF p, e
      <4> DEFINE V == S.out \cup {e}
      <4>3. V \subseteq Messages  BY <1>1, <1>8 DEF HostTypes
      <4>4. A = [P EXCEPT !.out = V, !.pcb[s] = p] /\ sent = V  BY <3>1, <4>2
      <4> HIDE DEF A, V, sent
      <4>5. /\ A \in HostTypes(h) /\ A.pcb = [P.pcb EXCEPT ![s] = p]
            /\ A.active = P.active /\ A.tw = P.tw /\ A.port = P.port
            /\ A.listen = P.listen /\ A.iss = P.iss /\ A.out = V
        BY <1>6, <4>1, <4>3, <4>4 DEF HostTypes
      <4>6. [A.pcb EXCEPT ![s] = NoPcb] = [S.pcb EXCEPT ![s] = NoPcb]  BY <1>6, <1>7, <4>5
      <4> QED  BY <1>6, <4>4, <4>5, <4>6
    <3>2. CASE ~due  BY <3>2, <1>6, <1>7
    <3> QED  BY <3>1, <3>2
  <2> HIDE DEF A, sent
  <2>2. C.pcb = [A.pcb EXCEPT ![s] = [A.pcb[s] EXCEPT !.state = "CLOSED"]]
        /\ C = [A EXCEPT !.pcb = C.pcb]
    BY <2>1 DEF HostTypes
  <2>3. [A.pcb[s] EXCEPT !.state = "CLOSED"] \in Pcbs
    <3>1. A.pcb[s] \in Pcbs /\ "CLOSED" \in States  BY <2>1 DEF HostTypes, States
    <3> QED  BY <3>1 DEF Pcbs
  <2>4. F = [A EXCEPT !.pcb = [A.pcb EXCEPT ![s] = NoPcb]]
    BY <2>1, <2>2, <2>3 DEF HostTypes
  <2> HIDE DEF C, F
  <2> QED  BY <2>0, <2>1, <2>4, <1>7 DEF HostTypes
<1>11. HostOK(h, T, N, B)
  <2>1. CASE due
    <3>1. p0.state # "TIME_WAIT" /\ p0.delay  BY <2>1, <1>6 DEF Kept
    <3>2. p0.state \notin Opening  BY <3>1, ActivePcb
    <3> QED  BY <2>1, <3>2, AckNowHost
  <2>2. CASE ~due  BY <2>2
  <2> QED  BY <2>1, <2>2
<1> HIDE DEF T, F, sent
<1>12. HostOK(h, F, N, B)
  BY <1>9, <1>10, <1>11, DropHost DEF a, w
<1> QED  BY <1>4, <1>10, <1>12

(* tcp_abort                                                               *)
LEMMA AbortHost ==
  ASSUME NEW h \in Hosts, NEW S, NEW N, NEW B, HostOK(h, S, N, B), NEW s \in Pool[h],
         Live(S.pcb[s])
  PROVE  HostOK(h, Abort(S, s), N, B) /\ Abort(S, s).pcb = [S.pcb EXCEPT ![s] = NoPcb]
<1> DEFINE p == S.pcb[s]
           F == Free(PcbRemove(S, s), s)
           R == Rst(F, p.snd_nxt, p.rcv_nxt, p.lport, p.rport)
<1>1. HostOK(h, F, N, B) /\ F.pcb = [S.pcb EXCEPT ![s] = NoPcb]  BY RemoveHost
<1>2. p \in Pcbs  BY HostFacts
<1>3. p.snd_nxt \in Nat /\ p.rcv_nxt \in Nat /\ p.lport \in Nat /\ p.rport \in Nat
  BY <1>2, PcbType
<1>4. Abort(S, s) = F \/ Abort(S, s) = R  BY DEF Abort
<1> HIDE DEF F
<1>5. HostOK(h, R, N, B)  BY <1>1, <1>3, RstHost
<1>6. F \in HostTypes(h)  BY <1>1, HostFacts
<1>7. R.pcb = F.pcb  BY <1>6 DEF Rst, Emit, HostTypes
<1> QED  BY <1>1, <1>4, <1>5, <1>7

(* A block may be taken back to make room: the other ones are as before.   *)
Fewer(h, R, S) == \A t \in Pool[h] : R.pcb[t] = S.pcb[t] \/ R.pcb[t] = NoPcb

LEMMA ReclaimHost ==
  ASSUME NEW h \in Hosts, NEW S, NEW N, NEW B, HostOK(h, S, N, B), NEW R \in Reclaim(S)
  PROVE  HostOK(h, R, N, B) /\ Fewer(h, R, S)
<1>1. S \in HostTypes(h) /\ S.pcb \in [Pool[h] -> Pcbs]  BY HostFacts
<1>2. S.active \in Seq(Pool[h]) /\ S.tw \in Seq(Pool[h])  BY HostFacts
<1>3. Distinct(S.active) /\ Distinct(S.tw)  BY DEF HostOK, Lists
<1>4. CASE S.tw # << >>
  <2> DEFINE s == Head(S.tw)
             w == Tail(S.tw)
             T == [S EXCEPT !.tw = w]
  <2>1. /\ w \in Seq(Pool[h]) /\ Distinct(w) /\ s \in Members(S.tw)
        /\ Members(w) = Members(S.tw) \ {s}
    BY <1>2, <1>3, <1>4, PopList
  <2>2. s \in Pool[h]  BY <1>2, <2>1 DEF Members
  <2>3. R = [T EXCEPT !.pcb[s] = NoPcb]  BY <1>4 DEF Reclaim, Free
  <2>4. NoPcb \in Pcbs /\ NoPcb.state = "CLOSED"  BY DEF NoPcb, Pcbs, States
  <2>5. S.pcb[s].state = "TIME_WAIT" /\ s \notin Members(S.active)
    BY <2>1, <2>2, ActivePcb DEF OnActive, Opening, Synchronized
  <2>6. Listed(NoPcb, FALSE, FALSE)
    BY DEF Listed, NoPcb, OnActive, Opening, Synchronized, Live
  <2> HIDE DEF NoPcb, s, w
  <2>7. /\ R \in HostTypes(h) /\ R.pcb = [S.pcb EXCEPT ![s] = NoPcb] /\ R.iss = S.iss
        /\ R.out = S.out /\ R.listen = S.listen /\ R.active = S.active /\ R.tw = w
    BY <1>1, <2>1, <2>2, <2>3, <2>4 DEF HostTypes
  <2>8. s \notin Members(R.active) /\ s \notin Members(R.tw)  BY <2>1, <2>5, <2>7
  <2>9. Listed(NoPcb, s \in Members(R.active), s \in Members(R.tw))
    BY <2>6, <2>8 DEF Listed
  <2>10. World(h, [Side(S, N) EXCEPT !.pcb[s] = NoPcb], B)
    BY <2>2, <2>4, DropPcb DEF HostOK
  <2>11. ListenOK(h, R.listen)  BY <2>7 DEF HostOK, Lists
  <2>12. /\ \A t \in Pool[h] \ {s} : t \in Members(R.active) <=> t \in Members(S.active)
         /\ \A t \in Pool[h] \ {s} : t \in Members(R.tw) <=> t \in Members(S.tw)
    BY <2>1, <2>7
  <2>13. HostOK(h, R, N, B)
    BY <1>3, <2>1, <2>2, <2>4, <2>7, <2>9, <2>10, <2>11, <2>12, PutLists
  <2>14. Fewer(h, R, S)  BY <1>1, <2>2, <2>7 DEF Fewer
  <2> QED  BY <2>13, <2>14
<1>5. CASE S.tw = << >> /\ R = S  BY <1>5 DEF Fewer
<1>6. ASSUME NEW s \in Members(S.active), R = Abort(S, s)
      PROVE  HostOK(h, R, N, B) /\ Fewer(h, R, S)
  <2>1. s \in Pool[h]  BY <1>2 DEF Members
  <2>2. Live(S.pcb[s])  BY <2>1, ActivePcb
  <2>3. HostOK(h, R, N, B) /\ R.pcb = [S.pcb EXCEPT ![s] = NoPcb]
    BY <1>6, <2>1, <2>2, AbortHost
  <2>4. Fewer(h, R, S)  BY <1>1, <2>1, <2>3 DEF Fewer
  <2> QED  BY <2>3, <2>4
<1> QED  BY <1>4, <1>5, <1>6 DEF Reclaim

LEMMA AllocateHost ==
  ASSUME NEW h \in Hosts, NEW S, NEW N, NEW B, HostOK(h, S, N, B), NEW R \in Allocate(S)
  PROVE  HostOK(h, R, N, B) /\ Fewer(h, R, S)
<1>1. R = S \/ R \in Reclaim(S)  BY DEF Allocate
<1> QED  BY <1>1, ReclaimHost DEF Fewer

-----------------------------------------------------------------------------
(* New blocks.                                                             *)

LEMMA FreeFacts ==
  ASSUME NEW h \in Hosts, NEW S, NEW N, NEW B, HostOK(h, S, N, B), NEW s \in FreePcbs(S)
  PROVE  /\ s \in Pool[h] /\ S.pcb[s].state = "CLOSED"
         /\ s \notin Members(S.active) /\ s \notin Members(S.tw)
<1>1. S.pcb \in [Pool[h] -> Pcbs]  BY HostFacts
<1>2. s \in Pool[h] /\ ~S.pcb[s].used  BY <1>1 DEF FreePcbs
<1>3. Listed(S.pcb[s], s \in Members(S.active), s \in Members(S.tw))
  BY <1>2 DEF HostOK, Lists
<1>4. S.pcb[s].state = "CLOSED"  BY <1>2, <1>3 DEF Listed, Live
<1> QED  BY <1>2, <1>3, <1>4 DEF Listed, OnActive, Opening, Synchronized

LEMMA IssHost ==
  ASSUME NEW h \in Hosts, NEW S, NEW N, NEW B, HostOK(h, S, N, B), NEW i \in Nat, i >= S.iss
  PROVE  LET R == [S EXCEPT !.iss = i]
         IN  /\ HostOK(h, R, N, B) /\ R.pcb = S.pcb /\ R.active = S.active /\ R.tw = S.tw
             /\ R.listen = S.listen /\ R.port = S.port /\ R.iss = i /\ R.out = S.out
             /\ Side(R, N) = [Side(S, N) EXCEPT !.iss = i]
<1> DEFINE R == [S EXCEPT !.iss = i]
<1>1. S \in HostTypes(h) /\ Side(S, N).iss = S.iss  BY HostFacts
<1>2. /\ R \in HostTypes(h) /\ R.pcb = S.pcb /\ R.active = S.active /\ R.tw = S.tw
      /\ R.listen = S.listen /\ R.port = S.port /\ R.iss = i /\ R.out = S.out
  BY <1>1 DEF HostTypes
<1>3. Side(R, N) = [Side(S, N) EXCEPT !.iss = i]  BY <1>2 DEF Side
<1>4. World(h, [Side(S, N) EXCEPT !.iss = i], B)  BY <1>1, RaiseIss DEF HostOK
<1> HIDE DEF R
<1>5. Lists(h, R)  BY <1>2 DEF HostOK, Lists
<1>6. HostOK(h, R, N, B)  BY <1>3, <1>4, <1>5 DEF HostOK
<1> QED  BY <1>2, <1>3, <1>6 DEF R

(* A free block gets a new initial sequence number and goes to a list.     *)
LEMMA NewHost ==
  ASSUME NEW h \in Hosts, NEW S, NEW N, NEW B, HostOK(h, S, N, B), NEW s \in FreePcbs(S),
         NEW p \in Pcbs, NEW R \in HostTypes(h), R.pcb = [S.pcb EXCEPT ![s] = p],
         R.iss = S.iss + Ticks, R.out = S.out, R.tw = S.tw, ListenOK(h, R.listen),
         \/ p.state = "CLOSED" /\ R.active = S.active
         \/ p.state \in Opening /\ R.active = Push(s, S.active),
         p.lastack <= p.snd_nxt, p.used = TRUE \/ p.state = "CLOSED",
         p.state \in Opening =>
           World(h, WithPcb(Side(S, N), R.iss, s, p), B)
  PROVE  HostOK(h, R, N, B)
<1> DEFINE i == S.iss + Ticks
           T == [S EXCEPT !.iss = i]
<1>1. S.iss \in Nat /\ S.active \in Seq(Pool[h]) /\ S.tw \in Seq(Pool[h])  BY HostFacts
<1>2. i \in Nat /\ i >= S.iss  BY <1>1, ConnAssumption
<1>3. /\ s \in Pool[h] /\ S.pcb[s].state = "CLOSED"
      /\ s \notin Members(S.active) /\ s \notin Members(S.tw)
  BY FreeFacts
<1>4. Distinct(S.active) /\ Distinct(S.tw)  BY DEF HostOK, Lists
<1>5. /\ HostOK(h, T, N, B) /\ T.pcb = S.pcb /\ T.active = S.active /\ T.tw = S.tw
      /\ T.listen = S.listen /\ T.iss = i /\ T.out = S.out
      /\ Side(T, N) = [Side(S, N) EXCEPT !.iss = i]
  <2> HIDE DEF i
  <2> QED  BY <1>2, IssHost
<1> HIDE DEF T, i
<1>6. World(h, [Side(T, N) EXCEPT !.pcb[s] = p], B)
  <2>1. CASE p.state = "CLOSED"  BY <2>1, <1>3, <1>5, DropPcb DEF HostOK
  <2>2. CASE p.state \in Opening  BY <2>2, <1>5 DEF i, WithPcb
  <2> QED  BY <2>1, <2>2
<1>7. /\ Distinct(R.active)
      /\ Members(R.active) = IF p.state \in Opening THEN Members(S.active) \cup {s}
                             ELSE Members(S.active)
  <2>1. CASE p.state = "CLOSED" /\ R.active = S.active  BY <2>1, <1>4 DEF Opening
  <2>2. CASE p.state \in Opening /\ R.active = Push(s, S.active)
    BY <2>2, <1>1, <1>3, <1>4, PushList
  <2> QED  BY <2>1, <2>2
<1>8. Listed(p, s \in Members(R.active), s \in Members(R.tw))
  BY <1>3, <1>7 DEF Listed, Live, OnActive, Opening, Synchronized
<1>9. \A t \in Pool[h] \ {s} : /\ t \in Members(R.active) <=> t \in Members(T.active)
                               /\ t \in Members(R.tw) <=> t \in Members(T.tw)
  BY <1>5, <1>7
<1>10. R.pcb = [T.pcb EXCEPT ![s] = p] /\ R.iss = T.iss /\ R.out = T.out  BY <1>5 DEF i
<1> QED  BY <1>3, <1>4, <1>5, <1>6, <1>7, <1>8, <1>9, <1>10, PutLists

(* tcp_new                                                                 *)
Fresh(i) == [NoPcb EXCEPT !.used = TRUE, !.snd_nxt = i, !.lastack = i]

LEMMA NewPcbFields ==
  ASSUME NEW h \in Hosts, NEW S \in HostTypes(h), NEW s \in Pool[h]
  PROVE  LET M == NewPcb(S, s)
             i == S.iss + Ticks
         IN  /\ M \in HostTypes(h) /\ i \in Nat /\ M.iss = i /\ M.active = S.active
             /\ M.tw = S.tw /\ M.listen = S.listen /\ M.port = S.port /\ M.out = S.out
             /\ M.pcb = [S.pcb EXCEPT ![s] = M.pcb[s]] /\ M.pcb[s] \in Pcbs
             /\ M.pcb[s] = Fresh(i)
<1> DEFINE i == S.iss + Ticks
           p == Fresh(i)
           M == [S EXCEPT !.iss = i, !.pcb[s] = p]
<1>1. i \in Nat  BY ConnAssumption DEF HostTypes
<1>2. NewPcb(S, s) = M  BY DEF NewPcb, Fresh
<1> HIDE DEF i
<1>3. p \in Pcbs  BY <1>1 DEF Fresh, NoPcb, Pcbs, States
<1> HIDE DEF p
<1>4. /\ M \in HostTypes(h) /\ M.iss = i /\ M.active = S.active
      /\ M.tw = S.tw /\ M.listen = S.listen /\ M.port = S.port /\ M.out = S.out
      /\ M.pcb = [S.pcb EXCEPT ![s] = p] /\ S.pcb \in [Pool[h] -> Pcbs]
  BY <1>1, <1>3 DEF HostTypes
<1> HIDE DEF M
<1>5. M.pcb[s] = p  BY <1>4
<1> QED  BY <1>1, <1>2, <1>3, <1>4, <1>5 DEF i, p

(* tcp_bind and tcp_listen                                                 *)
LEMMA BindHost ==
  ASSUME NEW h \in Hosts, NEW S, NEW N, NEW B, HostOK(h, S, N, B), NEW s \in FreePcbs(S)
  PROVE  HostOK(h, [NewPcb(S, s) EXCEPT !.pcb[s].held = TRUE], N, B)
<1> DEFINE M == NewPcb(S, s)
           i == S.iss + Ticks
           p == [M.pcb[s] EXCEPT !.held = TRUE]
           R == [M EXCEPT !.pcb[s] = p]
<1>1. S \in HostTypes(h) /\ s \in Pool[h] /\ S.pcb \in [Pool[h] -> Pcbs]  BY HostFacts, FreeFacts
<1>2. /\ M \in HostTypes(h) /\ i \in Nat /\ M.iss = i /\ M.active = S.active
      /\ M.tw = S.tw /\ M.listen = S.listen /\ M.port = S.port /\ M.out = S.out
      /\ M.pcb = [S.pcb EXCEPT ![s] = M.pcb[s]] /\ M.pcb[s] \in Pcbs
      /\ M.pcb[s] = Fresh(i)
  BY <1>1, NewPcbFields
<1>3. [M EXCEPT !.pcb[s].held = TRUE] = R  OBVIOUS
<1> HIDE DEF M, i
<1>4. p.state = "CLOSED" /\ p.used = TRUE /\ p.lastack <= p.snd_nxt
  BY <1>2 DEF Fresh, NoPcb
<1>5. p \in Pcbs  BY <1>2 DEF Pcbs
<1> HIDE DEF p
<1>6. /\ R \in HostTypes(h) /\ R.iss = i /\ R.active = S.active /\ R.tw = S.tw
      /\ R.listen = S.listen /\ R.out = S.out /\ R.pcb = [M.pcb EXCEPT ![s] = p]
  BY <1>2, <1>5 DEF HostTypes
<1>7. R.pcb = [S.pcb EXCEPT ![s] = p]  BY <1>1, <1>2, <1>6
<1>8. ListenOK(h, R.listen)  BY <1>6 DEF HostOK, Lists
<1> HIDE DEF R
<1>9. p.state \notin Opening  BY <1>4 DEF Opening
<1>10. HostOK(h, R, N, B)  BY <1>4, <1>5, <1>6, <1>7, <1>8, <1>9, NewHost DEF i
<1> QED  BY <1>3, <1>10 DEF M

LEMMA ListenHost ==
  ASSUME NEW h \in Hosts, NEW S, NEW N, NEW B, HostOK(h, S, N, B), NEW s \in FreePcbs(S),
         h \notin Clients, Server \notin PortsActive(NewPcb(S, s))
  PROVE  /\ Len(NewPcb(S, s).listen) # Listeners
         /\ HostOK(h, [Free(NewPcb(S, s), s) EXCEPT !.listen = <<Server>> \o @], N, B)
<1> DEFINE M == NewPcb(S, s)
           i == S.iss + Ticks
           q == <<Server>> \o M.listen
           F == Free(M, s)
           R == [F EXCEPT !.listen = q]
<1>1. S \in HostTypes(h) /\ s \in Pool[h] /\ S.pcb \in [Pool[h] -> Pcbs]  BY HostFacts, FreeFacts
<1>2. /\ M \in HostTypes(h) /\ i \in Nat /\ M.iss = i /\ M.active = S.active
      /\ M.tw = S.tw /\ M.listen = S.listen /\ M.port = S.port /\ M.out = S.out
      /\ M.pcb = [S.pcb EXCEPT ![s] = M.pcb[s]] /\ M.pcb[s] \in Pcbs
  BY <1>1, NewPcbFields
<1>3. M.listen = << >> /\ Len(M.listen) = 0
  <2>1. M.listen \in Seq({Server}) /\ Len(M.listen) <= 1
    BY <1>2, HostFacts DEF HostOK, Lists, ListenOK
  <2>2. Server \notin Members(M.listen)  BY DEF PortsActive
  <2>3. Len(M.listen) # 1
    <3> SUFFICES ASSUME Len(M.listen) = 1 PROVE FALSE  OBVIOUS
    <3>1. 1 \in 1 .. Len(M.listen)  OBVIOUS
    <3>2. M.listen[1] = Server  BY <2>1, <3>1
    <3> QED  BY <2>2, <3>1, <3>2 DEF Members
  <2>4. Len(M.listen) = 0
    <3> DEFINE n == Len(M.listen)
    <3>1. n \in Nat /\ n <= 1 /\ n # 1  BY <2>1, <2>3
    <3> HIDE DEF n
    <3>2. n = 0  BY <3>1
    <3> QED  BY <3>2 DEF n
  <2> QED  BY <2>1, <2>4, EmptySeq
<1>4. Len(M.listen) # Listeners  BY <1>3, ConnAssumption
<1>5. NoPcb \in Pcbs /\ NoPcb.state = "CLOSED" /\ NoPcb.lastack <= NoPcb.snd_nxt
  BY DEF NoPcb, Pcbs, States
<1>6. q \in Seq({Server}) /\ ListenOK(h, q)
  <2>1. q = <<Server>>  BY <1>3
  <2>2. <<Server>> \in Seq({Server}) /\ Len(<<Server>>) = 1  OBVIOUS
  <2>3. ListenOK(h, <<Server>>)  BY <2>2 DEF ListenOK
  <2> HIDE DEF q
  <2> QED  BY <2>1, <2>2, <2>3
<1>7. F.listen = M.listen  BY <1>2 DEF Free, HostTypes
<1>8. R = [Free(NewPcb(S, s), s) EXCEPT !.listen = <<Server>> \o @]  BY <1>7
<1> HIDE DEF M, i, q, NoPcb
<1>9. /\ R \in HostTypes(h) /\ R.iss = i /\ R.active = S.active /\ R.tw = S.tw
      /\ R.listen = q /\ R.out = S.out /\ R.pcb = [M.pcb EXCEPT ![s] = NoPcb]
  BY <1>2, <1>5, <1>6 DEF HostTypes, Free
<1>10. R.pcb = [S.pcb EXCEPT ![s] = NoPcb]  BY <1>1, <1>2, <1>9
<1> HIDE DEF R
<1>11. NoPcb.state \notin Opening  BY <1>5 DEF Opening
<1>12. HostOK(h, R, N, B)  BY <1>5, <1>6, <1>9, <1>10, <1>11, NewHost DEF i
<1> QED  BY <1>4, <1>8, <1>12 DEF M

LEMMA LeastNumber ==
  ASSUME NEW T, T \subseteq Nat, T # {}
  PROVE  \E x \in T : \A y \in T : x <= y
<1>1. PICK x \in T : \A y \in T : ~(<<y, x>> \in OpToRel(<, Nat))
  BY NatLessThanWellFounded, WFMin
<1>2. \A y \in T : ~(y < x)
  BY <1>1 DEF OpToRel
<1> QED  BY <1>2

LEMMA OneStepRemainder ==
  ASSUME NEW n \in Nat \ {0}, NEW r \in 0 .. n - 1
  PROVE  r % n = r /\ (n + r) % n = r
OBVIOUS

(* There are more ports than blocks.                                       *)
LEMMA FreePort ==
  ASSUME NEW h \in Hosts, NEW S \in HostTypes(h)
  PROVE  \E x \in Ports : x \notin PortsInUse(S)
<1> DEFINE f == [s \in Pool[h] |-> S.pcb[s].lport]
           T == {S.pcb[s].lport : s \in Pool[h]}
           U == Ports \cap T
<1>1. IsFiniteSet(Pool[h]) /\ Listeners \in Nat /\ FirstPort \in Nat /\ LastPort \in Nat
      /\ Server \notin Ports
      /\ LastPort - FirstPort >= Cardinality(Pool[h]) + Listeners
  BY ConnAssumption DEF Ports
<1>2. f \in Surjection(Pool[h], T)  BY DEF Surjection
<1>3. IsFiniteSet(T) /\ Cardinality(T) <= Cardinality(Pool[h])
  <2> HIDE DEF f, T
  <2> QED  BY <1>1, <1>2, FS_Surjection
<1>4. Cardinality(Pool[h]) \in Nat /\ Cardinality(T) \in Nat
  <2> HIDE DEF T
  <2> QED  BY <1>1, <1>3, FS_CardinalityType
<1>5. PICK x \in Ports : x \notin T
  <2> SUFFICES ASSUME Ports \subseteq T PROVE FALSE  OBVIOUS
  <2> HIDE DEF T
  <2>1. Cardinality(Ports) <= Cardinality(T)  BY <1>3, FS_Subset
  <2>2. LastPort \in Int /\ LastPort >= FirstPort
    BY <1>1, <1>4
  <2>3. Cardinality(Ports) = LastPort - FirstPort + 1
    BY <1>1, <2>2, FS_Interval DEF Ports
  <2> QED  BY <1>1, <1>3, <1>4, <2>1, <2>2, <2>3
<1>6. \A y \in Members(S.listen) : y = Server
  <2>1. S.listen \in Seq({Server})  BY DEF HostTypes
  <2> QED  BY <2>1 DEF Members
<1>7. Members(S.active) \subseteq Pool[h] /\ Members(S.tw) \subseteq Pool[h]
  <2>1. S.active \in Seq(Pool[h]) /\ S.tw \in Seq(Pool[h])  BY DEF HostTypes
  <2> QED  BY <2>1 DEF Members
<1>8. x \notin PortsInUse(S)
  BY <1>1, <1>5, <1>6, <1>7 DEF PortsInUse
<1> QED  BY <1>8

(* tcp_new_port                                                            *)
LEMMA NewPortFree ==
  ASSUME NEW h \in Hosts, NEW S \in HostTypes(h)
  PROVE  NewPort(S) \in Ports /\ NewPort(S) \notin PortsInUse(S)
<1> DEFINE size == LastPort - FirstPort + 1
           nth(i) == FirstPort + ((S.port - FirstPort + i) % size)
           U == PortsInUse(S)
           Is(i) == nth(i) \notin U /\ \A j \in 1 .. i - 1 : nth(j) \in U
           T == {i \in 1 .. size : nth(i) \notin U}
<1>1. FirstPort \in Nat /\ LastPort \in Nat  BY ConnAssumption
<1>2. S.port \in FirstPort .. LastPort  BY DEF HostTypes, Ports
<1>3. size \in Nat \ {0}  BY <1>1, <1>2
<1>4. \A i \in 1 .. size : nth(i) \in Ports
  <2> TAKE i \in 1 .. size
  <2>1. S.port - FirstPort + i \in Nat  BY <1>1, <1>2, <1>3
  <2> DEFINE a == S.port - FirstPort + i
  <2>2. a % size \in 0 .. size - 1
    <3> HIDE DEF a, size
    <3> QED  BY <1>3, <2>1 DEF a
  <2> HIDE DEF a
  <2>3. FirstPort + (a % size) \in Ports
    <3> DEFINE r == a % size
    <3>1. r \in 0 .. size - 1  BY <2>2
    <3> HIDE DEF r
    <3>2. FirstPort + r \in Ports  BY <1>1, <3>1 DEF Ports
    <3> QED  BY <3>2 DEF r
  <2> QED  BY <2>3 DEF a
<1>5. T # {}
  <2>1. PICK x \in Ports : x \notin U  BY FreePort
  <2>2. x \in FirstPort .. LastPort  BY DEF Ports
  <2> DEFINE i == IF x > S.port THEN x - S.port ELSE size + (x - S.port)
             r == x - FirstPort
             a == S.port - FirstPort + i
  <2>3. i \in 1 .. size  BY <1>1, <1>2, <2>2
  <2>4. r \in 0 .. size - 1 /\ FirstPort + r = x  BY <1>1, <2>2
  <2>5. a = r \/ a = size + r  BY <1>1, <1>2, <2>2
  <2>6. a % size = r
    <3> HIDE DEF a, r, size
    <3> QED  BY <1>3, <2>4, <2>5, OneStepRemainder
  <2>7. nth(i) = x  BY <2>4, <2>6
  <2> HIDE DEF nth, i, size
  <2> QED  BY <2>1, <2>3, <2>7
<1> HIDE DEF U
<1>6. \E i \in 1 .. size : Is(i)
  <2> HIDE DEF nth, size
  <2>1. T \subseteq Nat  BY <1>3
  <2> HIDE DEF T
  <2>2. PICK i \in T : \A j \in T : i <= j  BY <1>5, <2>1, LeastNumber
  <2> USE DEF T
  <2>3. i \in 1 .. size /\ nth(i) \notin U  OBVIOUS
  <2>4. \A j \in 1 .. i - 1 : nth(j) \in U
    <3> SUFFICES ASSUME NEW j \in 1 .. i - 1, nth(j) \notin U PROVE FALSE  OBVIOUS
    <3>1. j \in 1 .. size /\ j < i  BY <1>3, <2>3
    <3>2. j \in T  BY <3>1
    <3>3. i <= j  BY <2>2, <3>2
    <3> QED  BY <1>3, <2>3, <3>1, <3>3
  <2> QED  BY <2>3, <2>4
<1> DEFINE first == CHOOSE i \in 1 .. size : Is(i)
<1>7. first \in 1 .. size /\ Is(first)
  <2> HIDE DEF Is
  <2> QED  BY <1>6
<1>8. NewPort(S) = nth(first)  BY DEF NewPort, U
<1> HIDE DEF first, nth, size
<1> QED  BY <1>4, <1>7, <1>8 DEF U

-----------------------------------------------------------------------------
(* Segments with a number of their own.                                    *)

CtrlFlags(p, flag) == IF p.state = "SYN_SENT" THEN {flag} ELSE {flag, "ACK"}

CtrlPcb(p, flag) ==
  [p EXCEPT !.unacked = {[seq |-> p.snd_nxt, flags |-> CtrlFlags(p, flag)]},
            !.snd_nxt = p.snd_nxt + 1, !.delay = p.state = "SYN_SENT" /\ p.delay]

LEMMA CtrlPcbFields ==
  ASSUME NEW p \in Pcbs, NEW flag \in {"SYN", "FIN"}, flag = "FIN" => p.state # "SYN_SENT"
  PROVE  LET q == CtrlPcb(p, flag)
         IN  /\ q \in Pcbs /\ q.used = p.used /\ q.held = p.held /\ q.state = p.state
             /\ q.lport = p.lport /\ q.rport = p.rport /\ q.lastack = p.lastack
             /\ q.rcv_nxt = p.rcv_nxt /\ q.snd_nxt = p.snd_nxt + 1
             /\ q.unacked = {[seq |-> p.snd_nxt, flags |-> CtrlFlags(p, flag)]}
             /\ p.delay = FALSE => q.delay = FALSE
<1> DEFINE x == [seq |-> p.snd_nxt, flags |-> CtrlFlags(p, flag)]
           d == p.state = "SYN_SENT" /\ p.delay
           n == p.snd_nxt + 1
           V == {x}
<1>1. CtrlFlags(p, flag) \in FlagSets  BY DEF CtrlFlags, FlagSets
<1>2. p.snd_nxt \in Nat  BY PcbType
<1>3. n \in Nat  BY <1>2
<1>4. x \in Segments  BY <1>1, <1>2 DEF Segments
<1>5. d \in BOOLEAN /\ (p.delay = FALSE => d = FALSE)  BY Zenon
<1>6. V \subseteq Segments  BY <1>4
<1> HIDE DEF x, d, n, V
<1>7. CtrlPcb(p, flag) = [p EXCEPT !.unacked = V, !.snd_nxt = n, !.delay = d]
  BY DEF CtrlPcb, x, d, n, V
<1>8. [p EXCEPT !.unacked = V, !.snd_nxt = n, !.delay = d] \in Pcbs
  BY <1>3, <1>5, <1>6 DEF Pcbs
<1> DEFINE q == [p EXCEPT !.unacked = V, !.snd_nxt = n, !.delay = d]
<1>9. /\ q.used = p.used /\ q.held = p.held /\ q.state = p.state
      /\ q.lport = p.lport /\ q.rport = p.rport /\ q.lastack = p.lastack
      /\ q.rcv_nxt = p.rcv_nxt /\ q.snd_nxt = n /\ q.unacked = V /\ q.delay = d
  BY DEF Pcbs
<1> HIDE DEF q
<1> QED  BY <1>5, <1>7, <1>8, <1>9 DEF q, n, V, x

LEMMA EmitLater ==
  ASSUME NEW h \in Hosts, NEW S \in HostTypes(h), NEW s \in Pool[h], NEW p,
         NEW lport, NEW rport, NEW flags, NEW seq, NEW ackno
  PROVE  [Emit(S, lport, rport, flags, seq, ackno) EXCEPT !.pcb[s] = p]
         = Emit([S EXCEPT !.pcb[s] = p], lport, rport, flags, seq, ackno)
<1> DEFINE e == [sport |-> lport, dport |-> rport, flags |-> flags, seq |-> seq, ackno |-> ackno]
           f == [S.pcb EXCEPT ![s] = p]
           V == S.out \cup {e}
<1> HIDE DEF e, V, f
<1>1. Emit(S, lport, rport, flags, seq, ackno) = [S EXCEPT !.out = V]  BY DEF Emit, e, V
<1>2. [S EXCEPT !.out = V].pcb = S.pcb  BY DEF HostTypes
<1>3. [[S EXCEPT !.out = V] EXCEPT !.pcb[s] = p] = [[S EXCEPT !.out = V] EXCEPT !.pcb = f]
  BY <1>2 DEF f
<1>4. [S EXCEPT !.pcb[s] = p] = [S EXCEPT !.pcb = f]  BY DEF f
<1>5. [S EXCEPT !.pcb = f].out = S.out  BY DEF HostTypes
<1>6. Emit([S EXCEPT !.pcb = f], lport, rport, flags, seq, ackno)
      = [[S EXCEPT !.pcb = f] EXCEPT !.out = V]
  BY <1>5 DEF Emit, e, V
<1>7. [[S EXCEPT !.out = V] EXCEPT !.pcb = f] = [[S EXCEPT !.pcb = f] EXCEPT !.out = V]
  BY DEF HostTypes
<1> QED  BY <1>1, <1>3, <1>4, <1>6, <1>7

(* tcp_enqueue and tcp_output                                              *)
LEMMA SendCtrlEmits ==
  ASSUME NEW h \in Hosts, NEW S \in HostTypes(h), NEW s \in Pool[h], NEW flag
  PROVE  LET p == S.pcb[s]
         IN  SendCtrl(S, s, flag)
             = Emit([S EXCEPT !.pcb[s] = CtrlPcb(p, flag)],
                    p.lport, p.rport, CtrlFlags(p, flag), p.snd_nxt, p.rcv_nxt)
<1> DEFINE p == S.pcb[s]
           x == [seq |-> p.snd_nxt, flags |-> CtrlFlags(p, flag)]
           E == Emit(S, p.lport, p.rport, CtrlFlags(p, flag), p.snd_nxt, p.rcv_nxt)
<1>1. SendSegment(S, s, x) = E  BY DEF SendSegment
<1>2. SendCtrl(S, s, flag) = [E EXCEPT !.pcb[s] = CtrlPcb(p, flag)]
  <2>1. SendCtrl(S, s, flag) = [SendSegment(S, s, x) EXCEPT !.pcb[s] = CtrlPcb(p, flag)]
    BY Zenon DEF SendCtrl, CtrlPcb, CtrlFlags
  <2> HIDE DEF E, x
  <2> QED  BY <1>1, <2>1, Zenon
<1>3. [E EXCEPT !.pcb[s] = CtrlPcb(p, flag)]
      = Emit([S EXCEPT !.pcb[s] = CtrlPcb(p, flag)],
             p.lport, p.rport, CtrlFlags(p, flag), p.snd_nxt, p.rcv_nxt)
  BY EmitLater DEF E
<1> QED  BY <1>2, <1>3

(* A block that is put on the active list and sends its SYN.               *)
LEMMA OpenHost ==
  ASSUME NEW h \in Hosts, NEW S, NEW N, NEW B, HostOK(h, S, N, B), NEW s \in FreePcbs(S),
         NEW p0 \in Pcbs, NEW R0 \in HostTypes(h), R0.pcb = [S.pcb EXCEPT ![s] = p0],
         R0.iss = S.iss + Ticks, R0.out = S.out, R0.tw = S.tw, R0.listen = S.listen,
         R0.active = Push(s, S.active), p0.state \in Opening, p0.used = TRUE,
         p0.lastack = p0.snd_nxt,
         World(h, WithPcb(Side(S, N), R0.iss, s, CtrlPcb(p0, "SYN")), B)
  PROVE  HostOK(h, SendCtrl(R0, s, "SYN"), N, B)
<1> DEFINE p == CtrlPcb(p0, "SYN")
           R == [R0 EXCEPT !.pcb[s] = p]
<1>1. /\ p \in Pcbs /\ p.used = p0.used /\ p.state = p0.state /\ p.lport = p0.lport
      /\ p.rport = p0.rport /\ p.lastack = p0.lastack /\ p.rcv_nxt = p0.rcv_nxt
      /\ p.snd_nxt = p0.snd_nxt + 1
      /\ p.unacked = {[seq |-> p0.snd_nxt, flags |-> CtrlFlags(p0, "SYN")]}
  BY CtrlPcbFields
<1>2. s \in Pool[h] /\ S.pcb \in [Pool[h] -> Pcbs]  BY HostFacts, FreeFacts
<1> HIDE DEF p
<1>3. /\ R \in HostTypes(h) /\ R.iss = R0.iss /\ R.active = R0.active /\ R.tw = R0.tw
      /\ R.listen = R0.listen /\ R.out = R0.out /\ R.pcb = [R0.pcb EXCEPT ![s] = p]
  BY <1>1, <1>2 DEF HostTypes
<1>4. R.pcb = [S.pcb EXCEPT ![s] = p] /\ R.pcb[s] = p  BY <1>2, <1>3
<1>5. ListenOK(h, R.listen)  BY <1>3 DEF HostOK, Lists
<1>6. p.lastack <= p.snd_nxt
  <2>1. p0.snd_nxt \in Nat  BY PcbType
  <2> QED  BY <1>1, <2>1
<1>7. World(h, WithPcb(Side(S, N), R.iss, s, p), B)  BY <1>3 DEF p
<1>8. R0.pcb[s] = p0  BY <1>2
<1>9. SendCtrl(R0, s, "SYN")
      = Emit(R, p.lport, p.rport, CtrlFlags(p0, "SYN"), p0.snd_nxt, p.rcv_nxt)
  <2>1. SendCtrl(R0, s, "SYN")
        = Emit([R0 EXCEPT !.pcb[s] = CtrlPcb(p0, "SYN")], p0.lport, p0.rport,
               CtrlFlags(p0, "SYN"), p0.snd_nxt, p0.rcv_nxt)
    BY <1>2, <1>8, SendCtrlEmits
  <2> QED  BY <1>1, <2>1, Zenon DEF p
<1> HIDE DEF R
<1>10. HostOK(h, R, N, B)
  <2>1. p.used = TRUE /\ p.state \in Opening  BY <1>1
  <2>2. R.iss = S.iss + Ticks /\ R.out = S.out /\ R.tw = S.tw /\ R.active = Push(s, S.active)
    BY <1>3
  <2> QED  BY <1>1, <1>3, <1>4, <1>5, <1>6, <1>7, <2>1, <2>2, NewHost, ZenonT(60)
<1>11. Live(R.pcb[s])  BY <1>1, <1>4 DEF Live, Opening
<1>12. \E x \in R.pcb[s].unacked : CtrlFlags(p0, "SYN") = x.flags /\ p0.snd_nxt = x.seq
  <2> DEFINE x == [seq |-> p0.snd_nxt, flags |-> CtrlFlags(p0, "SYN")]
  <2>1. x.flags = CtrlFlags(p0, "SYN") /\ x.seq = p0.snd_nxt  OBVIOUS
  <2>2. x \in R.pcb[s].unacked  BY <1>1, <1>4
  <2> HIDE DEF x
  <2> QED  BY <2>1, <2>2
<1>13. HostOK(h, Emit(R, R.pcb[s].lport, R.pcb[s].rport, CtrlFlags(p0, "SYN"), p0.snd_nxt,
                      R.pcb[s].rcv_nxt), N, B)
  BY <1>2, <1>10, <1>11, <1>12, EmitHost
<1> QED  BY <1>4, <1>9, <1>13

(* tcp_connect, before the SYN                                             *)
Connecting(M, s) ==
  LET port == NewPort(M)
  IN  [M EXCEPT !.active = <<s>> \o @, !.port = port,
                !.pcb[s] = [@ EXCEPT !.held = TRUE, !.state = "SYN_SENT",
                                     !.lport = port, !.rport = Server,
                                     !.snd_nxt = M.iss - 1, !.lastack = M.iss - 1]]

LEMMA ConnectHost ==
  ASSUME NEW h \in Hosts, NEW S, NEW N, NEW B, HostOK(h, S, N, B), NEW s \in FreePcbs(S),
         h \in Clients
  PROVE  LET M == NewPcb(S, s)
             R == Connecting(M, s)
         IN  /\ HostOK(h, SendCtrl(R, s, "SYN"), N, B)
             /\ HostOK(h, [R EXCEPT !.pcb[s].snd_nxt = M.iss], N, B)
<1> DEFINE M == NewPcb(S, s)
           i == S.iss + Ticks
           port == NewPort(M)
           p0 == [M.pcb[s] EXCEPT !.held = TRUE, !.state = "SYN_SENT",
                                  !.lport = port, !.rport = Server,
                                  !.snd_nxt = i - 1, !.lastack = i - 1]
           a == Push(s, S.active)
           R == Connecting(M, s)
<1>1. /\ S \in HostTypes(h) /\ s \in Pool[h] /\ S.pcb \in [Pool[h] -> Pcbs]
      /\ s \notin Members(S.active) /\ s \notin Members(S.tw)
      /\ S.active \in Seq(Pool[h]) /\ S.iss \in Nat
  BY HostFacts, FreeFacts
<1>2. /\ M \in HostTypes(h) /\ i \in Nat /\ M.iss = i /\ M.active = S.active
      /\ M.tw = S.tw /\ M.listen = S.listen /\ M.port = S.port /\ M.out = S.out
      /\ M.pcb = [S.pcb EXCEPT ![s] = M.pcb[s]] /\ M.pcb[s] \in Pcbs
      /\ M.pcb[s] = Fresh(i)
  BY <1>1, NewPcbFields
<1>3. i > 2 /\ i - 1 \in Nat /\ (i - 1) + 1 = i  BY <1>1, ConnAssumption
<1> HIDE DEF i, M
<1>4. port \in Ports /\ port \notin PortsInUse(M)  BY <1>2, NewPortFree
<1>5. port \in Nat /\ Server \in Nat  BY <1>4, ConnAssumption DEF Ports
<1>6. a \in Seq(Pool[h]) /\ Distinct(a)
  BY <1>1, PushList DEF HostOK, Lists
<1> HIDE DEF port, a
<1>7. p0 \in Pcbs  BY <1>2, <1>3, <1>5 DEF Pcbs, States
<1>8. /\ p0.used = TRUE /\ p0.state = "SYN_SENT" /\ p0.lport = port /\ p0.rport = Server
      /\ p0.snd_nxt = i - 1 /\ p0.lastack = i - 1 /\ p0.rcv_nxt = 0 /\ p0.delay = FALSE
      /\ p0.unacked = {}
  BY <1>2 DEF Fresh, NoPcb
<1>9. R = [M EXCEPT !.active = a, !.port = port, !.pcb[s] = p0]
  <2>1. [M EXCEPT !.active = a, !.port = port].pcb[s] = M.pcb[s]  BY <1>2 DEF HostTypes
  <2> QED  BY <1>2, <2>1 DEF Connecting, Push, port, a
<1> HIDE DEF R, p0
<1>10. /\ R \in HostTypes(h) /\ R.pcb = [M.pcb EXCEPT ![s] = p0] /\ R.iss = i /\ R.out = S.out
       /\ R.tw = S.tw /\ R.listen = S.listen /\ R.active = a
  BY <1>1, <1>2, <1>4, <1>6, <1>7, <1>9 DEF HostTypes
<1>11. R.pcb = [S.pcb EXCEPT ![s] = p0] /\ R.pcb[s] = p0  BY <1>1, <1>2, <1>10
<1>12. ASSUME NEW q \in Pcbs, q.state = "SYN_SENT", q.lport = port, q.rport = Server,
              q.snd_nxt = i, q.lastack = i - 1, q.rcv_nxt = 0, q.delay = FALSE,
              q.unacked \subseteq {[seq |-> i - 1, flags |-> {"SYN"}]}
       PROVE  World(h, WithPcb(Side(S, N), i, s, q), B)
  <2>1. World(h, Side(S, N), B) /\ Side(S, N).pcb = S.pcb /\ Side(S, N).iss = S.iss
    BY HostFacts DEF HostOK
  <2>2. \A t \in Pool[h] \ {s} : Apart(q, S.pcb[t])
    <3> TAKE t \in Pool[h] \ {s}
    <3> SUFFICES ASSUME Live(S.pcb[t]) PROVE q.lport # S.pcb[t].lport  BY DEF Apart
    <3>1. t \in Members(M.active) \cup Members(M.tw)  BY <1>2, ActivePcb
    <3>2. M.pcb[t] = S.pcb[t]  BY <1>1, <1>2
    <3>3. M.pcb[t].lport \in PortsInUse(M)  BY <3>1 DEF PortsInUse
    <3> QED  BY <1>4, <1>12, <3>2, <3>3
  <2>3. i = Side(S, N).iss + Ticks  BY <2>1 DEF i
  <2> QED  BY <1>1, <1>4, <1>12, <2>1, <2>2, <2>3, NewClientPcb
<1>13. HostOK(h, SendCtrl(R, s, "SYN"), N, B)
  <2> DEFINE q == CtrlPcb(p0, "SYN")
  <2>1. /\ q \in Pcbs /\ q.state = p0.state /\ q.lport = p0.lport
        /\ q.rport = p0.rport /\ q.lastack = p0.lastack /\ q.rcv_nxt = p0.rcv_nxt
        /\ q.snd_nxt = p0.snd_nxt + 1 /\ q.delay = FALSE
        /\ q.unacked = {[seq |-> p0.snd_nxt, flags |-> CtrlFlags(p0, "SYN")]}
    BY <1>7, <1>8, CtrlPcbFields
  <2>2. CtrlFlags(p0, "SYN") = {"SYN"}  BY <1>8 DEF CtrlFlags
  <2> HIDE DEF q
  <2>3. World(h, WithPcb(Side(S, N), i, s, q), B)
    <3>1. q.snd_nxt = i  BY <1>3, <1>8, <2>1
    <3>2. q.unacked \subseteq {[seq |-> i - 1, flags |-> {"SYN"}]}  BY <1>8, <2>1, <2>2
    <3> QED  BY <1>8, <1>12, <2>1, <3>1, <3>2
  <2>4. p0.state \in Opening /\ p0.lastack = p0.snd_nxt /\ R.active = Push(s, S.active)
        /\ R.iss = S.iss + Ticks
    BY <1>8, <1>10 DEF Opening, a, i
  <2> QED  BY <1>7, <1>8, <1>10, <1>11, <2>3, <2>4, OpenHost DEF q
<1>14. HostOK(h, [R EXCEPT !.pcb[s].snd_nxt = M.iss], N, B)
  <2> DEFINE q == [p0 EXCEPT !.snd_nxt = i]
             T == [R EXCEPT !.pcb[s] = q]
  <2>1. /\ q \in Pcbs /\ q.state = p0.state /\ q.lport = p0.lport /\ q.used = p0.used
        /\ q.rport = p0.rport /\ q.lastack = p0.lastack /\ q.rcv_nxt = p0.rcv_nxt
        /\ q.snd_nxt = i /\ q.delay = p0.delay /\ q.unacked = p0.unacked
    BY <1>2, <1>7 DEF Pcbs
  <2>2. [R EXCEPT !.pcb[s].snd_nxt = M.iss] = T  BY <1>2, <1>11
  <2> HIDE DEF q
  <2>3. World(h, WithPcb(Side(S, N), i, s, q), B)  BY <1>8, <1>12, <2>1
  <2>4. /\ T \in HostTypes(h) /\ T.pcb = [R.pcb EXCEPT ![s] = q] /\ T.iss = i
        /\ T.out = S.out /\ T.tw = S.tw /\ T.listen = S.listen /\ T.active = a
    BY <1>1, <1>10, <2>1 DEF HostTypes
  <2>5. T.pcb = [S.pcb EXCEPT ![s] = q]  BY <1>1, <1>11, <2>4
  <2> HIDE DEF T
  <2>6. ListenOK(h, T.listen)  BY <2>4 DEF HostOK, Lists
  <2>7. q.state \in Opening /\ q.used = TRUE /\ q.lastack <= q.snd_nxt
        /\ T.active = Push(s, S.active) /\ T.iss = S.iss + Ticks
    BY <1>3, <1>8, <2>1, <2>4 DEF Opening, a, i
  <2>8. World(h, WithPcb(Side(S, N), T.iss, s, q), B)  BY <2>3, <2>4
  <2>9. HostOK(h, T, N, B)  BY <2>1, <2>4, <2>5, <2>6, <2>7, <2>8, NewHost
  <2> QED  BY <2>2, <2>9
<1> QED  BY <1>13, <1>14 DEF M, R

(* tcp_listen_input, before the SYN                                        *)
Answering(M, s, m) ==
  [M EXCEPT !.active = <<s>> \o @,
            !.pcb[s] = [@ EXCEPT !.state = "SYN_RCVD", !.lport = m.dport,
                                 !.rport = m.sport, !.rcv_nxt = m.seq + 1]]

LEMMA AnswerHost ==
  ASSUME NEW h \in Hosts, NEW S, NEW N, NEW B, HostOK(h, S, N, B), NEW s \in FreePcbs(S),
         h \notin Clients, NEW m \in B.sent, "RST" \notin m.flags, "ACK" \notin m.flags,
         m.dport = Server, \A t \in Pool[h] : Live(S.pcb[t]) => ~Matches(S.pcb[t], m)
  PROVE  HostOK(h, SendCtrl(Answering(NewPcb(S, s), s, m), s, "SYN"), N, B)
<1> DEFINE M == NewPcb(S, s)
           i == S.iss + Ticks
           p0 == [M.pcb[s] EXCEPT !.state = "SYN_RCVD", !.lport = m.dport,
                                  !.rport = m.sport, !.rcv_nxt = m.seq + 1]
           a == Push(s, S.active)
           R == Answering(M, s, m)
           q == CtrlPcb(p0, "SYN")
<1>1. /\ S \in HostTypes(h) /\ s \in Pool[h] /\ S.pcb \in [Pool[h] -> Pcbs]
      /\ s \notin Members(S.active) /\ S.active \in Seq(Pool[h]) /\ S.iss \in Nat
  BY HostFacts, FreeFacts
<1>2. /\ M \in HostTypes(h) /\ i \in Nat /\ M.iss = i /\ M.active = S.active
      /\ M.tw = S.tw /\ M.listen = S.listen /\ M.port = S.port /\ M.out = S.out
      /\ M.pcb = [S.pcb EXCEPT ![s] = M.pcb[s]] /\ M.pcb[s] \in Pcbs
      /\ M.pcb[s] = Fresh(i)
  BY <1>1, NewPcbFields
<1> HIDE DEF i, M
<1>3. World(h, Side(S, N), B) /\ Side(S, N).pcb = S.pcb /\ Side(S, N).iss = S.iss
  BY HostFacts DEF HostOK
<1>4. m.seq \in Nat /\ m.sport \in Nat /\ m.dport \in Nat  BY <1>3, WorldFacts, MsgType
<1>5. m.seq + 1 \in Nat  BY <1>4
<1>6. a \in Seq(Pool[h]) /\ Distinct(a)
  BY <1>1, PushList DEF HostOK, Lists
<1> HIDE DEF a
<1>7. p0 \in Pcbs  BY <1>2, <1>4, <1>5 DEF Pcbs, States
<1>8. /\ p0.used = TRUE /\ p0.state = "SYN_RCVD" /\ p0.lport = m.dport /\ p0.rport = m.sport
      /\ p0.snd_nxt = i /\ p0.lastack = i /\ p0.rcv_nxt = m.seq + 1 /\ p0.delay = FALSE
  BY <1>2 DEF Fresh, NoPcb
<1>9. R = [M EXCEPT !.active = a, !.pcb[s] = p0]
  <2>1. [M EXCEPT !.active = a].pcb[s] = M.pcb[s]  BY <1>2 DEF HostTypes
  <2> QED  BY <1>2, <2>1 DEF Answering, Push, a
<1> HIDE DEF R, p0
<1>10. /\ R \in HostTypes(h) /\ R.pcb = [M.pcb EXCEPT ![s] = p0] /\ R.iss = i /\ R.out = S.out
       /\ R.tw = S.tw /\ R.listen = S.listen /\ R.active = a
  BY <1>1, <1>2, <1>6, <1>7, <1>9 DEF HostTypes
<1>11. R.pcb = [S.pcb EXCEPT ![s] = p0]  BY <1>1, <1>2, <1>10
<1>12. /\ q \in Pcbs /\ q.state = p0.state /\ q.lport = p0.lport
       /\ q.rport = p0.rport /\ q.lastack = p0.lastack /\ q.rcv_nxt = p0.rcv_nxt
       /\ q.snd_nxt = p0.snd_nxt + 1 /\ q.delay = FALSE
       /\ q.unacked = {[seq |-> p0.snd_nxt, flags |-> CtrlFlags(p0, "SYN")]}
  BY <1>7, <1>8, CtrlPcbFields
<1>13. CtrlFlags(p0, "SYN") = {"SYN", "ACK"}  BY <1>8 DEF CtrlFlags
<1> HIDE DEF q
<1>14. World(h, WithPcb(Side(S, N), i, s, q), B)
  <2>1. \A t \in Pool[h] \ {s} : Apart(q, S.pcb[t])
    BY <1>8, <1>12 DEF Apart, Matches
  <2>2. i = Side(S, N).iss + Ticks  BY <1>3 DEF i
  <2>3. q.unacked \subseteq {[seq |-> i, flags |-> {"SYN", "ACK"}]}  BY <1>8, <1>12, <1>13
  <2>4. /\ q.state = "SYN_RCVD" /\ q.lport = Server /\ m.dport = q.lport /\ q.rport = m.sport
        /\ q.snd_nxt = i + 1 /\ q.lastack = i /\ q.rcv_nxt = m.seq + 1 /\ q.delay = FALSE
    BY <1>8, <1>12
  <2> QED  BY <1>1, <1>3, <1>12, <2>1, <2>2, <2>3, <2>4, NewServerPcb
<1>15. p0.state \in Opening /\ p0.lastack = p0.snd_nxt /\ R.active = Push(s, S.active)
       /\ R.iss = S.iss + Ticks
  BY <1>8, <1>10 DEF Opening, a, i
<1>16. HostOK(h, SendCtrl(R, s, "SYN"), N, B)
  BY <1>7, <1>8, <1>10, <1>11, <1>14, <1>15, OpenHost DEF q
<1> QED  BY <1>16 DEF M, R

-----------------------------------------------------------------------------
(* The FIN.                                                                *)

LEMMA FinHost ==
  ASSUME NEW h \in Hosts, NEW S, NEW N, NEW B, HostOK(h, S, N, B), NEW s \in Pool[h],
         NEW b \in {"FIN_WAIT_1", "LAST_ACK"}, S.pcb[s].state \in {"ESTABLISHED", "CLOSE_WAIT"}
  PROVE  HostOK(h, [SendCtrl(S, s, "FIN") EXCEPT !.pcb[s].state = b], N, B)
<1> DEFINE p0 == S.pcb[s]
           p1 == CtrlPcb(p0, "FIN")
           p == [p1 EXCEPT !.state = b]
           R == [S EXCEPT !.pcb[s] = p]
           fl == CtrlFlags(p0, "FIN")
<1>1. S \in HostTypes(h) /\ S.pcb \in [Pool[h] -> Pcbs] /\ p0 \in Pcbs  BY HostFacts
<1>2. fl = {"FIN", "ACK"}  BY DEF CtrlFlags
<1>3. /\ p1 \in Pcbs /\ p1.used = p0.used /\ p1.lport = p0.lport
      /\ p1.rport = p0.rport /\ p1.lastack = p0.lastack /\ p1.rcv_nxt = p0.rcv_nxt
      /\ p1.snd_nxt = p0.snd_nxt + 1 /\ p1.unacked = {[seq |-> p0.snd_nxt, flags |-> fl]}
  BY <1>1, CtrlPcbFields
<1> HIDE DEF p1
<1>4. /\ p \in Pcbs /\ p.used = p1.used /\ p.lport = p1.lport /\ p.state = b
      /\ p.rport = p1.rport /\ p.lastack = p1.lastack /\ p.rcv_nxt = p1.rcv_nxt
      /\ p.snd_nxt = p1.snd_nxt /\ p.unacked = p1.unacked
  BY <1>3 DEF Pcbs, States
<1> HIDE DEF p
<1>5. HostOK(h, R, N, B)
  <2>1. World(h, Side(S, N), B) /\ Side(S, N).pcb = S.pcb  BY HostFacts DEF HostOK
  <2>2. p.unacked = {[seq |-> p0.snd_nxt, flags |-> {"FIN", "ACK"}]}  BY <1>2, <1>3, <1>4
  <2>3. World(h, [Side(S, N) EXCEPT !.pcb[s] = p], B)
    BY <1>3, <1>4, <2>1, <2>2, FinPcb DEF SamePlace
  <2>4. Listed(p0, s \in Members(S.active), s \in Members(S.tw))  BY DEF HostOK, Lists
  <2>5. p0.snd_nxt \in Nat /\ p0.lastack \in Nat  BY <1>1, PcbType
  <2>6. p.lastack <= p.snd_nxt  BY <1>3, <1>4, <2>4, <2>5 DEF Listed
  <2>7. Listed(p, s \in Members(S.active), s \in Members(S.tw))
    BY <1>3, <1>4, <2>4, <2>6 DEF Listed, Live, OnActive, Opening, Synchronized
  <2> QED  BY <1>4, <2>3, <2>7, PutPcb
<1>6. R.pcb[s] = p  BY <1>1 DEF HostTypes
<1>7. [SendCtrl(S, s, "FIN") EXCEPT !.pcb[s].state = b]
      = Emit(R, p.lport, p.rport, fl, p0.snd_nxt, p.rcv_nxt)
  <2> DEFINE S1 == [S EXCEPT !.pcb[s] = p1]
             E == Emit(S1, p0.lport, p0.rport, fl, p0.snd_nxt, p0.rcv_nxt)
  <2>1. SendCtrl(S, s, "FIN") = E  BY <1>1, SendCtrlEmits DEF p1
  <2>2. S1 \in HostTypes(h) /\ S1.pcb[s] = p1  BY <1>1, <1>3 DEF HostTypes
  <2>3. E.pcb = S1.pcb  BY <2>2 DEF Emit, HostTypes
  <2> HIDE DEF E
  <2>4. [E EXCEPT !.pcb[s].state = b] = [E EXCEPT !.pcb[s] = p]  BY <2>2, <2>3 DEF p
  <2> HIDE DEF S1
  <2>5. [E EXCEPT !.pcb[s] = p]
        = Emit([S1 EXCEPT !.pcb[s] = p], p0.lport, p0.rport, fl, p0.snd_nxt, p0.rcv_nxt)
    BY <2>2, EmitLater DEF E
  <2>6. [S1 EXCEPT !.pcb[s] = p] = R  BY <1>1 DEF S1, HostTypes
  <2>7. [SendCtrl(S, s, "FIN") EXCEPT !.pcb[s].state = b] = [E EXCEPT !.pcb[s].state = b]
    BY <2>1, Zenon
  <2>8. [SendCtrl(S, s, "FIN") EXCEPT !.pcb[s].state = b]
        = Emit(R, p0.lport, p0.rport, fl, p0.snd_nxt, p0.rcv_nxt)
    BY <2>4, <2>5, <2>6, <2>7, Zenon
  <2> HIDE DEF R
  <2> QED  BY <1>3, <1>4, <2>8
<1> HIDE DEF R, fl
<1>8. Live(R.pcb[s])  BY <1>4, <1>6 DEF Live
<1>9. \E x \in R.pcb[s].unacked : fl = x.flags /\ p0.snd_nxt = x.seq
  <2> DEFINE x == [seq |-> p0.snd_nxt, flags |-> fl]
  <2>1. x.flags = fl /\ x.seq = p0.snd_nxt  OBVIOUS
  <2>2. x \in R.pcb[s].unacked  BY <1>3, <1>4, <1>6
  <2> HIDE DEF x
  <2> QED  BY <2>1, <2>2
<1>10. HostOK(h, Emit(R, R.pcb[s].lport, R.pcb[s].rport, fl, p0.snd_nxt, R.pcb[s].rcv_nxt), N, B)
  BY <1>5, <1>8, <1>9, EmitHost
<1> QED  BY <1>6, <1>7, <1>10

-----------------------------------------------------------------------------
(* The two hosts and the network.                                          *)

(* All that h has sent before this step.                                   *)
Sent(h) == {x.seg : x \in {y \in net : y.to = Other(h)}}

(* The other side, as it is between two steps.                             *)
Far(h) == Side(host[Other(h)], Sent(Other(h)))

(* The inductive invariant.                                                *)
IInv ==
  /\ DOMAIN host = Hosts /\ host = [h \in Hosts |-> host[h]]
  /\ net \subseteq [to : Hosts, seg : Messages]
  /\ \A h \in Hosts : host[h].out = {} /\ HostOK(h, host[h], Sent(h), Far(h))

LEMMA Received ==
  ASSUME IInv, NEW h \in Hosts, NEW m, [to |-> h, seg |-> m] \in net
  PROVE  m \in Far(h).sent /\ m \in Messages
<1> DEFINE x == [to |-> h, seg |-> m]
<1>1. x.to = h /\ x.seg = m /\ x \in net  OBVIOUS
<1>2. x \in [to : Hosts, seg : Messages]  BY <1>1 DEF IInv
<1>3. Other(Other(h)) = h  BY OtherHost
<1> HIDE DEF x
<1>4. m \in Sent(Other(h))  BY <1>1, <1>3 DEF Sent
<1>5. m \in Messages  BY <1>1, <1>2
<1> QED  BY <1>4, <1>5 DEF Far, Side

LEMMA SentGrows ==
  ASSUME IInv, NEW h \in Hosts, NEW S, S.out \subseteq Messages, Becomes(h, S)
  PROVE  /\ Sent(h)' = Sent(h) \cup S.out /\ Sent(Other(h))' = Sent(Other(h))
         /\ net' \subseteq [to : Hosts, seg : Messages]
<1> DEFINE new == {[to |-> Other(h), seg |-> m] : m \in S.out}
<1>1. /\ Other(h) \in Hosts /\ Other(h) # h /\ Other(Other(h)) = h  BY OtherHost
<1>2. net' = net \cup new /\ net \subseteq [to : Hosts, seg : Messages]  BY DEF Becomes, IInv
<1>3. \A x \in new : x.to = Other(h) /\ x.seg \in S.out /\ x \in [to : Hosts, seg : Messages]
  BY <1>1
<1>4. \A m \in S.out : [to |-> Other(h), seg |-> m] \in new /\ [to |-> Other(h), seg |-> m].seg = m
                       /\ [to |-> Other(h), seg |-> m].to = Other(h)
  OBVIOUS
<1> HIDE DEF new
<1>5. Sent(h)' = {x.seg : x \in {y \in net' : y.to = Other(h)}}  BY DEF Sent
<1>6. Sent(Other(h))' = {x.seg : x \in {y \in net' : y.to = Other(Other(h))}}  BY DEF Sent
<1>7. Sent(h)' = Sent(h) \cup S.out
  <2>1. ASSUME NEW m \in Sent(h)' PROVE m \in Sent(h) \cup S.out
    <3>1. PICK x \in net' : x.to = Other(h) /\ x.seg = m  BY <1>5, <2>1
    <3>2. CASE x \in net  BY <3>1, <3>2 DEF Sent
    <3>3. CASE x \in new  BY <3>1, <3>3, <1>3
    <3> QED  BY <3>2, <3>3, <1>2
  <2>2. ASSUME NEW m \in Sent(h) PROVE m \in Sent(h)'
    <3>1. PICK x \in net : x.to = Other(h) /\ x.seg = m  BY <2>2 DEF Sent
    <3> QED  BY <3>1, <1>2, <1>5
  <2>3. ASSUME NEW m \in S.out PROVE m \in Sent(h)'
    <3> DEFINE x == [to |-> Other(h), seg |-> m]
    <3>1. x \in net' /\ x.to = Other(h) /\ x.seg = m  BY <1>2, <1>4
    <3> HIDE DEF x
    <3> QED  BY <3>1, <1>5
  <2> QED  BY <2>1, <2>2, <2>3
<1>8. Sent(Other(h))' = Sent(Other(h))
  <2>1. {y \in net' : y.to = Other(Other(h))} = {y \in net : y.to = Other(Other(h))}
    BY <1>1, <1>2, <1>3
  <2> QED  BY <1>6, <2>1 DEF Sent
<1> QED  BY <1>2, <1>3, <1>7, <1>8

LEMMA BecomesOK ==
  ASSUME IInv, NEW h \in Hosts, NEW S, HostOK(h, S, Sent(h), Far(h)), Becomes(h, S)
  PROVE  IInv'
<1> DEFINE g == Other(h)
           T == [S EXCEPT !.out = {}]
           A == Side(S, Sent(h))
<1>1. S \in HostTypes(h) /\ S.out \subseteq Messages  BY HostFacts
<1>2. /\ Sent(h)' = Sent(h) \cup S.out /\ Sent(g)' = Sent(g)
      /\ net' \subseteq [to : Hosts, seg : Messages]
  BY <1>1, SentGrows
<1>3. /\ g \in Hosts /\ g # h /\ Other(g) = h /\ \A x \in Hosts : x = h \/ x = g
  BY OtherHost
<1>4. host' = [host EXCEPT ![h] = T] /\ DOMAIN host = Hosts
      /\ host = [x \in Hosts |-> host[x]]
  BY DEF Becomes, IInv
<1>5. /\ T \in HostTypes(h) /\ T.pcb = S.pcb /\ T.active = S.active /\ T.tw = S.tw
      /\ T.listen = S.listen /\ T.iss = S.iss /\ T.out = {}
  BY <1>1 DEF HostTypes
<1> HIDE DEF T, g
<1>6. host'[h] = T /\ host'[g] = host[g] /\ DOMAIN host' = Hosts
      /\ host' = [x \in Hosts |-> host'[x]]
  BY <1>3, <1>4
<1>7. Side(T, Sent(h)') = A
  <2>1. Sent(h)' \cup {} = Sent(h) \cup S.out  BY <1>2
  <2> QED  BY <1>5, <2>1 DEF Side
<1>8. Far(h)' = Far(h)
  <2>1. Far(h)' = Side(host'[g], Sent(g)')  BY DEF Far, g
  <2> QED  BY <1>2, <1>6, <2>1 DEF Far, g
<1>9. Far(g)' = A
  <2>1. Far(g)' = Side(host'[Other(g)], Sent(Other(g))')  BY DEF Far
  <2> QED  BY <1>3, <1>6, <1>7, <2>1
<1>10. HostOK(h, T, Sent(h)', Far(h)')
  <2>1. Lists(h, T)  BY <1>5 DEF HostOK, Lists
  <2>2. World(h, A, Far(h))  BY DEF HostOK
  <2> QED  BY <1>7, <1>8, <2>1, <2>2 DEF HostOK
<1>11. HostOK(g, host[g], Sent(g)', Far(g)') /\ host[g].out = {}
  <2>1. Lists(g, host[g]) /\ host[g].out = {}  BY <1>3 DEF IInv, HostOK
  <2>2. World(h, A, Far(h))  BY DEF HostOK
  <2>3. Far(h) = Side(host[g], Sent(g))  BY DEF Far, g
  <2> HIDE DEF A
  <2>4. World(g, Far(h), A)  BY <2>2, WorldSwap DEF g
  <2> QED  BY <1>2, <1>9, <2>1, <2>3, <2>4 DEF HostOK
<1>12. \A x \in Hosts : host'[x].out = {} /\ HostOK(x, host'[x], Sent(x)', Far(x)')
  <2> TAKE x \in Hosts
  <2>1. CASE x = h  BY <2>1, <1>5, <1>6, <1>10
  <2>2. CASE x = g  BY <2>2, <1>6, <1>11
  <2> QED  BY <1>3, <2>1, <2>2
<1> QED  BY <1>2, <1>6, <1>12 DEF IInv

-----------------------------------------------------------------------------
(* The calls of the application.                                           *)

LEMMA HostNow ==
  ASSUME IInv, NEW h \in Hosts
  PROVE  HostOK(h, host[h], Sent(h), Far(h))
BY DEF IInv

LEMMA ListenStep ==
  ASSUME IInv, NEW h \in Hosts, Listen(h)
  PROVE  IInv'
<1>1. PICK S \in Allocate(host[h]) :
        IF FreePcbs(S) = {} THEN Becomes(h, S)
        ELSE LET s == CHOOSE x \in FreePcbs(S) : TRUE
                 N == NewPcb(S, s)
             IN  IF Server \in PortsActive(N)
                 THEN Becomes(h, [N EXCEPT !.pcb[s].held = TRUE])
                 ELSE IF Len(N.listen) = Listeners
                 THEN Becomes(h, [N EXCEPT !.pcb[s].state = "LISTEN", !.pcb[s].lport = Server])
                 ELSE Becomes(h, [Free(N, s) EXCEPT !.listen = <<Server>> \o @])
  BY DEF Listen
<1>2. HostOK(h, S, Sent(h), Far(h))  BY HostNow, AllocateHost
<1>3. CASE FreePcbs(S) = {}  BY <1>1, <1>2, <1>3, BecomesOK
<1>4. CASE FreePcbs(S) # {}
  <2> DEFINE s == CHOOSE x \in FreePcbs(S) : TRUE
             M == NewPcb(S, s)
             B1 == [M EXCEPT !.pcb[s].held = TRUE]
             B3 == [Free(M, s) EXCEPT !.listen = <<Server>> \o @]
  <2>1. s \in FreePcbs(S)  BY <1>4
  <2> HIDE DEF s
  <2>2. HostOK(h, B1, Sent(h), Far(h))  BY <1>2, <2>1, BindHost
  <2>3. Server \notin PortsActive(M) =>
          Len(M.listen) # Listeners /\ HostOK(h, B3, Sent(h), Far(h))
    BY <1>2, <2>1, ListenHost DEF Listen
  <2>4. \/ Becomes(h, B1)
        \/ Server \notin PortsActive(M) /\ Becomes(h, B3)
    BY <1>1, <1>4, <2>3 DEF s
  <2> HIDE DEF B1, B3
  <2> QED  BY <2>2, <2>3, <2>4, BecomesOK
<1> QED  BY <1>3, <1>4

LEMMA CloseListenStep ==
  ASSUME IInv, NEW h \in Hosts, NEW port, CloseListen(h, port)
  PROVE  IInv'
<1> DEFINE S == host[h]
           q == Without(S.listen, port)
           R == [S EXCEPT !.listen = q]
<1>1. HostOK(h, S, Sent(h), Far(h))  BY HostNow
<1>2. S \in HostTypes(h) /\ S.listen \in Seq({Server})  BY <1>1, HostFacts
<1>3. ListenOK(h, S.listen)  BY <1>1 DEF HostOK, Lists
<1>4. Len(S.listen) \in Nat /\ Len(S.listen) <= 1  BY <1>2, <1>3 DEF ListenOK
<1>5. Distinct(S.listen)  BY <1>4 DEF Distinct
<1>6. q \in Seq({Server}) /\ Len(q) <= Len(S.listen)  BY <1>2, <1>5, WithoutList
<1>7. h \notin Clients
  <2>1. S.listen # << >>  BY DEF CloseListen, Members
  <2> QED  BY <1>3, <2>1 DEF ListenOK
<1> HIDE DEF q
<1>8. ListenOK(h, q)
  <2>1. Len(q) \in Nat  BY <1>6
  <2>2. Len(q) <= 1  BY <1>4, <1>6, <2>1
  <2> QED  BY <1>7, <2>2 DEF ListenOK
<1>9. /\ R \in HostTypes(h) /\ R.pcb = S.pcb /\ R.active = S.active /\ R.tw = S.tw
      /\ R.listen = q /\ R.iss = S.iss /\ R.out = S.out
  BY <1>2, <1>6 DEF HostTypes
<1>10. Becomes(h, R)  BY DEF CloseListen, q
<1> HIDE DEF R, S
<1>11. Lists(h, R)  BY <1>1, <1>8, <1>9 DEF HostOK, Lists
<1>12. Side(R, Sent(h)) = Side(S, Sent(h))  BY <1>9 DEF Side
<1>13. HostOK(h, R, Sent(h), Far(h))  BY <1>1, <1>11, <1>12 DEF HostOK
<1> QED  BY <1>10, <1>13, BecomesOK

LEMMA ConnectStep ==
  ASSUME IInv, NEW h \in Hosts, NEW memory, Connect(h, memory)
  PROVE  IInv'
<1>1. PICK S \in Allocate(host[h]) :
        IF FreePcbs(S) = {} THEN Becomes(h, S)
        ELSE LET s == CHOOSE x \in FreePcbs(S) : TRUE
                 N == NewPcb(S, s)
                 R == Connecting(N, s)
             IN  IF memory THEN Becomes(h, SendCtrl(R, s, "SYN"))
                 ELSE Becomes(h, [R EXCEPT !.pcb[s].snd_nxt = N.iss])
  BY Zenon DEF Connect, Connecting
<1>2. HostOK(h, S, Sent(h), Far(h)) /\ h \in Clients  BY HostNow, AllocateHost DEF Connect
<1>3. CASE FreePcbs(S) = {}  BY <1>1, <1>2, <1>3, BecomesOK
<1>4. CASE FreePcbs(S) # {}
  <2> DEFINE s == CHOOSE x \in FreePcbs(S) : TRUE
             M == NewPcb(S, s)
             R == Connecting(M, s)
             B1 == SendCtrl(R, s, "SYN")
             B2 == [R EXCEPT !.pcb[s].snd_nxt = M.iss]
  <2>1. s \in FreePcbs(S)  BY <1>4
  <2> HIDE DEF s
  <2>2. HostOK(h, B1, Sent(h), Far(h)) /\ HostOK(h, B2, Sent(h), Far(h))
    BY <1>2, <2>1, ConnectHost
  <2>3. Becomes(h, B1) \/ Becomes(h, B2)  BY <1>1, <1>4 DEF s
  <2> HIDE DEF B1, B2
  <2> QED  BY <2>2, <2>3, BecomesOK
<1> QED  BY <1>3, <1>4

LEMMA CloseStep ==
  ASSUME IInv, NEW h \in Hosts, NEW s \in Pool[h], Close(h, s)
  PROVE  IInv'
<1> DEFINE H == host[h]
           p0 == H.pcb[s]
           p == [p0 EXCEPT !.held = FALSE]
           S == [H EXCEPT !.pcb[s] = p]
           next == [ESTABLISHED |-> "FIN_WAIT_1", CLOSE_WAIT |-> "LAST_ACK"]
           b == next[p.state]
           R1 == Free(PcbRemove(S, s), s)
           R2 == [SendCtrl(S, s, "FIN") EXCEPT !.pcb[s].state = b]
<1>1. HostOK(h, H, Sent(h), Far(h))  BY HostNow
<1>2. H \in HostTypes(h) /\ H.pcb \in [Pool[h] -> Pcbs] /\ p0 \in Pcbs  BY <1>1, HostFacts
<1>3. /\ p \in Pcbs /\ SamePlace(p, p0) /\ p.used = p0.used /\ p.snd_nxt = p0.snd_nxt
      /\ p.lastack = p0.lastack /\ p.rcv_nxt = p0.rcv_nxt /\ p.unacked = p0.unacked
      /\ p.state = p0.state /\ p.delay = p0.delay
  BY <1>2 DEF Pcbs, SamePlace
<1>4. p0.state \in Opening => p0.delay = FALSE  BY <1>1, ActivePcb
<1>5. S.pcb[s] = p  BY <1>2 DEF HostTypes
<1>6. \/ p.state = "SYN_SENT" /\ Becomes(h, R1)
      \/ p.state \in {"ESTABLISHED", "CLOSE_WAIT"} /\ Becomes(h, R2)
      \/ Becomes(h, S)
  <2>1. DOMAIN next = {"ESTABLISHED", "CLOSE_WAIT"}  OBVIOUS
  <2>2. [H EXCEPT !.pcb[s].held = FALSE] = S  OBVIOUS
  <2> HIDE DEF next, S, p
  <2>3. CASE p.state = "SYN_SENT"
    <3>1. p.state \notin DOMAIN next  BY <2>1, <2>3
    <3>2. Becomes(h, R1)  BY <1>5, <2>2, <2>3, <3>1 DEF Close, next
    <3> QED  BY <2>3, <3>2
  <2>4. CASE p.state \in DOMAIN next
    <3>1. p.state # "SYN_SENT"  BY <2>1, <2>4
    <3>2. Becomes(h, R2)  BY <1>5, <2>2, <2>4, <3>1 DEF Close, next
    <3> QED  BY <2>1, <2>4, <3>2
  <2>5. CASE p.state # "SYN_SENT" /\ p.state \notin DOMAIN next
    BY <1>5, <2>2, <2>5 DEF Close, next
  <2> QED  BY <2>3, <2>4, <2>5
<1>7. p.state \in {"ESTABLISHED", "CLOSE_WAIT"} => b \in {"FIN_WAIT_1", "LAST_ACK"}  OBVIOUS
<1> HIDE DEF p, b
<1>8. HostOK(h, S, Sent(h), Far(h))  BY <1>1, <1>3, <1>4, QuietHost
<1> HIDE DEF S
<1>9. p.state = "SYN_SENT" => HostOK(h, R1, Sent(h), Far(h))
  BY <1>5, <1>8, RemoveHost DEF Live
<1>10. p.state \in {"ESTABLISHED", "CLOSE_WAIT"} => HostOK(h, R2, Sent(h), Far(h))
  BY <1>5, <1>7, <1>8, FinHost
<1> HIDE DEF R1, R2
<1> QED  BY <1>6, <1>8, <1>9, <1>10, BecomesOK

LEMMA CloseFailsStep ==
  ASSUME IInv, NEW h \in Hosts, NEW s \in Pool[h], CloseFails(h, s)
  PROVE  IInv'
<1>1. Live(host[h].pcb[s]) /\ Becomes(h, Abort(host[h], s))  BY DEF CloseFails, Live
<1>2. HostOK(h, Abort(host[h], s), Sent(h), Far(h))  BY <1>1, HostNow, AbortHost
<1> QED  BY <1>1, <1>2, BecomesOK

-----------------------------------------------------------------------------
(* The timers and the want of memory.                                      *)

LEMMA FastTimerStep ==
  ASSUME IInv, NEW h \in Hosts, NEW s \in Pool[h], FastTimer(h, s)
  PROVE  IInv'
<1> DEFINE S == host[h]
<1>1. HostOK(h, S, Sent(h), Far(h))  BY HostNow
<1>2. s \in Members(S.active) /\ S.pcb[s].delay /\ Becomes(h, AckNow(S, s))  BY DEF FastTimer
<1> HIDE DEF S
<1>3. Live(S.pcb[s]) /\ S.pcb[s].state \notin Opening  BY <1>1, <1>2, ActivePcb
<1>4. HostOK(h, AckNow(S, s), Sent(h), Far(h))  BY <1>1, <1>3, AckNowHost
<1> QED  BY <1>2, <1>4, BecomesOK

LEMMA RetransmitStep ==
  ASSUME IInv, NEW h \in Hosts, NEW s \in Pool[h], NEW seg, Retransmit(h, s, seg)
  PROVE  IInv'
<1> DEFINE S == host[h]
           R == Emit(S, S.pcb[s].lport, S.pcb[s].rport, seg.flags, seg.seq, S.pcb[s].rcv_nxt)
<1>1. HostOK(h, S, Sent(h), Far(h))  BY HostNow
<1>2. s \in Members(S.active) /\ seg \in S.pcb[s].unacked /\ Becomes(h, R)
  BY DEF Retransmit, SendSegment
<1> HIDE DEF S
<1>3. Live(S.pcb[s])  BY <1>1, <1>2, ActivePcb
<1>4. HostOK(h, R, Sent(h), Far(h))  BY <1>1, <1>2, <1>3, EmitHost
<1> QED  BY <1>2, <1>4, BecomesOK

LEMMA ExpireStep ==
  ASSUME IInv, NEW h \in Hosts, NEW s \in Pool[h], Expire(h, s)
  PROVE  IInv'
<1> DEFINE S == host[h]
           a == Without(S.active, s)
           w == Without(S.tw, s)
           R == [[S EXCEPT !.active = a, !.tw = w] EXCEPT !.pcb[s] = NoPcb]
<1>1. HostOK(h, S, Sent(h), Far(h))  BY HostNow
<1>2. /\ S \in HostTypes(h) /\ S.active \in Seq(Pool[h]) /\ S.tw \in Seq(Pool[h])
      /\ Distinct(S.active) /\ Distinct(S.tw)
  BY <1>1, HostFacts DEF HostOK, Lists
<1>3. a \in Seq(Pool[h]) /\ w \in Seq(Pool[h])  BY <1>2, WithoutList
<1>4. Becomes(h, R)
  <2>1. [S EXCEPT !.active = a].tw = S.tw  BY <1>2 DEF HostTypes
  <2>2. [S EXCEPT !.active = Without(@, s), !.tw = Without(@, s)] = [S EXCEPT !.active = a, !.tw = w]
    BY <2>1
  <2>3. Becomes(h, Free([S EXCEPT !.active = Without(@, s), !.tw = Without(@, s)], s))
    BY Zenon DEF Expire
  <2> HIDE DEF S, a, w, NoPcb
  <2> QED  BY <2>2, <2>3 DEF Free
<1>5. NoPcb \in Pcbs  BY DEF NoPcb, Pcbs, States
<1> HIDE DEF S, a, w, NoPcb
<1>6. /\ R \in HostTypes(h) /\ R.pcb = [S.pcb EXCEPT ![s] = NoPcb] /\ R.iss = S.iss
      /\ R.out = S.out /\ R.listen = S.listen /\ R.active = a /\ R.tw = w
  BY <1>2, <1>3, <1>5 DEF HostTypes
<1> HIDE DEF R
<1>7. HostOK(h, R, Sent(h), Far(h))  BY <1>1, <1>6, DropHost DEF a, w
<1> QED  BY <1>4, <1>7, BecomesOK

LEMMA MemReclaimStep ==
  ASSUME IInv, NEW h \in Hosts, NEW s \in Pool[h], MemReclaim(h, s)
  PROVE  IInv'
<1>1. Becomes(h, Abort(host[h], s)) /\ s \in Members(host[h].active)  BY DEF MemReclaim
<1>2. Live(host[h].pcb[s])  BY <1>1, HostNow, ActivePcb
<1>3. HostOK(h, Abort(host[h], s), Sent(h), Far(h))  BY <1>2, HostNow, AbortHost
<1> QED  BY <1>1, <1>3, BecomesOK

-----------------------------------------------------------------------------
(* Segments.                                                               *)

LEMMA InputResetStep ==
  ASSUME IInv, NEW h \in Hosts, NEW s \in Pool[h], NEW m, InputReset(h, m, s)
  PROVE  IInv'
<1> DEFINE S == host[h]
           F == IF s \in Members(S.active) THEN ToFront(S, s) ELSE S
           p == [F.pcb[s] EXCEPT !.delay = FALSE]
           T == [F EXCEPT !.pcb[s] = p]
           R == Free(PcbRemove(T, s), s)
<1>1. HostOK(h, S, Sent(h), Far(h))  BY HostNow
<1>2. s \in Members(S.active) \/ s \in Members(S.tw)  BY DEF InputReset, Matching
<1>3. Becomes(h, R) \/ Becomes(h, F)
  <2>1. [F EXCEPT !.pcb[s].delay = FALSE] = T  OBVIOUS
  <2>2. Becomes(h, IF Acceptable(S.pcb[s], m)
                   THEN Free(PcbRemove([F EXCEPT !.pcb[s].delay = FALSE], s), s) ELSE F)
    BY Zenon DEF InputReset
  <2> HIDE DEF S, F, T
  <2> QED  BY <2>1, <2>2
<1> HIDE DEF S
<1>4. HostOK(h, F, Sent(h), Far(h)) /\ F.pcb = S.pcb  BY <1>1, ToFrontHost
<1>5. Live(S.pcb[s])  BY <1>1, <1>2, ActivePcb
<1> HIDE DEF F
<1>6. F.pcb[s] \in Pcbs /\ F \in HostTypes(h)  BY <1>4, HostFacts
<1>7. /\ p \in Pcbs /\ SamePlace(p, F.pcb[s]) /\ p.used = F.pcb[s].used
      /\ p.snd_nxt = F.pcb[s].snd_nxt /\ p.lastack = F.pcb[s].lastack
      /\ p.rcv_nxt = F.pcb[s].rcv_nxt /\ p.unacked = F.pcb[s].unacked
      /\ p.state = F.pcb[s].state /\ p.delay = FALSE
  BY <1>6 DEF Pcbs, SamePlace
<1> HIDE DEF p
<1>8. HostOK(h, T, Sent(h), Far(h))  BY <1>4, <1>7, QuietHost
<1>9. T.pcb[s] = p  BY <1>6 DEF HostTypes
<1> HIDE DEF T
<1>10. Live(T.pcb[s])  BY <1>4, <1>5, <1>7, <1>9 DEF Live
<1>11. HostOK(h, R, Sent(h), Far(h))  BY <1>8, <1>10, RemoveHost
<1> HIDE DEF R
<1> QED  BY <1>3, <1>4, <1>11, BecomesOK

LEMMA ArrivesFacts ==
  ASSUME IInv, NEW h \in Hosts, NEW s \in Pool[h], NEW m, NEW states, ArrivesIn(h, m, s, states)
  PROVE  LET F == ToFront(host[h], s)
         IN  /\ HostOK(h, F, Sent(h), Far(h)) /\ F.pcb[s].state \in states /\ F.pcb[s] \in Pcbs
             /\ Incoming(m, Far(h), F.pcb[s]) /\ m \in Messages /\ m \in Far(h).sent
             /\ F \in HostTypes(h)
<1> DEFINE S == host[h]
           F == ToFront(S, s)
<1>1. /\ [to |-> h, seg |-> m] \in net /\ s \in Members(S.active) /\ Matches(S.pcb[s], m)
      /\ "RST" \notin m.flags /\ S.pcb[s].state \in states
  BY DEF ArrivesIn, Arrives, Matching
<1>2. m \in Far(h).sent /\ m \in Messages  BY <1>1, Received
<1>3. HostOK(h, F, Sent(h), Far(h)) /\ F.pcb = S.pcb  BY <1>1, HostNow, ToFrontHost
<1> HIDE DEF F, S
<1>4. F.pcb[s] \in Pcbs /\ F \in HostTypes(h)  BY <1>3, HostFacts
<1>5. Incoming(m, Far(h), F.pcb[s])  BY <1>1, <1>2, <1>3 DEF Incoming
<1> QED  BY <1>1, <1>2, <1>3, <1>4, <1>5 DEF F, S

LEMMA InputSynSentStep ==
  ASSUME IInv, NEW h \in Hosts, NEW s \in Pool[h], NEW m, InputSynSent(h, m, s)
  PROVE  IInv'
<1> DEFINE F == ToFront(host[h], s)
           p0 == F.pcb[s]
           answer == {"SYN", "ACK"} \subseteq m.flags /\ \E x \in p0.unacked : m.ackno = x.seq + 1
           p == [p0 EXCEPT !.rcv_nxt = m.seq + 1, !.lastack = m.ackno, !.unacked = {},
                           !.state = "ESTABLISHED"]
           T == [F EXCEPT !.pcb[s] = p]
           N == Sent(h)
           B == Far(h)
<1>1. /\ HostOK(h, F, N, B) /\ p0.state = "SYN_SENT" /\ p0 \in Pcbs
      /\ Incoming(m, B, p0) /\ m \in Messages /\ m \in B.sent /\ F \in HostTypes(h)
  <2>1. ArrivesIn(h, m, s, {"SYN_SENT"})  BY DEF InputSynSent
  <2> QED  BY <2>1, ArrivesFacts
<1>2. Becomes(h, IF answer THEN AckDelayed(T, s) ELSE F)  BY Zenon DEF InputSynSent
<1> HIDE DEF F, N, B
<1>3. ASSUME answer PROVE HostOK(h, AckDelayed(T, s), N, B)
  <2>1. World(h, Side(F, N), B) /\ Side(F, N).pcb = F.pcb  BY <1>1, HostFacts DEF HostOK
  <2>2. m.seq \in Nat /\ m.ackno \in Nat /\ m.seq + 1 \in Nat  BY <1>1, MsgType
  <2>3. "ESTABLISHED" \in States  BY DEF States
  <2>4. p \in Pcbs  BY <1>1, <2>2, <2>3 DEF Pcbs
  <2>5. /\ p.lport = p0.lport /\ p.rport = p0.rport /\ p.used = p0.used
        /\ p.snd_nxt = p0.snd_nxt /\ p.lastack = m.ackno
        /\ p.rcv_nxt = m.seq + 1 /\ p.unacked = {} /\ p.state = "ESTABLISHED"
    BY <1>1 DEF Pcbs
  <2> HIDE DEF p
  <2>6. GoodPcb(h, p0, Side(F, N).iss, B.iss)  BY <2>1, WorldFacts DEF Fits
  <2>7. Live(p0)  BY <1>1 DEF Live
  <2>8. m.ackno = p0.snd_nxt
    <3>1. PICK x \in p0.unacked : m.ackno = x.seq + 1  BY <1>3
    <3>2. x.seq = p0.lastack /\ p0.snd_nxt = p0.lastack + 1
      BY <1>1, <2>6, <2>7 DEF GoodPcb, Opening
    <3> QED  BY <3>1, <3>2
  <2>9. AckFor(p0, m) /\ "SYN" \in m.flags  BY <1>1, <1>3, <2>7 DEF AckFor, Incoming
  <2>10. World(h, [Side(F, N) EXCEPT !.pcb[s] = p], B)
    BY <1>1, <2>1, <2>4, <2>5, <2>8, <2>9, AnsweredPcb DEF SamePlace
  <2>11. Listed(p0, s \in Members(F.active), s \in Members(F.tw))  BY <1>1 DEF HostOK, Lists
  <2>12. Listed(p, s \in Members(F.active), s \in Members(F.tw))
    <3>1. p.lastack <= p.snd_nxt  BY <2>2, <2>5, <2>8
    <3> QED  BY <1>1, <2>5, <2>11, <3>1 DEF Listed, Live, OnActive, Opening, Synchronized
  <2>13. HostOK(h, T, N, B)  BY <1>1, <2>4, <2>10, <2>12, PutPcb
  <2>14. T.pcb[s] = p  BY <1>1 DEF HostTypes
  <2> HIDE DEF T
  <2>15. Live(T.pcb[s]) /\ T.pcb[s].state \notin Opening  BY <2>5, <2>14 DEF Live, Opening
  <2> QED  BY <2>13, <2>15, AckDelayedHost
<1> HIDE DEF answer, T
<1> QED  BY <1>1, <1>2, <1>3, BecomesOK DEF N, B

LEMMA InputSynRcvdStep ==
  ASSUME IInv, NEW h \in Hosts, NEW s \in Pool[h], NEW m, NEW accepted,
         InputSynRcvd(h, m, s, accepted)
  PROVE  IInv'
<1> DEFINE F == ToFront(host[h], s)
           p0 == F.pcb[s]
           p == [p0 EXCEPT !.state = "ESTABLISHED", !.held = TRUE]
           T == [F EXCEPT !.pcb[s] = p]
           answer == "ACK" \in m.flags /\ p0.lastack < m.ackno /\ m.ackno <= p0.snd_nxt
           N == Sent(h)
           B == Far(h)
<1>1. /\ HostOK(h, F, N, B) /\ p0.state = "SYN_RCVD" /\ p0 \in Pcbs
      /\ Incoming(m, B, p0) /\ m \in Messages /\ m \in B.sent /\ F \in HostTypes(h)
  <2>1. ArrivesIn(h, m, s, {"SYN_RCVD"})  BY DEF InputSynRcvd
  <2> QED  BY <2>1, ArrivesFacts
<1>2. Becomes(h, IF ~answer THEN F ELSE IF accepted THEN Receive(T, s, m) ELSE Abort(T, s))
  BY Zenon DEF InputSynRcvd
<1> HIDE DEF F, N, B
<1>3. ASSUME answer
      PROVE  HostOK(h, Receive(T, s, m), N, B) /\ HostOK(h, Abort(T, s), N, B)
  <2>1. World(h, Side(F, N), B) /\ Side(F, N).pcb = F.pcb  BY <1>1, HostFacts DEF HostOK
  <2>2. m.ackno \in Nat /\ p0.lastack \in Nat  BY <1>1, MsgType, PcbType
  <2>3. "ESTABLISHED" \in States  BY DEF States
  <2>4. p \in Pcbs  BY <1>1, <2>3 DEF Pcbs
  <2>5. /\ p.lport = p0.lport /\ p.rport = p0.rport /\ p.used = p0.used
        /\ p.snd_nxt = p0.snd_nxt /\ p.lastack = p0.lastack
        /\ p.rcv_nxt = p0.rcv_nxt /\ p.unacked = p0.unacked /\ p.state = "ESTABLISHED"
    BY <1>1 DEF Pcbs
  <2> HIDE DEF p
  <2>6. AckFor(p0, m) /\ m.ackno > p0.lastack
    BY <1>1, <1>3, <2>2 DEF AckFor, Incoming, Live
  <2>7. World(h, [Side(F, N) EXCEPT !.pcb[s] = p], B)
    BY <1>1, <2>1, <2>4, <2>5, <2>6, AcceptedPcb DEF SamePlace
  <2>8. Listed(p0, s \in Members(F.active), s \in Members(F.tw))  BY <1>1 DEF HostOK, Lists
  <2>9. Listed(p, s \in Members(F.active), s \in Members(F.tw))
    BY <1>1, <2>5, <2>8 DEF Listed, Live, OnActive, Opening, Synchronized
  <2>10. HostOK(h, T, N, B)  BY <1>1, <2>4, <2>7, <2>9, PutPcb
  <2>11. T.pcb[s] = p  BY <1>1 DEF HostTypes
  <2> HIDE DEF T
  <2>12. /\ Live(T.pcb[s]) /\ T.pcb[s].state \in Synchronized /\ Incoming(m, B, T.pcb[s])
    BY <1>1, <2>5, <2>11 DEF Live, Synchronized, Incoming, Matches
  <2> QED  BY <2>10, <2>12, ReceiveHost, AbortHost
<1> HIDE DEF answer, T
<1> QED  BY <1>1, <1>2, <1>3, BecomesOK DEF N, B

LEMMA ReceivedFacts ==
  ASSUME IInv, NEW h \in Hosts, NEW s \in Pool[h], NEW m, NEW states,
         states \subseteq Synchronized, ArrivesIn(h, m, s, states)
  PROVE  LET R == Receive(ToFront(host[h], s), s, m)
         IN  /\ HostOK(h, R, Sent(h), Far(h)) /\ R.pcb[s].state \in states
             /\ HostOK(h, AckNow(R, s), Sent(h), Far(h)) /\ AckNow(R, s).pcb[s].state \in states
             /\ HostOK(h, TimeWait(R, s), Sent(h), Far(h))
<1> DEFINE F == ToFront(host[h], s)
           R == Receive(F, s, m)
<1>1. /\ HostOK(h, F, Sent(h), Far(h)) /\ F.pcb[s].state \in states
      /\ Incoming(m, Far(h), F.pcb[s])
  BY ArrivesFacts
<1> HIDE DEF F
<1>2. HostOK(h, R, Sent(h), Far(h)) /\ R.pcb[s].state \in states
  BY <1>1, ReceiveHost DEF Kept
<1> HIDE DEF R
<1>3. Live(R.pcb[s]) /\ R.pcb[s].state \in Synchronized /\ R.pcb[s].state \notin Opening
  BY <1>2 DEF Live, Synchronized, Opening
<1>4. HostOK(h, AckNow(R, s), Sent(h), Far(h)) /\ AckNow(R, s).pcb[s].state \in states
  <2>1. HostOK(h, AckNow(R, s), Sent(h), Far(h)) /\ Kept(AckNow(R, s).pcb[s], R.pcb[s])
    BY <1>2, <1>3, AckNowHost
  <2> QED  BY <1>2, <2>1 DEF Kept
<1>5. HostOK(h, TimeWait(R, s), Sent(h), Far(h))  BY <1>2, <1>3, TimeWaitHost
<1> QED  BY <1>2, <1>4, <1>5 DEF R, F

LEMMA InputOpenStep ==
  ASSUME IInv, NEW h \in Hosts, NEW s \in Pool[h], NEW m, InputOpen(h, m, s)
  PROVE  IInv'
<1> DEFINE R == Receive(ToFront(host[h], s), s, m)
           A == AckNow(R, s)
           C == [A EXCEPT !.pcb[s].state = "CLOSE_WAIT"]
           states == {"ESTABLISHED", "CLOSE_WAIT"}
<1>1. ArrivesIn(h, m, s, states) /\ states \subseteq Synchronized  BY DEF InputOpen, Synchronized
<1>2. Becomes(h, R) \/ Becomes(h, C)  BY Zenon DEF InputOpen
<1>3. /\ HostOK(h, R, Sent(h), Far(h)) /\ HostOK(h, A, Sent(h), Far(h))
      /\ A.pcb[s].state \in states
  <2> HIDE DEF states
  <2> QED  BY <1>1, ReceivedFacts
<1> HIDE DEF A, R
<1>4. HostOK(h, C, Sent(h), Far(h))
  <2>1. A.pcb[s].state \in Synchronized /\ "CLOSE_WAIT" \in Synchronized  BY <1>1, <1>3
  <2>2. StateMoves(A.pcb[s].state, "CLOSE_WAIT")  BY <1>3, <2>1 DEF StateMoves
  <2> QED  BY <1>3, <2>1, <2>2, MoveHost
<1> HIDE DEF C
<1> QED  BY <1>2, <1>3, <1>4, BecomesOK

LEMMA InputFinWait1Step ==
  ASSUME IInv, NEW h \in Hosts, NEW s \in Pool[h], NEW m, InputFinWait1(h, m, s)
  PROVE  IInv'
<1> DEFINE R == Receive(ToFront(host[h], s), s, m)
           A == AckNow(R, s)
           W == TimeWait(R, s)
           C == [A EXCEPT !.pcb[s].state = "CLOSING"]
           D == [R EXCEPT !.pcb[s].state = "FIN_WAIT_2"]
           states == {"FIN_WAIT_1"}
<1>1. ArrivesIn(h, m, s, states) /\ states \subseteq Synchronized  BY DEF InputFinWait1, Synchronized
<1>2. Becomes(h, R) \/ Becomes(h, C) \/ Becomes(h, D) \/ Becomes(h, W)
  BY Zenon DEF InputFinWait1
<1>3. /\ HostOK(h, R, Sent(h), Far(h)) /\ HostOK(h, A, Sent(h), Far(h))
      /\ HostOK(h, W, Sent(h), Far(h)) /\ R.pcb[s].state \in states /\ A.pcb[s].state \in states
  <2> HIDE DEF states
  <2> QED  BY <1>1, ReceivedFacts
<1> HIDE DEF A, R, W
<1>4. /\ StateMoves("FIN_WAIT_1", "CLOSING") /\ StateMoves("FIN_WAIT_1", "FIN_WAIT_2")
      /\ "CLOSING" \in Synchronized /\ "FIN_WAIT_2" \in Synchronized
      /\ "FIN_WAIT_1" \in Synchronized
  BY DEF StateMoves, Synchronized
<1>5. HostOK(h, C, Sent(h), Far(h))  BY <1>3, <1>4, MoveHost
<1>6. HostOK(h, D, Sent(h), Far(h))  BY <1>3, <1>4, MoveHost
<1> HIDE DEF C, D
<1> QED  BY <1>2, <1>3, <1>5, <1>6, BecomesOK

LEMMA InputFinWait2Step ==
  ASSUME IInv, NEW h \in Hosts, NEW s \in Pool[h], NEW m, InputFinWait2(h, m, s)
  PROVE  IInv'
<1> DEFINE R == Receive(ToFront(host[h], s), s, m)
           W == TimeWait(R, s)
<1>1. ArrivesIn(h, m, s, {"FIN_WAIT_2"}) /\ {"FIN_WAIT_2"} \subseteq Synchronized
  BY DEF InputFinWait2, Synchronized
<1>2. Becomes(h, R) \/ Becomes(h, W)  BY Zenon DEF InputFinWait2
<1>3. HostOK(h, R, Sent(h), Far(h)) /\ HostOK(h, W, Sent(h), Far(h))
  BY <1>1, ReceivedFacts
<1> HIDE DEF R, W
<1> QED  BY <1>2, <1>3, BecomesOK

LEMMA InputClosingStep ==
  ASSUME IInv, NEW h \in Hosts, NEW s \in Pool[h], NEW m, InputClosing(h, m, s)
  PROVE  IInv'
<1> DEFINE R == Receive(ToFront(host[h], s), s, m)
           W == TimeWait(R, s)
<1>1. ArrivesIn(h, m, s, {"CLOSING"}) /\ {"CLOSING"} \subseteq Synchronized
  BY DEF InputClosing, Synchronized
<1>2. Becomes(h, R) \/ Becomes(h, W)  BY Zenon DEF InputClosing
<1>3. HostOK(h, R, Sent(h), Far(h)) /\ HostOK(h, W, Sent(h), Far(h))
  BY <1>1, ReceivedFacts
<1> HIDE DEF R, W
<1> QED  BY <1>2, <1>3, BecomesOK

LEMMA InputLastAckStep ==
  ASSUME IInv, NEW h \in Hosts, NEW s \in Pool[h], NEW m, InputLastAck(h, m, s)
  PROVE  IInv'
<1> DEFINE R == Receive(ToFront(host[h], s), s, m)
           F == Free(PcbRemove(R, s), s)
<1>1. ArrivesIn(h, m, s, {"LAST_ACK"}) /\ {"LAST_ACK"} \subseteq Synchronized
  BY DEF InputLastAck, Synchronized
<1>2. Becomes(h, R) \/ Becomes(h, F)  BY Zenon DEF InputLastAck
<1>3. HostOK(h, R, Sent(h), Far(h)) /\ R.pcb[s].state \in {"LAST_ACK"}
  BY <1>1, ReceivedFacts
<1> HIDE DEF R
<1>4. HostOK(h, F, Sent(h), Far(h))  BY <1>3, RemoveHost DEF Live
<1> HIDE DEF F
<1> QED  BY <1>2, <1>3, <1>4, BecomesOK

LEMMA InputTimeWaitStep ==
  ASSUME IInv, NEW h \in Hosts, NEW s \in Pool[h], NEW m, InputTimeWait(h, m, s)
  PROVE  IInv'
<1> DEFINE S == host[h]
           p0 == S.pcb[s]
           n == m.seq + Length(m)
           r == IF n > p0.rcv_nxt THEN n ELSE p0.rcv_nxt
           p == [p0 EXCEPT !.rcv_nxt = r]
           R == [S EXCEPT !.pcb[s] = p]
           A == AckNow(R, s)
<1>1. /\ [to |-> h, seg |-> m] \in net /\ "RST" \notin m.flags
      /\ s \in Members(S.tw) /\ Matches(p0, m)
  BY DEF InputTimeWait, Matching
<1>2. Becomes(h, A) \/ Becomes(h, R)
  <2>1. [S EXCEPT !.pcb[s].rcv_nxt = IF m.seq + Length(m) > @ THEN m.seq + Length(m) ELSE @] = R
    OBVIOUS
  <2>2. \/ Becomes(h, AckNow([S EXCEPT !.pcb[s].rcv_nxt =
                               IF m.seq + Length(m) > @ THEN m.seq + Length(m) ELSE @], s))
        \/ Becomes(h, [S EXCEPT !.pcb[s].rcv_nxt =
                               IF m.seq + Length(m) > @ THEN m.seq + Length(m) ELSE @])
    BY Zenon DEF InputTimeWait
  <2> HIDE DEF R
  <2> QED  BY <2>1, <2>2
<1>3. m \in Far(h).sent /\ m \in Messages  BY <1>1, Received
<1>4. HostOK(h, S, Sent(h), Far(h))  BY HostNow
<1> HIDE DEF S
<1>5. p0 \in Pcbs /\ S \in HostTypes(h) /\ p0.state = "TIME_WAIT"
  <2>1. p0 \in Pcbs /\ p0.state = "TIME_WAIT"  BY <1>1, <1>4, ActivePcb
  <2>2. S \in HostTypes(h)  BY <1>4, HostFacts
  <2> QED  BY <2>1, <2>2
<1>6. n \in Nat /\ p0.rcv_nxt \in Nat  BY <1>3, <1>5, MsgType, PcbType
<1>7. r \in Nat /\ r >= p0.rcv_nxt /\ (r = n \/ r = p0.rcv_nxt)  BY <1>6
<1> HIDE DEF r
<1>8. p \in Pcbs  BY <1>5, <1>7 DEF Pcbs
<1>9. /\ p.lport = p0.lport /\ p.rport = p0.rport /\ p.used = p0.used /\ p.state = p0.state
      /\ p.snd_nxt = p0.snd_nxt /\ p.lastack = p0.lastack /\ p.rcv_nxt = r
      /\ p.unacked = p0.unacked
  BY <1>5 DEF Pcbs
<1> HIDE DEF p
<1>10. HostOK(h, R, Sent(h), Far(h))
  <2>1. CASE r = n
    <3>1. Incoming(m, Far(h), p0)  BY <1>1, <1>3 DEF Incoming
    <3>2. Kept(p, p0)  BY <1>9 DEF Kept, SamePlace
    <3> QED  BY <1>4, <1>5, <1>7, <1>8, <1>9, <2>1, <3>1, <3>2, TakenHost
  <2>2. CASE r = p0.rcv_nxt
    <3>1. SamePlace(p, p0) /\ p.state \notin Opening  BY <1>5, <1>9 DEF SamePlace, Opening
    <3> QED  BY <1>4, <1>8, <1>9, <2>2, <3>1, QuietHost
  <2> QED  BY <1>7, <2>1, <2>2
<1>11. R.pcb[s] = p  BY <1>5 DEF HostTypes
<1> HIDE DEF R
<1>12. Live(R.pcb[s]) /\ R.pcb[s].state \notin Opening  BY <1>5, <1>9, <1>11 DEF Live, Opening
<1>13. HostOK(h, A, Sent(h), Far(h))  BY <1>10, <1>12, AckNowHost
<1> HIDE DEF A
<1> QED  BY <1>2, <1>10, <1>13, BecomesOK

(* A segment that is for no block of h.                                    *)
LEMMA NobodyFacts ==
  ASSUME IInv, NEW h \in Hosts, NEW m, Matching(host[h], host[h].active, m) = {},
         Matching(host[h], host[h].tw, m) = {}
  PROVE  \A t \in Pool[h] : Live(host[h].pcb[t]) => ~Matches(host[h].pcb[t], m)
<1> TAKE t \in Pool[h]
<1> HAVE Live(host[h].pcb[t])
<1>1. t \in Members(host[h].active) \/ t \in Members(host[h].tw)  BY HostNow, ActivePcb
<1> QED  BY <1>1 DEF Matching

LEMMA InputListenStep ==
  ASSUME IInv, NEW h \in Hosts, NEW m, InputListen(h, m)
  PROVE  IInv'
<1> DEFINE S == host[h]
           n == m.seq + Length(m)
           A1 == Rst(S, m.ackno + 1, n, m.dport, m.sport)
<1>1. /\ [to |-> h, seg |-> m] \in net /\ m.dport \in Members(S.listen)
      /\ "RST" \notin m.flags
      /\ Matching(S, S.active, m) = {} /\ Matching(S, S.tw, m) = {}
  BY DEF InputListen
<1>2. m \in Far(h).sent /\ m \in Messages  BY <1>1, Received
<1>3. HostOK(h, S, Sent(h), Far(h))  BY HostNow
<1>4. CASE "ACK" \in m.flags
  <2>1. Becomes(h, A1)  BY <1>4 DEF InputListen
  <2>2. m.ackno + 1 \in Nat /\ n \in Nat /\ m.dport \in Nat /\ m.sport \in Nat
    BY <1>2, MsgType
  <2> HIDE DEF n, S
  <2>3. HostOK(h, A1, Sent(h), Far(h))  BY <1>3, <2>2, RstHost
  <2> HIDE DEF A1
  <2> QED  BY <2>1, <2>3, BecomesOK
<1>5. CASE "ACK" \notin m.flags
  <2>1. PICK A \in Allocate(S) :
          IF FreePcbs(A) = {} THEN Becomes(h, A)
          ELSE LET s == CHOOSE x \in FreePcbs(A) : TRUE
               IN  Becomes(h, SendCtrl(Answering(NewPcb(A, s), s, m), s, "SYN"))
    BY <1>5, Zenon DEF InputListen, Answering
  <2>2. HostOK(h, A, Sent(h), Far(h)) /\ Fewer(h, A, S)  BY <1>3, AllocateHost
  <2>3. m.dport = Server /\ h \notin Clients
    <3>1. S.listen \in Seq({Server}) /\ ListenOK(h, S.listen)
      BY <1>3, HostFacts DEF HostOK, Lists
    <3>2. S.listen # << >>  BY <1>1 DEF Members
    <3>3. m.dport = Server  BY <1>1, <3>1 DEF Members
    <3> QED  BY <3>1, <3>2, <3>3 DEF ListenOK
  <2>4. \A t \in Pool[h] : Live(A.pcb[t]) => ~Matches(A.pcb[t], m)
    <3> TAKE t \in Pool[h]
    <3>1. CASE A.pcb[t] = S.pcb[t]  BY <1>1, <3>1, NobodyFacts
    <3>2. CASE A.pcb[t] = NoPcb  BY <3>2 DEF Live, NoPcb
    <3> QED  BY <2>2, <3>1, <3>2 DEF Fewer
  <2>5. CASE FreePcbs(A) = {}  BY <2>1, <2>2, <2>5, BecomesOK
  <2>6. CASE FreePcbs(A) # {}
    <3> DEFINE s == CHOOSE x \in FreePcbs(A) : TRUE
               R == SendCtrl(Answering(NewPcb(A, s), s, m), s, "SYN")
    <3>1. s \in FreePcbs(A)  BY <2>6
    <3>2. Becomes(h, R)  BY <2>1, <2>6
    <3> HIDE DEF s
    <3>3. HostOK(h, R, Sent(h), Far(h))
      BY <1>1, <1>2, <1>5, <2>2, <2>3, <2>4, <3>1, AnswerHost
    <3> HIDE DEF R
    <3> QED  BY <3>2, <3>3, BecomesOK
  <2> QED  BY <2>5, <2>6
<1> QED  BY <1>4, <1>5

LEMMA InputNobodyStep ==
  ASSUME IInv, NEW h \in Hosts, NEW m, InputNobody(h, m)
  PROVE  IInv'
<1> DEFINE n == m.seq + Length(m)
           A1 == Rst(host[h], m.ackno, n, m.dport, m.sport)
<1>1. [to |-> h, seg |-> m] \in net /\ Becomes(h, A1)  BY DEF InputNobody
<1>2. m \in Messages  BY <1>1, Received
<1>3. m.ackno \in Nat /\ n \in Nat /\ m.dport \in Nat /\ m.sport \in Nat  BY <1>2, MsgType
<1> HIDE DEF n
<1>4. HostOK(h, A1, Sent(h), Far(h))  BY <1>3, HostNow, RstHost
<1> HIDE DEF A1
<1> QED  BY <1>1, <1>4, BecomesOK

-----------------------------------------------------------------------------
(* The theorems.                                                           *)

LEMMA InitOK == Init => IInv
<1> SUFFICES ASSUME Init PROVE IInv  OBVIOUS
<1> DEFINE S(h) == [pcb |-> [s \in Pool[h] |-> NoPcb], active |-> <<>>, tw |-> <<>>,
                    listen |-> <<>>, port |-> FirstPort, iss |-> 0, out |-> {}]
<1>1. host = [h \in Hosts |-> S(h)] /\ net = {}  BY DEF Init
<1>2. ASSUME NEW h \in Hosts PROVE host[h].out = {} /\ HostOK(h, host[h], Sent(h), Far(h))
  <2> DEFINE g == Other(h)
             A == Side(host[h], Sent(h))
             B == Side(host[g], Sent(g))
  <2>1. g \in Hosts /\ Other(g) = h  BY OtherHost
  <2>2. NoPcb \in Pcbs /\ ~Live(NoPcb) /\ Listed(NoPcb, FALSE, FALSE)
    BY DEF NoPcb, Pcbs, States, Live, Listed, OnActive, Opening, Synchronized
  <2>3. FirstPort \in Ports
    <3>1. IsFiniteSet(Pool[h]) /\ Listeners \in Nat /\ FirstPort \in Nat /\ LastPort \in Nat
          /\ LastPort - FirstPort >= Cardinality(Pool[h]) + Listeners
      BY ConnAssumption
    <3>2. Cardinality(Pool[h]) \in Nat  BY <3>1, FS_CardinalityType
    <3> QED  BY <3>1, <3>2 DEF Ports
  <2> HIDE DEF NoPcb
  <2>4. Sent(h) = {} /\ Sent(g) = {}  BY <1>1 DEF Sent
  <2>5. ASSUME NEW x \in Hosts
        PROVE  /\ host[x].pcb = [s \in Pool[x] |-> NoPcb] /\ host[x].iss = 0 /\ host[x].out = {}
               /\ host[x].active = << >> /\ host[x].tw = << >> /\ host[x].listen = << >>
               /\ host[x].port = FirstPort /\ host[x] = S(x)
    BY <1>1
  <2>6. /\ A = [pcb |-> [s \in Pool[h] |-> NoPcb], iss |-> 0, sent |-> {}]
        /\ B = [pcb |-> [s \in Pool[g] |-> NoPcb], iss |-> 0, sent |-> {}]
    <3>1. {} \cup {} = {}  OBVIOUS
    <3> QED  BY <2>1, <2>4, <2>5, <3>1 DEF Side
  <2> HIDE DEF A, B
  <2>7. ASSUME NEW x \in Hosts, NEW X, NEW Y,
               X = [pcb |-> [s \in Pool[x] |-> NoPcb], iss |-> 0, sent |-> {}],
               Y = [pcb |-> [s \in Pool[Other(x)] |-> NoPcb], iss |-> 0, sent |-> {}]
        PROVE  SideOK(x, X, Y)
    <3>1. X \in Sides(x)  BY <2>2, <2>7 DEF Sides
    <3>2. ASSUME NEW s \in Pool[x] PROVE Fits(x, X.pcb[s], X, Y)
      <4>1. X.pcb[s] = NoPcb  BY <2>7
      <4> QED  BY <2>2, <4>1 DEF Fits, GoodPcb, Own, On, Heard, AckFor, Reached, Pair, Matched
    <3>3. \A s, t \in Pool[x] : s # t => Apart(X.pcb[s], X.pcb[t])  BY <2>2, <2>7 DEF Apart
    <3>4. X.sent = {}  BY <2>7
    <3> QED  BY <3>1, <3>2, <3>3, <3>4 DEF SideOK
  <2>8. World(h, A, B)  BY <2>1, <2>6, <2>7 DEF World
  <2>9. Lists(h, host[h])
    <3>1. host[h] \in HostTypes(h)
      <4>1. [s \in Pool[h] |-> NoPcb] \in [Pool[h] -> Pcbs]  BY <2>2
      <4>2. << >> \in Seq(Pool[h]) /\ << >> \in Seq({Server})  OBVIOUS
      <4>3. {} \subseteq Messages /\ 0 \in Nat  OBVIOUS
      <4>4. ASSUME NEW f \in [Pool[h] -> Pcbs]
            PROVE  [pcb |-> f, active |-> <<>>, tw |-> <<>>, listen |-> <<>>,
                    port |-> FirstPort, iss |-> 0, out |-> {}] \in HostTypes(h)
        BY <2>3, <4>2, <4>3 DEF HostTypes
      <4>5. S(h) \in HostTypes(h)  BY <4>1, <4>4
      <4> HIDE DEF S
      <4> QED  BY <2>5, <4>5
    <3>2. Distinct(<< >>) /\ Members(<< >>) = {} /\ ListenOK(h, << >>)
      BY DEF Distinct, Members, ListenOK
    <3>3. \A s \in Pool[h] : host[h].pcb[s] = NoPcb  BY <2>5
    <3> QED  BY <2>2, <2>5, <3>1, <3>2, <3>3 DEF Lists, Listed
  <2> QED  BY <2>5, <2>8, <2>9 DEF HostOK, A, B, Far, g
<1>3. DOMAIN host = Hosts /\ host = [h \in Hosts |-> host[h]]  BY <1>1
<1> QED  BY <1>1, <1>2, <1>3 DEF IInv

LEMMA NextOK == IInv /\ [Next]_vars => IInv'
<1> SUFFICES ASSUME IInv, [Next]_vars PROVE IInv'  OBVIOUS
<1>1. CASE UNCHANGED vars  BY <1>1 DEF vars, IInv, Sent, Far
<1>2. CASE Next
  <2>1. PICK h \in Hosts :
          \/ Listen(h)
          \/ \E port \in Members(host[h].listen) : CloseListen(h, port)
          \/ \E memory \in BOOLEAN : Connect(h, memory)
          \/ \E s \in Pool[h] : \/ Close(h, s) \/ CloseFails(h, s) \/ FastTimer(h, s)
                                \/ Expire(h, s) \/ MemReclaim(h, s)
          \/ \E s \in Pool[h] : \E seg \in host[h].pcb[s].unacked : Retransmit(h, s, seg)
          \/ \E m \in {x.seg : x \in {y \in net : y.to = h}} : Input(h, m)
    BY <1>2 DEF Next
  <2>2. CASE Listen(h)  BY <2>2, ListenStep
  <2>3. ASSUME NEW port \in Members(host[h].listen), CloseListen(h, port) PROVE IInv'
    BY <2>3, CloseListenStep
  <2>4. ASSUME NEW memory \in BOOLEAN, Connect(h, memory) PROVE IInv'  BY <2>4, ConnectStep
  <2>5. ASSUME NEW s \in Pool[h], \/ Close(h, s) \/ CloseFails(h, s) \/ FastTimer(h, s)
                                  \/ Expire(h, s) \/ MemReclaim(h, s)
        PROVE  IInv'
    BY <2>5, CloseStep, CloseFailsStep, FastTimerStep, ExpireStep, MemReclaimStep
  <2>6. ASSUME NEW s \in Pool[h], NEW seg \in host[h].pcb[s].unacked, Retransmit(h, s, seg)
        PROVE  IInv'
    BY <2>6, RetransmitStep
  <2>7. ASSUME NEW m, Input(h, m) PROVE IInv'
    <3>1. ASSUME NEW s \in Pool[h],
                 \/ InputReset(h, m, s) \/ InputSynSent(h, m, s)
                 \/ \E accepted \in BOOLEAN : InputSynRcvd(h, m, s, accepted)
                 \/ InputOpen(h, m, s) \/ InputFinWait1(h, m, s) \/ InputFinWait2(h, m, s)
                 \/ InputClosing(h, m, s) \/ InputLastAck(h, m, s) \/ InputTimeWait(h, m, s)
          PROVE  IInv'
      BY <3>1, InputResetStep, InputSynSentStep, InputSynRcvdStep, InputOpenStep,
         InputFinWait1Step, InputFinWait2Step, InputClosingStep, InputLastAckStep,
         InputTimeWaitStep
    <3>2. CASE InputListen(h, m)  BY <3>2, InputListenStep
    <3>3. CASE InputNobody(h, m)  BY <3>3, InputNobodyStep
    <3> QED  BY <2>7, <3>1, <3>2, <3>3 DEF Input
  <2> QED  BY <2>1, <2>2, <2>3, <2>4, <2>5, <2>6, <2>7
<1> QED  BY <1>1, <1>2

(* A list without repetitions has as many members as entries.              *)
LEMMA DistinctLen ==
  ASSUME NEW T, NEW q \in Seq(T), Distinct(q)
  PROVE  Cardinality(Members(q)) = Len(q)
<1> DEFINE f == [i \in 1 .. Len(q) |-> q[i]]
<1>1. Len(q) \in Nat  OBVIOUS
<1>2. IsFiniteSet(1 .. Len(q)) /\ Cardinality(1 .. Len(q)) = Len(q)
  <2>1. /\ IsFiniteSet(1 .. Len(q))
        /\ Cardinality(1 .. Len(q)) = IF 1 > Len(q) THEN 0 ELSE Len(q) - 1 + 1
    BY <1>1, FS_Interval
  <2> QED  BY <1>1, <2>1
<1>3. f \in Bijection(1 .. Len(q), Members(q))
  <2>1. f \in [1 .. Len(q) -> Members(q)]  BY DEF Members
  <2>2. ASSUME NEW i \in 1 .. Len(q), NEW k \in 1 .. Len(q), f[i] = f[k] PROVE i = k
    BY <2>2 DEF Distinct
  <2>3. ASSUME NEW x \in Members(q) PROVE \E i \in 1 .. Len(q) : f[i] = x
    BY DEF Members
  <2> QED  BY <2>1, <2>2, <2>3 DEF Bijection, Injection, Surjection, IsInjective
<1>4. ExistsBijection(1 .. Len(q), Members(q))  BY <1>3 DEF ExistsBijection
<1> QED  BY <1>2, <1>4, FS_Bijection

LEMMA DistinctConcat ==
  ASSUME NEW T, NEW q \in Seq(T), NEW r \in Seq(T), Distinct(q), Distinct(r),
         Members(q) \cap Members(r) = {}
  PROVE  /\ q \o r \in Seq(T) /\ Distinct(q \o r)
         /\ Members(q \o r) = Members(q) \cup Members(r)
<1> DEFINE c == q \o r
<1>1. /\ c \in Seq(T) /\ Len(c) = Len(q) + Len(r) /\ Len(q) \in Nat /\ Len(r) \in Nat
      /\ \A i \in 1 .. Len(c) : c[i] = IF i <= Len(q) THEN q[i] ELSE r[i - Len(q)]
  BY ConcatProperties
<1> HIDE DEF c
<1>2. ASSUME NEW i \in 1 .. Len(c)
      PROVE  \/ i \in 1 .. Len(q) /\ c[i] = q[i]
             \/ i > Len(q) /\ i - Len(q) \in 1 .. Len(r) /\ c[i] = r[i - Len(q)]
  BY <1>1
<1>3. Distinct(c)
  <2> SUFFICES ASSUME NEW i \in 1 .. Len(c), NEW k \in 1 .. Len(c), c[i] = c[k]
               PROVE  i = k
    BY DEF Distinct
  <2>1. CASE i <= Len(q) /\ k <= Len(q)  BY <1>1, <1>2, <2>1 DEF Distinct
  <2>2. CASE i > Len(q) /\ k > Len(q)
    <3>1. /\ i - Len(q) \in 1 .. Len(r) /\ k - Len(q) \in 1 .. Len(r)
          /\ r[i - Len(q)] = r[k - Len(q)]
      BY <1>1, <1>2, <2>2
    <3>2. i - Len(q) = k - Len(q)  BY <3>1 DEF Distinct
    <3> QED  BY <1>1, <3>2
  <2>3. CASE i <= Len(q) /\ k > Len(q)
    <3>1. c[i] \in Members(q) /\ c[k] \in Members(r)  BY <1>1, <1>2, <2>3, SMTT(30) DEF Members
    <3> QED  BY <3>1
  <2>4. CASE i > Len(q) /\ k <= Len(q)
    <3>1. c[i] \in Members(r) /\ c[k] \in Members(q)  BY <1>1, <1>2, <2>4, SMTT(30) DEF Members
    <3> QED  BY <3>1
  <2> QED  BY <1>1, <2>1, <2>2, <2>3, <2>4
<1>4. Members(c) = Members(q) \cup Members(r)
  <2>1. ASSUME NEW x \in Members(c) PROVE x \in Members(q) \cup Members(r)
    BY <1>2 DEF Members
  <2>2. ASSUME NEW x \in Members(q) PROVE x \in Members(c)
    <3>1. PICK i \in 1 .. Len(q) : x = q[i]  BY DEF Members
    <3>2. i \in 1 .. Len(c) /\ c[i] = x  BY <1>1, <3>1
    <3> QED  BY <3>2 DEF Members
  <2>3. ASSUME NEW x \in Members(r) PROVE x \in Members(c)
    <3>1. PICK i \in 1 .. Len(r) : x = r[i]  BY DEF Members
    <3>2. i + Len(q) \in 1 .. Len(c) /\ c[i + Len(q)] = x  BY <1>1, <3>1
    <3> QED  BY <3>2 DEF Members
  <2> QED  BY <2>1, <2>2, <2>3
<1> QED  BY <1>1, <1>3, <1>4 DEF c

LEMMA TypesHold == IInv => TypeOK
<1> SUFFICES ASSUME IInv, NEW h \in Hosts
             PROVE  /\ \A s \in Pool[h] :
                         LET p == host[h].pcb[s]
                         IN  /\ p.state \in States
                             /\ {p.used, p.held, p.delay, p.gotfin} \subseteq BOOLEAN
                             /\ p.lport \in Nat /\ p.rport \in Nat
                             /\ p.snd_nxt \in Nat /\ p.lastack \in 0 .. p.snd_nxt
                             /\ p.rcv_nxt \in Nat
                    /\ Members(host[h].active) \cup Members(host[h].tw) \subseteq Pool[h]
                    /\ Len(host[h].listen) <= Listeners /\ host[h].port \in Ports
                    /\ host[h].out = {}
  BY DEF TypeOK, Ports
<1>1. HostOK(h, host[h], Sent(h), Far(h)) /\ host[h].out = {}  BY DEF IInv
<1>2. ASSUME NEW s \in Pool[h], NEW p, p = host[h].pcb[s]
      PROVE  /\ p.state \in States /\ {p.used, p.held, p.delay, p.gotfin} \subseteq BOOLEAN
             /\ p.lport \in Nat /\ p.rport \in Nat
             /\ p.snd_nxt \in Nat /\ p.lastack \in 0 .. p.snd_nxt /\ p.rcv_nxt \in Nat
  <2>1. p \in Pcbs /\ p.lastack <= p.snd_nxt  BY <1>1, <1>2, ActivePcb
  <2>2. {p.used, p.held, p.delay, p.gotfin} \subseteq BOOLEAN  BY <2>1 DEF Pcbs
  <2> QED  BY <2>1, <2>2, PcbType
<1>3. Members(host[h].active) \cup Members(host[h].tw) \subseteq Pool[h]
  BY <1>1, HostFacts DEF Members
<1>4. Len(host[h].listen) <= Listeners
  <2>1. host[h].listen \in Seq({Server}) /\ Len(host[h].listen) <= 1
    BY <1>1, HostFacts DEF HostOK, Lists, ListenOK
  <2>2. Listeners \in Nat \ {0} /\ Len(host[h].listen) \in Nat  BY <2>1, ConnAssumption
  <2> QED  BY <2>1, <2>2
<1>5. host[h].port \in Ports  BY <1>1, HostFacts
<1> QED  BY <1>1, <1>2, <1>3, <1>4, <1>5

LEMMA ListsHold == IInv => ListsSane
<1> SUFFICES ASSUME IInv, NEW h \in Hosts
             PROVE  LET S == host[h]
                        both == S.active \o S.tw
                    IN  /\ Cardinality(Members(both)) = Len(both)
                        /\ \A s \in Pool[h] : S.pcb[s].state # "CLOSED" => s \in Members(both)
                        /\ \A s \in Members(S.active) :
                             /\ S.pcb[s].used
                             /\ S.pcb[s].state \notin {"CLOSED", "LISTEN", "TIME_WAIT"}
                        /\ \A s \in Members(S.tw) :
                             S.pcb[s].used /\ S.pcb[s].state = "TIME_WAIT"
  BY DEF ListsSane
<1> DEFINE S == host[h]
           a == S.active
           w == S.tw
           both == a \o w
<1>1. HostOK(h, S, Sent(h), Far(h))  BY HostNow
<1>2. S.active \in Seq(Pool[h]) /\ S.tw \in Seq(Pool[h])  BY <1>1, HostFacts
<1>3. Members(S.active) \subseteq Pool[h] /\ Members(S.tw) \subseteq Pool[h]
  BY <1>2 DEF Members
<1>4. ASSUME NEW s \in Pool[h]
      PROVE  /\ s \in Members(S.active) <=> S.pcb[s].state \in OnActive
             /\ s \in Members(S.tw) <=> S.pcb[s].state = "TIME_WAIT"
             /\ Live(S.pcb[s]) <=> s \in Members(S.active) \/ s \in Members(S.tw)
             /\ Live(S.pcb[s]) => S.pcb[s].used
  <2>1. Live(S.pcb[s]) => S.pcb[s].used  BY <1>1 DEF HostOK, Lists, Listed
  <2> QED  BY <1>1, <2>1, ActivePcb
<1>5. OnActive \cap {"CLOSED", "LISTEN", "TIME_WAIT"} = {}
  BY DEF OnActive, Opening, Synchronized
<1>6. Members(S.active) \cap Members(S.tw) = {}  BY <1>3, <1>4, <1>5
<1>7. Distinct(S.active) /\ Distinct(S.tw)  BY <1>1 DEF HostOK, Lists
<1>8. both \in Seq(Pool[h]) /\ Distinct(both)
      /\ Members(both) = Members(S.active) \cup Members(S.tw)
  <2> HIDE DEF a, w
  <2>1. a \in Seq(Pool[h]) /\ w \in Seq(Pool[h]) /\ Distinct(a) /\ Distinct(w)
        /\ Members(a) \cap Members(w) = {}
    BY <1>2, <1>6, <1>7 DEF a, w
  <2>2. both \in Seq(Pool[h]) /\ Distinct(both) /\ Members(both) = Members(a) \cup Members(w)
    BY <2>1, DistinctConcat
  <2> QED  BY <2>2 DEF a, w
<1> HIDE DEF both
<1>9. Cardinality(Members(both)) = Len(both)  BY <1>8, DistinctLen
<1>10. \A s \in Pool[h] : S.pcb[s].state # "CLOSED" => s \in Members(both)
  BY <1>4, <1>8 DEF Live
<1>11. \A s \in Members(S.active) :
         S.pcb[s].used /\ S.pcb[s].state \notin {"CLOSED", "LISTEN", "TIME_WAIT"}
  BY <1>3, <1>4, <1>5
<1>12. \A s \in Members(S.tw) : S.pcb[s].used /\ S.pcb[s].state = "TIME_WAIT"
  BY <1>3, <1>4
<1> QED  BY <1>9, <1>10, <1>11, <1>12 DEF both

LEMMA ReceiversHold == IInv => OneReceiver
<1> SUFFICES ASSUME IInv, NEW h \in Hosts,
                    NEW s \in Members(host[h].active) \cup Members(host[h].tw),
                    NEW t \in Members(host[h].active) \cup Members(host[h].tw), s # t,
                    host[h].pcb[s].lport = host[h].pcb[t].lport,
                    host[h].pcb[s].rport = host[h].pcb[t].rport
             PROVE  FALSE
  BY DEF OneReceiver
<1>1. HostOK(h, host[h], Sent(h), Far(h))  BY HostNow
<1>2. s \in Pool[h] /\ t \in Pool[h]  BY <1>1, HostFacts DEF Members
<1>3. Live(host[h].pcb[s]) /\ Live(host[h].pcb[t])  BY <1>1, <1>2, ActivePcb
<1>4. Apart(host[h].pcb[s], host[h].pcb[t])
  <2> DEFINE A == Side(host[h], Sent(h))
  <2>1. SideOK(h, A, Far(h))  BY <1>1 DEF HostOK, World
  <2>2. A.pcb = host[h].pcb  BY DEF Side
  <2> HIDE DEF A
  <2> QED  BY <1>2, <2>1, <2>2 DEF SideOK
<1> QED  BY <1>3, <1>4 DEF Apart

LEMMA AgreementHolds == IInv => Agreement
<1> SUFFICES ASSUME IInv, NEW h \in Hosts, NEW s \in Pool[h], NEW t \in Pool[Other(h)],
                    NEW p, NEW q, p = host[h].pcb[s], q = host[Other(h)].pcb[t],
                    p.state \in Synchronized, q.state \in Synchronized,
                    p.lport = q.rport, p.rport = q.lport
             PROVE  p.lastack <= q.rcv_nxt /\ q.rcv_nxt <= p.snd_nxt
  BY DEF Agreement
<1> DEFINE A == Side(host[h], Sent(h))
           B == Far(h)
<1>1. HostOK(h, host[h], Sent(h), B)  BY HostNow
<1>2. World(h, A, B)  BY <1>1 DEF HostOK
<1>3. p = A.pcb[s] /\ q = B.pcb[t]  BY DEF Side, Far
<1> HIDE DEF A, B
<1>4. Fits(h, p, A, B) /\ Fits(Other(h), q, B, A)  BY <1>2, <1>3, WorldFacts
<1>5. Live(p) /\ Live(q) /\ Matched(p, q) /\ Matched(q, p)
  BY DEF Live, Matched, Synchronized
<1>6. Reached(p, q) /\ Pair(p, q, A.sent, B.sent) /\ Pair(q, p, B.sent, A.sent)
  BY <1>3, <1>4 DEF Fits
<1>7. q.rcv_nxt <= p.snd_nxt  BY <1>5, <1>6 DEF Reached
<1>8. p.rport = Server \/ q.rport = Server
  BY <1>4, <1>5 DEF Fits, GoodPcb
<1>9. Engaged(p, q, A.sent) /\ Engaged(q, p, B.sent)  BY DEF Engaged
<1>10. CASE p.rport = Server
  <2>1. Agree(p, q, A.sent, B.sent)  BY <1>5, <1>6, <1>9, <1>10 DEF Pair
  <2> QED  BY <1>7, <2>1 DEF Agree
<1>11. CASE q.rport = Server
  <2>1. Agree(q, p, B.sent, A.sent)  BY <1>5, <1>6, <1>9, <1>11 DEF Pair
  <2> QED  BY <1>7, <2>1 DEF Agree
<1> QED  BY <1>8, <1>10, <1>11

LEMMA AlwaysIInv == Spec => []IInv
BY InitOK, NextOK, PTL DEF Spec

(* After any sequence of calls, segments, timers and reclaims every block  *)
(* is well formed, the axioms of tcp.h hold (TCP_REG, TCP_RMV: a block     *)
(* that is not CLOSED is on one list, once, and its state fits the list),  *)
(* and the demultiplexing of tcp_input finds at most one block.            *)
THEOREM PcbsAreSane == Spec => []PcbsSane
<1>1. IInv => PcbsSane  BY TypesHold, ListsHold, ReceiversHold DEF PcbsSane
<1> QED  BY <1>1, AlwaysIInv, PTL

(* tcp_process: two ends that both hold a connection open agree on it,     *)
(* whatever old segments of earlier connections with these ports arrive:   *)
(* what one has had acknowledged the other has received, and what one has  *)
(* received the other has sent.                                            *)
THEOREM EndsAgree == Spec => []Agreement
BY AgreementHolds, AlwaysIInv, PTL
=============================================================================
