------------------------------ MODULE Netconn ------------------------------
(***************************************************************************)
(* The connection API of lwIP (api_lib.c, api_msg.c), the sockets over it  *)
(* (sockets.c), the thread below it (transport_subsys.c) and the UDP       *)
(* control blocks (udp.c).                                                 *)
(*                                                                         *)
(* A call posts a request to the transport thread and waits on conn->mbox  *)
(* for the answer.  The transport thread also calls back into the same     *)
(* struct netconn, for data, acknowledgements, resets and timers, and      *)
(* nothing protects its fields.  A step that uses memory that is no longer *)
(* there adds to faults, and the program stops.                            *)
(*                                                                         *)
(* Either the server's thread opens sockets (socket, bind, listen, accept, *)
(* as cli_main does) and hands them to workers, or one worker opens its    *)
(* own; alloc_socket has no lock.                                          *)
(***************************************************************************)
EXTENDS Integers, Sequences, FiniteSets

CONSTANTS
  Conns,      \* the pool MEMP_NETCONN
  Sockets,    \* the descriptors, 0 .. NUM_SOCKETS - 1
  Workers,    \* the threads that read and write
  Server,     \* the thread that accepts
  None,       \* a null pointer
  SndBuf,     \* TCP_SND_BUF
  WriteSize,  \* the size of a write
  Lengths,    \* the sizes of segments and datagrams
  ReadSizes,  \* the sizes of reads
  Ports,      \* the UDP ports of this host
  Peers,      \* the senders of datagrams, as pairs of address and port
  MaxIn,      \* bound: bytes that arrive for a connection
  MaxOut,     \* bound: bytes that are written to a connection
  Budgets     \* bounds: resets and lacks of memory, connections that arrive, and
              \* segments that report the end once more

VARIABLES
  conn,      \* struct netconn, for each of the pool
  sock,      \* the table of sockets
  thread,    \* the application's threads
  queue,     \* the transport thread's mailbox
  posting,   \* recv_tcp between its test of recvmbox and its post
  attached,  \* the netconns that are the callback_arg of a control block
  udp_pcbs,  \* the list of UDP control blocks, as their netconns
  left,      \* what is left of the budget
  trouble,   \* the events so far that the API does not survive
  faults     \* the memory faults so far

vars == <<conn, sock, thread, queue, posting, attached, udp_pcbs, left, trouble, faults>>

Threads == Workers \cup {Server}

Bounds == {"mishaps", "arrivals", "repeats"}

ASSUME NetconnAssumption ==
  /\ IsFiniteSet(Conns) /\ IsFiniteSet(Workers) /\ Server \notin Workers
  /\ None \notin Conns /\ Sockets \subseteq Nat
  /\ SndBuf \in Nat \ {0} /\ WriteSize \in Nat \ {0}
  /\ Lengths \subseteq Nat \ {0} /\ ReadSizes \subseteq Nat \ {0} /\ Ports \subseteq Nat \ {0}
  /\ Peers \subseteq (Nat \ {0}) \X (Nat \ {0})
  /\ MaxIn \in Nat /\ MaxOut \in Nat /\ Budgets \subseteq [Bounds -> Nat]

Smaller(m, n) == IF m < n THEN m ELSE n

Members(q) == {q[i] : i \in 1 .. Len(q)}

\* What a receiver takes for the end of the stream.
End == [from |-> 0, len |-> 0]

NoMbox == <<[from |-> -1, len |-> 0]>>

NoConn == [used |-> FALSE, type |-> "TCP", pcb |-> "none", err |-> "OK", state |-> "NONE",
           mbox |-> 0, recvmbox |-> NoMbox, acceptmbox |-> NoMbox, sem |-> -1,
           sndbuf |-> 0, local |-> 0, remote |-> <<0, 0>>,
           in |-> 0, got |-> 0, out |-> 0, asked |-> 0, ended |-> FALSE, tried |-> FALSE]

NoSocket == [conn |-> None, lastdata |-> End, lastoffset |-> 0]

\* A thread that is not inside a call.
Idle(s) == [pc |-> "idle", s |-> s, c |-> None, call |-> "", n |-> 0, arg |-> 0, data |-> End,
            lost |-> FALSE]

\* The queue and the callbacks as they are.
TransportSame == UNCHANGED <<queue, posting, attached, udp_pcbs>>

Spend(what) == left[what] > 0 /\ left' = [left EXCEPT ![what] = @ - 1]

\* No memory for what the API cannot do without: with left and trouble.
NoMemory == Spend("mishaps") /\ trouble' = trouble \cup {"memory"}

Goto(t, r) == thread' = [thread EXCEPT ![t] = r]

\* A null or freed pointer is used.
Crash(what) ==
  /\ faults' = faults \cup {what}
  /\ UNCHANGED <<conn, sock, thread, queue, posting, attached, udp_pcbs, left, trouble>>

-----------------------------------------------------------------------------
(* What a thread does on its own.                                          *)

FreeConns(C) == {c \in Conns : ~C[c].used}

\* What the last user of a block left in it stays, as far as netconn_new
\* (err) and accept_function (state) do not set it.
NewConn(old, type) == [NoConn EXCEPT !.used = TRUE, !.type = type, !.err = old.err]

\* alloc_socket: the first free descriptor.
FreeSockets(S) == {i \in Sockets : S[i].conn = None}

FirstFree(S) == CHOOSE i \in FreeSockets(S) : \A j \in FreeSockets(S) : i <= j

\* api_msg_post: the request goes to the transport thread, or is thrown away
\* when there is no memory for the message that carries it.
Post(t, r) ==
  \/ /\ queue' = Append(queue, [thread |-> t, conn |-> r.c, call |-> r.call, arg |-> r.arg,
                                freed |-> FALSE])
     /\ Goto(t, [r EXCEPT !.pc = "wait"])
     /\ UNCHANGED <<left, trouble>>
  \/ /\ Spend("mishaps")
     /\ Goto(t, [r EXCEPT !.pc = "wait", !.lost = TRUE])
     /\ trouble' = trouble \cup {"drop"}
     /\ UNCHANGED queue

\* memp_freep of a request: the transport thread may still have it.
Freed(q, t) == [i \in DOMAIN q |-> IF q[i].thread = t THEN [q[i] EXCEPT !.freed = TRUE] ELSE q[i]]

\* A call that posts its request at once, and leaves the connection k.
Request(t, call, s, n, k) ==
  /\ Post(t, [Idle(s) EXCEPT !.c = sock[s].conn, !.call = call, !.arg = n])
  /\ conn' = [conn EXCEPT ![sock[s].conn] = k]
  /\ UNCHANGED <<sock, posting, attached, udp_pcbs, faults>>

\* ... or finds no memory for the request, and returns.  A connect does not
\* note the error in the connection, which now looks like one to read from.
RequestFails(call, s, k) ==
  /\ Spend("mishaps")
  /\ conn' = [conn EXCEPT ![sock[s].conn] = IF call = "connect" THEN k ELSE [k EXCEPT !.err = "MEM"]]
  /\ trouble' = IF call = "connect" THEN trouble \cup {"memory"} ELSE trouble
  /\ TransportSame /\ UNCHANGED <<sock, thread, faults>>

Ask(t, call, s, n, k) == Request(t, call, s, n, k) \/ RequestFails(call, s, k)

\* lwip_socket, of a thread that has none.  A server starts
\* first; workers open their own only without one.  Bound: none is opened
\* after a mishap.
Socket(t, type) ==
  /\ thread[t] = Idle(None) /\ FreeConns(conn) # {} /\ FreeSockets(sock) # {} /\ trouble = {}
  /\ IF t = Server THEN type = "TCP" /\ \A c \in Conns : conn[c] = NoConn
     ELSE thread[Server] = Idle(None)
  /\ LET c == CHOOSE x \in FreeConns(conn) : TRUE
         s == FirstFree(sock)
     IN  /\ conn' = [conn EXCEPT ![c] = NewConn(@, type)]
         /\ sock' = [sock EXCEPT ![s].conn = c]
         /\ Goto(t, Idle(s))
  /\ TransportSame /\ UNCHANGED <<left, trouble, faults>>

\* thread t is in no call, and has a socket of a connection c.
Has(t, c) == thread[t].pc = "idle" /\ thread[t].s # None /\ sock[thread[t].s].conn = c

\* lwip_bind, netconn_bind
Bind(t, port) ==
  \E c \in Conns :
    /\ Has(t, c) /\ conn[c].pcb = "none" /\ ~conn[c].tried /\ conn[c].recvmbox = NoMbox
    /\ Ask(t, "bind", thread[t].s, port,
           [conn[c] EXCEPT !.recvmbox = IF conn[c].type = "UDP" /\ @ = NoMbox THEN <<>> ELSE @])

\* lwip_listen, netconn_listen
Listen(t) ==
  \E c \in Conns :
    /\ t = Server /\ Has(t, c) /\ conn[c].pcb = "bound"
    /\ Ask(t, "listen", thread[t].s, 0, [conn[c] EXCEPT !.acceptmbox = IF @ = NoMbox THEN <<>> ELSE @])

\* lwip_connect, netconn_connect.  A stream is connected once.
Connect(t, peer) ==
  \E c \in Conns :
    /\ t # Server /\ Has(t, c)
    /\ conn[c].type = "TCP" => conn[c].pcb \in {"none", "bound"} /\ ~conn[c].tried
    /\ Ask(t, "connect", thread[t].s, peer,
           [conn[c] EXCEPT !.recvmbox = IF @ = NoMbox THEN <<>> ELSE @, !.tried = TRUE])

\* lwip_send of a datagram, netconn_send
Send(t) ==
  \E c \in Conns :
    /\ Has(t, c) /\ conn[c].type = "UDP" /\ conn[c].pcb = "udp"
    /\ conn[c].err = "OK"
    /\ Ask(t, "send", thread[t].s, 1, conn[c])

\* lwip_accept: netconn_accept takes a connection from acceptmbox, and
\* netconn_peer reads its control block.  The new socket goes to a worker; if
\* there is no free descriptor the connection is deleted, or stays if there is
\* no memory for that request.
AcceptLeaks(t) == \* mutant: without a descriptor the connection is forgotten
  \E c \in Conns :
    /\ t = Server /\ Has(t, c) /\ conn[c].pcb = "listen" /\ conn[c].acceptmbox # <<>>
    /\ LET d == Head(conn[c].acceptmbox)
       IN  IF conn[d].pcb = "none" THEN Crash("null pcb")
           ELSE /\ conn' = [conn EXCEPT ![c].acceptmbox = Tail(@)]
                /\ IF FreeSockets(sock) = {}
                   THEN UNCHANGED <<sock, queue, thread>>
                   ELSE /\ \E w \in Workers :
                             /\ thread[w] = Idle(None)
                             /\ Goto(w, Idle(FirstFree(sock)))
                        /\ sock' = [sock EXCEPT ![FirstFree(sock)].conn = d]
                        /\ UNCHANGED queue
                /\ UNCHANGED <<posting, attached, udp_pcbs, left, trouble, faults>>

Accept(t) ==
  \E c \in Conns :
    /\ t = Server /\ Has(t, c) /\ conn[c].pcb = "listen" /\ conn[c].acceptmbox # <<>>
    /\ LET d == Head(conn[c].acceptmbox)
       IN  IF conn[d].pcb = "none" THEN Crash("null pcb")
           ELSE /\ conn' = [conn EXCEPT ![c].acceptmbox = Tail(@)]
                /\ IF FreeSockets(sock) = {}
                   THEN /\ \/ Post(t, [Idle(thread[t].s) EXCEPT !.c = d, !.call = "delconn"])
                           \/ NoMemory /\ UNCHANGED <<queue, thread>>
                        /\ UNCHANGED sock
                   ELSE /\ \E w \in Workers :
                             /\ thread[w] = Idle(None)
                             /\ Goto(w, Idle(FirstFree(sock)))
                        /\ sock' = [sock EXCEPT ![FirstFree(sock)].conn = d]
                        /\ UNCHANGED <<queue, left, trouble>>
                /\ UNCHANGED <<posting, attached, udp_pcbs, faults>>

\* lwip_close, netconn_delete
Close(t) ==
  \E c \in Conns :
    /\ t # Server /\ Has(t, c)
    /\ Request(t, "delconn", thread[t].s, 0, conn[c])

\* netconn_delete finds no memory for its request: the socket is given back,
\* but the connection stays.
CloseFails(t) ==
  \E c \in Conns :
    /\ t # Server /\ Has(t, c) /\ NoMemory
    /\ sock' = [sock EXCEPT ![thread[t].s] = NoSocket]
    /\ Goto(t, Idle(None))
    /\ TransportSame /\ UNCHANGED <<conn, faults>>

-----------------------------------------------------------------------------
(* lwip_recvfrom and netconn_recv                                          *)

\* n bytes at most are read from buf; what is left is kept for the next read.
Copy(o, buf, n) ==
  LET buflen == buf.len - o.lastoffset
      copylen == Smaller(n, buflen)
  IN  [o EXCEPT !.lastdata = IF buflen - copylen > 0 THEN buf ELSE End,
                !.lastoffset = IF buflen - copylen > 0 THEN @ + copylen ELSE 0]

\* n bytes at most of buf are read through the socket o.
Consumed(k, o, buf, n) == [k EXCEPT !.got = @ + Smaller(n, buf.len - o.lastoffset)]

\* A datagram is never kept.
Kept(k, o) == IF k.type = "TCP" THEN o ELSE [o EXCEPT !.lastdata = End, !.lastoffset = 0]

\* lwip_recvfrom, up to the point where netconn_recv uses the control block.
Read(t, n) ==
  \E c \in Conns :
    LET s == thread[t].s
        o == Copy(sock[s], sock[s].lastdata, n)
        r == [Idle(s) EXCEPT !.c = c, !.call = "recv", !.n = n]
    IN  /\ t # Server /\ Has(t, c)
        /\ \/ /\ sock[s].lastdata # End
              /\ conn' = [conn EXCEPT ![c] = Consumed(@, sock[s], sock[s].lastdata, n)]
              /\ sock' = [sock EXCEPT ![s] = o]
              /\ UNCHANGED thread
           \/ /\ sock[s].lastdata = End /\ conn[c].recvmbox = NoMbox
              /\ conn' = [conn EXCEPT ![c].err = "CONN"]
              /\ UNCHANGED <<sock, thread>>
           \/ /\ sock[s].lastdata = End /\ conn[c].recvmbox # NoMbox /\ conn[c].err = "OK"
              /\ Goto(t, [r EXCEPT !.pc = IF conn[c].type = "TCP" THEN "state" ELSE "fetch"])
              /\ UNCHANGED <<conn, sock>>
        /\ TransportSame /\ UNCHANGED <<left, trouble, faults>>

\* netconn_recv looks at the state of the control block and allocates the
\* netbuf.
ReadState(t) ==
  LET r == thread[t]
  IN  /\ r.pc = "state"
      /\ IF conn[r.c].pcb = "none" THEN Crash("null pcb")
         ELSE /\ Goto(t, [r EXCEPT !.pc = "fetch"])
              /\ TransportSame /\ UNCHANGED <<conn, sock, left, trouble, faults>>

\* ... or finds no memory for it.
ReadNoMemory(t) ==
  LET r == thread[t]
  IN  /\ r.pc = "state" /\ conn[r.c].pcb # "none" /\ Spend("mishaps")
      /\ conn' = [conn EXCEPT ![r.c].err = "MEM"]
      /\ Goto(t, Idle(r.s))
      /\ TransportSame /\ UNCHANGED <<sock, trouble, faults>>

\* sys_mbox_fetch(conn->recvmbox).  The end of the stream closes the mailbox.
ReadEnd(t) ==
  LET r == thread[t]
  IN  /\ r.pc = "fetch" /\ conn[r.c].recvmbox # <<>> /\ Head(conn[r.c].recvmbox) = End
      /\ conn' = [conn EXCEPT ![r.c].recvmbox = NoMbox]
      /\ Goto(t, Idle(r.s))
      /\ TransportSame /\ UNCHANGED <<sock, left, trouble, faults>>

\* Data of a TCP connection is first reported to the transport thread; without
\* memory for that it is read all the same, and the connection has an error.
ReadFetch(t) ==
  LET r == thread[t]
      k == conn[r.c]
      p == Head(k.recvmbox)
      o == Copy(sock[r.s], p, r.n)
      K == [k EXCEPT !.recvmbox = Tail(@)]
  IN  /\ r.pc = "fetch" /\ k.recvmbox # <<>> /\ p # End
      /\ IF k.type = "TCP"
         THEN \/ /\ conn' = [conn EXCEPT ![r.c] = K]
                 /\ Post(t, [r EXCEPT !.data = p, !.arg = p.len])
                 /\ UNCHANGED sock
              \/ /\ Spend("mishaps")
                 /\ conn' = [conn EXCEPT ![r.c] = Consumed([K EXCEPT !.err = "MEM"], sock[r.s], p, r.n)]
                 /\ sock' = [sock EXCEPT ![r.s] = o]
                 /\ Goto(t, Idle(r.s))
                 /\ UNCHANGED <<queue, trouble>>
         ELSE /\ conn' = [conn EXCEPT ![r.c] = Consumed(K, sock[r.s], p, r.n)]
              /\ sock' = [sock EXCEPT ![r.s] = Kept(k, o)]
              /\ Goto(t, Idle(r.s))
              /\ UNCHANGED <<queue, left, trouble>>
      /\ UNCHANGED <<posting, attached, udp_pcbs, faults>>

-----------------------------------------------------------------------------
(* lwip_write and netconn_write                                            *)

\* The end of netconn_write; the request is freed, after an error the semaphore too.
WriteEnds(t, k, error) ==
  /\ conn' = [conn EXCEPT ![thread[t].c] =
                IF error THEN [k EXCEPT !.state = "NONE", !.sem = -1] ELSE k]
  /\ Goto(t, Idle(thread[t].s))
  /\ queue' = Freed(queue, t)
  /\ UNCHANGED <<posting, attached, udp_pcbs, sock, left, trouble, faults>>

\* netconn_write, up to its loop, of a connection that was made.
Write(t) ==
  \E c \in Conns :
    /\ t # Server /\ Has(t, c) /\ conn[c].type = "TCP" /\ conn[c].err = "OK"
    /\ conn[c].pcb = "open" \/ conn[c].recvmbox # NoMbox
    /\ conn[c].asked + WriteSize <= MaxOut
    /\ LET k == [conn[c] EXCEPT !.sem = IF @ = -1 THEN 0 ELSE @]
       IN  \/ /\ conn' = [conn EXCEPT ![c] = [k EXCEPT !.state = "WRITE", !.asked = @ + WriteSize]]
              /\ Goto(t, [Idle(thread[t].s) EXCEPT !.pc = "loop", !.c = c, !.call = "write",
                                                  !.n = WriteSize])
              /\ TransportSame /\ UNCHANGED <<sock, left, trouble, faults>>
           \/ RequestFails("write", thread[t].s, k)

\* The length of the next piece, and the request for it.
WritePiece(t) ==
  LET r == thread[t]
  IN  /\ Post(t, [r EXCEPT !.arg = Smaller(r.n, conn[r.c].sndbuf)])
      /\ UNCHANGED <<conn, sock, posting, attached, udp_pcbs, faults>>

\* The head of the loop, and tcp_sndbuf.
WriteLoop(t) ==
  LET r == thread[t]
      k == conn[r.c]
  IN  /\ r.pc = "loop"
      /\ IF k.err # "OK" \/ r.n = 0 THEN WriteEnds(t, k, FALSE)
         ELSE IF k.pcb = "none" THEN Crash("null pcb")
         ELSE IF k.sndbuf # 0 THEN WritePiece(t)
         ELSE /\ Goto(t, [r EXCEPT !.pc = "full"])
              /\ TransportSame /\ UNCHANGED <<conn, sock, left, trouble, faults>>

\* sys_sem_wait(conn->sem) when the send buffer is full.
WriteFull(t) ==
  LET r == thread[t]
      k == conn[r.c]
  IN  /\ r.pc = "full" /\ k.sem = 1
      /\ conn' = [conn EXCEPT ![r.c].sem = 0]
      /\ Goto(t, [r EXCEPT !.pc = "space"])
      /\ TransportSame /\ UNCHANGED <<sock, left, trouble, faults>>

WriteSpace(t) ==
  LET r == thread[t]
      k == conn[r.c]
  IN  /\ r.pc = "space"
      /\ IF k.err # "OK" THEN WriteEnds(t, k, TRUE)
         ELSE IF k.pcb = "none" THEN Crash("null pcb")
         ELSE WritePiece(t)

WriteDoneSkips(t) == \* mutant: after a lack of memory the piece counts as written
  LET r == thread[t]
      k == conn[r.c]
  IN  /\ r.pc = "done"
      /\ CASE k.err \in {"OK", "MEM"} ->
                /\ Goto(t, [r EXCEPT !.pc = IF k.err = "OK" THEN "loop" ELSE "clear", !.n = @ - r.arg])
                /\ TransportSame /\ UNCHANGED <<conn, sock, left, trouble, faults>>
           [] OTHER -> WriteEnds(t, k, TRUE)

\* The answer to a piece.
WriteDone(t) ==
  LET r == thread[t]
      k == conn[r.c]
  IN  /\ r.pc = "done"
      /\ CASE k.err = "OK" ->
                /\ Goto(t, [r EXCEPT !.pc = "loop", !.n = @ - r.arg])
                /\ TransportSame /\ UNCHANGED <<conn, sock, left, trouble, faults>>
           [] k.err = "MEM" ->
                /\ Goto(t, [r EXCEPT !.pc = "clear"])
                /\ TransportSame /\ UNCHANGED <<conn, sock, left, trouble, faults>>
           [] OTHER -> WriteEnds(t, k, TRUE)

\* conn->err = ERR_OK, and sys_sem_wait(conn->sem)
WriteClear(t) ==
  LET r == thread[t]
  IN  /\ r.pc = "clear"
      /\ conn' = [conn EXCEPT ![r.c].err = "OK"]
      /\ Goto(t, [r EXCEPT !.pc = "memory"])
      /\ TransportSame /\ UNCHANGED <<sock, left, trouble, faults>>

WriteMemory(t) ==
  LET r == thread[t]
  IN  /\ r.pc = "memory" /\ conn[r.c].sem = 1
      /\ conn' = [conn EXCEPT ![r.c].sem = 0]
      /\ Goto(t, [r EXCEPT !.pc = "loop"])
      /\ TransportSame /\ UNCHANGED <<sock, left, trouble, faults>>

-----------------------------------------------------------------------------
(* sys_mbox_fetch(conn->mbox), and what the call does with the answer.     *)

Answered(t) ==
  LET r == thread[t]
      k == [conn[r.c] EXCEPT !.mbox = @ - 1]
      o == Copy(sock[r.s], r.data, r.n)
  IN  /\ r.pc = "wait" /\ conn[r.c].mbox > 0
      /\ CASE r.call = "recv" ->
                /\ conn' = [conn EXCEPT ![r.c] = Consumed(k, sock[r.s], r.data, r.n)]
                /\ sock' = [sock EXCEPT ![r.s] = o]
                /\ Goto(t, Idle(r.s)) /\ queue' = Freed(queue, t)
           [] r.call = "write" ->
                /\ conn' = [conn EXCEPT ![r.c] = k]
                /\ Goto(t, [r EXCEPT !.pc = "done", !.lost = FALSE])
                /\ UNCHANGED <<sock, queue>>
           [] r.call = "delconn" ->
                /\ conn' = [conn EXCEPT ![r.c] = [NoConn EXCEPT !.err = k.err, !.state = k.state]]
                /\ Goto(t, IF sock[r.s].conn = r.c THEN [r EXCEPT !.pc = "closed"] ELSE Idle(r.s))
                /\ queue' = Freed(queue, t) /\ UNCHANGED sock
           [] OTHER ->
                /\ conn' = [conn EXCEPT ![r.c] = k]
                /\ Goto(t, Idle(r.s)) /\ queue' = Freed(queue, t)
                /\ UNCHANGED sock
      /\ UNCHANGED <<posting, attached, udp_pcbs, left, trouble, faults>>

\* The end of lwip_close.
Closed(t) ==
  /\ thread[t].pc = "closed"
  /\ sock' = [sock EXCEPT ![thread[t].s] = NoSocket]
  /\ Goto(t, Idle(None))
  /\ TransportSame /\ UNCHANGED <<conn, left, trouble, faults>>

-----------------------------------------------------------------------------
(* The transport thread: the requests.                                     *)

Request1 == Head(queue)

\* The next request is m, and nobody has freed it.  The handler leaves conn k.
Serve(m, k) ==
  /\ queue' = Tail(queue)
  /\ conn' = [conn EXCEPT ![m.conn] = k]
  /\ UNCHANGED <<sock, posting, faults>>

Next1(calls) == queue # <<>> /\ posting = <<>> /\ ~Request1.freed /\ Request1.call \in calls

\* sys_mbox_post(conn->mbox, NULL)
Reply(k) == [k EXCEPT !.mbox = @ + 1]

\* The transport thread looks at a request that was freed.
ServeFreed ==
  /\ queue # <<>> /\ posting = <<>> /\ Request1.freed
  /\ Crash("freed request")

DetachNone(c) == attached \* mutant: the callbacks stay

Detach(c) == attached \ {c}

\* udp_remove
Unlisted(c) == SelectSeq(udp_pcbs, LAMBDA d : d # c)

\* udp_bind and udp_connect put a control block on the list once.
Listed(c) == IF c \in Members(udp_pcbs) THEN udp_pcbs ELSE <<c>> \o udp_pcbs

\* do_delconn: the control block forgets the connection, and is closed.
DoDelconn ==
  LET m == Request1
  IN  /\ Next1({"delconn"})
      /\ Serve(m, Reply(conn[m.conn]))
      /\ attached' = Detach(m.conn)
      /\ udp_pcbs' = Unlisted(m.conn)
      /\ UNCHANGED <<thread, left, trouble>>

\* do_bind.  A null pointer from udp_new or tcp_new is not looked at.
DoBind ==
  LET m == Request1
      k == conn[m.conn]
  IN  /\ Next1({"bind"})
      /\ \/ /\ k.type = "TCP"
            /\ \E err \in {"OK", "USE"} :
                 Serve(m, Reply([k EXCEPT !.pcb = "bound", !.err = err, !.sndbuf = SndBuf]))
            /\ attached' = attached \cup {m.conn} /\ UNCHANGED udp_pcbs
         \/ /\ k.type = "UDP"
            /\ Serve(m, Reply([k EXCEPT !.pcb = "udp", !.local = m.arg]))
            /\ attached' = attached \cup {m.conn} /\ udp_pcbs' = Listed(m.conn)
      /\ UNCHANGED <<thread, left, trouble>>

DoBindFails ==
  /\ Next1({"bind"}) /\ NoMemory
  /\ faults' = faults \cup {"null pcb"}
  /\ UNCHANGED <<conn, sock, thread, queue, posting, attached, udp_pcbs>>

ConnectReplies == \* mutant: a TCP connection is answered before it is there
  LET m == Request1
      k == conn[m.conn]
  IN  /\ Next1({"connect"})
      /\ \/ /\ k.type = "TCP"
            /\ Serve(m, Reply([k EXCEPT !.pcb = "syn"]))
            /\ attached' = attached \cup {m.conn} /\ UNCHANGED udp_pcbs
         \/ /\ k.type = "UDP"
            /\ Serve(m, Reply([k EXCEPT !.pcb = "udp", !.remote = m.arg]))
            /\ attached' = attached \cup {m.conn} /\ udp_pcbs' = Listed(m.conn)
      /\ UNCHANGED <<thread, left, trouble>>

\* do_connect.  A TCP connection is answered by do_connected or err_tcp.
DoConnect ==
  LET m == Request1
      k == conn[m.conn]
  IN  /\ Next1({"connect"})
      /\ \/ /\ k.type = "TCP"
            /\ Serve(m, [k EXCEPT !.pcb = "syn"])
            /\ attached' = attached \cup {m.conn} /\ UNCHANGED udp_pcbs
         \/ /\ k.type = "UDP"
            /\ Serve(m, Reply([k EXCEPT !.pcb = "udp", !.remote = m.arg]))
            /\ attached' = attached \cup {m.conn} /\ udp_pcbs' = Listed(m.conn)
      /\ UNCHANGED <<thread, left, trouble>>

\* ... without memory for the control block, which is noticed, or for the SYN,
\* which is not: then there will never be an answer.
DoConnectFails ==
  LET m == Request1
      k == conn[m.conn]
  IN  /\ Next1({"connect"}) /\ NoMemory
      /\ \/ /\ k.pcb = "none" /\ Serve(m, Reply([k EXCEPT !.err = "MEM"]))
            /\ UNCHANGED <<thread, attached>>
         \/ /\ k.type = "TCP" /\ Serve(m, [k EXCEPT !.pcb = "stuck"])
            /\ attached' = attached \cup {m.conn}
            /\ Goto(m.thread, [thread[m.thread] EXCEPT !.lost = TRUE])
      /\ UNCHANGED udp_pcbs

\* do_listen
DoListen ==
  LET m == Request1
      k == conn[m.conn]
  IN  /\ Next1({"listen"})
      /\ Serve(m, Reply(IF k.pcb = "none" THEN k ELSE [k EXCEPT !.pcb = "listen"]))
      /\ UNCHANGED <<thread, attached, udp_pcbs, left, trouble>>

\* ... without memory for the listening control block.
DoListenFails ==
  LET m == Request1
  IN  /\ Next1({"listen"}) /\ NoMemory
      /\ Serve(m, Reply([conn[m.conn] EXCEPT !.pcb = "none", !.err = "MEM"]))
      /\ attached' = Detach(m.conn)
      /\ UNCHANGED <<thread, udp_pcbs>>

\* do_send, with udp_send, and do_recv, with tcp_recved.
DoSendRecv ==
  LET m == Request1
  IN  /\ Next1({"send", "recv"})
      /\ Serve(m, Reply(conn[m.conn]))
      /\ UNCHANGED <<thread, attached, udp_pcbs, left, trouble>>

\* do_write: tcp_write takes the piece, or has no room for it.
DoWrite ==
  LET m == Request1
      k == conn[m.conn]
  IN  /\ Next1({"write"})
      /\ \/ /\ k.pcb # "open"
            /\ Serve(m, Reply(IF k.pcb = "none" THEN k ELSE [k EXCEPT !.err = "CONN"]))
         \/ /\ k.pcb = "open" /\ m.arg <= k.sndbuf
            /\ Serve(m, Reply([k EXCEPT !.err = "OK", !.sndbuf = @ - m.arg, !.out = @ + m.arg]))
         \/ /\ k.pcb = "open" /\ m.arg > 0
            /\ Serve(m, Reply([k EXCEPT !.err = "MEM"]))
      /\ UNCHANGED <<thread, attached, udp_pcbs, left, trouble>>

-----------------------------------------------------------------------------
(* The transport thread: segments, datagrams and timers.                   *)

\* A callback for c, which leaves it k.
Callback(c, k) ==
  /\ conn' = [conn EXCEPT ![c] = k]
  /\ UNCHANGED <<sock, thread, queue, udp_pcbs, faults>>

Ready(c) == posting = <<>> /\ c \in attached

\* A callback for a connection that was deleted.
CallbackFreed(c) == Ready(c) /\ ~conn[c].used /\ Crash("freed conn")

Signal(k) == IF k.sem = -1 THEN k ELSE [k EXCEPT !.sem = 1]

\* recv_tcp with a segment, up to its test of recvmbox.
Data(c, n) ==
  LET k == conn[c]
  IN  /\ Ready(c) /\ k.pcb = "open" /\ ~k.ended /\ k.in + n <= MaxIn
      /\ Callback(c, [k EXCEPT !.in = @ + n])
      /\ posting' = IF k.recvmbox = NoMbox THEN <<>> ELSE <<c, [from |-> k.in, len |-> n]>>
      /\ UNCHANGED <<attached, left, trouble>>

\* recv_tcp with the end of the stream.  TF_GOT_FIN stays, so that later
\* segments report the end again; bound: repeats.
Fin(c) ==
  LET k == conn[c]
  IN  /\ Ready(c) /\ k.pcb = "open"
      /\ IF k.ended THEN Spend("repeats") ELSE UNCHANGED left
      /\ Callback(c, [k EXCEPT !.ended = TRUE])
      /\ posting' = IF k.recvmbox = NoMbox THEN <<>> ELSE <<c, End>>
      /\ UNCHANGED <<attached, trouble>>

\* The rest of recv_tcp.  netconn_recv may have freed the mailbox, and an error
\* that a caller has not seen yet is overwritten.
RecvPost ==
  /\ posting # <<>>
  /\ LET c == posting[1]
         k == conn[c]
     IN  IF k.recvmbox = NoMbox THEN Crash("freed mbox")
         ELSE /\ Callback(c, [k EXCEPT !.err = "OK", !.recvmbox = Append(@, posting[2])])
              /\ posting' = <<>>
              /\ trouble' = IF k.err = "OK" THEN trouble ELSE trouble \cup {"error lost"}
              /\ UNCHANGED <<attached, left>>

\* do_connected
Connected(c) ==
  /\ Ready(c) /\ conn[c].pcb = "syn"
  /\ Callback(c, Reply([conn[c] EXCEPT !.pcb = "open", !.err = "OK", !.sndbuf = SndBuf]))
  /\ UNCHANGED <<posting, attached, left, trouble>>

\* err_tcp, for a reset or a connection that is given up.  It is the answer to
\* a connect; at any other time it is one that nobody waits for.
Reset(c) ==
  LET k == conn[c]
      E == [k EXCEPT !.pcb = "none", !.err = "RST", !.mbox = @ + 1,
                     !.recvmbox = IF @ = NoMbox THEN @ ELSE Append(@, End)]
  IN  /\ Ready(c) /\ k.pcb \in {"syn", "open"} /\ Spend("mishaps")
      /\ Callback(c, Signal(E))
      /\ attached' = Detach(c)
      /\ trouble' = IF k.pcb = "syn" THEN trouble ELSE trouble \cup {"reset"}
      /\ UNCHANGED posting

\* sent_tcp
Sent(c) ==
  /\ Ready(c) /\ conn[c].pcb = "open" /\ conn[c].sndbuf < SndBuf
  /\ Callback(c, Signal([conn[c] EXCEPT !.sndbuf = SndBuf]))
  /\ UNCHANGED <<posting, attached, left, trouble>>

PollClosing(k) == k.state = "CLOSE" \* mutant: writers are not woken

\* poll_tcp wakes a caller that waits for room.
PollWakes(k) == k.state \in {"WRITE", "CLOSE"}

Poll(c) ==
  /\ Ready(c) /\ conn[c].pcb = "open" /\ PollWakes(conn[c]) /\ conn[c].sem = 0
  /\ Callback(c, Signal(conn[c]))
  /\ UNCHANGED <<posting, attached, left, trouble>>

\* accept_function: a new connection for a listening one.  The fields err and
\* state are not all set.  Without memory the connection is aborted.
Incoming(c) ==
  /\ posting = <<>> /\ conn[c].used /\ conn[c].pcb = "listen" /\ Spend("arrivals")
  /\ IF FreeConns(conn) = {} THEN UNCHANGED <<conn, attached>>
     ELSE LET d == CHOOSE x \in FreeConns(conn) : TRUE
          IN  /\ conn' = [conn EXCEPT
                   ![c].acceptmbox = Append(@, d),
                   ![d] = [NewConn(@, "TCP") EXCEPT !.pcb = "open", !.err = "OK", !.sem = 0, !.state = conn[d].state,
                                     !.tried = TRUE, !.recvmbox = <<>>, !.sndbuf = SndBuf]]
              /\ attached' = attached \cup {d}
  /\ UNCHANGED <<sock, thread, queue, posting, udp_pcbs, trouble, faults>>

\* udp_input: the control block with this local port and this peer, or else the
\* first one with this local port.
Wants(k, peer, port) == k.local = port /\ k.remote[1] \in {0, peer[1]}

Receivers(peer, port) ==
  LET wanted == SelectSeq(udp_pcbs, LAMBDA d : Wants(conn[d], peer, port))
      exact == SelectSeq(wanted, LAMBDA d : conn[d].remote[2] = peer[2])
  IN  exact \o wanted

\* recv_udp
RecvUdp(k, n) == [k EXCEPT !.in = @ + n, !.recvmbox = Append(@, [from |-> k.in, len |-> n])]

\* udp_input, as ip_input of lwIP calls it.
Datagram(peer, port, n) ==
  LET q == Receivers(peer, port)
      c == Head(q)
      k == conn[c]
  IN  /\ posting = <<>> /\ q # <<>> /\ c \in attached
      /\ k.recvmbox # NoMbox /\ k.in + n <= MaxIn
      /\ Callback(c, RecvUdp(k, n))
      /\ UNCHANGED <<posting, attached, left, trouble>>

-----------------------------------------------------------------------------
Init ==
  /\ conn = [c \in Conns |-> NoConn]
  /\ sock = [s \in Sockets |-> NoSocket]
  /\ thread = [t \in Threads |-> Idle(None)]
  /\ queue = <<>> /\ posting = <<>> /\ attached = {} /\ udp_pcbs = <<>>
  /\ left \in Budgets /\ trouble = {} /\ faults = {}

Call(t) ==
  \/ \E type \in {"TCP", "UDP"} : Socket(t, type)
  \/ \E port \in Ports : Bind(t, port)
  \/ \E peer \in Peers : Connect(t, peer)
  \/ Listen(t) \/ Accept(t) \/ Send(t) \/ Write(t) \/ Close(t) \/ CloseFails(t)
  \/ \E n \in ReadSizes : Read(t, n)

\* What a thread does inside a call.
Work(t) ==
  \/ ReadState(t) \/ ReadNoMemory(t) \/ ReadFetch(t) \/ ReadEnd(t)
  \/ WriteLoop(t) \/ WriteFull(t) \/ WriteSpace(t) \/ WriteDone(t) \/ WriteClear(t) \/ WriteMemory(t)
  \/ Answered(t) \/ Closed(t)

ServeRequest ==
  \/ ServeFreed \/ DoDelconn \/ DoBind \/ DoBindFails \/ DoConnect \/ DoConnectFails
  \/ DoListen \/ DoListenFails \/ DoSendRecv \/ DoWrite

Event(c) ==
  \/ CallbackFreed(c) \/ Fin(c) \/ Connected(c) \/ Reset(c) \/ Sent(c) \/ Poll(c) \/ Incoming(c)
  \/ \E n \in Lengths : Data(c, n)

Next ==
  /\ faults = {}
  /\ \/ \E t \in Threads : Call(t) \/ Work(t)
     \/ ServeRequest \/ RecvPost
     \/ \E c \in Conns : Event(c)
     \/ \E peer \in Peers, port \in Ports, n \in Lengths : Datagram(peer, port, n)

Spec == Init /\ [][Next]_vars

\* The threads run, the timer of the transport thread fires, and a connection
\* that was asked for is made, whatever else the transport thread has to do.
Fairness ==
  /\ \A t \in Threads : WF_vars(faults = {} /\ Work(t))
  /\ WF_vars(faults = {} /\ (ServeRequest \/ RecvPost))
  /\ \A c \in Conns : SF_vars(faults = {} /\ Poll(c)) /\ SF_vars(faults = {} /\ Connected(c))

FairSpec == Spec /\ Fairness

-----------------------------------------------------------------------------
(* Properties.                                                             *)

Errors == {"OK", "MEM", "CONN", "RST", "USE"}

\* The fields of a netconn, a socket and a thread.
TypeOK ==
  /\ \A c \in Conns :
       LET k == conn[c]
       IN  /\ k.used \in BOOLEAN /\ k.type \in {"TCP", "UDP"} /\ k.err \in Errors
           /\ k.pcb \in {"none", "bound", "listen", "syn", "stuck", "open", "udp"}
           /\ k.state \in {"NONE", "WRITE"} /\ k.mbox \in Nat /\ k.sem \in -1 .. 1
           /\ k.sndbuf \in 0 .. SndBuf
  /\ \A s \in Sockets : sock[s].conn \in Conns \cup {None}
  /\ attached \subseteq Conns /\ Members(udp_pcbs) \subseteq Conns
  /\ left \in [Bounds -> Nat]

\* Requests of t that the transport thread has not taken.
Pending(t) == {i \in DOMAIN queue : queue[i].thread = t}

\* Unless err_tcp has answered where nobody asked, or a request was dropped or
\* its SYN had no memory, an answer is taken by the call it answers: a caller
\* that waits has one request on its way or one answer to take, and nobody else
\* has any.
OwnAnswer ==
  trouble \subseteq {"error lost"} =>
    \A t \in Threads :
      LET r == thread[t]
          k == conn[r.c]
      IN  IF r.pc = "wait"
          THEN Cardinality(Pending(t)) + k.mbox + (IF k.pcb = "syn" THEN 1 ELSE 0) = 1
          ELSE Pending(t) = {} /\ ((r.s # None /\ r.pc # "closed") => conn[sock[r.s].conn].mbox = 0)

\* No callback uses a connection that was deleted, whatever happens.  A request
\* is used after it was freed only when err_tcp has answered in its place, and a
\* null control block only after a reset or a lack of memory.  A mailbox is used
\* after it was freed only by a segment that reports the end once more.
NoFault ==
  /\ "freed conn" \notin faults
  /\ "freed request" \in faults => "reset" \in trouble
  /\ "null pcb" \in faults => {"reset", "memory"} \cap trouble # {}
  /\ "freed mbox" \in faults => conn[posting[1]].ended /\ posting[2] = End

\* A caller takes the answer to its own request, and neither it nor the transport
\* thread uses what the other has freed, but for what err_tcp and a lack of memory
\* can do (netconn_bind to netconn_write against api_msg.c).
RequestsSafe == OwnAnswer /\ NoFault

\* api_lib.c:459 says of the end of a stream: "If we are closed, we indicate that
\* we no longer wish to recieve data by setting conn->recvmbox to SYS_MBOX_NULL."
\* So recv_tcp never posts to a mailbox that netconn_recv has freed.  It does:
\* its test (api_msg.c:58) and its post (60) are two steps.
ClosedMailboxUnused == "freed mbox" \notin faults

\* The sockets of c.  A close has freed its connection before it clears the
\* socket, and someone else may have the connection by then.
SocketsOf(c) ==
  {s \in Sockets : sock[s].conn = c /\ ~\E t \in Threads : thread[t].pc = "closed" /\ thread[t].s = s}

Owners(c) ==
  {<<"socket", s>> : s \in SocketsOf(c)}
    \cup {<<"mailbox", d>> : d \in {x \in Conns : conn[x].acceptmbox # NoMbox /\ c \in Members(conn[x].acceptmbox)}}
    \cup {<<"call", t>> : t \in {x \in Threads : thread[x].c = c /\ sock[thread[x].s].conn # c}}

\* Every netconn that is in use belongs to one socket, one accept mailbox or
\* one call, so that it will be deleted, and only once.
OneOwner ==
  ("memory" \notin trouble /\ faults = {}) => \A c \in Conns : conn[c].used => Cardinality(Owners(c)) = 1

\* What a reader of a stream has not read yet is what is left of the last
\* segment, what it has fetched and what waits in the mailbox: no byte is read
\* twice or left out.
Unread(c) ==
  LET k == conn[c]
      s == CHOOSE x \in SocketsOf(c) : TRUE
      rest == IF sock[s].lastdata = End THEN <<>>
              ELSE <<[from |-> sock[s].lastdata.from + sock[s].lastoffset,
                      len |-> sock[s].lastdata.len - sock[s].lastoffset]>>
      fetched == LET T == {t \in Threads : thread[t].c = c /\ thread[t].data # End}
                 IN  IF T = {} THEN <<>> ELSE <<thread[CHOOSE t \in T : TRUE].data>>
      coming == IF posting # <<>> /\ posting[1] = c THEN <<posting[2]>> ELSE <<>>
  IN  SelectSeq(rest \o fetched \o k.recvmbox \o coming, LAMBDA x : x # End)

InOrder ==
  \A c \in Conns :
    (/\ conn[c].used /\ conn[c].type = "TCP" /\ conn[c].recvmbox # NoMbox
     /\ SocketsOf(c) # {})
      => LET u == Unread(c)
         IN  IF u = <<>> THEN conn[c].got = conn[c].in
             ELSE /\ u[1].from = conn[c].got
                  /\ u[Len(u)].from + u[Len(u)].len = conn[c].in
                  /\ \A i \in 1 .. Len(u) - 1 : u[i].from + u[i].len = u[i + 1].from

\* What a writer of c has still to hand over.
ToWrite(c) ==
  LET T == {t \in Threads : thread[t].c = c /\ thread[t].call = "write"}
      r == thread[CHOOSE t \in T : TRUE]
  IN  IF T = {} THEN 0
      ELSE IF (r.pc = "done" \/ (r.pc = "wait" /\ conn[c].mbox > 0)) THEN r.n - r.arg ELSE r.n

\* A write hands no byte to tcp_write twice, however often it has to wait for
\* room and whatever happens to the connection; and it leaves none out as long
\* as recv_tcp does not overwrite an error that the writer has not seen.
WrittenOnce ==
  \A c \in Conns : (conn[c].used /\ conn[c].err = "OK") =>
    /\ conn[c].out + ToWrite(c) <= conn[c].asked
    /\ trouble = {} => conn[c].out + ToWrite(c) = conn[c].asked

\* Every call that waits for the transport thread goes on, and so does every
\* writer that waits for room, even after a reset, unless its request was lost.
CallsEnd ==
  \A t \in Threads :
    /\ (thread[t].pc = "wait") ~> (thread[t].pc # "wait" \/ thread[t].lost \/ faults # {})
    /\ (thread[t].pc \in {"full", "memory"}) ~> (thread[t].pc \notin {"full", "memory"} \/ faults # {})

\* netconn_new, lwip_accept and netconn_delete: every connection is described
\* by its fields and belongs to somebody, and to one only.
ConnsOwned == TypeOK /\ OneOwner

\* lwip_recv and netconn_write: both directions of a stream pass the socket
\* without a gap or a repetition.
StreamsIntact == InOrder /\ WrittenOnce
=============================================================================
