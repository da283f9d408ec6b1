-------------------------------- MODULE Router -------------------------------
(***************************************************************************)
(* The process around the parts (SW_stub/sr_main.c, sr_base.c,             *)
(* sr_integration.c, sr_router.c, sr_interface.c and                       *)
(* sr_mininet_extension.c, the build the Makefile selects): main brings    *)
(* the router up in order and then becomes the command line; the network   *)
(* thread reads frames from the sockets of the interfaces into a buffer on *)
(* its stack, copies each and puts it on the work queue; the workers take  *)
(* them from there.  The work queue is the abstract one (JobQueue), which  *)
(* WorkQueue implements.                                                   *)
(***************************************************************************)
EXTENDS Cli

CONSTANTS
  File,    \* the names in the interface file, one for each line
  Workers, \* NUM_WORKER_THREADS threads
  MaxPackets \* the frames that may arrive are numbered up to this

Packets == 1 .. MaxPackets
Jobs == Packets

ASSUME PathAssumption ==
  /\ File \in Seq(STRING) /\ MaxPackets \in Nat
  /\ None \notin Jobs
  /\ None \notin [intf : DOMAIN File, packet : Packets]
  /\ None \notin [where : {"heap"}, intf : DOMAIN File, packet : Packets]

VARIABLES
  boot,    \* what main does next: "instance", "interfaces",
           \* "network" and then "cli"
  table,   \* router->interface[0 .. num_interfaces - 1]
  wire,    \* the frames in each interface's socket
  npc,     \* the network thread: "off", "select", "scan", "input"
  rdset,   \* the interfaces select found ready
  nbuf,    \* buf and intf of sr_mininet_read_packet
  pi,      \* the packet_info_t of each job
  todo, running, ended, closed, \* the work queue
  arrived, \* history: the frames each interface has received, in order
  handled  \* history: what the worker found in each job it has handled

WQ == INSTANCE JobQueue WITH NULL <- None

wqVars == <<todo, running, ended, closed>>
netVars == <<npc, rdset, nbuf>>
pathVars == <<wire, netVars, pi, wqVars, arrived, handled>>
vars == <<boot, table, pathVars, cliVars>>

Init ==
  /\ boot = "instance" /\ table = <<>>
  /\ wire = [i \in DOMAIN File |-> <<>>]
  /\ npc = "off" /\ rdset = {} /\ nbuf = None
  /\ pi = [j \in Jobs |-> None]
  /\ WQ!Init
  /\ arrived = [i \in DOMAIN File |-> <<>>]
  /\ handled = [j \in Jobs |-> None]
  /\ CliInit

-----------------------------------------------------------------------------
(* main: sr_init_low_level_subystem and then cli_main.                     *)

\* sr_init_instance: sr_integ_init and router_init, which makes the workers.
InitInstance ==
  /\ boot = "instance" /\ boot' = "interfaces"
  /\ UNCHANGED <<table, pathVars, cliVars>>

\* The next entry of the table; its socket is open from now on.
router_add_interface(t, name) == Append(t, name)

\* sr_read_intf_from_file: the next line of the file.
AddInterface ==
  /\ boot = "interfaces" /\ Len(table) < Len(File)
  /\ table' = router_add_interface(table, File[Len(table) + 1])
  /\ UNCHANGED <<boot, pathVars, cliVars>>

StartTransport ==
  /\ boot = "interfaces" /\ Len(table) = Len(File)
  /\ boot' = "network"
  /\ UNCHANGED <<table, pathVars, cliVars>>

StartNetwork ==
  /\ boot = "network" /\ boot' = "cli"
  /\ npc' = "select"
  /\ UNCHANGED <<table, wire, rdset, nbuf, pi, wqVars, arrived, handled,
                 cliVars>>

-----------------------------------------------------------------------------
(* Frames.                                                                 *)

Arrive(i, p) ==
  /\ ~down /\ i \in DOMAIN table
  /\ p = 1 + FoldSet(LAMBDA k, n : n + Len(arrived[k]), 0, DOMAIN File)
  /\ p <= scenario.packets
  /\ wire' = [wire EXCEPT ![i] = Append(@, p)]
  /\ arrived' = [arrived EXCEPT ![i] = Append(@, p)]
  /\ UNCHANGED <<boot, table, netVars, pi, wqVars, handled, cliVars>>

\* The interfaces below the limit given to select that have a frame waiting.
Ready(limit) == {i \in DOMAIN table : i < limit /\ wire[i] # <<>>}

\* Mutant: select called with max_fd and not max_fd + 1.
SelectedShort == Ready(Len(table))

Selected == Ready(Len(table) + 1)

Select ==
  /\ ~down /\ npc = "select" /\ Selected # {}
  /\ rdset' = Selected
  /\ npc' = "scan"
  /\ UNCHANGED <<boot, table, wire, nbuf, pi, wqVars, arrived, handled, cliVars>>

\* The first interface of the set is read, the others are forgotten.
ReadPacket ==
  /\ ~down /\ npc = "scan"
  /\ LET i == CHOOSE i \in rdset : \A k \in rdset : i <= k IN
       /\ nbuf' = [packet |-> Head(wire[i]), intf |-> i]
       /\ wire' = [wire EXCEPT ![i] = Tail(@)]
  /\ npc' = "input"
  /\ UNCHANGED <<boot, table, rdset, pi, wqVars, arrived, handled, cliVars>>

\* Mutant: the buffer lent instead of copied.
Borrowed == [where |-> "stack", intf |-> nbuf.intf, packet |-> None]

\* sr_integ_input: the copy that goes to the queue.
Copied == [where |-> "heap", intf |-> nbuf.intf, packet |-> nbuf.packet]

Fresh == CHOOSE j \in Jobs : pi[j] = None /\ \A k \in Jobs : pi[k] = None => j <= k

sr_integ_input ==
  /\ ~down /\ npc = "input" /\ \E j \in Jobs : pi[j] = None
  /\ pi' = [pi EXCEPT ![Fresh] = Copied]
  /\ WQ!Submit(Fresh)
  /\ npc' = "select"
  /\ UNCHANGED <<boot, table, wire, rdset, nbuf, arrived, handled, cliVars>>

StartWork(w) ==
  /\ ~down /\ WQ!Start(w)
  /\ UNCHANGED <<boot, table, wire, netVars, pi, arrived, handled, cliVars>>

PacketOf(j) == IF pi[j].where = "stack" THEN nbuf.packet ELSE pi[j].packet

\* router_handle_work and router_handle_packet; nobody frees the packet.
HandleWork(w) ==
  /\ ~down /\ WQ!Finish(w)
  /\ handled' = [handled EXCEPT ![running[w]] =
                   [intf |-> pi[running[w]].intf, packet |-> PacketOf(running[w])]]
  /\ UNCHANGED <<boot, table, wire, netVars, pi, arrived, cliVars>>

-----------------------------------------------------------------------------

Boot == InitInstance \/ AddInterface \/ StartTransport \/ StartNetwork
Network == Select \/ ReadPacket \/ sr_integ_input

Next ==
  \/ Boot \/ Network
  \/ \E i \in DOMAIN File, p \in Packets : Arrive(i, p)
  \/ \E w \in Workers : StartWork(w) \/ HandleWork(w)
  \/ boot = "cli" /\ CliNext /\ UNCHANGED <<boot, table, pathVars>>

Spec == Init /\ [][Next]_vars

\* Every thread that can run does: main, the network thread, the workers, the
\* threads of the clients and the ping thread.  Clients and the wire owe
\* nothing, nor does a thread that writes to a client that does not read, or
\* that waits in cli_ping_destroy.
Fairness ==
  /\ WF_vars(Boot) /\ WF_vars(Network)
  /\ \A w \in Workers : WF_vars(StartWork(w) \/ HandleWork(w))
  /\ WF_vars(Listen /\ UNCHANGED <<boot, table, pathVars>>)
  /\ WF_vars(FeedbackEnds /\ UNCHANGED <<boot, table, pathVars>>)
  /\ \A c \in Clients :
       /\ WF_vars(Proceeds(c) /\ Serve(c) /\ UNCHANGED <<boot, table, pathVars>>)
       /\ WF_vars(~FeedbackWaits(c) /\ Feedback(c) /\ UNCHANGED <<boot, table, pathVars>>)

FairSpec == Spec /\ Fairness

-----------------------------------------------------------------------------

\* The state of the process, the interfaces and the clients, and the size of
\* each client's buffer.
TypeOK ==
  /\ boot \in {"instance", "interfaces", "network", "cli"}
  /\ IsPrefix(table, File)
  /\ npc \in {"off", "select", "scan", "input"}
  /\ rdset \subseteq DOMAIN table
  /\ \A j \in Jobs : pi[j] # None => pi[j].intf \in DOMAIN table
  /\ CliTypeOK

\* What the workers are given is what came in: the jobs of an interface hold
\* its frames in the order of their arrival, each once, and hold them still
\* when a worker comes to them, however far the network thread has gone on
\* with its buffer (sr_integ_input copies; router_handle_work).
HandledAsReceived ==
  \A j \in Jobs : handled[j] # None =>
    LET i == handled[j].intf
        n == Cardinality({k \in 1 .. j : pi[k] # None /\ pi[k].intf = i})
    IN  n <= Len(arrived[i]) /\ handled[j].packet = arrived[i][n]

SM == INSTANCE SrMininet WITH
        Intfs <- Len(File), Room <- MaxPackets,
        waiting <- [i \in DOMAIN File |-> Len(wire[i])],
        npc <- IF npc = "scan" THEN "scan" ELSE "select"

\* The network thread reads as SrMininet says, which has traffic for ever: select
\* finds all that is ready, and one frame of the first interface found is taken
\* in a round, while frames arrive, the table is filled and the router shuts down.
ImplementsSrMininet == SM!Spec

\* Every frame an interface receives is handled, unless the router goes down or
\* the interfaces before it in the table go on having frames:
\* sr_mininet_read_packet reads the first interface that is ready and forgets
\* the others (EachIntfChecked of SrMininet shows what becomes of them).
PacketsHandled ==
  \A i \in DOMAIN File, p \in Packets :
    <>[](\A k \in 1 .. i - 1 : wire[k] = <<>>) =>
      (p \in ToSet(arrived[i]) ~>
         (down \/ \E j \in Jobs : handled[j] = [intf |-> i, packet |-> p]))

\* A thread is in a write to a client that does not read.
Stuck == \E c \in Clients : Waits(c) \/ (pings[c] > 0 /\ FeedbackWaits(c))

\* A client that waits for prompts gets them, unless it leaves or sends a line
\* that does not fit, a ping's prompt is lost, the router is told to go down
\* (which keeps parser_lock), or a thread waits for ever for another client to
\* read: one that keeps its connection open and does not read stops them all.
ClientsAnswered ==
  \A c \in Clients :
    (stage[c] = "serve") ~>
      (\/ Answered(c) \/ eof[c] \/ pc[c] = "gone" \/ doubt \/ router_shutdown \/ c \in ahead
       \/ []Stuck)

\* A client that waits for its prompts is served by itself: each of its lines
\* is run once, answered to nobody else and followed by its prompt, a flood by
\* one for each of its requests (cli_parser_handle_client under parser_lock).
ClientServed == RightAddressee /\ LinesRunOnce /\ PromptEach

\* The interface table, the jobs and the clients' buffers: whatever is read,
\* search_state_grow_if_full leaves room for it and for the NUL behind it, and
\* only the holder of parser_lock is in the parser, with the focus on its client.
BuffersSane == TypeOK /\ NulFits /\ HolderInParser
=============================================================================
