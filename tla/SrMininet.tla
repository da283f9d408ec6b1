------------------------------ MODULE SrMininet ------------------------------
(***************************************************************************)
(* The loop of the network thread (sr_mininet_read_packet of               *)
(* SW_stub/sr_mininet_extension.c, called for ever by                      *)
(* sr_low_level_network_subsystem of sr_base.c): select over the sockets   *)
(* of all interfaces, then a scan of the table that reads the first socket *)
(* that was found ready and returns.  Frames are counted, not told apart,  *)
(* so that they may go on arriving for ever; Router follows each frame to  *)
(* its worker and implements this module.                                  *)
(***************************************************************************)
EXTENDS Naturals

CONSTANTS
  Intfs,  \* num_interfaces
  Room    \* bound: the frames that a socket holds, the rest are dropped

Table == 1 .. Intfs

VARIABLES
  waiting,  \* the frames in the socket of each interface
  npc,      \* "select" or "scan"
  rdset     \* the sockets that select found ready

vars == <<waiting, npc, rdset>>

Init == waiting = [i \in Table |-> 0] /\ npc = "select" /\ rdset = {}

\* external: the sender of the frames
Arrive(i) ==
  /\ waiting[i] < Room
  /\ waiting' = [waiting EXCEPT ![i] = @ + 1]
  /\ UNCHANGED <<npc, rdset>>

Ready == {i \in Table : waiting[i] > 0}

\* select returns with what is ready; when its second is over and nothing is,
\* the scan finds nothing and select is called again.
Select ==
  /\ npc = "select" /\ rdset' = Ready
  /\ npc' = IF Ready = {} THEN "select" ELSE "scan"
  /\ UNCHANGED waiting

\* The scan goes through the table and returns at the first that is ready.
FirstReady == CHOOSE i \in rdset : \A k \in rdset : i <= k

\* real_read_once and sr_integ_input
ReadPacket ==
  /\ npc = "scan"
  /\ waiting' = [waiting EXCEPT ![FirstReady] = @ - 1]
  /\ npc' = "select"
  /\ UNCHANGED rdset

Next == Select \/ ReadPacket \/ \E i \in Table : Arrive(i)

Spec == Init /\ [][Next]_vars

\* The network thread runs; nothing is assumed of the senders.
FairSpec == Spec /\ WF_vars(Select) /\ WF_vars(ReadPacket)

-----------------------------------------------------------------------------

\* A read never blocks: what select found ready still is when it is read.
ReadsReady ==
  /\ waiting \in [Table -> 0 .. Room] /\ npc \in {"select", "scan"}
  /\ rdset \subseteq Table
  /\ npc = "scan" => rdset # {} /\ \A i \in rdset : waiting[i] > 0

\* i has been read from: it has fewer frames than before.
TakenFrom(i) == waiting'[i] < waiting[i]

\* An interface with frames is read again and again, as long as the interfaces
\* before it in the table are found without frames from time to time.
ReadInTurn ==
  \A i \in Table :
    ([]<>(npc = "scan" /\ \A k \in 1 .. i - 1 : k \notin rdset) /\ []<>(waiting[i] > 0))
      => []<><<TakenFrom(i)>>_vars

\* sr_mininet_extension.c:78 says that the function "polls each of the interfaces
\* to see which one (if any) has data to read and passes the available data (if
\* it exists) on": an interface with a frame is read in the end.  It is not, while
\* frames keep coming on one before it.
EachIntfChecked == \A i \in Table : []<>(waiting[i] = 0) \/ []<><<TakenFrom(i)>>_vars
=============================================================================
