-------------------------------- MODULE Ping --------------------------------
(***************************************************************************)
(* The ping handler of the command line (SW_stub/cli/cli_ping.c): a doubly *)
(* linked list of outstanding echo requests, the earliest to expire first. *)
(* Clients add requests, the thread that receives a packet takes out the   *)
(* one a reply matches, and the scrubber thread takes out the ones that    *)
(* have expired; whoever takes a request out tells the client, by the      *)
(* descriptor stored with the request, and frees the node.                 *)
(*                                                                         *)
(* A step is what a thread does between two points at which another thread *)
(* can interfere.  Adding a request and searching for a reply's request    *)
(* run from lock to unlock and are one step; the scrubber reads the        *)
(* shutdown flag, which no lock protects, and takes more steps.            *)
(*                                                                         *)
(* Every request is made in a new node: Pings bounds how many are made.    *)
(* MaxTime bounds the clock, SetBacks how often gettimeofday goes back.    *)
(***************************************************************************)
EXTENDS Integers, FiniteSets

CONSTANTS
  Clients,   \* the sessions of the command line
  Fds,       \* the descriptors of their sockets
  Repliers,  \* the threads that call cli_ping_handle_reply
  Pings,     \* the nodes malloc returns, numbered in that order
  Ips,       \* addresses to ping
  SeqSpace,  \* the sequence numbers are taken modulo this
  Wait,      \* PING_MAX_WAIT_FOR_REPLY_USEC
  MaxTime, SetBacks,
  NULL

ASSUME PingAssumption ==
  /\ Fds \subseteq Nat /\ IsFiniteSet(Fds) /\ Pings \subseteq Nat /\ IsFiniteSet(Pings)
  /\ SeqSpace \in Nat \ {0} /\ Wait \in Nat /\ MaxTime \in Nat /\ SetBacks \in Nat
  /\ NULL \notin Pings \cup Clients \cup Ips

Scrubber == "scrubber"

VARIABLES
  now, setBacks,          \* the clock, and how often it has been set back
  shutdown,               \* router_shutdown of cli.c
  ping_list, prev, next,  \* the list
  fd, dst, seq, expire,   \* the other fields of the nodes
  live,                   \* the nodes that are allocated
  ping_count,
  locked,                 \* the scrubber holds ping_list_lock
  destroyed,              \* cli_ping_destroy has destroyed it
  spc, snap,              \* the scrubber, and its local variable now, or 0
                          \* where it is not used any more
  dpc,                    \* the thread in cli_shutdown
  want,                   \* the reply each replier is looking for, or NULL
  conn,                   \* whose session each descriptor is
  asker, answers,         \* history: who made each request, how often it was
  misled                  \* answered, and whether an answer has gone to the
                          \* session of another client

nodes == <<prev, next, fd, dst, seq, expire, asker>>
list == <<ping_list, nodes, live, ping_count, answers, misled>>
vars == <<now, setBacks, shutdown, list, locked, destroyed, spc, snap, dpc,
          want, conn>>

Init ==
  /\ now = 0 /\ setBacks = 0 /\ shutdown = FALSE
  /\ ping_list = NULL
  /\ prev = [p \in Pings |-> NULL] /\ next = [p \in Pings |-> NULL]
  /\ fd = [p \in Pings |-> NULL] /\ dst = [p \in Pings |-> NULL]
  /\ seq = [p \in Pings |-> 0] /\ expire = [p \in Pings |-> 0]
  /\ live = {} /\ ping_count = 0
  /\ locked = FALSE /\ destroyed = FALSE
  /\ spc = "start" /\ snap = 0 /\ dpc = "idle"
  /\ want = [r \in Repliers |-> NULL]
  /\ conn = [f \in Fds |-> NULL]
  /\ asker = [p \in Pings |-> NULL]
  /\ answers = [p \in Pings |-> 0] /\ misled = FALSE

(* Following next from ping_list: the i-th node, or NULL after the end.    *)
(* The walk is cut off after one step more than there are nodes.           *)
Walk ==
  LET w[i \in 1 .. Cardinality(Pings) + 1] ==
        IF i = 1 THEN ping_list
        ELSE IF w[i - 1] = NULL THEN NULL ELSE next[w[i - 1]]
  IN w

OnList == {Walk[i] : i \in DOMAIN Walk} \ {NULL}

(* The first node of the walk that is in S, or NULL.                       *)
FirstIn(S) ==
  IF OnList \cap S = {} THEN NULL
  ELSE Walk[CHOOSE i \in DOMAIN Walk :
              Walk[i] \in S /\ \A j \in 1 .. i - 1 : Walk[j] \notin S]

Locked == locked /\ ~destroyed

(* pthread_cond_signal on ping_list_cond, which only the scrubber sleeps on*)
WakeScrubber == spc' = IF spc = "wait" THEN "woken" ELSE spc
-----------------------------------------------------------------------------
(* gettimeofday: time passes, and the clock of the machine may be set back.*)
Tick == /\ now < MaxTime /\ now' = now + 1
        /\ UNCHANGED <<setBacks, shutdown, list, locked, destroyed, spc, snap,
                       dpc, want, conn>>

SetBack == /\ setBacks < SetBacks /\ now > 0
           /\ now' = now - 1 /\ setBacks' = setBacks + 1
           /\ UNCHANGED <<shutdown, list, locked, destroyed, spc, snap, dpc,
                          want, conn>>

(* cli_main accepts a client: the kernel gives it the lowest descriptor    *)
(* that is free.  cli_client_cleanup closes the socket again; after the    *)
(* shutdown flag is up, a client that closes ends the process instead.     *)
Accept(c) ==
  /\ ~shutdown
  /\ \A f \in Fds : conn[f] # c
  /\ \E f \in Fds : /\ conn[f] = NULL
                    /\ \A g \in Fds : g < f => conn[g] # NULL
                    /\ conn' = [conn EXCEPT ![f] = c]
  /\ UNCHANGED <<now, setBacks, shutdown, list, locked, destroyed, spc, snap,
                 dpc, want>>

Close(f) ==
  /\ conn[f] # NULL /\ ~shutdown
  /\ conn' = [conn EXCEPT ![f] = NULL]
  /\ UNCHANGED <<now, setBacks, shutdown, list, locked, destroyed, spc, snap,
                 dpc, want>>
-----------------------------------------------------------------------------
(***************************************************************************)
(* cli_ping_request.  Commands run under parser_lock, so none runs beside  *)
(* or after cli_shutdown.  q is the first node that expires later: the new *)
(* node goes before it, and takes over its prev even if q is the head,     *)
(* whose prev means nothing.                                               *)
(***************************************************************************)
InsertBefore(p, q) ==
  /\ ping_list' = IF q = ping_list THEN p ELSE ping_list
  /\ next' = IF q = ping_list THEN [next EXCEPT ![p] = q]
             ELSE [next EXCEPT ![p] = q, ![prev[q]] = p]
  /\ prev' = [prev EXCEPT ![p] = prev[q], ![q] = p]

InsertLast(p, l) ==
  /\ next' = [next EXCEPT ![l] = p, ![p] = NULL]
  /\ prev' = [prev EXCEPT ![p] = l]
  /\ UNCHANGED ping_list

InsertOnly(p) ==
  /\ ping_list' = p
  /\ next' = [next EXCEPT ![p] = NULL] /\ prev' = [prev EXCEPT ![p] = NULL]

Later(e) == {q \in Pings : expire[q] > e} \* is_later

Insert(p, e) ==
  LET q == FirstIn(Later(e)) IN
  IF ping_list = NULL THEN InsertOnly(p)
  ELSE IF q # NULL THEN InsertBefore(p, q)
  ELSE InsertLast(p, FirstIn({r \in Pings : next[r] = NULL}))

WakeNobody == UNCHANGED spc \* mutant: the new request wakes nobody
WakeForRequest == WakeScrubber

NextCount(n) == (n + 1) % SeqSpace

Request(f, p, ip) ==
  LET e == now + Wait IN
  /\ conn[f] # NULL /\ dpc = "idle" /\ ~Locked
  /\ asker[p] = NULL /\ \A q \in Pings : q < p => asker[q] # NULL
  /\ e < MaxTime
  /\ live' = live \cup {p}
  /\ fd' = [fd EXCEPT ![p] = f] /\ dst' = [dst EXCEPT ![p] = ip]
  /\ seq' = [seq EXCEPT ![p] = ping_count]
  /\ ping_count' = NextCount(ping_count)
  /\ expire' = [expire EXCEPT ![p] = e]
  /\ Insert(p, e)
  /\ WakeForRequest
  /\ asker' = [asker EXCEPT ![p] = conn[f]]
  /\ UNCHANGED <<now, setBacks, shutdown, locked, destroyed, snap, dpc, want,
                 conn, answers, misled>>

(* cli_ping_feedback: the session that has the descriptor now gets it.     *)
Feedback(p) ==
  /\ answers' = [answers EXCEPT ![p] = @ + 1]
  /\ misled' = (misled \/ conn[fd[p]] \notin {NULL, asker[p]})
-----------------------------------------------------------------------------
(* cli_ping_handle_reply: first the shutdown flag, then the search.        *)
ReplyCheck(r, ip, s) ==
  /\ want[r] = NULL /\ ~shutdown
  /\ want' = [want EXCEPT ![r] = <<ip, s>>]
  /\ UNCHANGED <<now, setBacks, shutdown, list, locked, destroyed, spc, snap,
                 dpc, conn>>

UnlinkNextOnly(p) == \* mutant: the next node keeps its prev
  /\ ping_list' = IF p = ping_list THEN next[p] ELSE ping_list
  /\ next' = IF p = ping_list THEN next ELSE [next EXCEPT ![prev[p]] = next[p]]
  /\ UNCHANGED prev

Unlink(p) ==
  /\ ping_list' = IF p = ping_list THEN next[p] ELSE ping_list
  /\ next' = IF p = ping_list THEN next ELSE [next EXCEPT ![prev[p]] = next[p]]
  /\ prev' = IF next[p] = NULL THEN prev ELSE [prev EXCEPT ![next[p]] = prev[p]]

ReplySearch(r) ==
  LET p == FirstIn({q \in Pings : <<dst[q], seq[q]>> = want[r]}) IN
  /\ want[r] # NULL /\ ~Locked
  /\ IF p = NULL THEN UNCHANGED list
     ELSE /\ Unlink(p) /\ Feedback(p) /\ live' = live \ {p}
          /\ UNCHANGED <<fd, dst, seq, expire, asker, ping_count>>
  /\ want' = [want EXCEPT ![r] = NULL]
  /\ UNCHANGED <<now, setBacks, shutdown, locked, destroyed, spc, snap, dpc,
                 conn>>
-----------------------------------------------------------------------------
(* cli_ping_scrubber_main.                                                 *)
AfterLock == [start |-> "outer", woken |-> "outer", relock |-> "inner"]

ScrubLock ==
  /\ spc \in DOMAIN AfterLock /\ ~Locked
  /\ locked' = TRUE /\ spc' = AfterLock[spc]
  /\ UNCHANGED <<now, setBacks, shutdown, list, destroyed, snap, dpc, want,
                 conn>>

ScrubOuter ==
  /\ spc = "outer" /\ spc' = IF shutdown THEN "off" ELSE "inner"
  /\ UNCHANGED <<now, setBacks, shutdown, list, locked, destroyed, snap, dpc,
                 want, conn>>

ScrubInner ==
  /\ spc = "inner" /\ ping_list # NULL /\ ~shutdown
  /\ snap' = now /\ spc' = "expire"
  /\ UNCHANGED <<now, setBacks, shutdown, list, locked, destroyed, dpc, want,
                 conn>>

HeadKept == ping_list \* mutant: the list still starts with the expired node
HeadAfterExpiry == next[ping_list]

ScrubExpire ==
  /\ spc = "expire" /\ ping_list # NULL /\ snap > expire[ping_list]
  /\ Feedback(ping_list)
  /\ live' = live \ {ping_list} /\ ping_list' = HeadAfterExpiry
  /\ UNCHANGED <<now, setBacks, shutdown, nodes, ping_count, locked, destroyed,
                 spc, snap, dpc, want, conn>>

(* The timeout of select is at most PING_HANDLER_MIN_RESPONSE_TIME_USEC;   *)
(* as the code subtracts the wrong way round it is often negative, and     *)
(* select returns at once.                                                 *)
ScrubSleep ==
  /\ spc = "expire" /\ ping_list # NULL /\ snap <= expire[ping_list]
  /\ locked' = FALSE /\ spc' = "select" /\ snap' = 0
  /\ UNCHANGED <<now, setBacks, shutdown, list, destroyed, dpc, want, conn>>

ScrubSelect ==
  /\ spc = "select" /\ spc' = "relock"
  /\ UNCHANGED <<now, setBacks, shutdown, list, locked, destroyed, snap, dpc,
                 want, conn>>

ScrubWait ==
  /\ \/ spc = "expire" /\ ping_list = NULL
     \/ spc = "inner" /\ (ping_list = NULL \/ shutdown)
  /\ locked' = FALSE /\ spc' = "wait" /\ snap' = 0
  /\ UNCHANGED <<now, setBacks, shutdown, list, destroyed, dpc, want, conn>>

SpuriousWakeup ==
  /\ spc = "wait" /\ spc' = "woken"
  /\ UNCHANGED <<now, setBacks, shutdown, list, locked, destroyed, snap, dpc,
                 want, conn>>

ScrubOff ==
  /\ spc = "off" /\ spc' = "gone" /\ locked' = FALSE
  /\ dpc' = IF dpc = "wait" THEN "woken" ELSE dpc
  /\ UNCHANGED <<now, setBacks, shutdown, list, destroyed, snap, want, conn>>
-----------------------------------------------------------------------------
(* cli_shutdown and cli_ping_destroy.                                      *)
Shutdown ==
  /\ dpc = "idle" /\ \E f \in Fds : conn[f] # NULL
  /\ shutdown' = TRUE /\ dpc' = "lock"
  /\ UNCHANGED <<now, setBacks, list, locked, destroyed, spc, snap, want, conn>>

DestroyWait ==
  /\ dpc = "lock" /\ ~Locked
  /\ WakeScrubber /\ dpc' = "wait"
  /\ UNCHANGED <<now, setBacks, shutdown, list, locked, destroyed, snap, want,
                 conn>>

DestroyEnd ==
  /\ dpc = "woken" /\ ~Locked
  /\ live' = live \ OnList /\ ping_list' = NULL
  /\ destroyed' = TRUE /\ dpc' = "done"
  /\ UNCHANGED <<now, setBacks, shutdown, nodes, ping_count, answers, misled,
                 locked, spc, snap, want, conn>>
-----------------------------------------------------------------------------
Scrub == \/ ScrubLock \/ ScrubOuter \/ ScrubInner \/ ScrubExpire \/ ScrubSleep
         \/ ScrubSelect \/ ScrubWait \/ ScrubOff

Destroy == DestroyWait \/ DestroyEnd

Next ==
  \/ Tick \/ SetBack
  \/ \E c \in Clients : Accept(c)
  \/ \E f \in Fds : Close(f) \/ \E p \in Pings, ip \in Ips : Request(f, p, ip)
  \/ \E r \in Repliers : \/ \E ip \in Ips, s \in 0 .. SeqSpace - 1 : ReplyCheck(r, ip, s)
                         \/ ReplySearch(r)
  \/ Scrub \/ SpuriousWakeup
  \/ Shutdown \/ Destroy

Spec == Init /\ [][Next]_vars

(***************************************************************************)
(* Time passes and the threads run; nobody has to ping, to reply or to     *)
(* shut the router down.  A thread that keeps asking for the lock gets it. *)
(***************************************************************************)
FairSpec == /\ Spec
            /\ WF_vars(Tick)
            /\ SF_vars(ScrubLock) /\ WF_vars(Scrub)
            /\ SF_vars(DestroyWait) /\ SF_vars(DestroyEnd)
            /\ \A r \in Repliers : SF_vars(ReplySearch(r))
-----------------------------------------------------------------------------
(* The fields of ping_t and the places where the threads can be.           *)
TypeOK ==
  /\ now \in 0 .. MaxTime /\ setBacks \in 0 .. SetBacks
  /\ snap \in 0 .. MaxTime
  /\ shutdown \in BOOLEAN /\ locked \in BOOLEAN /\ destroyed \in BOOLEAN
  /\ ping_list \in Pings \cup {NULL}
  /\ prev \in [Pings -> Pings \cup {NULL}] /\ next \in [Pings -> Pings \cup {NULL}]
  /\ fd \in [Pings -> Fds \cup {NULL}] /\ dst \in [Pings -> Ips \cup {NULL}]
  /\ seq \in [Pings -> 0 .. SeqSpace - 1] /\ expire \in [Pings -> 0 .. MaxTime]
  /\ live \subseteq Pings /\ ping_count \in 0 .. SeqSpace - 1
  /\ spc \in {"start", "outer", "inner", "expire", "select", "relock", "wait",
              "woken", "off", "gone"}
  /\ dpc \in {"idle", "lock", "wait", "woken", "done"}
  /\ want \in [Repliers -> (Ips \X (0 .. SeqSpace - 1)) \cup {NULL}]
  /\ conn \in [Fds -> Clients \cup {NULL}]
  /\ asker \in [Pings -> Clients \cup {NULL}]
  /\ answers \in [Pings -> Nat] /\ misled \in BOOLEAN

(* "list of outstanding echo requests in order of expiration": whoever     *)
(* walks the list reaches its end, meets no freed node, finds the requests *)
(* in the order they expire, and can unlink every node but the first       *)
(* through its prev.                                                       *)
ListInOrder ==
  /\ \E i \in DOMAIN Walk : Walk[i] = NULL
  /\ OnList = live
  /\ \A i \in 2 .. Cardinality(Pings) + 1 : Walk[i] # NULL =>
       expire[Walk[i - 1]] <= expire[Walk[i]] /\ prev[Walk[i]] = Walk[i - 1]

(* A request is on the list until it is answered, and no request is        *)
(* answered twice, whatever a reply and the scrubber do at the same time.  *)
OneAnswer ==
  \A p \in Pings : asker[p] # NULL /\ ~destroyed =>
    answers[p] = IF p \in OnList THEN 0 ELSE 1

(* The scrubber sleeps on the condition only when there is nothing to      *)
(* scrub or the router shuts down: no request is added unnoticed.          *)
NoUnwatchedPing == spc = "wait" /\ ping_list # NULL => shutdown

(* Every request gets a reply or a timeout unless the router shuts down.   *)
EveryPingAnswered ==
  \A p \in Pings : asker[p] # NULL ~> answers[p] > 0 \/ shutdown

(* "wait for the scrubber thread to terminate": once cli_ping_destroy runs *)
(* the scrubber ends and cli_ping_destroy returns.                         *)
DestroyReturns == dpc = "lock" ~> dpc = "done"

(* "the socket fd to notify on success/fail" is the requesting client's:   *)
(* an answer never reaches the session of somebody else.                   *)
NotifiesRequester == ~misled

(* cli_ping_request, cli_ping_handle_reply and the scrubber leave the list *)
(* linked and in order, and the scrubber does not sleep over a request.    *)
PingListSane == TypeOK /\ ListInOrder /\ NoUnwatchedPing
=============================================================================
