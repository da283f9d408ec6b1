----------------------------- MODULE RouterProofs -----------------------------
(***************************************************************************)
(* The safety of the router's process for any interfaces, workers, clients *)
(* and scripts and any sizes of the clients' buffers.                      *)
(*                                                                         *)
(* CliInv is about one client at a time: its buffer fits, with the NUL of  *)
(* a line, and its thread is inside the parser exactly when it holds       *)
(* parser_lock.  PathInv says that what has arrived at an interface is in  *)
(* its jobs, in the buffer of the network thread and in its socket, in     *)
(* this order.  ServedInv follows the lines and the prompts of a client    *)
(* that waits for its prompts: at most one of its lines has not been run,  *)
(* and Content says where its bytes are; Account says that prompts seen,   *)
(* pings open and the prompt that is due make one for each line and the    *)
(* welcome, so that the client can only type when nothing is under way;    *)
(* Flags says whose the focus and skip_next_prompt are.                    *)
(***************************************************************************)
EXTENDS Router, FiniteSetTheorems, SequenceTheorems, WellFoundedInduction, TLAPS

(* Every set of natural numbers has a least element, and induction.        *)
LEMMA LeastNatural ==
  ASSUME NEW T, T \subseteq Nat, T # {}
  PROVE  \E x \in T : \A y \in T : x <= y
<1>1. PICK x \in T : \A y \in T : ~(<<y, x>> \in OpToRel(<, Nat))
  BY NatLessThanWellFounded, WFMin
<1>2. \A y \in T : ~(y < x)
  BY <1>1 DEF OpToRel
<1> QED  BY <1>2

LEMMA Induction ==
  ASSUME NEW S, 0 \in S, \A n \in Nat : n \in S => n + 1 \in S
  PROVE  Nat \subseteq S
<1> SUFFICES ASSUME Nat \ S # {} PROVE FALSE
  OBVIOUS
<1>1. PICK x \in Nat \ S : \A y \in Nat \ S : x <= y
  BY LeastNatural
<1>2. x # 0  OBVIOUS
<1>3. x - 1 \in S  BY <1>1, <1>2
<1> QED  BY <1>2, <1>3

-----------------------------------------------------------------------------
(* The buffers of the clients.                                             *)

SearchState == [buf : Seq(STRING), cap : InitBuf .. MaxBuf, soff : Nat, noff : Nat]

Holding == {"run", "skip", "raise", "ran", "prompt", "clear"}
PCs == Holding \cup {"none", "read", "lock", "alive", "dead", "gone"}

CliTypes ==
  /\ pc \in [Clients -> PCs] /\ stage \in [Clients -> {"junk", "greet", "serve"}]
  /\ pipe \in [Clients -> Seq(STRING)]
  /\ st \in [Clients -> SearchState]
  /\ lock \in Clients \cup {None} /\ fd \in Clients \cup {None}
  /\ left \in Nat /\ pings \in [Clients -> Nat]
  /\ scenario \in Scenarios

\* A buffer with a line for the parser has room for the NUL.
Fits(p, g, s) ==
  /\ Len(s.buf) <= s.cap
  /\ p \in {"lock", "run", "skip", "raise", "ran"} /\ g # "greet"
       => Len(s.buf) < s.cap /\ Newlines(s) # {}
  /\ p \in {"run", "skip", "raise", "ran"} => g # "greet"

Buffers == \A c \in Clients : Fits(pc[c], stage[c], st[c])

Holder ==
  /\ \A c \in Clients : pc[c] \in Holding <=> lock = c
  /\ \A c \in Clients : pc[c] = "run" => left > 0

CliInv == CliTypes /\ Buffers /\ Holder

LEMMA GrowFits ==
  ASSUME NEW s \in SearchState, Len(s.buf) <= s.cap
  PROVE  LET t == search_state_grow_if_full(s)
         IN  /\ t \in SearchState /\ t.buf = s.buf /\ t.soff = s.soff /\ t.noff = s.noff
             /\ Len(t.buf) <= t.cap
             /\ ~Full(s) => Len(t.buf) < t.cap
<1>0. /\ s.cap \in InitBuf .. MaxBuf /\ InitBuf \in Nat \ {0} /\ MaxBuf \in Nat
      /\ s.buf \in Seq(STRING) /\ s.soff \in Nat /\ s.noff \in Nat
      /\ Len(s.buf) \in Nat
      /\ s = [buf |-> s.buf, cap |-> s.cap, soff |-> s.soff, noff |-> s.noff]
  BY BufferAssumption DEF SearchState
<1> DEFINE n == IF 2 * s.cap > MaxBuf THEN MaxBuf ELSE 2 * s.cap
<1>1. n \in InitBuf .. MaxBuf /\ n >= s.cap /\ (s.cap # MaxBuf => n > s.cap)
  BY <1>0
<1>2. CASE Len(s.buf) = s.cap
  <2>1. search_state_grow_if_full(s) = [buf |-> s.buf, cap |-> n, soff |-> s.soff, noff |-> s.noff]
    BY <1>0, <1>2 DEF search_state_grow_if_full
  <2>2. [buf |-> s.buf, cap |-> n, soff |-> s.soff, noff |-> s.noff] \in SearchState
    BY <1>0, <1>1 DEF SearchState
  <2> QED  BY <1>0, <1>1, <1>2, <2>1, <2>2 DEF Full
<1>3. CASE Len(s.buf) # s.cap
  BY <1>0, <1>3 DEF search_state_grow_if_full, Full
<1> QED  BY <1>2, <1>3

LEMMA SetBuf ==
  ASSUME NEW s \in SearchState, NEW b \in Seq(STRING)
  PROVE  LET t == [s EXCEPT !.buf = b]
         IN  t \in SearchState /\ t.buf = b /\ t.cap = s.cap /\ t.soff = s.soff /\ t.noff = s.noff
  BY DEF SearchState

LEMMA SearchKeeps ==
  ASSUME NEW s \in SearchState
  PROVE  /\ Search(s) \in SearchState /\ Search(s).buf = s.buf /\ Search(s).cap = s.cap
         /\ Found(s) => Newlines(s) # {}
<1>0. /\ s.buf \in Seq(STRING) /\ s.cap \in InitBuf .. MaxBuf /\ s.soff \in Nat /\ s.noff \in Nat
      /\ Len(s.buf) \in Nat
      /\ s = [buf |-> s.buf, cap |-> s.cap, soff |-> s.soff, noff |-> s.noff]
  BY DEF SearchState
<1>1. CASE Found(s)
  <2> DEFINE P(i) == i >= s.soff /\ \A k \in Newlines(s) : k >= s.soff => i <= k
             i == CHOOSE i \in Newlines(s) : P(i)
             T == {k \in Newlines(s) : k >= s.soff}
  <2>1. T \subseteq Nat /\ T # {}
    BY <1>0, <1>1 DEF Found, Newlines
  <2>2. \E k \in T : \A m \in T : k <= m
    BY <2>1, LeastNatural
  <2>3. \E k \in Newlines(s) : P(k)
    BY <2>2
  <2>4. i \in Newlines(s)
    BY <2>3
  <2>5. i \in Nat
    BY <1>0, <2>4 DEF Newlines
  <2>6. Search(s) = [buf |-> s.buf, cap |-> s.cap, soff |-> i + 1, noff |-> i]
    BY <1>0, <1>1 DEF Search
  <2> QED  BY <1>0, <1>1, <2>4, <2>5, <2>6 DEF SearchState
<1>2. CASE ~Found(s)
  BY <1>0, <1>2 DEF Search, SearchState
<1> QED  BY <1>1, <1>2

\* What a handler may do to its client: it leaves the others alone.
Steps(c, p, g, s) ==
  /\ pc' = [pc EXCEPT ![c] = p]
  /\ stage' = [stage EXCEPT ![c] = g]
  /\ st' = [st EXCEPT ![c] = s]

LEMMA HandledSteps ==
  ASSUME NEW c \in Clients, NEW alive \in BOOLEAN, NEW s \in SearchState,
         Len(s.buf) <= s.cap, CliTypes, Handled(c, alive, s)
  PROVE  \E p \in {"lock", "read", "alive", "dead"}, g \in {"junk", "greet", "serve"},
            t \in SearchState : Steps(c, p, g, t) /\ Fits(p, g, t)
<1>0. /\ s.cap \in InitBuf .. MaxBuf /\ InitBuf \in Nat \ {0}
      /\ s = [buf |-> s.buf, cap |-> s.cap, soff |-> s.soff, noff |-> s.noff]
  BY BufferAssumption DEF SearchState
<1>1. stage = [stage EXCEPT ![c] = stage[c]] /\ stage[c] \in {"junk", "greet", "serve"}
  BY DEF CliTypes
<1>2. CASE stage[c] = "junk"
  <2> DEFINE t == [buf |-> <<>>, cap |-> s.cap, soff |-> 0, noff |-> 0]
  <2>1. t \in SearchState
    BY <1>0 DEF SearchState
  <2>2. Steps(c, "lock", "greet", t)
    BY <1>0, <1>2 DEF Handled, Steps
  <2>3. Fits("lock", "greet", t)
    BY <1>0 DEF Fits
  <2> QED  BY <2>1, <2>2, <2>3
<1>3. CASE stage[c] = "greet"
  <2>1. Steps(c, "read", "serve", s)
    BY <1>3 DEF Handled, Steps
  <2>2. Fits("read", "serve", s)
    BY DEF Fits
  <2> QED  BY <2>1, <2>2
<1>4. CASE stage[c] = "serve"
  <2> DEFINE p == IF alive THEN "alive" ELSE "dead"
  <2>1. Steps(c, p, "serve", s)
    BY <1>1, <1>4 DEF Handled, Steps
  <2>2. Fits(p, "serve", s) /\ p \in {"alive", "dead"}
    BY DEF Fits
  <2> QED  BY <2>1, <2>2
<1> QED  BY <1>1, <1>2, <1>3, <1>4

LEMMA ReceivedSteps ==
  ASSUME NEW c \in Clients, NEW s \in SearchState,
         Len(s.buf) <= s.cap, CliTypes, Received(c, s)
  PROVE  \E p \in {"lock", "read", "alive", "dead"}, g \in {"junk", "greet", "serve"},
            t \in SearchState : Steps(c, p, g, t) /\ Fits(p, g, t)
<1> DEFINE u == Search(s)
           t == Terminated(u)
<1>1. u \in SearchState /\ u.buf = s.buf /\ u.cap = s.cap /\ (Found(s) => Newlines(s) # {})
  BY SearchKeeps
<1>2. /\ t \in SearchState /\ t.buf = s.buf /\ Len(t.buf) <= t.cap
      /\ ~Full(u) => Len(t.buf) < t.cap
  BY <1>1, GrowFits DEF Terminated
<1>3. Full(u) <=> Full(s)
  BY <1>1 DEF Full
<1>4. CASE Full(s) \/ ~Found(s)
  <2>1. Handled(c, ~Full(s), t)
    BY <1>4 DEF Received
  <2>2. (~Full(s)) \in BOOLEAN
    OBVIOUS
  <2> HIDE DEF t
  <2> QED  BY <1>2, <2>1, <2>2, HandledSteps
<1>5. CASE ~(Full(s) \/ ~Found(s))
  <2>1. Steps(c, "lock", stage[c], t)
    BY <1>5 DEF Received, Steps, CliTypes
  <2>2. Newlines(t) = Newlines(s)
    BY <1>2 DEF Newlines
  <2>3. Fits("lock", stage[c], t)
    BY <1>1, <1>2, <1>3, <1>5, <2>2 DEF Fits
  <2>4. stage[c] \in {"junk", "greet", "serve"}
    BY DEF CliTypes
  <2> QED  BY <1>2, <2>1, <2>3, <2>4
<1> QED  BY <1>4, <1>5

\* A step of a handler that keeps or gives up the lock.
LEMMA StepsKeep ==
  ASSUME CliInv, NEW c \in Clients, NEW p \in PCs, NEW g \in {"junk", "greet", "serve"},
         NEW t \in SearchState, Steps(c, p, g, t), Fits(p, g, t),
         pipe' \in [Clients -> Seq(STRING)], left' \in Nat, pings' \in [Clients -> Nat],
         fd' \in Clients \cup {None}, scenario' = scenario,
         p = "run" => left' > 0,
         \/ p \in Holding /\ lock' = c /\ lock \in {None, c}
         \/ p \notin Holding /\ lock = c /\ lock' = None
         \/ p \notin Holding /\ lock # c /\ lock' = lock /\ left' = left
  PROVE  CliInv'
<1>1. CliTypes'
  <2>1. pc' \in [Clients -> PCs] /\ stage' \in [Clients -> {"junk", "greet", "serve"}]
    BY DEF CliInv, CliTypes, Steps
  <2>2. st' \in [Clients -> SearchState]
    BY DEF CliInv, CliTypes, Steps
  <2>3. lock' \in Clients \cup {None}
    BY DEF CliInv, CliTypes
  <2> QED  BY <2>1, <2>2, <2>3 DEF CliInv, CliTypes
<1>2. Buffers'
  <2> SUFFICES ASSUME NEW d \in Clients PROVE Fits(pc[d], stage[d], st[d])'
    BY DEF Buffers
  <2>1. CASE d = c
    <3>1. pc'[d] = p /\ stage'[d] = g /\ st'[d] = t
      BY <2>1 DEF CliInv, CliTypes, Steps
    <3>2. Fits(pc'[d], stage'[d], st'[d])
      BY <3>1
    <3> QED  BY <3>2 DEF Fits, Newlines
  <2>2. CASE d # c
    <3>1. pc'[d] = pc[d] /\ stage'[d] = stage[d] /\ st'[d] = st[d]
      BY <2>2 DEF CliInv, CliTypes, Steps
    <3>2. Fits(pc'[d], stage'[d], st'[d])
      BY <3>1 DEF CliInv, Buffers
    <3> QED  BY <3>2 DEF Fits, Newlines
  <2> QED  BY <2>1, <2>2
<1>3. Holder'
  <2>0. None \notin Clients
    BY BufferAssumption
  <2> SUFFICES ASSUME NEW d \in Clients
               PROVE  (pc'[d] \in Holding <=> lock' = d) /\ (pc'[d] = "run" => left' > 0)
    BY DEF Holder
  <2>1. CASE d = c
    <3>1. pc'[d] = p
      BY <2>1 DEF CliInv, CliTypes, Steps
    <3> QED  BY <2>0, <2>1, <3>1
  <2>2. CASE d # c
    <3>1. pc'[d] = pc[d]
      BY <2>2 DEF CliInv, CliTypes, Steps
    <3>2. (pc[d] \in Holding <=> lock = d) /\ (pc[d] = "run" => left > 0)
      BY DEF CliInv, Holder
    <3>3. "run" \in Holding
      BY DEF Holding
    <3> QED  BY <2>0, <2>2, <3>1, <3>2, <3>3
  <2> QED  BY <2>1, <2>2
<1> QED  BY <1>1, <1>2, <1>3 DEF CliInv

\* The steps that leave the threads' buffers and the lock alone.
LEMMA OthersKeep ==
  ASSUME CliInv, UNCHANGED <<pc, stage, st, left, lock, fd, scenario>>,
         pipe' \in [Clients -> Seq(STRING)], pings' \in [Clients -> Nat]
  PROVE  CliInv'
  BY DEF CliInv, CliTypes, Buffers, Holder, Fits, Newlines

LEMMA InitCliInv == CliInit => CliInv
<1> SUFFICES ASSUME CliInit PROVE CliInv
  OBVIOUS
<1>1. search_state_init \in SearchState /\ Len(search_state_init.buf) <= search_state_init.cap
  BY BufferAssumption DEF search_state_init, SearchState
<1>2. CliTypes
  <2>1. pc \in [Clients -> PCs] /\ stage \in [Clients -> {"junk", "greet", "serve"}]
    BY DEF CliInit, PCs
  <2> QED  BY <1>1, <2>1 DEF CliInit, CliTypes
<1>3. Buffers
  BY <1>1 DEF CliInit, Buffers, Fits
<1>4. Holder
  BY BufferAssumption DEF CliInit, Holder, Holding
<1> QED  BY <1>2, <1>3, <1>4 DEF CliInv

\* What a client's thread has at hand.
LEMMA OfClient ==
  ASSUME CliInv, NEW c \in Clients
  PROVE  /\ st[c] \in SearchState /\ Len(st[c].buf) <= st[c].cap
         /\ st[c].buf \in Seq(STRING) /\ pipe[c] \in Seq(STRING)
         /\ stage[c] \in {"junk", "greet", "serve"} /\ pc[c] \in PCs
         /\ Fits(pc[c], stage[c], st[c])
         /\ pc[c] \in Holding <=> lock = c
         /\ pc[c] = "run" => left > 0
<1>1. st[c] \in SearchState /\ pipe[c] \in Seq(STRING)
      /\ stage[c] \in {"junk", "greet", "serve"} /\ pc[c] \in PCs
  BY DEF CliInv, CliTypes
<1>2. Fits(pc[c], stage[c], st[c])
  BY DEF CliInv, Buffers
<1> QED  BY <1>1, <1>2 DEF CliInv, Holder, SearchState, Fits

LEMMA ClientsKeep ==
  ASSUME CliInv, NEW c \in Clients, Accept(c) \/ Types(c) \/ Hangup(c)
  PROVE  CliInv'
<1>0. /\ pipe \in [Clients -> Seq(STRING)] /\ pings \in [Clients -> Nat]
      /\ pc \in [Clients -> PCs] /\ stage = [stage EXCEPT ![c] = stage[c]]
      /\ st = [st EXCEPT ![c] = st[c]] /\ left \in Nat /\ fd \in Clients \cup {None}
      /\ scenario \in Scenarios
  BY DEF CliInv, CliTypes
<1>1. CASE Types(c)
  <2>1. PICK line \in scenario.script[c].lines : c \in DOMAIN scenario.script /\ Type(c, line)
    BY <1>1 DEF Types
  <2>2. line \in Seq(STRING)
    BY <1>0, <2>1, ClientAssumption
  <2>3. pipe' \in [Clients -> Seq(STRING)]
    BY <1>0, <2>1, <2>2 DEF Type
  <2> QED  BY <1>0, <2>1, <2>3, OthersKeep DEF Type, focus
<1>2. CASE Hangup(c)
  BY <1>0, <1>2, OthersKeep DEF Hangup, focus, history
<1>3. CASE Accept(c)
  <2>1. PICK hello \in Hellos[c] : pipe' = [pipe EXCEPT ![c] = hello]
    BY <1>3 DEF Accept
  <2>2. pipe' \in [Clients -> Seq(STRING)]
    BY <1>0, <2>1, ClientAssumption
  <2>3. Steps(c, "read", stage[c], st[c])
    BY <1>0, <1>3 DEF Accept, Steps
  <2>4. "read" \in PCs /\ "read" \notin Holding /\ pc[c] \notin Holding /\ lock # c
    BY <1>3, OfClient DEF Accept, Holding, PCs
  <2>5. Fits("read", stage[c], st[c])
    BY OfClient DEF Fits
  <2>6. pings' = pings /\ left' = left /\ fd' = fd /\ scenario' = scenario /\ lock' = lock
    BY <1>3 DEF Accept, focus, history
  <2>7. stage[c] \in {"junk", "greet", "serve"} /\ st[c] \in SearchState
    BY OfClient
  <2>8. left' \in Nat /\ fd' \in Clients \cup {None} /\ pings' \in [Clients -> Nat]
    BY <1>0, <2>6
  <2> QED  BY <2>2, <2>3, <2>4, <2>5, <2>6, <2>7, <2>8, StepsKeep
<1> QED  BY <1>1, <1>2, <1>3

LEMMA ReadsKeep ==
  ASSUME CliInv, NEW c \in Clients, ReadLeftover(c) \/ Read(c) \/ ReadEof(c)
  PROVE  CliInv'
<1>0. /\ pipe \in [Clients -> Seq(STRING)] /\ pings \in [Clients -> Nat]
      /\ left \in Nat /\ fd \in Clients \cup {None} /\ CliTypes
  BY DEF CliInv, CliTypes
<1>1. pings' = pings /\ left' = left /\ fd' = fd /\ scenario' = scenario /\ lock' = lock
  BY DEF ReadLeftover, Read, ReadEof, Unread, focus, history
<1>2. pc[c] \notin Holding /\ lock # c
  BY OfClient DEF ReadLeftover, Read, ReadEof, Holding
<1>3. /\ pipe' \in [Clients -> Seq(STRING)]
      /\ \E p \in {"lock", "read", "alive", "dead"}, g \in {"junk", "greet", "serve"},
            t \in SearchState : Steps(c, p, g, t) /\ Fits(p, g, t)
  <2>1. CASE ReadLeftover(c)
    BY <1>0, <2>1, OfClient, ReceivedSteps DEF ReadLeftover
  <2>2. CASE ReadEof(c)
    BY <1>0, <2>2, OfClient, HandledSteps DEF ReadEof
  <2>3. CASE Read(c)
    <3> DEFINE s == search_state_grow_if_full(st[c])
    <3>1. PICK n \in 1 .. Len(pipe[c]) :
            /\ n <= s.cap - Len(s.buf)
            /\ pipe' = [pipe EXCEPT ![c] = SubSeq(@, n + 1, Len(@))]
            /\ Received(c, [s EXCEPT !.buf = @ \o SubSeq(pipe[c], 1, n)])
      BY <2>3 DEF Read
    <3>2. s \in SearchState /\ s.buf = st[c].buf
      BY OfClient, GrowFits
    <3> HIDE DEF s
    <3> DEFINE u == [s EXCEPT !.buf = @ \o SubSeq(pipe[c], 1, n)]
    <3>3. pipe[c] \in Seq(STRING) /\ Len(pipe[c]) \in Nat /\ n \in Nat
      BY OfClient
    <3>4. SubSeq(pipe[c], 1, n) \in Seq(STRING) /\ Len(SubSeq(pipe[c], 1, n)) = n
      BY <3>3, SubSeqProperties
    <3>5. SubSeq(pipe[c], n + 1, Len(pipe[c])) \in Seq(STRING)
      BY <3>3, SubSeqProperties
    <3>6. pipe' \in [Clients -> Seq(STRING)]
      BY <1>0, <3>1, <3>5
    <3>7. u \in SearchState /\ u.cap = s.cap /\ u.buf = s.buf \o SubSeq(pipe[c], 1, n)
      <4>1. s.buf \o SubSeq(pipe[c], 1, n) \in Seq(STRING)
        BY <3>4, <3>2 DEF SearchState
      <4>2. u = [s EXCEPT !.buf = s.buf \o SubSeq(pipe[c], 1, n)]
        OBVIOUS
      <4> QED  BY <3>2, <4>1, <4>2, SetBuf
    <3>8. Len(u.buf) <= u.cap
      <4>1. s.buf \in Seq(STRING) /\ s.cap \in Int
        BY <3>2 DEF SearchState
      <4> QED  BY <3>1, <3>4, <3>7, <4>1
    <3>9. Received(c, u)
      BY <3>1
    <3> HIDE DEF u
    <3> QED  BY <1>0, <3>6, <3>7, <3>8, <3>9, ReceivedSteps
  <2> QED  BY <2>1, <2>2, <2>3
<1>4. PICK p \in {"lock", "read", "alive", "dead"}, g \in {"junk", "greet", "serve"},
           t \in SearchState : Steps(c, p, g, t) /\ Fits(p, g, t)
  BY <1>3
<1>5. p \in PCs /\ p \notin Holding /\ p # "run"
  BY DEF PCs, Holding
<1> QED  BY <1>0, <1>1, <1>2, <1>3, <1>4, <1>5, StepsKeep

LEMMA LockKeeps ==
  ASSUME CliInv, NEW c \in Clients, Lock(c)
  PROVE  CliInv'
<1> DEFINE p == IF stage[c] = "greet" THEN "prompt" ELSE "run"
<1>1. /\ st[c] \in SearchState /\ stage[c] \in {"junk", "greet", "serve"}
      /\ Fits(pc[c], stage[c], st[c]) /\ pc[c] = "lock"
  BY OfClient DEF Lock
<1>2. IsFiniteSet(Newlines(st[c])) /\ Cardinality(Newlines(st[c])) \in Nat
  <2>1. Len(st[c].buf) \in Nat
    BY OfClient
  <2>2. IsFiniteSet(0 .. Len(st[c].buf) - 1)
    BY <2>1, FS_Interval
  <2>3. IsFiniteSet(Newlines(st[c]))
    BY <2>2, FS_Subset DEF Newlines
  <2> QED  BY <2>3, FS_CardinalityType
<1>3. left' = Cardinality(Newlines(st[c])) /\ lock = None /\ lock' = c /\ fd' = c
  BY DEF Lock
<1>4. p = "run" => left' > 0
  <2>1. p = "run" => Newlines(st[c]) # {}
    BY <1>1 DEF Fits
  <2>2. Newlines(st[c]) # {} => Cardinality(Newlines(st[c])) # 0
    BY <1>2, FS_EmptySet
  <2> QED  BY <1>2, <1>3, <2>1, <2>2
<1>5. Steps(c, p, stage[c], st[c])
  BY DEF Lock, Steps, CliInv, CliTypes, input
<1>6. Fits(p, stage[c], st[c])
  BY <1>1 DEF Fits
<1>7. p \in PCs /\ p \in Holding
  BY DEF PCs, Holding
<1>8. /\ pipe' \in [Clients -> Seq(STRING)] /\ pings' \in [Clients -> Nat]
      /\ scenario' = scenario
  BY DEF Lock, CliInv, CliTypes, input, history
<1> HIDE DEF p
<1> QED  BY <1>1, <1>2, <1>3, <1>4, <1>5, <1>6, <1>7, <1>8, StepsKeep

\* The steps of the holder of the lock that keep it and its buffer.
LEMMA CommandsKeep ==
  ASSUME CliInv, NEW c \in Clients,
         \/ Show(c) \/ SetVerbose(c) \/ Exit(c) \/ Ping(c) \/ SkipPrompt(c)
         \/ Shutdown(c)
  PROVE  CliInv'
<1>1. PICK p \in {"ran", "skip", "raise"} : pc' = [pc EXCEPT ![c] = p]
  BY DEF Show, SetVerbose, Exit, Ping, SkipPrompt, Shutdown
<1>2. pc[c] \in {"run", "skip"}
  BY DEF Show, SetVerbose, Exit, Ping, SkipPrompt, Shutdown, Runs
<1>3. lock = c /\ (pc[c] = "run" => left > 0) /\ left \in Nat
  BY <1>2, OfClient DEF Holding, CliInv, CliTypes
<1>4. /\ UNCHANGED <<pipe, st, stage, fd, lock, scenario>>
      /\ left' = left \/ (pc[c] = "run" /\ left' = left - 1)
  BY DEF Show, SetVerbose, Exit, Ping, SkipPrompt, Shutdown, Runs, input, focus, history
<1>5. pings' \in [Clients -> Nat]
  <2>1. pings \in [Clients -> Nat] /\ Flood \in Nat
    BY BufferAssumption DEF CliInv, CliTypes
  <2>2. CASE Ping(c)
    <3>1. PICK n \in Nat : pings' = [pings EXCEPT ![fd] = @ + n]
      BY <2>1, <2>2 DEF Ping
    <3>2. \A d \in Clients : pings'[d] \in Nat
      BY <2>1, <3>1
    <3>3. DOMAIN pings' = Clients /\ pings' = [d \in DOMAIN pings' |-> pings'[d]]
      BY <2>1, <3>1
    <3> QED  BY <3>2, <3>3
  <2>3. CASE ~Ping(c)
    BY <2>1, <2>3 DEF Show, SetVerbose, Exit, SkipPrompt, Shutdown
  <2> QED  BY <2>2, <2>3
<1>6. Steps(c, p, stage[c], st[c])
  BY <1>1, <1>4 DEF Steps, CliInv, CliTypes
<1>7. Fits(p, stage[c], st[c]) /\ st[c] \in SearchState /\ stage[c] \in {"junk", "greet", "serve"}
  BY <1>2, OfClient DEF Fits
<1>8. p \in PCs /\ p \in Holding /\ p # "run"
  BY DEF PCs, Holding
<1>9. pipe' \in [Clients -> Seq(STRING)] /\ fd' \in Clients \cup {None} /\ left' \in Nat
  BY <1>3, <1>4 DEF CliInv, CliTypes
<1> QED  BY <1>3, <1>4, <1>5, <1>6, <1>7, <1>8, <1>9, StepsKeep

LEMMA ShiftedFits ==
  ASSUME NEW s \in SearchState, Len(s.buf) <= s.cap
  PROVE  Shifted(s) \in SearchState /\ Len(Shifted(s).buf) <= Shifted(s).cap
<1> DEFINE num == Len(s.buf) - s.noff - 1
           b == IF num > 0 THEN SubSeq(s.buf, s.noff + 1, s.noff + num) ELSE <<>>
<1>1. /\ s.buf \in Seq(STRING) /\ s.cap \in InitBuf .. MaxBuf /\ s.noff \in Nat
      /\ InitBuf \in Nat /\ MaxBuf \in Nat /\ Len(s.buf) \in Nat
      /\ s = [buf |-> s.buf, cap |-> s.cap, soff |-> s.soff, noff |-> s.noff]
  BY BufferAssumption DEF SearchState
<1>2. b \in Seq(STRING) /\ Len(b) <= s.cap
  <2>1. CASE num > 0
    <3>1. s.noff + 1 \in 1 .. Len(s.buf) + 1 /\ s.noff + num \in s.noff + 1 .. Len(s.buf)
      BY <1>1, <2>1
    <3>2. /\ SubSeq(s.buf, s.noff + 1, s.noff + num) \in Seq(STRING)
          /\ Len(SubSeq(s.buf, s.noff + 1, s.noff + num)) = num
      BY <1>1, <2>1, <3>1, SubSeqProperties, SMTT(30)
    <3> QED  BY <1>1, <2>1, <3>2
  <2>2. CASE ~(num > 0)
    BY <1>1, <2>2
  <2> QED  BY <2>1, <2>2
<1> HIDE DEF b
<1>3. Shifted(s) = [s EXCEPT !.buf = b, !.soff = 0, !.noff = s.cap + 1]
  BY DEF Shifted, b
<1>4. 0 \in Nat /\ s.cap + 1 \in Nat
  BY <1>1
<1> DEFINE n == s.cap + 1
           t == [s EXCEPT !.buf = b, !.soff = 0, !.noff = n]
<1> HIDE DEF n
<1>5. n \in Nat
  BY <1>4 DEF n
<1>6. t \in SearchState /\ t.buf = b /\ t.cap = s.cap
  BY <1>2, <1>5 DEF SearchState
<1>7. Shifted(s) = t
  BY <1>3 DEF n
<1> QED  BY <1>2, <1>6, <1>7

LEMMA AfterCommandKeeps ==
  ASSUME CliInv, NEW c \in Clients,
         Leave(c) \/ NextLine(c) \/ Prompt(c) \/ Unlock(c) \/ Check(c)
  PROVE  CliInv'
<1>0. /\ pipe \in [Clients -> Seq(STRING)] /\ pings \in [Clients -> Nat]
      /\ left \in Nat /\ fd \in Clients \cup {None} /\ CliTypes
      /\ stage = [stage EXCEPT ![c] = stage[c]] /\ st = [st EXCEPT ![c] = st[c]]
  BY DEF CliInv, CliTypes
<1>1. pipe' = pipe /\ pings' = pings /\ left' = left /\ fd' = fd /\ scenario' = scenario
  BY DEF Leave, NextLine, Prompt, Unlock, Check, input, focus, history
<1>2. /\ st[c] \in SearchState /\ Len(st[c].buf) <= st[c].cap
      /\ stage[c] \in {"junk", "greet", "serve"}
      /\ Fits(pc[c], stage[c], st[c])
      /\ pc[c] \in Holding <=> lock = c
  BY OfClient
<1>3. CASE Leave(c) \/ Unlock(c)
  <2>1. PICK alive \in BOOLEAN : Handled(c, alive, st[c])
    <3>1. CASE Leave(c)
      <4>1. Handled(c, FALSE, st[c])
        BY <3>1 DEF Leave
      <4> QED  BY <4>1
    <3>2. CASE Unlock(c)
      <4>1. Handled(c, fd_alive, st[c])
        BY <3>2 DEF Unlock
      <4>2. Handled(c, IF fd_alive THEN TRUE ELSE FALSE, st[c])
        BY <4>1 DEF Handled
      <4> QED  BY <4>2
    <3> QED  BY <1>3, <3>1, <3>2
  <2>2. PICK p \in {"lock", "read", "alive", "dead"}, g \in {"junk", "greet", "serve"},
             t \in SearchState : Steps(c, p, g, t) /\ Fits(p, g, t)
    BY <1>0, <1>2, <2>1, HandledSteps
  <2>3. p \in PCs /\ p \notin Holding /\ p # "run"
    BY DEF PCs, Holding
  <2>4. pc[c] \in Holding /\ lock' = None
    BY <1>3 DEF Leave, Unlock, Holding
  <2> QED  BY <1>0, <1>1, <1>2, <2>2, <2>3, <2>4, StepsKeep
<1>4. CASE NextLine(c)
  <2>0. lock' = lock /\ stage' = stage /\ pc[c] = "ran" /\ lock = c
    BY <1>2, <1>4 DEF NextLine, Holding
  <2>1. CASE left > 0
    <3>1. Steps(c, "run", stage[c], st[c])
      BY <1>0, <1>4, <2>0, <2>1 DEF NextLine, Steps
    <3>2. Fits("run", stage[c], st[c])
      BY <1>2, <2>0 DEF Fits
    <3>3. "run" \in PCs /\ "run" \in Holding
      BY DEF PCs, Holding
    <3> QED  BY <1>0, <1>1, <1>2, <2>0, <2>1, <3>1, <3>2, <3>3, StepsKeep
  <2>2. CASE ~(left > 0)
    <3>1. Steps(c, "prompt", stage[c], Shifted(st[c]))
      BY <1>0, <1>4, <2>0, <2>2 DEF NextLine, Steps
    <3>2. Shifted(st[c]) \in SearchState /\ Fits("prompt", stage[c], Shifted(st[c]))
      BY <1>2, ShiftedFits DEF Fits
    <3>3. "prompt" \in PCs /\ "prompt" \in Holding /\ "prompt" # "run"
      BY DEF PCs, Holding
    <3> QED  BY <1>0, <1>1, <1>2, <2>0, <3>1, <3>2, <3>3, StepsKeep
  <2> QED  BY <2>1, <2>2
<1>5. CASE Prompt(c)
  <2>1. Steps(c, "clear", stage[c], st[c])
    BY <1>0, <1>5 DEF Prompt, Steps, input
  <2>2. Fits("clear", stage[c], st[c])
    BY <1>2 DEF Fits
  <2>3. "clear" \in PCs /\ "clear" \in Holding /\ "clear" # "run"
    BY DEF PCs, Holding
  <2>4. lock' = lock /\ lock = c
    BY <1>2, <1>5 DEF Prompt, Holding
  <2> QED  BY <1>0, <1>1, <1>2, <2>1, <2>2, <2>3, <2>4, StepsKeep
<1>6. CASE Check(c)
  <2> DEFINE p == IF pc[c] = "alive" THEN "read" ELSE "gone"
  <2>1. Steps(c, p, stage[c], st[c])
    BY <1>0, <1>6 DEF Check, Steps, input
  <2>2. Fits(p, stage[c], st[c])
    BY <1>2 DEF Fits
  <2>3. p \in PCs /\ p \notin Holding /\ p # "run"
    BY DEF PCs, Holding
  <2>4. lock' = lock /\ lock # c
    BY <1>2, <1>6 DEF Check, Holding
  <2> HIDE DEF p
  <2> QED  BY <1>0, <1>1, <1>2, <2>1, <2>2, <2>3, <2>4, StepsKeep
<1> QED  BY <1>3, <1>4, <1>5, <1>6

LEMMA CliKeeps == CliInv /\ CliNext => CliInv'
<1> SUFFICES ASSUME CliInv, CliNext PROVE CliInv'
  OBVIOUS
<1>0. pipe \in [Clients -> Seq(STRING)] /\ pings \in [Clients -> Nat]
  BY DEF CliInv, CliTypes
<1>1. CASE Listen
  BY <1>0, <1>1, OthersKeep DEF Listen, input, focus, history
<1>2. CASE FeedbackEnds
  BY <1>0, <1>2, OthersKeep DEF FeedbackEnds, input, focus
<1>3. ASSUME NEW c \in Clients, Accept(c) \/ Types(c) \/ Hangup(c) PROVE CliInv'
  BY <1>3, ClientsKeep
<1>4. ASSUME NEW c \in Clients, Feedback(c) PROVE CliInv'
  <2>1. pings' = [pings EXCEPT ![c] = pings[c] - 1] /\ pings[c] > 0
    BY <1>4 DEF Feedback
  <2>2. pings' \in [Clients -> Nat]
    BY <1>0, <2>1
  <2> QED  BY <1>0, <1>4, <2>2, OthersKeep DEF Feedback, input
<1>5. ASSUME NEW c \in Clients, Serve(c) PROVE CliInv'
  <2>1. CASE Raise(c)
    BY <1>0, <2>1, OthersKeep DEF Raise, input, focus, history
  <2> QED  BY <1>5, <2>1, ReadsKeep, LockKeeps, CommandsKeep, AfterCommandKeeps DEF Serve
<1> QED  BY <1>1, <1>2, <1>3, <1>4, <1>5 DEF CliNext

-----------------------------------------------------------------------------
(* The frames on their way from the interfaces to the workers.             *)

PacketInfo == [where : {"heap"}, intf : DOMAIN File, packet : Packets]

PathTypes ==
  /\ boot \in {"instance", "interfaces", "network", "cli"}
  /\ table \in Seq(STRING) /\ Len(table) <= Len(File)
  /\ \A k \in 1 .. Len(table) : table[k] = File[k]
  /\ npc \in {"off", "select", "scan", "input"} /\ (boot # "cli" => npc = "off")
  /\ wire \in [DOMAIN File -> Seq(Packets)]
  /\ arrived \in [DOMAIN File -> Seq(Packets)]
  /\ pi \in [Jobs -> PacketInfo \cup {None}]
  /\ handled \in [Jobs -> [intf : DOMAIN File, packet : Packets] \cup {None}]
  /\ todo \in Seq(Jobs) /\ running \in [Workers -> Jobs \cup {None}]
  /\ rdset \subseteq DOMAIN table

\* The jobs up to j of interface i, and all of them.
Upto(q, i, j) == {k \in 1 .. j : q[k] # None /\ q[k].intf = i}
Count(q, i) == Cardinality(Upto(q, i, MaxPackets))

\* The frame the network thread has in its buffer.
Held(n, b, i) == IF n = "input" /\ b.intf = i THEN 1 ELSE 0

Jobs1 == \E n \in 0 .. MaxPackets : \A j \in Jobs : pi[j] # None <=> j <= n

Queued ==
  /\ \A j \in Jobs : pi[j] # None => pi[j].intf \in DOMAIN table
  /\ \A k \in 1 .. Len(todo) : pi[todo[k]] # None
  /\ \A w \in Workers : running[w] # None => pi[running[w]] # None

Reading ==
  /\ npc = "scan" => rdset # {} /\ \A i \in rdset : wire[i] # <<>>
  /\ npc = "input" => /\ nbuf \in [packet : Packets, intf : DOMAIN table]
                      /\ nbuf.packet = arrived[nbuf.intf][Count(pi, nbuf.intf) + 1]

\* What an interface has received is in its jobs, in the buffer and in its
\* socket, in this order.
Streams ==
  /\ \A i \in DOMAIN File :
       /\ Len(arrived[i]) = Count(pi, i) + Held(npc, nbuf, i) + Len(wire[i])
       /\ \A k \in 1 .. Len(wire[i]) : wire[i][k] = arrived[i][Count(pi, i) + Held(npc, nbuf, i) + k]
  /\ \A j \in Jobs : pi[j] # None =>
       LET n == Cardinality(Upto(pi, pi[j].intf, j))
       IN  n \in 1 .. Len(arrived[pi[j].intf]) /\ pi[j].packet = arrived[pi[j].intf][n]

AsCopied ==
  \A j \in Jobs : handled[j] # None =>
    pi[j] # None /\ handled[j] = [intf |-> pi[j].intf, packet |-> pi[j].packet]

PathInv == PathTypes /\ Jobs1 /\ Queued /\ Reading /\ Streams /\ AsCopied

LEMMA UptoFinite ==
  ASSUME NEW q, NEW i, NEW j \in Nat
  PROVE  IsFiniteSet(Upto(q, i, j)) /\ Cardinality(Upto(q, i, j)) \in Nat
<1>1. IsFiniteSet(1 .. j)
  BY FS_Interval
<1>2. IsFiniteSet(Upto(q, i, j))
  BY <1>1, FS_Subset DEF Upto
<1> QED  BY <1>2, FS_CardinalityType

LEMMA TableInFile == PathInv => DOMAIN table \subseteq DOMAIN File
<1> SUFFICES ASSUME PathInv PROVE DOMAIN table \subseteq DOMAIN File
  OBVIOUS
<1>1. /\ table \in Seq(STRING) /\ File \in Seq(STRING) /\ Len(table) \in Nat
      /\ Len(File) \in Nat /\ Len(table) <= Len(File)
  BY PathAssumption DEF PathInv, PathTypes
<1> QED  BY <1>1

LEMMA PathInvImplies ==
  PathInv => /\ HandledAsReceived
             /\ IsPrefix(table, File) /\ rdset \subseteq DOMAIN table
             /\ \A j \in Jobs : pi[j] # None => pi[j].intf \in DOMAIN table
<1> SUFFICES ASSUME PathInv
             PROVE  /\ HandledAsReceived
                    /\ IsPrefix(table, File) /\ rdset \subseteq DOMAIN table
                    /\ \A j \in Jobs : pi[j] # None => pi[j].intf \in DOMAIN table
  OBVIOUS
<1>1. HandledAsReceived
  <2> SUFFICES ASSUME NEW j \in Jobs, handled[j] # None
               PROVE  LET i == handled[j].intf
                          n == Cardinality({k \in 1 .. j : pi[k] # None /\ pi[k].intf = i})
                      IN  n <= Len(arrived[i]) /\ handled[j].packet = arrived[i][n]
    BY DEF HandledAsReceived
  <2>1. pi[j] # None /\ handled[j].intf = pi[j].intf /\ handled[j].packet = pi[j].packet
    <3>1. pi[j] # None /\ handled[j] = [intf |-> pi[j].intf, packet |-> pi[j].packet]
      BY DEF PathInv, AsCopied
    <3> QED  BY <3>1
  <2>2. LET n == Cardinality(Upto(pi, pi[j].intf, j))
        IN  n \in 1 .. Len(arrived[pi[j].intf]) /\ pi[j].packet = arrived[pi[j].intf][n]
    BY <2>1 DEF PathInv, Streams
  <2> QED  BY <2>1, <2>2 DEF Upto
<1>2. IsPrefix(table, File)
  <2>1. /\ table \in Seq(STRING) /\ File \in Seq(STRING) /\ Len(table) \in Nat
        /\ Len(File) \in Nat /\ Len(table) <= Len(File)
        /\ \A k \in 1 .. Len(table) : table[k] = File[k]
    BY PathAssumption DEF PathInv, PathTypes
  <2>2. SubSeq(table, 1, Len(table)) = SubSeq(File, 1, Len(table))
    BY <2>1
  <2> QED  BY <2>1, <2>2 DEF IsPrefix
<1> QED  BY <1>1, <1>2 DEF PathInv, PathTypes, Queued

LEMMA InitPathInv == Init => PathInv
<1> SUFFICES ASSUME Init PROVE PathInv
  OBVIOUS
<1>0. File \in Seq(STRING) /\ Len(File) \in Nat /\ MaxPackets \in Nat
  BY PathAssumption
<1>1. PathTypes
  <2>1. table \in Seq(STRING) /\ Len(table) = 0 /\ rdset = {}
    BY DEF Init
  <2>2. todo \in Seq(Jobs) /\ running \in [Workers -> Jobs \cup {None}]
    BY DEF Init, WQ!Init
  <2>3. wire \in [DOMAIN File -> Seq(Packets)] /\ arrived \in [DOMAIN File -> Seq(Packets)]
    BY DEF Init
  <2> QED  BY <1>0, <2>1, <2>2, <2>3 DEF Init, PathTypes
<1>2. Jobs1
  BY <1>0 DEF Init, Jobs1, Jobs, Packets
<1>3. \A i, j : Upto(pi, i, j) = {k \in 1 .. j : pi[k] # None /\ pi[k].intf = i}
  BY DEF Upto
<1>4. \A i : Upto(pi, i, MaxPackets) = {}
  BY <1>3 DEF Init, Jobs, Packets
<1>5. \A i : Count(pi, i) = 0
  BY <1>4, FS_EmptySet DEF Count
<1>6. Streams
  BY <1>5 DEF Streams, Init, Held
<1> QED  BY <1>1, <1>2, <1>6 DEF PathInv, Init, Queued, Reading, AsCopied, WQ!Init

\* The steps that leave the frames alone.
LEMMA PathUnchanged ==
  ASSUME PathInv, UNCHANGED <<boot, table, pathVars>>
  PROVE  PathInv'
  BY DEF PathInv, PathTypes, Jobs1, Queued, Reading, Streams, AsCopied,
         pathVars, netVars, wqVars

LEMMA BootKeeps ==
  ASSUME PathInv, Boot
  PROVE  PathInv'
<1>0. File \in Seq(STRING) /\ Len(File) \in Nat /\ table \in Seq(STRING) /\ Len(table) \in Nat
  BY PathAssumption DEF PathInv, PathTypes
<1>1. CASE InitInstance \/ StartTransport
  <2>1. /\ UNCHANGED <<table, npc, wire, arrived, pi, handled, todo, running, rdset, nbuf>>
        /\ boot # "cli" /\ boot' \in {"interfaces", "network"}
    BY <1>1 DEF InitInstance, StartTransport, pathVars, netVars, wqVars
  <2>2. PathTypes'
    BY <2>1 DEF PathInv, PathTypes
  <2>3. Jobs1' /\ Streams' /\ AsCopied' /\ Queued' /\ Reading'
    BY <2>1 DEF PathInv, Jobs1, Streams, AsCopied, Queued, Reading
  <2> QED  BY <2>2, <2>3 DEF PathInv
<1>2. CASE AddInterface
  <2>1. table' = Append(table, File[Len(table) + 1]) /\ Len(table) < Len(File)
    BY <1>2 DEF AddInterface, router_add_interface
  <2>2. /\ table' \in Seq(STRING) /\ Len(table') = Len(table) + 1
        /\ \A k \in 1 .. Len(table) : table'[k] = table[k]
        /\ table'[Len(table) + 1] = File[Len(table) + 1]
        /\ DOMAIN table \subseteq DOMAIN table'
    BY <1>0, <2>1
  <2>3. UNCHANGED <<boot, npc, wire, arrived, pi, handled, todo, running, rdset, nbuf>>
    BY <1>2 DEF AddInterface, pathVars, netVars, wqVars
  <2>4. PathTypes'
    BY <1>0, <2>1, <2>2, <2>3 DEF PathInv, PathTypes
  <2>5. Jobs1' /\ Streams' /\ AsCopied'
    BY <2>3 DEF PathInv, Jobs1, Streams, AsCopied, Held
  <2>6. Queued'
    BY <2>2, <2>3 DEF PathInv, Queued
  <2>7. Reading'
    <3>1. npc = "input" => nbuf \in [packet : Packets, intf : DOMAIN table']
      BY <2>2 DEF PathInv, Reading
    <3> QED  BY <2>3, <3>1 DEF PathInv, Reading
  <2> QED  BY <2>4, <2>5, <2>6, <2>7 DEF PathInv
<1>3. CASE StartNetwork
  <2>1. UNCHANGED <<table, wire, arrived, pi, handled, todo, running, rdset, nbuf>>
        /\ npc' = "select" /\ boot' = "cli"
    BY <1>3 DEF StartNetwork, wqVars
  <2>2. npc = "off"
    BY <1>3 DEF StartNetwork, PathInv, PathTypes
  <2> QED  BY <2>1, <2>2 DEF PathInv, PathTypes, Jobs1, Queued, Reading, Streams, AsCopied, Held
<1> QED  BY <1>1, <1>2, <1>3 DEF Boot

LEMMA ArriveKeeps ==
  ASSUME PathInv, NEW i \in DOMAIN File, NEW p \in Packets, Arrive(i, p)
  PROVE  PathInv'
<1>0. /\ wire \in [DOMAIN File -> Seq(Packets)] /\ arrived \in [DOMAIN File -> Seq(Packets)]
      /\ wire' = [wire EXCEPT ![i] = Append(@, p)]
      /\ arrived' = [arrived EXCEPT ![i] = Append(@, p)]
      /\ UNCHANGED <<boot, table, npc, rdset, nbuf, pi, handled, todo, running>>
  BY DEF PathInv, PathTypes, Arrive, netVars, wqVars
<1>1. PathTypes'
  <2>1. wire' \in [DOMAIN File -> Seq(Packets)] /\ arrived' \in [DOMAIN File -> Seq(Packets)]
    BY <1>0
  <2> QED  BY <1>0, <2>1 DEF PathInv, PathTypes
<1>2. \A k \in DOMAIN File :
        /\ arrived[k] \in Seq(Packets) /\ wire[k] \in Seq(Packets)
        /\ Len(arrived[k]) \in Nat /\ Len(wire[k]) \in Nat
        /\ arrived'[k] \in Seq(Packets) /\ Len(arrived'[k]) >= Len(arrived[k])
        /\ \A m \in 1 .. Len(arrived[k]) : arrived'[k][m] = arrived[k][m]
        /\ wire[k] # <<>> => wire'[k] # <<>>
  <2> TAKE k \in DOMAIN File
  <2>1. /\ arrived[k] \in Seq(Packets) /\ wire[k] \in Seq(Packets)
        /\ Len(arrived[k]) \in Nat /\ Len(wire[k]) \in Nat
    BY <1>0
  <2>2. CASE k # i
    BY <1>0, <2>1, <2>2
  <2>3. CASE k = i
    <3>1. arrived'[k] = Append(arrived[k], p) /\ wire'[k] = Append(wire[k], p)
      BY <1>0, <2>3
    <3>2. /\ arrived'[k] \in Seq(Packets) /\ Len(arrived'[k]) = Len(arrived[k]) + 1
          /\ \A m \in 1 .. Len(arrived[k]) : arrived'[k][m] = arrived[k][m]
      BY <2>1, <3>1
    <3>3. wire'[k] # <<>>
      BY <2>1, <3>1
    <3> QED  BY <2>1, <3>2, <3>3
  <2> QED  BY <2>2, <2>3
<1>3. /\ Len(arrived'[i]) = Len(arrived[i]) + 1 /\ Len(wire'[i]) = Len(wire[i]) + 1
      /\ arrived'[i][Len(arrived[i]) + 1] = p /\ wire'[i][Len(wire[i]) + 1] = p
      /\ \A m \in 1 .. Len(wire[i]) : wire'[i][m] = wire[i][m]
      /\ \A k \in DOMAIN File \ {i} : arrived'[k] = arrived[k] /\ wire'[k] = wire[k]
  BY <1>0
<1>4. \A k \in DOMAIN File : Count(pi, k) \in Nat /\ Held(npc, nbuf, k) \in {0, 1}
  BY UptoFinite, PathAssumption DEF Count, Held
<1>5. Streams'
  <2>1. ASSUME NEW k \in DOMAIN File
        PROVE  /\ Len(arrived'[k]) = Count(pi, k) + Held(npc, nbuf, k) + Len(wire'[k])
               /\ \A m \in 1 .. Len(wire'[k]) :
                    wire'[k][m] = arrived'[k][Count(pi, k) + Held(npc, nbuf, k) + m]
    <3>1. /\ Len(arrived[k]) = Count(pi, k) + Held(npc, nbuf, k) + Len(wire[k])
          /\ \A m \in 1 .. Len(wire[k]) :
               wire[k][m] = arrived[k][Count(pi, k) + Held(npc, nbuf, k) + m]
      BY DEF PathInv, Streams
    <3>2. CASE k # i
      BY <1>3, <3>1, <3>2
    <3>3. CASE k = i
      <4> DEFINE b == Count(pi, k) + Held(npc, nbuf, k)
      <4>0. b \in Nat
        BY <1>4
      <4> HIDE DEF b
      <4>1. Len(arrived[i]) = b + Len(wire[i]) /\ Len(arrived'[i]) = b + Len(wire'[i])
        BY <1>2, <1>3, <3>1, <3>3, <4>0 DEF b
      <4>2. ASSUME NEW m \in 1 .. Len(wire'[i]) PROVE wire'[i][m] = arrived'[i][b + m]
        <5>1. CASE m = Len(wire[i]) + 1
          BY <1>2, <1>3, <4>0, <4>1, <5>1
        <5>2. CASE m # Len(wire[i]) + 1
          <6>1. m \in 1 .. Len(wire[i])
            BY <1>2, <1>3, <5>2
          <6>2. wire'[i][m] = arrived[i][b + m]
            BY <1>3, <3>1, <3>3, <6>1 DEF b
          <6>3. b + m \in 1 .. Len(arrived[i])
            BY <1>2, <4>0, <4>1, <6>1
          <6> QED  BY <1>2, <6>2, <6>3
        <5> QED  BY <5>1, <5>2
      <4> QED  BY <3>3, <4>1, <4>2 DEF b
    <3> QED  BY <3>2, <3>3
  <2>2. ASSUME NEW j \in Jobs, pi[j] # None
        PROVE  LET n == Cardinality(Upto(pi, pi[j].intf, j))
               IN  n \in 1 .. Len(arrived'[pi[j].intf]) /\ pi[j].packet = arrived'[pi[j].intf][n]
    <3>1. LET n == Cardinality(Upto(pi, pi[j].intf, j))
          IN  n \in 1 .. Len(arrived[pi[j].intf]) /\ pi[j].packet = arrived[pi[j].intf][n]
      BY <2>2 DEF PathInv, Streams
    <3>2. pi[j].intf \in DOMAIN File
      BY <2>2 DEF PathInv, PathTypes, PacketInfo
    <3> QED  BY <1>2, <3>1, <3>2
  <2> QED  BY <1>0, <2>1, <2>2 DEF Streams
<1>6. Reading'
  <2>1. npc = "scan" => rdset # {} /\ \A k \in rdset : wire'[k] # <<>>
    BY <1>2, TableInFile DEF PathInv, Reading, PathTypes
  <2>2. ASSUME npc = "input"
        PROVE  /\ nbuf \in [packet : Packets, intf : DOMAIN table]
               /\ nbuf.packet = arrived'[nbuf.intf][Count(pi, nbuf.intf) + 1]
    <3>1. /\ nbuf \in [packet : Packets, intf : DOMAIN table]
          /\ nbuf.packet = arrived[nbuf.intf][Count(pi, nbuf.intf) + 1]
      BY <2>2 DEF PathInv, Reading
    <3>2. nbuf.intf \in DOMAIN File
      BY <3>1, TableInFile
    <3>3. Len(arrived[nbuf.intf]) = Count(pi, nbuf.intf) + 1 + Len(wire[nbuf.intf])
      BY <2>2, <3>2 DEF PathInv, Streams, Held
    <3>4. Count(pi, nbuf.intf) + 1 \in 1 .. Len(arrived[nbuf.intf])
      BY <1>2, <1>4, <3>2, <3>3
    <3> QED  BY <1>2, <3>1, <3>2, <3>4
  <2> QED  BY <1>0, <2>1, <2>2 DEF Reading
<1>7. Jobs1' /\ Queued' /\ AsCopied'
  BY <1>0 DEF PathInv, Jobs1, Queued, AsCopied
<1> QED  BY <1>1, <1>5, <1>6, <1>7 DEF PathInv

LEMMA SelectKeeps ==
  ASSUME PathInv, Select
  PROVE  PathInv'
<1>1. /\ UNCHANGED <<boot, table, wire, arrived, nbuf, pi, handled, todo, running>>
      /\ npc = "select" /\ npc' = "scan" /\ rdset' = Selected /\ Selected # {}
  BY DEF Select, wqVars
<1>2. Selected \subseteq DOMAIN table /\ \A i \in Selected : wire[i] # <<>>
  BY DEF Selected, Ready
<1>3. \A i : Held(npc, nbuf, i) = 0 /\ Held(npc', nbuf', i) = 0
  BY <1>1 DEF Held
<1>4. PathTypes'
  BY <1>1, <1>2 DEF PathInv, PathTypes
<1>5. Streams'
  BY <1>1, <1>3 DEF PathInv, Streams
<1>6. Reading'
  BY <1>1, <1>2 DEF PathInv, Reading
<1>7. Jobs1' /\ Queued' /\ AsCopied'
  BY <1>1 DEF PathInv, Jobs1, Queued, AsCopied
<1> QED  BY <1>4, <1>5, <1>6, <1>7 DEF PathInv

LEMMA ReadPacketKeeps ==
  ASSUME PathInv, ReadPacket
  PROVE  PathInv'
<1> DEFINE i == CHOOSE i \in rdset : \A k \in rdset : i <= k
<1>1. /\ UNCHANGED <<boot, table, arrived, rdset, pi, handled, todo, running>>
      /\ npc = "scan" /\ npc' = "input"
      /\ nbuf' = [packet |-> Head(wire[i]), intf |-> i]
      /\ wire' = [wire EXCEPT ![i] = Tail(@)]
  BY DEF ReadPacket, wqVars
<1>2. i \in rdset
  <2>1. rdset \subseteq Nat /\ rdset # {}
    BY <1>1, SMTT(30) DEF PathInv, PathTypes, Reading
  <2>2. \E k \in rdset : \A m \in rdset : k <= m
    BY <2>1, LeastNatural
  <2> QED  BY <2>2
<1> HIDE DEF i
<1>3. i \in DOMAIN table /\ i \in DOMAIN File /\ wire[i] # <<>>
  BY <1>1, <1>2, TableInFile DEF PathInv, PathTypes, Reading
<1>4. wire \in [DOMAIN File -> Seq(Packets)] /\ wire[i] \in Seq(Packets)
  BY <1>3 DEF PathInv, PathTypes
<1>5. /\ Len(wire[i]) \in Nat \ {0} /\ Head(wire[i]) = wire[i][1] /\ Head(wire[i]) \in Packets
      /\ Tail(wire[i]) \in Seq(Packets) /\ Len(Tail(wire[i])) = Len(wire[i]) - 1
      /\ \A m \in 1 .. Len(Tail(wire[i])) : Tail(wire[i])[m] = wire[i][m + 1]
  BY <1>3, <1>4
<1>6. /\ wire'[i] = Tail(wire[i]) /\ \A k \in DOMAIN File \ {i} : wire'[k] = wire[k]
      /\ wire' \in [DOMAIN File -> Seq(Packets)]
  BY <1>1, <1>3, <1>4, <1>5
<1>7. /\ \A k : Held(npc, nbuf, k) = 0
      /\ \A k : Held(npc', nbuf', k) = IF k = i THEN 1 ELSE 0
  BY <1>1 DEF Held
<1>8. \A k \in DOMAIN File : Count(pi, k) \in Nat
  BY UptoFinite, PathAssumption DEF Count
<1>9. PathTypes'
  BY <1>1, <1>6 DEF PathInv, PathTypes
<1>10. Streams'
  <2>1. ASSUME NEW k \in DOMAIN File
        PROVE  /\ Len(arrived[k]) = Count(pi, k) + Held(npc', nbuf', k) + Len(wire'[k])
               /\ \A m \in 1 .. Len(wire'[k]) :
                    wire'[k][m] = arrived[k][Count(pi, k) + Held(npc', nbuf', k) + m]
    <3>1. /\ Len(arrived[k]) = Count(pi, k) + 0 + Len(wire[k])
          /\ \A m \in 1 .. Len(wire[k]) : wire[k][m] = arrived[k][Count(pi, k) + 0 + m]
      BY <1>7 DEF PathInv, Streams
    <3>2. CASE k # i
      BY <1>6, <1>7, <3>1, <3>2
    <3>3. CASE k = i
      <4>1. Count(pi, i) \in Nat
        BY <1>3, <1>8
      <4>2. Len(arrived[i]) = Count(pi, i) + 1 + Len(wire'[i])
        BY <1>5, <1>6, <3>1, <3>3, <4>1
      <4>3. ASSUME NEW m \in 1 .. Len(wire'[i])
            PROVE  wire'[i][m] = arrived[i][Count(pi, i) + 1 + m]
        <5>1. wire'[i][m] = wire[i][m + 1] /\ m + 1 \in 1 .. Len(wire[i])
          BY <1>5, <1>6
        <5>2. Count(pi, i) + 0 + (m + 1) = Count(pi, i) + 1 + m
          BY <4>1
        <5> QED  BY <3>1, <3>3, <5>1, <5>2
      <4>4. Held(npc', nbuf', k) = 1
        BY <1>7, <3>3
      <4> QED  BY <3>3, <4>2, <4>3, <4>4
    <3> QED  BY <3>2, <3>3
  <2> QED  BY <1>1, <2>1 DEF PathInv, Streams
<1>11. Reading'
  <2>1. nbuf'.packet = arrived[i][Count(pi, i) + 1]
    <3>1. wire[i][1] = arrived[i][Count(pi, i) + 0 + 1]
      BY <1>3, <1>5, <1>7 DEF PathInv, Streams
    <3>2. Count(pi, i) + 0 + 1 = Count(pi, i) + 1
      BY <1>3, <1>8
    <3> QED  BY <1>1, <1>5, <3>1, <3>2
  <2>2. nbuf' \in [packet : Packets, intf : DOMAIN table] /\ nbuf'.intf = i
    BY <1>1, <1>3, <1>5
  <2> QED  BY <1>1, <2>1, <2>2 DEF Reading
<1>12. Jobs1' /\ Queued' /\ AsCopied'
  BY <1>1 DEF PathInv, Jobs1, Queued, AsCopied
<1> QED  BY <1>9, <1>10, <1>11, <1>12 DEF PathInv

\* A new job is the last one: the jobs before it keep their rank.
LEMMA NewJob ==
  ASSUME pi \in [Jobs -> PacketInfo \cup {None}],
         NEW f \in Jobs, NEW x \in PacketInfo, pi' = [pi EXCEPT ![f] = x],
         \A j \in Jobs : pi[j] # None <=> j < f
  PROVE  /\ \A i : Count(pi', i) = IF i = x.intf THEN Count(pi, i) + 1 ELSE Count(pi, i)
         /\ \A j \in Jobs : \A i : j < f => Upto(pi', i, j) = Upto(pi, i, j)
         /\ Cardinality(Upto(pi', x.intf, f)) = Count(pi, x.intf) + 1
<1>0. MaxPackets \in Nat /\ Jobs = 1 .. MaxPackets /\ f \in Nat /\ x # None
  BY PathAssumption DEF Jobs, Packets, PacketInfo
<1>1. pi' \in [Jobs -> PacketInfo \cup {None}] /\ pi'[f] = x /\ pi[f] = None
      /\ \A j \in Jobs \ {f} : pi'[j] = pi[j]
  BY <1>0
<1>2. ASSUME NEW i, i # x.intf PROVE Upto(pi', i, MaxPackets) = Upto(pi, i, MaxPackets)
  BY <1>0, <1>1, <1>2 DEF Upto
<1>3. /\ Upto(pi', x.intf, MaxPackets) = Upto(pi, x.intf, MaxPackets) \cup {f}
      /\ f \notin Upto(pi, x.intf, MaxPackets)
  BY <1>0, <1>1 DEF Upto
<1>4. Count(pi', x.intf) = Count(pi, x.intf) + 1
  BY <1>0, <1>3, UptoFinite, FS_AddElement DEF Count
<1>5. ASSUME NEW j \in Jobs, NEW i, j < f PROVE Upto(pi', i, j) = Upto(pi, i, j)
  BY <1>0, <1>1, <1>5 DEF Upto
<1>6. Upto(pi', x.intf, f) = Upto(pi', x.intf, MaxPackets)
  BY <1>0, <1>1 DEF Upto
<1> QED  BY <1>2, <1>4, <1>5, <1>6 DEF Count

LEMMA FreshJob ==
  ASSUME PathInv, \E j \in Jobs : pi[j] = None
  PROVE  /\ Fresh \in Jobs /\ pi[Fresh] = None
         /\ \A j \in Jobs : pi[j] # None <=> j < Fresh
<1>0. MaxPackets \in Nat /\ Jobs = 1 .. MaxPackets
  BY PathAssumption DEF Jobs, Packets
<1> DEFINE T == {j \in Jobs : pi[j] = None}
<1>1. \E j \in T : \A k \in T : j <= k
  <2>1. T \subseteq Nat /\ T # {}
    BY <1>0
  <2> QED  BY <2>1, LeastNatural
<1>2. Fresh \in Jobs /\ pi[Fresh] = None /\ \A k \in Jobs : pi[k] = None => Fresh <= k
  BY <1>1 DEF Fresh
<1>3. PICK n \in 0 .. MaxPackets : \A j \in Jobs : pi[j] # None <=> j <= n
  BY DEF PathInv, Jobs1
<1> QED  BY <1>0, <1>2, <1>3

LEMMA InputKeeps ==
  ASSUME PathInv, sr_integ_input
  PROVE  PathInv'
<1>0. MaxPackets \in Nat /\ Jobs = 1 .. MaxPackets
  BY PathAssumption DEF Jobs, Packets
<1>1. /\ UNCHANGED <<boot, table, wire, arrived, rdset, nbuf, handled, running>>
      /\ npc = "input" /\ npc' = "select"
      /\ pi' = [pi EXCEPT ![Fresh] = Copied] /\ todo' = Append(todo, Fresh)
      /\ \E j \in Jobs : pi[j] = None
  BY DEF sr_integ_input, WQ!Submit
<1>2. /\ Fresh \in Jobs /\ pi[Fresh] = None
      /\ \A j \in Jobs : pi[j] # None <=> j < Fresh
  BY <1>1, FreshJob
<1> DEFINE f == Fresh
           x == Copied
<1> HIDE DEF f
<1>3. /\ nbuf \in [packet : Packets, intf : DOMAIN table]
      /\ nbuf.packet = arrived[nbuf.intf][Count(pi, nbuf.intf) + 1]
  BY <1>1 DEF PathInv, Reading
<1>4. /\ x \in PacketInfo /\ x.intf = nbuf.intf /\ x.packet = nbuf.packet /\ x # None
      /\ nbuf.intf \in DOMAIN File /\ nbuf.intf \in DOMAIN table
  BY <1>3, TableInFile, PathAssumption DEF Copied, PacketInfo
<1> HIDE DEF x
<1>5. pi \in [Jobs -> PacketInfo \cup {None}] /\ pi' = [pi EXCEPT ![f] = x] /\ f \in Jobs
  BY <1>1, <1>2 DEF PathInv, PathTypes, f, x
<1>6. \A j \in Jobs : pi[j] # None <=> j < f
  BY <1>2 DEF f
<1>7. /\ \A i : Count(pi', i) = IF i = nbuf.intf THEN Count(pi, i) + 1 ELSE Count(pi, i)
      /\ \A j \in Jobs : \A i : j < f => Upto(pi', i, j) = Upto(pi, i, j)
      /\ Cardinality(Upto(pi', nbuf.intf, f)) = Count(pi, nbuf.intf) + 1
  <2>1. /\ \A i : Count(pi', i) = IF i = x.intf THEN Count(pi, i) + 1 ELSE Count(pi, i)
        /\ \A j \in Jobs : \A i : j < f => Upto(pi', i, j) = Upto(pi, i, j)
        /\ Cardinality(Upto(pi', x.intf, f)) = Count(pi, x.intf) + 1
    <3>1. x \in PacketInfo
      BY <1>4
    <3> QED  BY <1>5, <1>6, <3>1, NewJob
  <2> QED  BY <1>4, <2>1
<1>8. /\ pi'[f] = x /\ \A j \in Jobs \ {f} : pi'[j] = pi[j]
      /\ pi' \in [Jobs -> PacketInfo \cup {None}]
  BY <1>4, <1>5
<1>9. \A i \in DOMAIN File : Count(pi, i) \in Nat
  BY <1>0, UptoFinite DEF Count
<1>10. /\ \A i : Held(npc, nbuf, i) = IF i = nbuf.intf THEN 1 ELSE 0
       /\ \A i : Held(npc', nbuf', i) = 0
  BY <1>1 DEF Held
<1>11. \A i \in DOMAIN File :
         Count(pi', i) + Held(npc', nbuf', i) = Count(pi, i) + Held(npc, nbuf, i)
  BY <1>7, <1>9, <1>10
<1>12. todo' \in Seq(Jobs) /\ todo \in Seq(Jobs) /\ todo' = Append(todo, f)
  BY <1>1, <1>5 DEF PathInv, PathTypes, f
<1>13. PathTypes'
  BY <1>1, <1>8, <1>12 DEF PathInv, PathTypes
<1>14. Jobs1'
  <2>1. \A j \in Jobs : pi'[j] # None <=> j <= f
    BY <1>0, <1>4, <1>5, <1>6, <1>8
  <2>2. f \in 0 .. MaxPackets
    BY <1>0, <1>5
  <2> QED  BY <2>1, <2>2 DEF Jobs1
<1>15. Queued'
  <2>1. \A j \in Jobs : pi'[j] # None => pi'[j].intf \in DOMAIN table
    BY <1>4, <1>5, <1>8 DEF PathInv, Queued
  <2>2. \A k \in 1 .. Len(todo') : pi'[todo'[k]] # None
    <3> TAKE k \in 1 .. Len(todo')
    <3>1. CASE k = Len(todo) + 1
      BY <1>4, <1>8, <1>12, <3>1
    <3>2. CASE k # Len(todo) + 1
      <4>1. k \in 1 .. Len(todo) /\ todo'[k] = todo[k] /\ todo[k] \in Jobs
        BY <1>12, <3>2
      <4>2. pi[todo[k]] # None
        BY <4>1 DEF PathInv, Queued
      <4> QED  BY <1>4, <1>8, <4>1, <4>2
    <3> QED  BY <3>1, <3>2
  <2>3. \A w \in Workers : running[w] # None => pi'[running[w]] # None
    <3> SUFFICES ASSUME NEW w \in Workers, running[w] # None PROVE pi'[running[w]] # None
      OBVIOUS
    <3>1. running[w] \in Jobs /\ pi[running[w]] # None
      BY DEF PathInv, PathTypes, Queued
    <3> QED  BY <1>4, <1>8, <3>1
  <2> QED  BY <1>1, <2>1, <2>2, <2>3 DEF Queued
<1>16. Reading'
  BY <1>1 DEF Reading
<1>17. Streams'
  <2>1. ASSUME NEW i \in DOMAIN File
        PROVE  /\ Len(arrived[i]) = Count(pi', i) + Held(npc', nbuf', i) + Len(wire[i])
               /\ \A k \in 1 .. Len(wire[i]) :
                    wire[i][k] = arrived[i][Count(pi', i) + Held(npc', nbuf', i) + k]
    BY <1>11 DEF PathInv, Streams
  <2>2. ASSUME NEW j \in Jobs, pi'[j] # None
        PROVE  LET n == Cardinality(Upto(pi', pi'[j].intf, j))
               IN  /\ n \in 1 .. Len(arrived[pi'[j].intf])
                   /\ pi'[j].packet = arrived[pi'[j].intf][n]
    <3>1. CASE j = f
      <4>1. Len(arrived[nbuf.intf]) = Count(pi, nbuf.intf) + 1 + Len(wire[nbuf.intf])
        BY <1>4, <1>10 DEF PathInv, Streams
      <4>2. Len(wire[nbuf.intf]) \in Nat /\ Len(arrived[nbuf.intf]) \in Nat
        BY <1>4 DEF PathInv, PathTypes
      <4>3. Count(pi, nbuf.intf) + 1 \in 1 .. Len(arrived[nbuf.intf])
        BY <1>4, <1>9, <4>1, <4>2
      <4> QED  BY <1>3, <1>4, <1>7, <1>8, <3>1, <4>3
    <3>2. CASE j # f
      <4>1. pi'[j] = pi[j] /\ pi[j] # None /\ j < f
        BY <1>6, <1>8, <2>2, <3>2
      <4>2. LET n == Cardinality(Upto(pi, pi[j].intf, j))
            IN  n \in 1 .. Len(arrived[pi[j].intf]) /\ pi[j].packet = arrived[pi[j].intf][n]
        BY <4>1 DEF PathInv, Streams
      <4>3. Upto(pi', pi[j].intf, j) = Upto(pi, pi[j].intf, j)
        BY <1>7, <4>1
      <4> QED  BY <4>1, <4>2, <4>3
    <3> QED  BY <3>1, <3>2
  <2> QED  BY <1>1, <2>1, <2>2 DEF Streams
<1>18. AsCopied'
  <2> SUFFICES ASSUME NEW j \in Jobs, handled[j] # None
               PROVE  pi'[j] # None /\ handled[j] = [intf |-> pi'[j].intf, packet |-> pi'[j].packet]
    BY <1>1 DEF AsCopied
  <2>1. pi[j] # None /\ handled[j] = [intf |-> pi[j].intf, packet |-> pi[j].packet]
    BY DEF PathInv, AsCopied
  <2>2. pi'[j] = pi[j]
    BY <1>0, <1>5, <1>6, <1>8, <2>1
  <2> QED  BY <2>1, <2>2
<1> QED  BY <1>13, <1>14, <1>15, <1>16, <1>17, <1>18 DEF PathInv

LEMMA WorkKeeps ==
  ASSUME PathInv, NEW w \in Workers, StartWork(w) \/ HandleWork(w)
  PROVE  PathInv'
<1>0. /\ UNCHANGED <<boot, table, wire, arrived, npc, rdset, nbuf, pi>>
      /\ todo \in Seq(Jobs) /\ running \in [Workers -> Jobs \cup {None}]
  BY DEF StartWork, HandleWork, netVars, PathInv, PathTypes
<1>1. Jobs1' /\ Reading' /\ Streams'
  BY <1>0 DEF PathInv, Jobs1, Reading, Streams
<1>2. CASE StartWork(w)
  <2>1. /\ todo # <<>> /\ running' = [running EXCEPT ![w] = Head(todo)]
        /\ todo' = Tail(todo) /\ handled' = handled
    BY <1>2 DEF StartWork, WQ!Start
  <2>2. /\ Head(todo) \in Jobs /\ Head(todo) = todo[1] /\ Len(todo) \in Nat \ {0}
        /\ Tail(todo) \in Seq(Jobs) /\ Len(Tail(todo)) = Len(todo) - 1
        /\ \A k \in 1 .. Len(Tail(todo)) : Tail(todo)[k] = todo[k + 1]
    BY <1>0, <2>1
  <2>3. running' \in [Workers -> Jobs \cup {None}]
    BY <1>0, <2>1, <2>2
  <2>4. PathTypes'
    BY <1>0, <2>1, <2>2, <2>3 DEF PathInv, PathTypes
  <2>5. Queued'
    <3>1. \A k \in 1 .. Len(todo') : pi[todo'[k]] # None
      <4> TAKE k \in 1 .. Len(todo')
      <4>1. todo'[k] = todo[k + 1] /\ k + 1 \in 1 .. Len(todo)
        BY <2>1, <2>2
      <4> QED  BY <4>1 DEF PathInv, Queued
    <3>2. \A v \in Workers : running'[v] # None => pi[running'[v]] # None
      <4>1. pi[Head(todo)] # None
        BY <2>2 DEF PathInv, Queued
      <4> QED  BY <1>0, <2>1, <4>1 DEF PathInv, Queued
    <3> QED  BY <1>0, <3>1, <3>2 DEF PathInv, Queued
  <2>6. AsCopied'
    BY <1>0, <2>1 DEF PathInv, AsCopied
  <2> QED  BY <1>1, <2>4, <2>5, <2>6 DEF PathInv
<1>3. CASE HandleWork(w)
  <2> DEFINE j == running[w]
             r == [intf |-> pi[j].intf, packet |-> pi[j].packet]
  <2>1. /\ j # None /\ running' = [running EXCEPT ![w] = None] /\ todo' = todo
        /\ handled' = [handled EXCEPT ![j] = [intf |-> pi[j].intf, packet |-> PacketOf(j)]]
    BY <1>3 DEF HandleWork, WQ!Finish
  <2>2. j \in Jobs /\ pi[j] # None
    BY <1>0, <2>1 DEF PathInv, Queued
  <2>3. pi[j] \in PacketInfo
    BY <2>2 DEF PathInv, PathTypes
  <2>4. pi[j].where = "heap" /\ pi[j].intf \in DOMAIN File /\ pi[j].packet \in Packets
    BY <2>3 DEF PacketInfo
  <2>5. PacketOf(j) = pi[j].packet
    BY <2>4 DEF PacketOf
  <2>6. r \in [intf : DOMAIN File, packet : Packets] /\ handled' = [handled EXCEPT ![j] = r]
    BY <2>1, <2>4, <2>5
  <2> HIDE DEF r, j
  <2>7. PathTypes'
    <3>1. handled' \in [Jobs -> [intf : DOMAIN File, packet : Packets] \cup {None}]
      BY <2>6 DEF PathInv, PathTypes
    <3>2. running' \in [Workers -> Jobs \cup {None}]
      BY <1>0, <2>1
    <3> QED  BY <1>0, <2>1, <3>1, <3>2 DEF PathInv, PathTypes
  <2>8. Queued'
    BY <1>0, <2>1 DEF PathInv, Queued
  <2>9. AsCopied'
    <3> SUFFICES ASSUME NEW k \in Jobs, handled'[k] # None
                 PROVE  pi[k] # None /\ handled'[k] = [intf |-> pi[k].intf, packet |-> pi[k].packet]
      BY <1>0 DEF AsCopied
    <3>1. CASE k = j
      <4>1. handled'[k] = r
        BY <2>6, <3>1 DEF PathInv, PathTypes
      <4> QED  BY <2>2, <3>1, <4>1 DEF r
    <3>2. CASE k # j
      <4>1. handled'[k] = handled[k]
        BY <2>6, <3>2 DEF PathInv, PathTypes
      <4> QED  BY <4>1 DEF PathInv, AsCopied
    <3> QED  BY <3>1, <3>2
  <2> QED  BY <1>1, <2>7, <2>8, <2>9 DEF PathInv
<1> QED  BY <1>2, <1>3

-----------------------------------------------------------------------------

LEMMA Invariance == Spec => [](CliInv /\ PathInv)
<1>1. Init => CliInv /\ PathInv
  BY InitCliInv, InitPathInv DEF Init
<1>2. CliInv /\ PathInv /\ [Next]_vars => (CliInv /\ PathInv)'
  <2> SUFFICES ASSUME CliInv, PathInv, [Next]_vars PROVE (CliInv /\ PathInv)'
    OBVIOUS
  <2>0. UNCHANGED cliVars => CliInv'
    <3> SUFFICES ASSUME UNCHANGED cliVars PROVE CliInv'
      OBVIOUS
    <3>1. UNCHANGED <<pc, stage, st, left, lock, fd, scenario, pipe, pings>>
      BY DEF cliVars
    <3> QED  BY <3>1, OthersKeep DEF CliInv, CliTypes
  <2>1. CASE Boot
    BY <2>0, <2>1, BootKeeps DEF Boot, InitInstance, AddInterface, StartTransport, StartNetwork
  <2>2. CASE Network
    BY <2>0, <2>2, SelectKeeps, ReadPacketKeeps, InputKeeps
       DEF Network, Select, ReadPacket, sr_integ_input
  <2>3. ASSUME NEW i \in DOMAIN File, NEW p \in Packets, Arrive(i, p) PROVE (CliInv /\ PathInv)'
    BY <2>0, <2>3, ArriveKeeps DEF Arrive
  <2>4. ASSUME NEW w \in Workers, StartWork(w) \/ HandleWork(w) PROVE (CliInv /\ PathInv)'
    BY <2>0, <2>4, WorkKeeps DEF StartWork, HandleWork
  <2>5. CASE CliNext /\ UNCHANGED <<boot, table, pathVars>>
    BY <2>5, CliKeeps, PathUnchanged
  <2>6. CASE UNCHANGED vars
    BY <2>0, <2>6, PathUnchanged DEF vars
  <2> QED  BY <2>1, <2>2, <2>3, <2>4, <2>5, <2>6 DEF Next
<1> QED  BY <1>1, <1>2, PTL DEF Spec

(* What a worker finds in a job is the frame of its interface whose turn it *)
(* was, for any number of interfaces, workers and frames, however far the  *)
(* network thread has gone on with its one buffer (sr_mininet_read_packet, *)
(* sr_integ_input, router_handle_work).                                    *)
THEOREM WorkersGetFrames == Spec => []HandledAsReceived
<1>1. PathInv => HandledAsReceived
  BY PathInvImplies
<1> QED  BY <1>1, Invariance, PTL

-----------------------------------------------------------------------------
(* The prompts for a number of lines.                                      *)

LEMMA OwedType == \A l : Owed(l) \in Nat /\ Owed(l) >= 1 /\ (Command(l) # "flood" => Owed(l) = 1)
  BY BufferAssumption DEF Owed

SumsTo(g, s, n) ==
  \A i \in 0 .. n : g[i] = IF i = 0 THEN 0 ELSE g[i - 1] + Owed(s[i])

LEMMA SumExtends ==
  ASSUME NEW s, NEW n \in Nat, NEW g \in [0 .. n -> Nat], SumsTo(g, s, n)
  PROVE  \E k \in [0 .. n + 1 -> Nat] : SumsTo(k, s, n + 1)
<1> DEFINE k == [i \in 0 .. n + 1 |-> IF i <= n THEN g[i] ELSE g[n] + Owed(s[n + 1])]
<1>1. Owed(s[n + 1]) \in Nat
  BY OwedType
<1>2. k \in [0 .. n + 1 -> Nat]
  BY <1>1
<1>3. SumsTo(k, s, n + 1)
  <2> SUFFICES ASSUME NEW i \in 0 .. n + 1
               PROVE  k[i] = IF i = 0 THEN 0 ELSE k[i - 1] + Owed(s[i])
    BY DEF SumsTo
  <2>1. CASE i <= n  BY <2>1 DEF SumsTo
  <2>2. CASE i = n + 1  BY <2>2
  <2> QED  BY <2>1, <2>2
<1> HIDE DEF k
<1> QED  BY <1>2, <1>3

LEMMA SumExists ==
  ASSUME NEW s, NEW m \in Nat
  PROVE  \E g \in [0 .. m -> Nat] : SumsTo(g, s, m)
<1> DEFINE S == {n \in Nat : \E g \in [0 .. n -> Nat] : SumsTo(g, s, n)}
<1>1. 0 \in S
  <2> DEFINE g == [i \in 0 .. 0 |-> 0]
  <2>1. g \in [0 .. 0 -> Nat] /\ SumsTo(g, s, 0)
    BY DEF SumsTo
  <2> HIDE DEF g
  <2> QED  BY <2>1
<1>2. \A n \in Nat : n \in S => n + 1 \in S
  BY SumExtends
<1> HIDE DEF S
<1>3. Nat \subseteq S
  BY <1>1, <1>2, Induction
<1> QED  BY <1>3 DEF S

\* Two such sums agree as far as their sequences do.
LEMMA SumUnique ==
  ASSUME NEW s, NEW t, NEW m \in Nat, NEW g, NEW h, SumsTo(g, s, m), SumsTo(h, t, m),
         \A i \in 1 .. m : s[i] = t[i]
  PROVE  g[m] = h[m]
<1> DEFINE S == {n \in Nat : n <= m => g[n] = h[n]}
<1>1. 0 \in S
  BY DEF SumsTo
<1>2. ASSUME NEW n \in Nat, n \in S PROVE n + 1 \in S
  <2> SUFFICES ASSUME n + 1 <= m PROVE g[n + 1] = h[n + 1]
    OBVIOUS
  <2>1. n + 1 \in 0 .. m /\ n + 1 # 0 /\ (n + 1) - 1 = n /\ n + 1 \in 1 .. m
    OBVIOUS
  <2>2. g[n + 1] = g[n] + Owed(s[n + 1]) /\ h[n + 1] = h[n] + Owed(t[n + 1])
    BY <2>1 DEF SumsTo
  <2>3. g[n] = h[n]
    BY <1>2
  <2> QED  BY <2>1, <2>2, <2>3
<1> HIDE DEF S
<1>3. Nat \subseteq S
  BY <1>1, <1>2, Induction
<1> QED  BY <1>3 DEF S

LEMMA PromptsSum ==
  ASSUME NEW L, NEW s \in Seq(L)
  PROVE  \E g \in [0 .. Len(s) -> Nat] : SumsTo(g, s, Len(s)) /\ PromptsFor(s) = g[Len(s)]
<1> DEFINE D(f) == [i \in 0 .. Len(s) |-> IF i = 0 THEN 0 ELSE f[i - 1] + Owed(s[i])]
           sum == CHOOSE f : f = D(f)
<1>0. Len(s) \in Nat
  OBVIOUS
<1>1. PICK g \in [0 .. Len(s) -> Nat] : SumsTo(g, s, Len(s))
  BY <1>0, SumExists
<1>2. g = D(g)
  BY <1>1 DEF SumsTo
<1>3. sum = D(sum)
  BY <1>2
<1>4. PromptsFor(s) = sum[Len(s)]
  BY DEF PromptsFor
<1> HIDE DEF sum
<1>5. SumsTo(sum, s, Len(s))
  <2>1. \A i \in 0 .. Len(s) : sum[i] = D(sum)[i]
    BY <1>3
  <2> QED  BY <2>1 DEF SumsTo
<1>6. sum[Len(s)] = g[Len(s)]
  BY <1>0, <1>1, <1>5, SumUnique
<1> QED  BY <1>1, <1>4, <1>6

LEMMA PromptsForType ==
  ASSUME NEW L, NEW s \in Seq(L)
  PROVE  PromptsFor(s) \in Nat /\ (s = <<>> => PromptsFor(s) = 0)
<1>1. PICK g \in [0 .. Len(s) -> Nat] : SumsTo(g, s, Len(s)) /\ PromptsFor(s) = g[Len(s)]
  BY PromptsSum
<1>2. Len(s) \in 0 .. Len(s) /\ (s = <<>> => Len(s) = 0)
  OBVIOUS
<1> QED  BY <1>1, <1>2 DEF SumsTo

LEMMA PromptsForAppend ==
  ASSUME NEW L, NEW s \in Seq(L), NEW l \in L
  PROVE  PromptsFor(Append(s, l)) = PromptsFor(s) + Owed(l)
<1> DEFINE t == Append(s, l)
           n == Len(s)
<1>0. n \in Nat /\ t \in Seq(L) /\ Len(t) = n + 1 /\ t[n + 1] = l /\ \A i \in 1 .. n : t[i] = s[i]
  OBVIOUS
<1> HIDE DEF t
<1>1. PICK g \in [0 .. n -> Nat] : SumsTo(g, s, n) /\ PromptsFor(s) = g[n]
  BY PromptsSum
<1>2. PICK h \in [0 .. n + 1 -> Nat] : SumsTo(h, t, n + 1) /\ PromptsFor(t) = h[n + 1]
  BY <1>0, PromptsSum
<1>3. h[n + 1] = h[n] + Owed(l)
  <2>1. n + 1 \in 0 .. n + 1 /\ n + 1 # 0 /\ (n + 1) - 1 = n
    BY <1>0
  <2> QED  BY <1>0, <1>2, <2>1 DEF SumsTo
<1>4. SumsTo(h, t, n)
  BY <1>0, <1>2 DEF SumsTo
<1>5. g[n] = h[n]
  BY <1>0, <1>1, <1>4, SumUnique
<1> QED  BY <1>1, <1>2, <1>3, <1>5 DEF t

-----------------------------------------------------------------------------
(* The clients that wait for their prompts.                                *)

Line(l) == l \in Seq(STRING) /\ l # <<>> /\ \A i \in DOMAIN l : l[i] = NL <=> i = Len(l)
Clean(b) == \A i \in DOMAIN b : b[i] # NL

Trusted(c) == ~doubt /\ c \notin ahead

\* All of the lines t have been run, or all but the one that is b.
Pending(t, r, b) ==
  \/ t = r /\ b = <<>>
  \/ t = Append(r, b) /\ Line(b)

\* What has been sent of the lines that have not been run, and where: p and g
\* are pc and stage, s is st, w the pipe, t and r are typed and ran, n the
\* pings and k the newlines left.
JunkContent(p, s, w, t, r, n) ==
  /\ p \in {"none", "read"}
  /\ s.buf = <<>> /\ s.soff = 0 /\ Len(w) <= 1 /\ Clean(w)
  /\ t = <<>> /\ r = <<>> /\ n = 0

GreetContent(p, s, w, t, r, n) ==
  /\ p \in {"lock", "prompt", "clear"}
  /\ s.buf = <<>> /\ s.soff = 0 /\ r = <<>> /\ n = 0
  /\ p # "clear" => t = <<>> /\ w = <<>>
  /\ Pending(t, r, w)

ReadContent(s, w, t, r) ==
  s.soff <= Len(s.buf) /\ Clean(s.buf) /\ Pending(t, r, s.buf \o w)

ShiftedContent(s, w, t, r) == s.buf = <<>> /\ s.soff = 0 /\ Pending(t, r, w)

\* The buffer holds the line that is, or was, for the parser.
LineContent(s) == Line(s.buf) /\ s.noff = Len(s.buf) - 1

ServeContent(p, s, w, t, r, k) ==
  /\ p # "none"
  /\ p \in {"read", "alive"} => ReadContent(s, w, t, r)
  /\ p \in {"prompt", "clear"} => ShiftedContent(s, w, t, r)
  /\ p \in {"lock", "run"} => w = <<>> /\ t = Append(r, s.buf) /\ LineContent(s)
  /\ p = "run" => k = 1
  /\ p \in {"skip", "raise", "ran"} => Pending(t, r, w) /\ k = 0 /\ LineContent(s)
  /\ p \in {"dead", "gone"} => IsPrefix(r, t)

ContentOf(p, g, s, w, t, r, n, k) ==
  /\ g = "junk" => JunkContent(p, s, w, t, r, n)
  /\ g = "greet" => GreetContent(p, s, w, t, r, n)
  /\ g = "serve" => ServeContent(p, s, w, t, r, k)

Content(c) ==
  ContentOf(pc[c], stage[c], st[c], pipe[c], typed[c], ran[c], pings[c], left)

\* The prompt the parser still owes the client.
Due(p, g, skip) ==
  IF \/ g = "junk" \/ (g = "greet" /\ p # "clear")
     \/ g = "serve" /\ p = "raise"
     \/ g = "serve" /\ p \in {"ran", "prompt"} /\ ~skip
  THEN 1 ELSE 0

\* A client that is there has got the prompts for its lines, but for those
\* that are due and those of its pings: sum is prompts and pings, and loose
\* says that a prompt of the ping thread has been skipped.
AccountOf(p, g, sum, t, r, skip, loose) ==
  /\ p \notin {"dead", "gone"} =>
       /\ sum + Due(p, g, skip) <= 1 + PromptsFor(r)
       /\ ~loose => sum + Due(p, g, skip) = 1 + PromptsFor(r)
  /\ p = "dead" => sum <= PromptsFor(t)

Loose(c) == pinger /\ skip_next_prompt /\ lock = c

Account(c) ==
  ~eof[c] => AccountOf(pc[c], stage[c], prompts[c] + pings[c], typed[c], ran[c],
                       skip_next_prompt, Loose(c))

\* skip_next_prompt belongs to the holder of the lock, and so does the focus.
Flags ==
  /\ lock # None => fd = lock
  /\ \A c \in Clients : lock = c /\ ~eof[c] /\ pc[c] # "ran" => fd_alive
  /\ ~doubt => /\ skip_next_prompt => lock # None
               /\ lock # None /\ pc[lock] = "clear" => ~pinger
  /\ \A c \in Clients : Trusted(c) /\ lock = c /\ skip_next_prompt =>
                          stage[c] = "serve" /\ pc[c] \in {"ran", "prompt", "clear"}

Served == \A c \in Clients : Trusted(c) => Content(c) /\ Account(c)

IsVerbose(r) == \E i \in DOMAIN r : /\ Command(r[i]) = "set"
                                    /\ \A k \in i + 1 .. Len(r) : Command(r[k]) # "unset"

History ==
  /\ eof \in [Clients -> BOOLEAN] /\ verbose \in [Clients -> BOOLEAN]
  /\ typed \in [Clients -> Seq(Seq(STRING))] /\ ran \in [Clients -> Seq(Seq(STRING))]
  /\ prompts \in [Clients -> Nat] /\ heard \in [Clients -> SUBSET Clients]
  /\ ~doubt => \A c \in Clients : heard[c] \subseteq {c}
  /\ \A c \in Clients : verbose[c] <=> IsVerbose(ran[c])

ServedInv == History /\ Flags /\ Served

LEMMA FirstLineType ==
  ASSUME NEW s \in SearchState, Newlines(s) # {}
  PROVE  /\ FirstLine(s) \in Seq(STRING)
         /\ Line(s.buf) => FirstLine(s) = s.buf
<1> DEFINE P(i) == \A k \in Newlines(s) : i <= k
           i == CHOOSE i \in Newlines(s) : P(i)
<1>0. s.buf \in Seq(STRING) /\ Len(s.buf) \in Nat
  BY DEF SearchState
<1>1. \E k \in Newlines(s) : P(k)
  <2>1. Newlines(s) \subseteq Nat
    BY <1>0 DEF Newlines
  <2> QED  BY <2>1, LeastNatural
<1>2. i \in Newlines(s)
  BY <1>1
<1>3. i \in 0 .. Len(s.buf) - 1 /\ s.buf[i + 1] = NL
  BY <1>2 DEF Newlines
<1>4. FirstLine(s) = SubSeq(s.buf, 1, 1 + i)
  BY DEF FirstLine
<1> HIDE DEF i
<1>5. FirstLine(s) \in Seq(STRING)
  <2>1. 1 + i \in 0 .. Len(s.buf)
    BY <1>0, <1>3
  <2> QED  BY <1>0, <1>4, <2>1, SubSeqProperties
<1>6. ASSUME Line(s.buf) PROVE FirstLine(s) = s.buf
  <2>1. 1 + i = Len(s.buf)
    BY <1>0, <1>3, <1>6 DEF Line
  <2>2. SubSeq(s.buf, 1, Len(s.buf)) = s.buf
    BY <1>0
  <2> QED  BY <1>4, <2>1, <2>2
<1> QED  BY <1>5, <1>6

LEMMA VerboseAppend ==
  ASSUME NEW L, NEW r \in Seq(L), NEW l \in L
  PROVE  IsVerbose(Append(r, l)) <=>
           Command(l) = "set" \/ (Command(l) # "unset" /\ IsVerbose(r))
<1> DEFINE t == Append(r, l)
           n == Len(r)
<1>0. /\ n \in Nat /\ Len(t) = n + 1 /\ t[n + 1] = l /\ \A i \in 1 .. n : t[i] = r[i]
      /\ DOMAIN t = 1 .. n + 1 /\ DOMAIN r = 1 .. n
  OBVIOUS
<1> HIDE DEF t, n
<1>1. IsVerbose(t) <=> \E i \in 1 .. n + 1 : /\ Command(t[i]) = "set"
                                           /\ \A k \in i + 1 .. n + 1 : Command(t[k]) # "unset"
  BY <1>0 DEF IsVerbose
<1>2. IsVerbose(r) <=> \E i \in 1 .. n : /\ Command(r[i]) = "set"
                                       /\ \A k \in i + 1 .. n : Command(r[k]) # "unset"
  BY <1>0 DEF IsVerbose, n
<1>3. ASSUME Command(l) = "set" PROVE IsVerbose(t)
  <2>1. n + 1 \in 1 .. n + 1 /\ \A k \in (n + 1) + 1 .. n + 1 : FALSE
    BY <1>0
  <2> QED  BY <1>0, <1>1, <1>3, <2>1
<1>4. ASSUME Command(l) # "unset", IsVerbose(r) PROVE IsVerbose(t)
  <2>1. PICK i \in 1 .. n : /\ Command(r[i]) = "set"
                            /\ \A k \in i + 1 .. n : Command(r[k]) # "unset"
    BY <1>2, <1>4
  <2>2. i \in 1 .. n + 1 /\ Command(t[i]) = "set"
    BY <1>0, <2>1
  <2>3. ASSUME NEW k \in i + 1 .. n + 1 PROVE Command(t[k]) # "unset"
    <3>1. CASE k = n + 1
      BY <1>0, <1>4, <3>1
    <3>2. CASE k # n + 1
      <4>1. k \in i + 1 .. n /\ k \in 1 .. n
        BY <1>0, <3>2
      <4> QED  BY <1>0, <2>1, <4>1
    <3> QED  BY <3>1, <3>2
  <2> QED  BY <1>1, <2>2, <2>3
<1>5. ASSUME IsVerbose(t), Command(l) # "set" PROVE Command(l) # "unset" /\ IsVerbose(r)
  <2>1. PICK i \in 1 .. n + 1 : /\ Command(t[i]) = "set"
                                /\ \A k \in i + 1 .. n + 1 : Command(t[k]) # "unset"
    BY <1>1, <1>5
  <2>2. i \in 1 .. n
    BY <1>0, <1>5, <2>1
  <2>3. n + 1 \in i + 1 .. n + 1
    BY <1>0, <2>2
  <2>4. Command(r[i]) = "set"
    BY <1>0, <2>1, <2>2
  <2>5. ASSUME NEW k \in i + 1 .. n PROVE Command(r[k]) # "unset"
    <3>1. k \in i + 1 .. n + 1 /\ k \in 1 .. n
      BY <1>0, <2>2
    <3> QED  BY <1>0, <2>1, <3>1
  <2> QED  BY <1>0, <1>2, <2>1, <2>2, <2>3, <2>4, <2>5
<1>6. Command(l) = "set" => Command(l) # "unset"
  OBVIOUS
<1> QED  BY <1>3, <1>4, <1>5, <1>6 DEF t

Wrote(c) == heard' = heard \/ heard' = [heard EXCEPT ![fd] = @ \cup {c}]

\* The holder of the lock writes to itself.
LEMMA SendTo ==
  ASSUME History, NEW c \in Clients, fd = c, Wrote(c)
  PROVE  heard' \in [Clients -> SUBSET Clients]
         /\ (~doubt => \A d \in Clients : heard'[d] \subseteq {d})
<1>1. heard' = heard \/ heard' = [heard EXCEPT ![c] = @ \cup {c}]
  BY DEF Wrote
<1>2. heard \in [Clients -> SUBSET Clients]
  BY DEF History
<1>3. CASE heard' = heard
  BY <1>3 DEF History
<1>4. CASE heard' = [heard EXCEPT ![c] = @ \cup {c}]
  BY <1>2, <1>4 DEF History
<1> QED  BY <1>1, <1>3, <1>4

LEMMA HistorySame ==
  ASSUME History, doubt => doubt', UNCHANGED <<eof, verbose, typed, ran, heard>>,
         prompts' \in [Clients -> Nat]
  PROVE  History'
  BY DEF History

\* A command that was run is added to the history of its client.
LEMMA RunsHistory ==
  ASSUME CliInv, History, Flags, NEW c \in Clients, NEW cmd, Runs(c, cmd), Wrote(c),
         UNCHANGED <<eof, typed, prompts, doubt>>,
         verbose' = [verbose EXCEPT ![c] = IF cmd = "set" THEN TRUE
                                           ELSE IF cmd = "unset" THEN FALSE ELSE @]
  PROVE  History'
<1> DEFINE l == FirstLine(st[c])
<1>0. pc[c] = "run" /\ ran' = [ran EXCEPT ![c] = Append(@, l)] /\ Command(l) = cmd
  BY DEF Runs
<1>1. lock = c /\ fd = c
  BY <1>0, OfClient, BufferAssumption DEF Holding, Flags
<1>2. l \in Seq(STRING)
  <2>1. st[c] \in SearchState /\ Fits(pc[c], stage[c], st[c]) /\ stage[c] \in {"junk", "greet", "serve"}
    BY OfClient
  <2>2. Newlines(st[c]) # {}
    BY <1>0, <2>1 DEF Fits
  <2> QED  BY <2>1, <2>2, FirstLineType
<1> HIDE DEF l
<1>3. ran \in [Clients -> Seq(Seq(STRING))] /\ verbose \in [Clients -> BOOLEAN]
  BY DEF History
<1>4. /\ ran' \in [Clients -> Seq(Seq(STRING))] /\ ran'[c] = Append(ran[c], l)
      /\ ran[c] \in Seq(Seq(STRING)) /\ \A d \in Clients \ {c} : ran'[d] = ran[d]
  BY <1>0, <1>2, <1>3
<1>5. /\ verbose' \in [Clients -> BOOLEAN]
      /\ verbose'[c] = IF cmd = "set" THEN TRUE ELSE IF cmd = "unset" THEN FALSE ELSE verbose[c]
      /\ \A d \in Clients \ {c} : verbose'[d] = verbose[d]
  BY <1>3
<1>6. IsVerbose(ran'[c]) <=> Command(l) = "set" \/ (Command(l) # "unset" /\ IsVerbose(ran[c]))
  BY <1>2, <1>4, VerboseAppend
<1>7. ASSUME NEW d \in Clients PROVE verbose'[d] <=> IsVerbose(ran'[d])
  <2>1. verbose[d] <=> IsVerbose(ran[d])
    BY DEF History
  <2>2. CASE d = c
    BY <1>0, <1>5, <1>6, <2>1, <2>2
  <2>3. CASE d # c
    BY <1>4, <1>5, <2>1, <2>3
  <2> QED  BY <2>2, <2>3
<1>8. heard' \in [Clients -> SUBSET Clients]
      /\ (~doubt => \A d \in Clients : heard'[d] \subseteq {d})
  BY <1>1, SendTo
<1> QED  BY <1>4, <1>5, <1>7, <1>8 DEF History

LEMMA HolderFocus ==
  ASSUME CliInv, Flags, NEW c \in Clients, pc[c] \in Holding
  PROVE  lock = c /\ fd = c
  BY OfClient, BufferAssumption DEF Flags

LEMMA CommandsHistory ==
  ASSUME CliInv, History, Flags, NEW c \in Clients,
         Show(c) \/ SetVerbose(c) \/ Exit(c) \/ Ping(c) \/ Shutdown(c)
  PROVE  History'
<1>0. pc[c] = "run"
  BY DEF Show, SetVerbose, Exit, Ping, Shutdown, Runs
<1>1. fd = c
  BY <1>0, HolderFocus DEF Holding
<1>2. Wrote(c) /\ UNCHANGED <<eof, typed, prompts, doubt>>
  BY DEF Show, SetVerbose, Exit, Ping, Shutdown, Send, Wrote, input
<1>3. verbose = [verbose EXCEPT ![c] = verbose[c]]
  BY DEF History
<1>4. PICK cmd : /\ Runs(c, cmd)
                 /\ verbose' = [verbose EXCEPT ![c] = IF cmd = "set" THEN TRUE
                                                     ELSE IF cmd = "unset" THEN FALSE ELSE @]
  <2>1. CASE SetVerbose(c)
    <3>1. PICK on \in BOOLEAN : Runs(c, IF on THEN "set" ELSE "unset")
                                /\ verbose' = [verbose EXCEPT ![fd] = on]
      BY <2>1 DEF SetVerbose
    <3>2. CASE on
      <4>1. Runs(c, "set") /\ verbose' = [verbose EXCEPT ![c] = TRUE]
        BY <1>1, <3>1, <3>2
      <4> QED  BY <4>1
    <3>3. CASE ~on
      <4>1. Runs(c, "unset") /\ verbose' = [verbose EXCEPT ![c] = FALSE]
        BY <1>1, <3>1, <3>3
      <4> QED  BY <4>1
    <3> QED  BY <3>2, <3>3
  <2>2. CASE Show(c) \/ Exit(c) \/ Ping(c) \/ Shutdown(c)
    <3>1. PICK cmd \in {"show", "bad", "empty", "exit", "ping", "flood", "shutdown"} : Runs(c, cmd)
      BY <2>2 DEF Show, Exit, Ping, Shutdown
    <3>2. verbose' = [verbose EXCEPT ![c] = verbose[c]]
      BY <1>3, <2>2 DEF Show, Exit, Ping, Shutdown
    <3>3. cmd # "set" /\ cmd # "unset"
      OBVIOUS
    <3> QED  BY <3>1, <3>2, <3>3
  <2> QED  BY <2>1, <2>2
<1> QED  BY <1>2, <1>4, RunsHistory

LEMMA PromptHistory ==
  ASSUME History, fd \in Clients \cup {None}, NEW c \in Clients, TestPrompt(c), doubt => doubt',
         ~doubt' => fd = c, UNCHANGED <<eof, verbose, typed, ran>>
  PROVE  History'
<1>1. Wrote(c) /\ (prompts' = prompts \/ prompts' = [prompts EXCEPT ![fd] = @ + 1])
  BY DEF TestPrompt, Wrote
<1>2. prompts \in [Clients -> Nat] /\ heard \in [Clients -> SUBSET Clients]
  BY DEF History
<1>3. prompts' \in [Clients -> Nat]
  BY <1>1, <1>2
<1>4. heard' \in [Clients -> SUBSET Clients]
  BY <1>1, <1>2 DEF Wrote
<1>5. ~doubt' => \A d \in Clients : heard'[d] \subseteq {d}
  BY <1>1, SendTo
<1> QED  BY <1>3, <1>4, <1>5 DEF History

LEMMA HistoryKeeps ==
  ASSUME CliInv, History, Flags, CliNext
  PROVE  History'
<1>0. /\ prompts \in [Clients -> Nat] /\ fd \in Clients \cup {None}
      /\ typed \in [Clients -> Seq(Seq(STRING))] /\ eof \in [Clients -> BOOLEAN]
  BY DEF CliInv, CliTypes, History
<1>1. CASE Listen \/ FeedbackEnds
  <2>1. UNCHANGED <<eof, verbose, typed, ran, heard, prompts>>
    BY <1>1 DEF Listen, FeedbackEnds, input, history
  <2>2. doubt => doubt'
    BY <1>1, Zenon DEF Listen, FeedbackEnds, history
  <2> QED  BY <1>0, <2>1, <2>2, HistorySame
<1>2. ASSUME NEW c \in Clients, Types(c) PROVE History'
  <2>1. PICK line \in scenario.script[c].lines : c \in DOMAIN scenario.script /\ Type(c, line)
    BY <1>2 DEF Types
  <2>2. line \in Seq(STRING)
    BY <2>1, ClientAssumption DEF CliInv, CliTypes
  <2>3. /\ typed' = [typed EXCEPT ![c] = Append(@, line)]
        /\ UNCHANGED <<eof, verbose, ran, heard, prompts, doubt>>
    BY <2>1 DEF Type
  <2>4. typed' \in [Clients -> Seq(Seq(STRING))]
    BY <1>0, <2>2, <2>3
  <2> QED  BY <2>3, <2>4 DEF History
<1>3. ASSUME NEW c \in Clients, Hangup(c) PROVE History'
  <2>1. eof' \in [Clients -> BOOLEAN] /\ UNCHANGED <<verbose, typed, ran, heard, prompts, doubt>>
    BY <1>0, <1>3 DEF Hangup, history
  <2> QED  BY <2>1 DEF History
<1>4. ASSUME NEW c \in Clients,
             \/ Accept(c) \/ ReadLeftover(c) \/ Read(c) \/ ReadEof(c) \/ Lock(c)
             \/ SkipPrompt(c) \/ Raise(c) \/ Leave(c) \/ NextLine(c) \/ Unlock(c) \/ Check(c)
      PROVE  History'
  <2>1. UNCHANGED <<eof, verbose, typed, ran, heard, prompts>>
    BY <1>4 DEF Accept, ReadLeftover, Read, ReadEof, Lock, SkipPrompt, Raise, Leave, NextLine,
                Unlock, Check, Unread, input, history
  <2>2. doubt => doubt'
    <3>1. CASE Leave(c)
      BY <3>1 DEF Leave
    <3>2. CASE ~Leave(c)
      <4>1. doubt' = doubt
        BY <1>4, <3>2 DEF Accept, ReadLeftover, Read, ReadEof, Lock, SkipPrompt, Raise, NextLine,
                          Unlock, Check, Unread, history
      <4> QED  BY <4>1
    <3> QED  BY <3>1, <3>2
  <2> QED  BY <1>0, <2>1, <2>2, HistorySame
<1>5. ASSUME NEW c \in Clients, Prompt(c) PROVE History'
  <2>1. fd = c
    BY <1>5, HolderFocus DEF Prompt, Holding
  <2>2. TestPrompt(c) /\ (doubt => doubt') /\ UNCHANGED <<eof, verbose, typed, ran>>
    BY <1>5 DEF Prompt, input
  <2> QED  BY <1>0, <2>1, <2>2, PromptHistory
<1>6. ASSUME NEW c \in Clients, Feedback(c) PROVE History'
  <2>1. TestPrompt(c) /\ (doubt => doubt') /\ UNCHANGED <<eof, verbose, typed, ran>>
        /\ (~doubt' => fd = c)
    BY <1>6 DEF Feedback, input
  <2> QED  BY <1>0, <2>1, PromptHistory
<1> QED  BY <1>1, <1>2, <1>3, <1>4, <1>5, <1>6, CommandsHistory DEF CliNext, Serve

-----------------------------------------------------------------------------
(* The focus and skip_next_prompt.                                         *)

LEMMA FlagsFrame ==
  ASSUME Flags, CliInv, UNCHANGED <<lock, fd, fd_alive, skip_next_prompt, pinger>>,
         doubt => doubt', ahead \subseteq ahead', \A c \in Clients : eof[c] => eof'[c],
         lock # None => pc'[lock] = pc[lock] /\ stage'[lock] = stage[lock]
  PROVE  Flags'
<1>0. None \notin Clients
  BY BufferAssumption
<1>1. lock' # None => fd' = lock'
  BY DEF Flags
<1>2. \A c \in Clients : lock' = c /\ ~eof'[c] /\ pc'[c] # "ran" => fd_alive'
  BY <1>0 DEF Flags
<1>3. ~doubt' => /\ skip_next_prompt' => lock' # None
                 /\ lock' # None /\ pc'[lock'] = "clear" => ~pinger'
  BY DEF Flags
<1>4. \A c \in Clients : Trusted(c)' /\ lock' = c /\ skip_next_prompt' =>
                           stage'[c] = "serve" /\ pc'[c] \in {"ran", "prompt", "clear"}
  BY <1>0 DEF Flags, Trusted
<1> QED  BY <1>1, <1>2, <1>3, <1>4 DEF Flags

LEMMA FlagsReleased ==
  ASSUME lock' = None, ~doubt' => ~skip_next_prompt'
  PROVE  Flags'
  BY BufferAssumption DEF Flags

\* The holder c of the lock goes to p.
LEMMA FlagsHolder ==
  ASSUME CliInv, NEW c \in Clients, lock' = c, fd' = c,
         ~eof'[c] /\ pc'[c] # "ran" => fd_alive',
         ~doubt' /\ pc'[c] = "clear" => ~pinger',
         Trusted(c)' /\ skip_next_prompt' =>
           stage'[c] = "serve" /\ pc'[c] \in {"ran", "prompt", "clear"}
  PROVE  Flags'
  BY BufferAssumption DEF Flags

\* A write fails only when the client has hung up.
LEMMA SendAlive ==
  ASSUME NEW c \in Clients, NEW by \in Clients, fd = c, ~eof[c], fd_alive,
         Send(by) \/ TestPrompt(by) \/ UNCHANGED fd_alive
  PROVE  fd_alive'
<1>1. CASE UNCHANGED fd_alive
  BY <1>1
<1>2. ASSUME NEW ok \in BOOLEAN, CanSend(ok), fd_alive' = ok PROVE fd_alive'
  <2>1. ok \in {TRUE}
    BY <1>2 DEF CanSend
  <2> QED  BY <1>2, <2>1
<1>3. CASE Send(by)
  <2>1. PICK ok \in BOOLEAN : CanSend(ok) /\ fd_alive' = ok
    BY <1>3 DEF Send
  <2> QED  BY <1>2, <2>1
<1>4. CASE TestPrompt(by)
  <2>1. UNCHANGED fd_alive \/ \E ok \in BOOLEAN : CanSend(ok) /\ fd_alive' = ok
    BY <1>4 DEF TestPrompt
  <2> QED  BY <1>1, <1>2, <2>1
<1> QED  BY <1>1, <1>3, <1>4

LEMMA CommandsFlags ==
  ASSUME CliInv, Flags, Served, NEW c \in Clients,
         \/ Show(c) \/ SetVerbose(c) \/ Exit(c) \/ Ping(c) \/ Shutdown(c)
         \/ SkipPrompt(c)
  PROVE  Flags'
<1>0. pc[c] \in {"run", "skip"} /\ lock' = lock /\ fd' = fd /\ eof' = eof /\ doubt' = doubt
      /\ ahead' = ahead /\ stage' = stage
  BY DEF Show, SetVerbose, Exit, Ping, Shutdown, Runs, SkipPrompt, input, focus, history
<1>1. lock = c /\ fd = c
  BY <1>0, HolderFocus DEF Holding
<1>2. pc'[c] \in {"ran", "skip", "raise"}
  BY DEF Show, SetVerbose, Exit, Ping, Shutdown, SkipPrompt, CliInv, CliTypes
<1>3. ~eof'[c] /\ pc'[c] # "ran" => fd_alive'
  <2> SUFFICES ASSUME ~eof'[c], pc'[c] # "ran" PROVE fd_alive'
    OBVIOUS
  <2>1. fd_alive
    BY <1>0, <1>1 DEF Flags
  <2>2. Ping(c) \/ Shutdown(c)
    BY DEF Show, SetVerbose, Exit, SkipPrompt, CliInv, CliTypes
  <2>3. Send(c) \/ UNCHANGED fd_alive
    BY <2>2 DEF Ping, Shutdown
  <2> QED  BY <1>0, <1>1, <2>1, <2>3, SendAlive
<1>4. ASSUME Trusted(c)', skip_next_prompt'
      PROVE  stage'[c] = "serve" /\ pc'[c] \in {"ran", "prompt", "clear"}
  <2>1. Trusted(c)
    BY <1>0, <1>4 DEF Trusted
  <2>2. CASE SkipPrompt(c)
    <3>1. Content(c) /\ pc[c] = "skip" /\ stage[c] \in {"junk", "greet", "serve"}
      BY <2>1, <2>2, OfClient DEF Served, SkipPrompt
    <3>2. stage[c] = "serve"
      BY <3>1 DEF Content, ContentOf, JunkContent, GreetContent
    <3>3. pc'[c] = "ran"
      BY <2>2 DEF SkipPrompt, CliInv, CliTypes
    <3> QED  BY <1>0, <3>2, <3>3
  <2>3. CASE ~SkipPrompt(c)
    <3>1. skip_next_prompt' = skip_next_prompt
      BY <2>3 DEF Show, SetVerbose, Exit, Ping, Shutdown
    <3>2. pc[c] = "run"
      BY <2>3 DEF Show, SetVerbose, Exit, Ping, Shutdown, Runs
    <3> QED  BY <1>1, <1>4, <2>1, <3>1, <3>2 DEF Flags
  <2> QED  BY <2>2, <2>3
<1>5. lock' = c /\ fd' = c /\ pc'[c] # "clear"
  BY <1>0, <1>1, <1>2
<1> QED  BY <1>3, <1>4, <1>5, FlagsHolder

LEMMA FlagsKeep ==
  ASSUME CliInv, History, Flags, Served, CliNext
  PROVE  Flags'
<1>0. None \notin Clients /\ pc \in [Clients -> PCs] /\ eof \in [Clients -> BOOLEAN]
      /\ stage \in [Clients -> {"junk", "greet", "serve"}] /\ lock \in Clients \cup {None}
  BY BufferAssumption DEF CliInv, CliTypes, History
<1>1. CASE Listen
  BY <1>1, FlagsFrame DEF Listen, input, focus, history
<1>2. ASSUME NEW c \in Clients, Types(c) PROVE Flags'
  <2>1. PICK line : Type(c, line)
    BY <1>2 DEF Types
  <2>2. /\ UNCHANGED <<lock, fd, fd_alive, skip_next_prompt, pinger, doubt, eof, pc, stage>>
        /\ ahead \subseteq ahead'
    BY <2>1 DEF Type, focus
  <2> QED  BY <2>2, FlagsFrame
<1>3. ASSUME NEW c \in Clients, Hangup(c) \/ Raise(c) PROVE Flags'
  <2>1. UNCHANGED <<lock, fd, fd_alive, skip_next_prompt, pinger, doubt, ahead, pc, stage>>
    BY <1>3 DEF Hangup, Raise, focus, history
  <2>2. \A d \in Clients : eof[d] => eof'[d]
    BY <1>0, <1>3 DEF Hangup, Raise, input
  <2> QED  BY <2>1, <2>2, FlagsFrame
<1>4. ASSUME NEW c \in Clients,
             Accept(c) \/ ReadLeftover(c) \/ Read(c) \/ ReadEof(c) \/ Check(c)
      PROVE  Flags'
  <2>1. UNCHANGED <<lock, fd, fd_alive, skip_next_prompt, pinger, doubt, ahead, eof>>
    BY <1>4 DEF Accept, ReadLeftover, Read, ReadEof, Check, Unread, input, focus, history
  <2>2. pc[c] \notin Holding
    BY <1>4 DEF Accept, ReadLeftover, Read, ReadEof, Check, Holding
  <2>3. lock # c
    BY <2>2, OfClient
  <2>4. \A d \in Clients \ {c} : pc'[d] = pc[d] /\ stage'[d] = stage[d]
    <3>1. CASE Accept(c) \/ Check(c)
      BY <1>0, <3>1 DEF Accept, Check
    <3>2. CASE ReadLeftover(c) \/ Read(c) \/ ReadEof(c)
      BY <1>0, <3>2 DEF ReadLeftover, Read, ReadEof, Received, Handled
    <3> QED  BY <1>4, <3>1, <3>2
  <2>5. lock # None => pc'[lock] = pc[lock] /\ stage'[lock] = stage[lock]
    BY <1>0, <2>3, <2>4
  <2> QED  BY <2>1, <2>5, FlagsFrame
<1>5. ASSUME NEW c \in Clients, Lock(c) PROVE Flags'
  <2>1. lock = None /\ lock' = c /\ fd' = c /\ fd_alive' /\ skip_next_prompt' = skip_next_prompt
        /\ doubt' = doubt
    BY <1>5 DEF Lock, history
  <2>2. pc'[c] # "clear"
    BY <1>0, <1>5 DEF Lock
  <2>3. ~doubt' => ~skip_next_prompt'
    BY <2>1 DEF Flags
  <2> QED  BY <2>1, <2>2, <2>3, FlagsHolder DEF Trusted
<1>6. ASSUME NEW c \in Clients, Leave(c) PROVE Flags'
  BY <1>6, FlagsReleased DEF Leave
<1>7. ASSUME NEW c \in Clients, Unlock(c) PROVE Flags'
  BY <1>7, FlagsReleased DEF Unlock
<1>8. ASSUME NEW c \in Clients, NextLine(c) PROVE Flags'
  <2>1. /\ UNCHANGED <<lock, fd, fd_alive, skip_next_prompt, pinger, doubt, ahead, eof, stage, left>>
        /\ pc[c] = "ran" /\ fd_alive
    BY <1>8 DEF NextLine, focus, history
  <2>2. lock = c /\ fd = c
    BY <2>1, HolderFocus DEF Holding
  <2>3. pc'[c] = IF left > 0 THEN "run" ELSE "prompt"
    BY <1>0, <1>8 DEF NextLine
  <2>4. ASSUME Trusted(c)', skip_next_prompt'
        PROVE  stage'[c] = "serve" /\ pc'[c] \in {"ran", "prompt", "clear"}
    <3>1. Trusted(c) /\ skip_next_prompt
      BY <2>1, <2>4 DEF Trusted
    <3>2. stage[c] = "serve" /\ Content(c)
      BY <2>2, <3>1 DEF Flags, Served
    <3>3. left = 0
      BY <2>1, <3>2 DEF Content, ContentOf, ServeContent
    <3> QED  BY <2>1, <2>3, <3>2, <3>3
  <2>5. lock' = c /\ fd' = c /\ pc'[c] # "clear" /\ fd_alive'
    BY <2>1, <2>2, <2>3
  <2> QED  BY <2>4, <2>5, FlagsHolder
<1>9. ASSUME NEW c \in Clients, Prompt(c) PROVE Flags'
  <2>1. /\ UNCHANGED <<lock, fd, skip_next_prompt, pinger, ahead, eof, stage>>
        /\ pc[c] = "prompt" /\ TestPrompt(c) /\ pc'[c] = "clear"
        /\ (~doubt' => ~doubt /\ ~pinger)
    BY <1>0, <1>9 DEF Prompt, input
  <2>2. lock = c /\ fd = c
    BY <2>1, HolderFocus DEF Holding
  <2>3. ~eof'[c] /\ pc'[c] # "ran" => fd_alive'
    <3>1. ~eof[c] => fd_alive
      BY <2>1, <2>2 DEF Flags
    <3> QED  BY <2>1, <2>2, <3>1, SendAlive
  <2>4. Trusted(c)' /\ skip_next_prompt' => stage'[c] = "serve"
    BY <2>1, <2>2 DEF Flags, Trusted
  <2>5. lock' = c /\ fd' = c /\ (~doubt' /\ pc'[c] = "clear" => ~pinger')
    BY <2>1, <2>2
  <2> QED  BY <2>1, <2>3, <2>4, <2>5, FlagsHolder
<1>10. ASSUME NEW c \in Clients, Feedback(c) PROVE Flags'
  <2>1. /\ UNCHANGED <<lock, fd, skip_next_prompt, ahead, eof, stage, pc>>
        /\ TestPrompt(c)
        /\ (~doubt' => ~doubt /\ fd = c /\ fd_alive
                       /\ ~(lock # None /\ pc[lock] \in {"prompt", "clear"}))
    BY <1>10 DEF Feedback, input
  <2>2. CASE lock = None
    BY <2>1, <2>2, FlagsReleased DEF Flags
  <2>3. CASE lock # None
    <3>1. lock \in Clients /\ fd = lock
      BY <1>0, <2>3 DEF Flags
    <3> DEFINE d == lock
    <3>2. ~eof'[d] /\ pc'[d] # "ran" => fd_alive'
      <4> SUFFICES ASSUME ~eof[d], pc[d] # "ran" PROVE fd_alive'
        BY <2>1
      <4>1. fd_alive
        BY <3>1 DEF Flags
      <4> QED  BY <2>1, <3>1, <4>1, SendAlive
    <3>3. ~doubt' /\ pc'[d] = "clear" => ~pinger'
      BY <2>1, <2>3
    <3>4. Trusted(d)' /\ skip_next_prompt' =>
            stage'[d] = "serve" /\ pc'[d] \in {"ran", "prompt", "clear"}
      BY <2>1, <3>1 DEF Flags, Trusted
    <3>5. lock' = d /\ fd' = d
      BY <2>1, <3>1
    <3> QED  BY <3>1, <3>2, <3>3, <3>4, <3>5, FlagsHolder
  <2> QED  BY <2>2, <2>3
<1>11. CASE FeedbackEnds
  <2>1. /\ UNCHANGED <<lock, fd, fd_alive, ahead, eof, stage, pc>>
        /\ ~skip_next_prompt' /\ ~pinger' /\ (~doubt' => ~doubt)
    BY <1>11 DEF FeedbackEnds, input, focus
  <2> QED  BY <2>1 DEF Flags
<1> QED  BY <1>1, <1>2, <1>3, <1>4, <1>5, <1>6, <1>7, <1>8, <1>9, <1>10, <1>11, CommandsFlags
         DEF CliNext, Serve

-----------------------------------------------------------------------------
(* The lines and the prompts of a client, first when others take a step.   *)

Same(c) ==
  /\ pc'[c] = pc[c] /\ stage'[c] = stage[c] /\ st'[c] = st[c] /\ pipe'[c] = pipe[c]
  /\ eof'[c] = eof[c] /\ typed'[c] = typed[c] /\ ran'[c] = ran[c]
  /\ prompts'[c] = prompts[c] /\ pings'[c] = pings[c]

Aside(c) ==
  /\ Same(c)
  /\ \/ UNCHANGED <<lock, left, skip_next_prompt, pinger>>
     \/ lock # c /\ lock' # c

LEMMA AsideKeeps ==
  ASSUME CliInv, NEW c \in Clients, Content(c), Account(c), Aside(c)
  PROVE  Content(c)' /\ Account(c)'
<1>1. CASE UNCHANGED <<lock, left, skip_next_prompt, pinger>>
  <2>1. Content(c)'
    BY <1>1 DEF Aside, Same, Content
  <2>2. Account(c)'
    BY <1>1 DEF Aside, Same, Account, Loose
  <2> QED  BY <2>1, <2>2
<1>2. CASE lock # c /\ lock' # c
  <2>1. pc[c] \notin Holding
    BY <1>2, OfClient
  <2>2. Content(c)'
    <3>1. ContentOf(pc[c], stage[c], st[c], pipe[c], typed[c], ran[c], pings[c], left)
      BY DEF Content
    <3>2. ContentOf(pc[c], stage[c], st[c], pipe[c], typed[c], ran[c], pings[c], left')
      BY <2>1, <3>1 DEF ContentOf, ServeContent, Holding
    <3> QED  BY <3>2 DEF Aside, Same, Content
  <2>3. Account(c)'
    <3>1. ASSUME ~eof[c]
          PROVE  AccountOf(pc[c], stage[c], prompts[c] + pings[c], typed[c], ran[c],
                           skip_next_prompt', Loose(c)')
      <4>1. AccountOf(pc[c], stage[c], prompts[c] + pings[c], typed[c], ran[c],
                      skip_next_prompt, Loose(c))
        BY <3>1 DEF Account
      <4>2. ~Loose(c) /\ ~Loose(c)'
        BY <1>2 DEF Loose
      <4>3. Due(pc[c], stage[c], skip_next_prompt') = Due(pc[c], stage[c], skip_next_prompt)
        BY <2>1 DEF Due, Holding
      <4> QED  BY <4>1, <4>2, <4>3 DEF AccountOf
    <3> QED  BY <3>1 DEF Aside, Same, Account
  <2> QED  BY <2>2, <2>3
<1> QED  BY <1>1, <1>2 DEF Aside

LEMMA OthersAside ==
  ASSUME CliInv, History, Flags, NEW d \in Clients, NEW c \in Clients, c # d,
         \/ Accept(d) \/ Types(d) \/ Hangup(d) \/ Serve(d)
  PROVE  Aside(c)
<1>0. /\ None \notin Clients
      /\ pc \in [Clients -> PCs] /\ stage \in [Clients -> {"junk", "greet", "serve"}]
      /\ st \in [Clients -> SearchState] /\ pipe \in [Clients -> Seq(STRING)]
      /\ eof \in [Clients -> BOOLEAN] /\ typed \in [Clients -> Seq(Seq(STRING))]
      /\ ran \in [Clients -> Seq(Seq(STRING))] /\ prompts \in [Clients -> Nat]
      /\ pings \in [Clients -> Nat]
  BY BufferAssumption DEF CliInv, CliTypes, History
<1>1. CASE Accept(d)
  BY <1>0, <1>1 DEF Accept, Aside, Same, history
<1>2. CASE Types(d)
  <2>1. PICK line : Type(d, line)
    BY <1>2 DEF Types
  <2> QED  BY <1>0, <2>1 DEF Type, Aside, Same
<1>3. CASE Hangup(d)
  BY <1>0, <1>3 DEF Hangup, Aside, Same, history
<1>4. CASE ReadLeftover(d) \/ Read(d) \/ ReadEof(d)
  <2>1. pc'[c] = pc[c] /\ stage'[c] = stage[c] /\ st'[c] = st[c]
    BY <1>0, <1>4 DEF ReadLeftover, Read, ReadEof, Received, Handled
  <2>2. pipe'[c] = pipe[c]
    BY <1>0, <1>4 DEF ReadLeftover, Read, ReadEof
  <2>3. UNCHANGED <<eof, left, lock, skip_next_prompt, pinger, pings, typed, ran, prompts>>
    BY <1>4 DEF ReadLeftover, Read, ReadEof, Unread, history
  <2> QED  BY <2>1, <2>2, <2>3 DEF Aside, Same
<1>5. CASE Lock(d)
  BY <1>0, <1>5 DEF Lock, Aside, Same, input, history
<1>6. CASE Show(d) \/ SetVerbose(d) \/ Exit(d) \/ Ping(d) \/ Shutdown(d)
  <2>1. pc[d] = "run"
    BY <1>6 DEF Show, SetVerbose, Exit, Ping, Shutdown, Runs
  <2>2. lock = d /\ fd = d
    BY <2>1, HolderFocus DEF Holding
  <2>3. UNCHANGED <<stage, st, pipe, eof, typed, prompts, lock>>
    BY <1>6 DEF Show, SetVerbose, Exit, Ping, Shutdown, input
  <2>4. pc'[c] = pc[c] /\ ran'[c] = ran[c]
    BY <1>0, <1>6 DEF Show, SetVerbose, Exit, Ping, Shutdown, Runs
  <2>5. pings'[c] = pings[c]
    BY <1>0, <1>6, <2>2 DEF Show, SetVerbose, Exit, Ping, Shutdown
  <2> QED  BY <2>2, <2>3, <2>4, <2>5 DEF Aside, Same
<1>7. CASE Raise(d) \/ Check(d)
  BY <1>0, <1>7 DEF Raise, Check, Aside, Same, input, history
<1>8. CASE SkipPrompt(d) \/ NextLine(d)
  <2>1. pc[d] \in Holding
    BY <1>8 DEF SkipPrompt, NextLine, Holding
  <2>2. lock = d
    BY <2>1, HolderFocus
  <2>3. UNCHANGED <<stage, pipe, eof, typed, ran, prompts, pings, lock>>
    BY <1>8 DEF SkipPrompt, NextLine, input, history
  <2>4. pc'[c] = pc[c] /\ st'[c] = st[c]
    BY <1>0, <1>8 DEF SkipPrompt, NextLine, input
  <2> QED  BY <2>2, <2>3, <2>4 DEF Aside, Same
<1>9. CASE Leave(d) \/ Unlock(d)
  <2>1. pc[d] \in Holding
    BY <1>9 DEF Leave, Unlock, Holding
  <2>2. lock = d /\ lock' = None
    BY <1>9, <2>1, HolderFocus DEF Leave, Unlock
  <2>3. UNCHANGED <<pipe, eof, typed, ran, prompts, pings>>
    BY <1>9 DEF Leave, Unlock, history
  <2>4. pc'[c] = pc[c] /\ stage'[c] = stage[c] /\ st'[c] = st[c]
    BY <1>0, <1>9 DEF Leave, Unlock, Handled
  <2> QED  BY <1>0, <2>2, <2>3, <2>4 DEF Aside, Same
<1>10. CASE Prompt(d)
  <2>1. pc[d] \in Holding
    BY <1>10 DEF Prompt, Holding
  <2>2. lock = d /\ fd = d
    BY <2>1, HolderFocus
  <2>3. UNCHANGED <<stage, st, pipe, eof, typed, ran, pings, lock>>
    BY <1>10 DEF Prompt, input
  <2>4. pc'[c] = pc[c] /\ prompts'[c] = prompts[c]
    BY <1>0, <1>10, <2>2 DEF Prompt, TestPrompt
  <2> QED  BY <2>2, <2>3, <2>4 DEF Aside, Same
<1> QED  BY <1>1, <1>2, <1>3, <1>4, <1>5, <1>6, <1>7, <1>8, <1>9, <1>10 DEF Serve

-----------------------------------------------------------------------------
(* What the search finds in a line and in a part of one.                   *)

LEMMA SearchClean ==
  ASSUME NEW s \in SearchState, Clean(s.buf)
  PROVE  ~Found(s) /\ Search(s).soff = Len(s.buf)
<1>0. s.buf \in Seq(STRING) /\ Len(s.buf) \in Nat
  BY DEF SearchState
<1>1. Newlines(s) = {}
  BY <1>0 DEF Newlines, Clean
<1>2. ~Found(s)
  BY <1>1 DEF Found
<1>3. Search(s) = [s EXCEPT !.soff = Len(s.buf)]
  BY <1>2 DEF Search
<1> QED  BY <1>2, <1>3 DEF SearchState

LEMMA SearchLine ==
  ASSUME NEW s \in SearchState, Line(s.buf), s.soff < Len(s.buf)
  PROVE  Found(s) /\ Search(s).noff = Len(s.buf) - 1
<1>0. /\ s.buf \in Seq(STRING) /\ Len(s.buf) \in Nat /\ Len(s.buf) > 0 /\ s.soff \in Nat
      /\ s = [buf |-> s.buf, cap |-> s.cap, soff |-> s.soff, noff |-> s.noff]
  BY DEF SearchState, Line
<1> DEFINE n == Len(s.buf) - 1
<1>1. Newlines(s) = {n}
  BY <1>0 DEF Newlines, Line
<1>2. Found(s)
  BY <1>0, <1>1 DEF Found
<1> DEFINE i == CHOOSE i \in Newlines(s) :
                  i >= s.soff /\ \A k \in Newlines(s) : k >= s.soff => i <= k
<1>3. i = n
  BY <1>0, <1>1
<1>4. Search(s) = [s EXCEPT !.noff = i, !.soff = i + 1]
  BY <1>2 DEF Search
<1> HIDE DEF i, n
<1>5. Search(s).noff = n
  BY <1>0, <1>3, <1>4
<1> QED  BY <1>2, <1>5 DEF n

\* A line is read to its end, or what has been read of it has no newline.
LEMMA LineRead ==
  ASSUME NEW b \in Seq(STRING), NEW w \in Seq(STRING), Line(b \o w), NEW n \in 1 .. Len(w)
  PROVE  LET x == b \o SubSeq(w, 1, n)
             y == SubSeq(w, n + 1, Len(w))
         IN  /\ x \in Seq(STRING) /\ y \in Seq(STRING)
             /\ Len(b) < Len(x)
             /\ x \o y = b \o w
             /\ n = Len(w) => x = b \o w /\ y = <<>>
             /\ n # Len(w) => Clean(x)
<1> DEFINE u == SubSeq(w, 1, n)
           x == b \o u
           y == SubSeq(w, n + 1, Len(w))
<1>0. Len(b) \in Nat /\ Len(w) \in Nat /\ n \in Nat
  OBVIOUS
<1>1. /\ u \in Seq(STRING) /\ Len(u) = n /\ \A i \in 1 .. n : u[i] = w[i]
  BY <1>0, SubSeqProperties
<1>2. /\ y \in Seq(STRING) /\ Len(y) = Len(w) - n /\ \A i \in 1 .. Len(w) - n : y[i] = w[n + i]
  <2>1. CASE n = Len(w)
    <3>1. y = <<>>
      BY <1>0, <2>1
    <3> QED  BY <1>0, <2>1, <3>1
  <2>2. CASE n < Len(w)
    BY <1>0, <2>2, SubSeqProperties
  <2> QED  BY <1>0, <2>1, <2>2
<1> HIDE DEF u
<1>3. /\ x \in Seq(STRING) /\ Len(x) = Len(b) + n
      /\ \A i \in 1 .. Len(x) : x[i] = IF i <= Len(b) THEN b[i] ELSE u[i - Len(b)]
  BY <1>0, <1>1
<1> HIDE DEF x, y
<1> DEFINE l == b \o w
<1>4. /\ l \in Seq(STRING) /\ Len(l) = Len(b) + Len(w)
      /\ \A i \in 1 .. Len(l) : l[i] = IF i <= Len(b) THEN b[i] ELSE w[i - Len(b)]
  BY <1>0
<1> HIDE DEF l
<1>5. \A i \in 1 .. Len(x) : i \in 1 .. Len(l) /\ x[i] = l[i]
  <2> TAKE i \in 1 .. Len(x)
  <2>1. i \in 1 .. Len(l) /\ i \in Nat
    BY <1>0, <1>3, <1>4
  <2>2. CASE i <= Len(b)
    BY <1>3, <1>4, <2>1, <2>2
  <2>3. CASE ~(i <= Len(b))
    <3>1. i - Len(b) \in 1 .. n
      BY <1>0, <1>3, <2>3
    <3>2. x[i] = u[i - Len(b)] /\ l[i] = w[i - Len(b)]
      BY <1>3, <1>4, <2>1, <2>3
    <3> QED  BY <1>1, <2>1, <3>1, <3>2
  <2> QED  BY <2>2, <2>3
<1>6. x \o y = l
  <2>1. /\ x \o y \in Seq(STRING) /\ Len(x \o y) = Len(x) + Len(y)
        /\ \A i \in 1 .. Len(x \o y) : (x \o y)[i] = IF i <= Len(x) THEN x[i] ELSE y[i - Len(x)]
    <3>1. x \in Seq(STRING) /\ y \in Seq(STRING)
      BY <1>2, <1>3
    <3> QED  BY <3>1, ConcatProperties
  <2>2. Len(x \o y) = Len(l)
    BY <1>0, <1>2, <1>3, <1>4, <2>1
  <2>3. ASSUME NEW i \in 1 .. Len(l) PROVE (x \o y)[i] = l[i]
    <3>1. CASE i <= Len(x)
      BY <1>3, <1>5, <2>1, <2>2, <3>1
    <3>2. CASE ~(i <= Len(x))
      <4>1. (x \o y)[i] = y[i - Len(x)] /\ i - Len(x) \in 1 .. Len(w) - n
        BY <1>0, <1>3, <1>4, <2>1, <2>2, <3>2
      <4>2. y[i - Len(x)] = w[n + (i - Len(x))]
        BY <1>2, <4>1
      <4>3. n + (i - Len(x)) = i - Len(b) /\ ~(i <= Len(b))
        BY <1>0, <1>3, <3>2
      <4> QED  BY <1>4, <4>1, <4>2, <4>3
    <3> QED  BY <3>1, <3>2
  <2> QED  BY <1>4, <2>1, <2>2, <2>3, SeqEqual
<1>7. n = Len(w) => x = l /\ y = <<>>
  <2> SUFFICES ASSUME n = Len(w) PROVE x = l /\ y = <<>>
    OBVIOUS
  <2>1. Len(x) = Len(l) /\ Len(y) = 0
    BY <1>0, <1>2, <1>3, <1>4
  <2> QED  BY <1>2, <1>3, <1>4, <1>5, <2>1, SeqEqual
<1>8. n # Len(w) => Clean(x)
  <2> SUFFICES ASSUME n # Len(w), NEW i \in 1 .. Len(x) PROVE x[i] # NL
    BY <1>3 DEF Clean
  <2>1. i \in 1 .. Len(l) /\ i # Len(l) /\ x[i] = l[i]
    BY <1>0, <1>3, <1>4, <1>5
  <2>2. Line(l)
    BY DEF l
  <2>3. DOMAIN l = 1 .. Len(l)
    BY <1>4
  <2> QED  BY <2>1, <2>2, <2>3 DEF Line
<1>9. Len(b) < Len(x)
  BY <1>0, <1>3
<1> QED  BY <1>2, <1>3, <1>6, <1>7, <1>8, <1>9 DEF x, y, u, l

-----------------------------------------------------------------------------
(* The steps of the client itself and of its thread.                       *)

LEMMA PendingFacts ==
  ASSUME NEW t \in Seq(Seq(STRING)), NEW r \in Seq(Seq(STRING)), NEW b \in Seq(STRING),
         t = r \/ t = Append(r, b)
  PROVE  /\ IsPrefix(r, t)
         /\ PromptsFor(r) \in Nat /\ PromptsFor(t) \in Nat
         /\ PromptsFor(t) >= PromptsFor(r)
         /\ t = Append(r, b) => t # r /\ PromptsFor(t) = PromptsFor(r) + Owed(b)
<1>0. Len(r) \in Nat /\ PromptsFor(r) \in Nat /\ PromptsFor(t) \in Nat
  BY PromptsForType
<1>1. CASE t = r
  <2>1. IsPrefix(r, t)
    BY <1>0, <1>1 DEF IsPrefix
  <2>2. t # Append(r, b)
    BY <1>0, <1>1
  <2> QED  BY <1>0, <1>1, <2>1, <2>2
<1>2. CASE t = Append(r, b)
  <2>1. Len(t) = Len(r) + 1 /\ \A i \in 1 .. Len(r) : t[i] = r[i]
    BY <1>2
  <2>2. SubSeq(r, 1, Len(r)) = SubSeq(t, 1, Len(r))
    BY <1>0, <2>1
  <2>3. IsPrefix(r, t)
    BY <1>0, <2>1, <2>2 DEF IsPrefix
  <2>4. PromptsFor(t) = PromptsFor(r) + Owed(b) /\ Owed(b) \in Nat
    BY <1>2, PromptsForAppend, OwedType
  <2>5. t # r
    BY <1>0, <2>1
  <2> QED  BY <1>0, <2>3, <2>4, <2>5
<1> QED  BY <1>1, <1>2

Mine(c) == Trusted(c) /\ Trusted(c)' /\ Content(c) /\ Account(c)

LEMMA MyTypes ==
  ASSUME CliInv, History, NEW c \in Clients
  PROVE  /\ typed[c] \in Seq(Seq(STRING)) /\ ran[c] \in Seq(Seq(STRING))
         /\ prompts[c] \in Nat /\ pings[c] \in Nat
         /\ PromptsFor(typed[c]) \in Nat /\ PromptsFor(ran[c]) \in Nat
         /\ eof[c] \in BOOLEAN
<1>1. /\ typed[c] \in Seq(Seq(STRING)) /\ ran[c] \in Seq(Seq(STRING))
      /\ prompts[c] \in Nat /\ pings[c] \in Nat /\ eof[c] \in BOOLEAN
  BY DEF CliInv, CliTypes, History
<1> QED  BY <1>1, PromptsForType

LEMMA DueType == \A p, g, skip : Due(p, g, skip) \in {0, 1}
  BY DEF Due

\* A client types only when all of its lines have been run and no prompt is due.
LEMMA AnsweredMeans ==
  ASSUME CliInv, History, NEW c \in Clients, Content(c), Account(c), Answered(c), ~eof[c],
         pc[c] # "gone"
  PROVE  /\ typed[c] = ran[c] /\ pc[c] # "dead" /\ stage[c] # "junk"
         /\ stage[c] = "greet" => pc[c] = "clear"
         /\ stage[c] = "serve" => pc[c] \notin {"none", "lock", "run"}
<1>0. /\ typed[c] \in Seq(Seq(STRING)) /\ ran[c] \in Seq(Seq(STRING))
      /\ prompts[c] \in Nat /\ pings[c] \in Nat
      /\ PromptsFor(typed[c]) \in Nat /\ PromptsFor(ran[c]) \in Nat
  BY MyTypes
<1> DEFINE due == Due(pc[c], stage[c], skip_next_prompt)
<1>1. due \in {0, 1}
  BY DueType
<1>2. prompts[c] >= 1 + PromptsFor(typed[c])
  BY DEF Answered
<1>3. AccountOf(pc[c], stage[c], prompts[c] + pings[c], typed[c], ran[c],
                skip_next_prompt, Loose(c))
  BY DEF Account
<1>4. pc[c] # "dead"
  BY <1>0, <1>2, <1>3 DEF AccountOf
<1> HIDE DEF due
<1>5. prompts[c] + pings[c] + due <= 1 + PromptsFor(ran[c])
  BY <1>3, <1>4 DEF AccountOf, due
<1>6. stage[c] \in {"junk", "greet", "serve"} /\ pc[c] \in PCs /\ st[c].buf \in Seq(STRING)
      /\ pipe[c] \in Seq(STRING) /\ st[c].buf \o pipe[c] \in Seq(STRING)
  BY OfClient
<1>7. \/ typed[c] = ran[c]
      \/ \E b \in Seq(STRING) : typed[c] = Append(ran[c], b)
  BY <1>4, <1>6 DEF Content, ContentOf, JunkContent, GreetContent, ServeContent, ReadContent,
                    ShiftedContent, Pending, PCs, Holding
<1>8. typed[c] = ran[c]
  <2> SUFFICES ASSUME NEW b \in Seq(STRING), typed[c] = Append(ran[c], b) PROVE FALSE
    BY <1>7
  <2>1. PromptsFor(typed[c]) = PromptsFor(ran[c]) + Owed(b) /\ Owed(b) \in Nat /\ Owed(b) >= 1
    BY <1>0, PendingFacts, OwedType
  <2> QED  BY <1>0, <1>1, <1>2, <1>5, <2>1
<1>9. due = 0
  BY <1>0, <1>1, <1>2, <1>5, <1>8
<1>10. stage[c] # "junk" /\ (stage[c] = "greet" => pc[c] = "clear")
  BY <1>9 DEF due, Due
<1>11. stage[c] = "serve" => pc[c] \notin {"none", "lock", "run"}
  <2>1. \A b \in Seq(STRING) : Append(ran[c], b) # ran[c]
    BY <1>0
  <2> QED  BY <1>6, <1>8, <2>1 DEF Content, ContentOf, ServeContent
<1> QED  BY <1>4, <1>8, <1>10, <1>11

LEMMA EmptyPending ==
  ASSUME NEW r \in Seq(Seq(STRING)), NEW b \in Seq(STRING), Pending(r, r, b)
  PROVE  b = <<>>
<1>1. r # Append(r, b)
  OBVIOUS
<1> QED  BY <1>1 DEF Pending

LEMMA TypeServed ==
  ASSUME CliInv, History, NEW c \in Clients, Mine(c), Types(c)
  PROVE  Content(c)' /\ Account(c)'
<1>0. PICK line \in scenario.script[c].lines : c \in DOMAIN scenario.script /\ Type(c, line)
  BY DEF Types
<1>1. Line(line)
  BY <1>0, ClientAssumption DEF CliInv, CliTypes, Line
<1>2. line \in Seq(STRING)
  BY <1>1 DEF Line
<1>3. Answered(c) /\ ~eof[c] /\ pc[c] # "gone" /\ pc[c] # "none"
  BY <1>0 DEF Type, Connected, Mine, Trusted
<1>4. /\ typed[c] = ran[c] /\ pc[c] # "dead" /\ stage[c] # "junk"
      /\ stage[c] = "greet" => pc[c] = "clear"
      /\ stage[c] = "serve" => pc[c] \notin {"none", "lock", "run"}
  BY <1>3, AnsweredMeans DEF Mine
<1>5. /\ typed[c] \in Seq(Seq(STRING)) /\ ran[c] \in Seq(Seq(STRING))
      /\ st[c].buf \in Seq(STRING) /\ pipe[c] \in Seq(STRING) /\ st[c].buf \o pipe[c] \in Seq(STRING)
      /\ stage[c] \in {"junk", "greet", "serve"} /\ pc[c] \in PCs
  BY MyTypes, OfClient
<1>6. /\ pipe'[c] = pipe[c] \o line /\ typed'[c] = Append(ran[c], line)
      /\ UNCHANGED <<pc, stage, eof, st, left, lock, skip_next_prompt, pings, pinger, ran, prompts>>
  BY <1>0, <1>4 DEF Type, CliInv, CliTypes, History
<1>7. Account(c)'
  <2>1. AccountOf(pc[c], stage[c], prompts[c] + pings[c], typed[c], ran[c], skip_next_prompt, Loose(c))
    BY <1>3 DEF Mine, Account
  <2>2. AccountOf(pc[c], stage[c], prompts[c] + pings[c], typed'[c], ran[c], skip_next_prompt, Loose(c))
    BY <1>4, <2>1 DEF AccountOf
  <2>3. Loose(c)' = Loose(c)
    BY <1>6 DEF Loose
  <2> QED  BY <1>6, <2>2, <2>3 DEF Account
<1>8. <<>> \o line = line
  BY <1>2, ConcatEmptySeq
<1>9. Content(c)'
  <2>0. ContentOf(pc[c], stage[c], st[c], pipe[c], ran[c], ran[c], pings[c], left)
    BY <1>4 DEF Mine, Content
  <2>1. CASE stage[c] = "greet"
    <3>1. GreetContent(pc[c], st[c], pipe[c], ran[c], ran[c], pings[c])
      BY <2>0, <2>1 DEF ContentOf
    <3>2. pipe[c] = <<>>
      BY <1>5, <3>1, EmptyPending DEF GreetContent
    <3>3. Pending(typed'[c], ran[c], pipe'[c])
      BY <1>1, <1>6, <1>8, <3>2 DEF Pending
    <3> QED  BY <1>4, <1>6, <2>1, <3>1, <3>3 DEF Content, ContentOf, GreetContent
  <2>2. CASE stage[c] = "serve"
    <3>0. ServeContent(pc[c], st[c], pipe[c], ran[c], ran[c], left)
      BY <2>0, <2>2 DEF ContentOf
    <3>1. CASE pc[c] \in {"read", "alive"}
      <4>1. Pending(ran[c], ran[c], st[c].buf \o pipe[c])
        BY <3>0, <3>1 DEF ServeContent, ReadContent
      <4>2. st[c].buf \o pipe[c] = <<>>
        BY <1>5, <4>1, EmptyPending
      <4>3. st[c].buf = <<>> /\ pipe[c] = <<>>
        BY <1>5, <4>2, ConcatEqualIffEmpty
      <4>4. Pending(typed'[c], ran[c], st[c].buf \o pipe'[c])
        BY <1>1, <1>6, <1>8, <4>3 DEF Pending
      <4>5. ServeContent(pc[c], st[c], pipe'[c], typed'[c], ran[c], left)
        BY <3>0, <3>1, <4>4 DEF ServeContent, ReadContent
      <4> QED  BY <1>6, <2>2, <4>5 DEF Content, ContentOf
    <3>2. CASE pc[c] \in {"prompt", "clear", "skip", "raise", "ran"}
      <4>1. Pending(ran[c], ran[c], pipe[c])
        BY <3>0, <3>2 DEF ServeContent, ShiftedContent
      <4>2. pipe[c] = <<>>
        BY <1>5, <4>1, EmptyPending
      <4>3. Pending(typed'[c], ran[c], pipe'[c])
        BY <1>1, <1>6, <1>8, <4>2 DEF Pending
      <4>4. ServeContent(pc[c], st[c], pipe'[c], typed'[c], ran[c], left)
        BY <3>0, <3>2, <4>3 DEF ServeContent, ShiftedContent
      <4> QED  BY <1>6, <2>2, <4>4 DEF Content, ContentOf
    <3> QED  BY <1>3, <1>4, <1>5, <2>2, <3>1, <3>2 DEF PCs, Holding
  <2> QED  BY <1>4, <1>5, <2>1, <2>2
<1> QED  BY <1>7, <1>9

LEMMA OwnAccount ==
  ASSUME NEW c \in Clients, Account(c), ~eof[c]
  PROVE  AccountOf(pc[c], stage[c], prompts[c] + pings[c], typed[c], ran[c],
                   skip_next_prompt, Loose(c))
  BY DEF Account

LEMMA HangupServed ==
  ASSUME CliInv, History, NEW c \in Clients, Mine(c), Hangup(c)
  PROVE  Content(c)' /\ Account(c)'
<1>1. eof'[c] /\ UNCHANGED <<pc, stage, pipe, st, left, pings, typed, ran>>
  BY DEF Hangup, history, History
<1> QED  BY <1>1 DEF Mine, Content, Account

LEMMA ShortClean ==
  ASSUME NEW h \in Seq(STRING), Len(h) <= 1, h # <<NL>>
  PROVE  Clean(h)
<1>1. CASE Len(h) = 0
  BY <1>1 DEF Clean
<1>2. CASE Len(h) = 1
  <2>1. DOMAIN h = {1}
    BY <1>2
  <2>2. h[1] = NL => h = <<NL>>
    BY <1>2
  <2> QED  BY <2>1, <2>2 DEF Clean
<1> DEFINE n == Len(h)
<1>3. n \in Nat /\ n <= 1
  OBVIOUS
<1> HIDE DEF n
<1>4. n = 0 \/ n = 1
  BY <1>3
<1> QED  BY <1>1, <1>2, <1>4 DEF n

LEMMA AcceptServed ==
  ASSUME CliInv, History, NEW c \in Clients, Mine(c), Accept(c)
  PROVE  Content(c)' /\ Account(c)'
<1>1. PICK hello \in Hellos[c] : pipe' = [pipe EXCEPT ![c] = hello]
  BY DEF Accept
<1>2. /\ pipe'[c] = hello /\ pc[c] = "none" /\ pc'[c] = "read"
      /\ UNCHANGED <<stage, st, eof, left, lock, skip_next_prompt, pinger, pings, typed, ran, prompts>>
  BY <1>1 DEF Accept, history, CliInv, CliTypes
<1>3. stage[c] = "junk"
  BY <1>2, OfClient DEF Mine, Content, ContentOf, GreetContent, ServeContent
<1>4. Len(hello) <= 1 /\ Clean(hello)
  <2>1. hello \in Seq(STRING) /\ Len(hello) <= 1 /\ hello # <<NL>>
    BY ClientAssumption
  <2> QED  BY <2>1, ShortClean
<1>5. Content(c)'
  BY <1>2, <1>3, <1>4 DEF Mine, Content, ContentOf, JunkContent
<1>6. Due("read", "junk", skip_next_prompt) = Due("none", "junk", skip_next_prompt)
  BY DEF Due
<1>7. Account(c)'
  BY <1>2, <1>3, <1>6 DEF Mine, Account, AccountOf, Loose
<1> QED  BY <1>5, <1>7

LEMMA CheckServed ==
  ASSUME CliInv, History, NEW c \in Clients, Mine(c), Check(c)
  PROVE  Content(c)' /\ Account(c)'
<1>1. /\ pc[c] \in {"alive", "dead"} /\ pc'[c] = IF pc[c] = "alive" THEN "read" ELSE "gone"
      /\ UNCHANGED <<stage, st, pipe, eof, left, lock, skip_next_prompt, pinger, pings, typed, ran,
                     prompts>>
  BY DEF Check, input, history, CliInv, CliTypes
<1>2. stage[c] = "serve" /\ ServeContent(pc[c], st[c], pipe[c], typed[c], ran[c], left)
  BY <1>1, OfClient DEF Mine, Content, ContentOf, JunkContent, GreetContent
<1>3. ServeContent(pc'[c], st[c], pipe[c], typed[c], ran[c], left)
  BY <1>1, <1>2 DEF ServeContent
<1>4. Content(c)'
  BY <1>1, <1>2, <1>3 DEF Content, ContentOf
<1>5. Due("read", "serve", skip_next_prompt) = Due("alive", "serve", skip_next_prompt)
  BY DEF Due
<1>6. Account(c)'
  <2> SUFFICES ASSUME ~eof[c]
               PROVE  AccountOf(pc'[c], stage[c], prompts[c] + pings[c], typed[c], ran[c],
                                skip_next_prompt, Loose(c))
    BY <1>1 DEF Account, Loose
  <2>1. AccountOf(pc[c], stage[c], prompts[c] + pings[c], typed[c], ran[c],
                  skip_next_prompt, Loose(c))
    BY OwnAccount DEF Mine
  <2> QED  BY <1>1, <1>2, <1>5, <2>1 DEF AccountOf
<1> QED  BY <1>4, <1>6

LEMMA LockServed ==
  ASSUME CliInv, History, Flags, NEW c \in Clients, Mine(c), Lock(c)
  PROVE  Content(c)' /\ Account(c)'
<1>1. /\ pc[c] = "lock" /\ pc'[c] = IF stage[c] = "greet" THEN "prompt" ELSE "run"
      /\ left' = Cardinality(Newlines(st[c])) /\ lock = None /\ lock' = c
      /\ UNCHANGED <<stage, st, pipe, eof, skip_next_prompt, pinger, pings, typed, ran, prompts>>
  BY DEF Lock, input, history, CliInv, CliTypes
<1>2. ~skip_next_prompt
  BY <1>1 DEF Mine, Trusted, Flags
<1>3. stage[c] \in {"greet", "serve"}
  BY <1>1, OfClient DEF Mine, Content, ContentOf, JunkContent
<1>4. Content(c)'
  <2>1. CASE stage[c] = "greet"
    BY <1>1, <2>1 DEF Mine, Content, ContentOf, GreetContent
  <2>2. CASE stage[c] = "serve"
    <3>1. ServeContent("lock", st[c], pipe[c], typed[c], ran[c], left)
      BY <1>1, <2>2 DEF Mine, Content, ContentOf
    <3>2. left' = 1
      <4>1. Line(st[c].buf) /\ st[c].buf \in Seq(STRING) /\ Len(st[c].buf) \in Nat
        BY <3>1, OfClient DEF ServeContent, LineContent
      <4>2. Newlines(st[c]) = {Len(st[c].buf) - 1}
        BY <4>1 DEF Newlines, Line
      <4> QED  BY <1>1, <4>2, FS_Singleton
    <3>3. ServeContent("run", st[c], pipe[c], typed[c], ran[c], left')
      BY <3>1, <3>2 DEF ServeContent
    <3> QED  BY <1>1, <2>2, <3>3 DEF Content, ContentOf
  <2> QED  BY <1>3, <2>1, <2>2
<1>5. Due(pc'[c], stage[c], skip_next_prompt) = Due(pc[c], stage[c], skip_next_prompt)
  BY <1>1, <1>3 DEF Due
<1>6. ~Loose(c) /\ ~Loose(c)'
  BY <1>1, <1>2 DEF Loose
<1>7. Account(c)'
  <2> SUFFICES ASSUME ~eof[c]
               PROVE  AccountOf(pc'[c], stage[c], prompts[c] + pings[c], typed[c], ran[c],
                                skip_next_prompt, Loose(c)')
    BY <1>1 DEF Account
  <2>1. AccountOf(pc[c], stage[c], prompts[c] + pings[c], typed[c], ran[c],
                  skip_next_prompt, Loose(c))
    BY OwnAccount DEF Mine
  <2> QED  BY <1>1, <1>5, <1>6, <2>1 DEF AccountOf
<1> QED  BY <1>4, <1>7

\* The line in the buffer is run: the command of a ping adds its requests.
LEMMA RunServed ==
  ASSUME CliInv, History, Flags, NEW c \in Clients, Mine(c),
         Show(c) \/ SetVerbose(c) \/ Exit(c) \/ Ping(c) \/ Shutdown(c)
  PROVE  Content(c)' /\ Account(c)'
<1> DEFINE l == FirstLine(st[c])
<1>1. /\ pc[c] = "run" /\ pc'[c] \in {"ran", "skip", "raise"} /\ (pc'[c] = "skip" <=> Ping(c))
      /\ left' = left - 1 /\ ran'[c] = Append(ran[c], l)
      /\ UNCHANGED <<stage, st, pipe, eof, lock, skip_next_prompt, pinger, typed, prompts>>
  <2>1. pc[c] = "run" /\ left' = left - 1 /\ ran' = [ran EXCEPT ![c] = Append(@, l)]
    BY DEF Show, SetVerbose, Exit, Ping, Shutdown, Runs
  <2>2. pc'[c] \in {"ran", "skip", "raise"} /\ (pc'[c] = "skip" <=> Ping(c))
    BY DEF Show, SetVerbose, Exit, Ping, Shutdown, CliInv, CliTypes
  <2>3. ran'[c] = Append(ran[c], l)
    BY <2>1 DEF History
  <2>4. UNCHANGED <<stage, st, pipe, eof, lock, skip_next_prompt, pinger, typed, prompts>>
    BY DEF Show, SetVerbose, Exit, Ping, Shutdown, input
  <2> QED  BY <2>1, <2>2, <2>3, <2>4
<1>2. lock = c /\ fd = c
  BY <1>1, HolderFocus DEF Holding
<1>3. ~skip_next_prompt
  BY <1>1, <1>2 DEF Mine, Flags
<1>4. stage[c] = "serve" /\ ServeContent("run", st[c], pipe[c], typed[c], ran[c], left)
  BY <1>1, OfClient DEF Mine, Content, ContentOf, JunkContent, GreetContent
<1>5. /\ pipe[c] = <<>> /\ typed[c] = Append(ran[c], st[c].buf) /\ LineContent(st[c]) /\ left = 1
  BY <1>4 DEF ServeContent
<1>6. l = st[c].buf /\ st[c].buf \in Seq(STRING)
  <2>1. st[c] \in SearchState /\ Fits(pc[c], stage[c], st[c]) /\ st[c].buf \in Seq(STRING)
    BY OfClient
  <2>2. Newlines(st[c]) # {}
    BY <1>1, <1>4, <2>1 DEF Fits
  <2> QED  BY <1>5, <2>1, <2>2, FirstLineType DEF LineContent
<1> HIDE DEF l
<1>7. typed[c] = ran'[c] /\ left' = 0
  BY <1>1, <1>5, <1>6
<1>8. Content(c)'
  <2>1. ServeContent(pc'[c], st[c], pipe[c], typed[c], ran'[c], left')
    BY <1>1, <1>5, <1>7 DEF ServeContent, Pending
  <2> QED  BY <1>1, <1>4, <2>1 DEF Content, ContentOf
<1>9. /\ typed[c] \in Seq(Seq(STRING)) /\ ran[c] \in Seq(Seq(STRING))
      /\ prompts[c] \in Nat /\ pings[c] \in Nat /\ PromptsFor(ran[c]) \in Nat
  BY MyTypes
<1>10. PromptsFor(ran'[c]) = PromptsFor(ran[c]) + Owed(l) /\ Owed(l) \in Nat
  BY <1>1, <1>6, <1>9, PromptsForAppend, OwedType
<1>11. Due(pc[c], stage[c], skip_next_prompt) = 0
  BY <1>1, <1>4 DEF Due
<1>12. pings'[c] + Due(pc'[c], stage[c], skip_next_prompt) = pings[c] + Owed(l)
  <2>1. CASE Ping(c)
    <3>1. Due(pc'[c], stage[c], skip_next_prompt) = 0
      BY <1>1, <2>1, <1>4 DEF Due
    <3>2. pings'[c] = pings[c] + Owed(l)
      <4>1. CASE Runs(c, "ping") /\ pings' = [pings EXCEPT ![fd] = @ + 1]
        <5>1. Command(l) = "ping"
          BY <4>1 DEF Runs, l
        <5>2. Owed(l) = 1
          BY <5>1, OwedType
        <5> QED  BY <1>2, <4>1, <5>2 DEF CliInv, CliTypes
      <4>2. CASE Runs(c, "flood") /\ pings' = [pings EXCEPT ![fd] = @ + Flood]
        <5>1. Command(l) = "flood"
          BY <4>2 DEF Runs, l
        <5>2. Owed(l) = Flood
          BY <5>1 DEF Owed
        <5> QED  BY <1>2, <4>2, <5>2 DEF CliInv, CliTypes
      <4> QED  BY <2>1, <4>1, <4>2 DEF Ping
    <3> QED  BY <1>9, <1>10, <3>1, <3>2
  <2>2. CASE ~Ping(c)
    <3>1. pc'[c] \in {"ran", "raise"}
      BY <1>1, <2>2
    <3>2. Due(pc'[c], stage[c], skip_next_prompt) = 1
      BY <1>3, <1>4, <3>1 DEF Due
    <3>3. pings' = pings
      BY <2>2 DEF Show, SetVerbose, Exit, Shutdown
    <3>4. Command(l) # "flood"
      BY <2>2 DEF Show, SetVerbose, Exit, Shutdown, Runs, l
    <3>5. Owed(l) = 1
      BY <3>4, OwedType
    <3> QED  BY <3>2, <3>3, <3>5
  <2> QED  BY <2>1, <2>2
<1>13. ~Loose(c) /\ ~Loose(c)'
  BY <1>1, <1>3 DEF Loose
<1>14. Account(c)'
  <2> SUFFICES ASSUME ~eof[c]
               PROVE  AccountOf(pc'[c], stage[c], prompts[c] + pings'[c], typed[c], ran'[c],
                                skip_next_prompt, Loose(c)')
    BY <1>1 DEF Account
  <2>1. AccountOf(pc[c], stage[c], prompts[c] + pings[c], typed[c], ran[c],
                  skip_next_prompt, Loose(c))
    BY OwnAccount DEF Mine
  <2>2. prompts[c] + pings[c] + 0 = 1 + PromptsFor(ran[c])
    BY <1>1, <1>11, <1>13, <2>1 DEF AccountOf
  <2>3. pings'[c] \in Nat /\ Due(pc'[c], stage[c], skip_next_prompt) \in {0, 1}
    <3>1. CliInv'
      BY CommandsKeep
    <3> QED  BY <3>1, DueType DEF CliInv, CliTypes
  <2>4. prompts[c] + pings'[c] + Due(pc'[c], stage[c], skip_next_prompt) = 1 + PromptsFor(ran'[c])
    <3> DEFINE due == Due(pc'[c], stage[c], skip_next_prompt)
               m == prompts[c]
               n == pings[c]
               k == pings'[c]
               o == Owed(l)
               x == PromptsFor(ran[c])
               y == PromptsFor(ran'[c])
    <3>1. m \in Nat /\ n \in Nat /\ k \in Nat /\ o \in Nat /\ x \in Nat /\ due \in {0, 1}
      BY <1>9, <1>10, <2>3
    <3>2. m + n + 0 = 1 + x /\ y = x + o /\ k + due = n + o
      BY <1>10, <1>12, <2>2
    <3> HIDE DEF due, m, n, k, o, x, y
    <3>3. m + k + due = 1 + y
      BY <3>1, <3>2
    <3> QED  BY <3>3 DEF due, m, k, y
  <2>5. prompts[c] + pings'[c] + Due(pc'[c], stage[c], skip_next_prompt) \in Int
    BY <1>9, <2>3
  <2> QED  BY <1>1, <2>4, <2>5 DEF AccountOf
<1> QED  BY <1>8, <1>14

\* What a step that leaves the prompts, the pings and the lines alone keeps.
LEMMA AccountMoves ==
  ASSUME CliInv, History, NEW c \in Clients, Mine(c),
         pc[c] \notin {"dead", "gone"}, pc'[c] \notin {"dead", "gone"},
         eof'[c] = eof[c], prompts'[c] = prompts[c], pings'[c] = pings[c], ran'[c] = ran[c],
         Due(pc'[c], stage'[c], skip_next_prompt') = Due(pc[c], stage[c], skip_next_prompt),
         Loose(c) => Loose(c)'
  PROVE  Account(c)'
<1> SUFFICES ASSUME ~eof[c]
             PROVE  AccountOf(pc'[c], stage'[c], prompts[c] + pings[c], typed'[c], ran[c],
                              skip_next_prompt', Loose(c)')
  BY DEF Account
<1>1. AccountOf(pc[c], stage[c], prompts[c] + pings[c], typed[c], ran[c],
                skip_next_prompt, Loose(c))
  BY OwnAccount DEF Mine
<1> DEFINE m == prompts[c] + pings[c]
           d == Due(pc[c], stage[c], skip_next_prompt)
<1>2. m + d <= 1 + PromptsFor(ran[c]) /\ (~Loose(c) => m + d = 1 + PromptsFor(ran[c]))
  BY <1>1 DEF AccountOf
<1> HIDE DEF m
<1> QED  BY <1>2 DEF AccountOf, m

LEMMA SkipPromptServed ==
  ASSUME CliInv, History, Flags, NEW c \in Clients, Mine(c), SkipPrompt(c)
  PROVE  Content(c)' /\ Account(c)'
<1>1. /\ pc[c] = "skip" /\ pc'[c] = "ran" /\ skip_next_prompt' = TRUE
      /\ UNCHANGED <<stage, st, pipe, eof, left, lock, pinger, pings, typed, ran, prompts>>
  BY DEF SkipPrompt, input, history, CliInv, CliTypes
<1>2. stage[c] = "serve" /\ ServeContent("skip", st[c], pipe[c], typed[c], ran[c], left)
  BY <1>1, OfClient DEF Mine, Content, ContentOf, JunkContent, GreetContent
<1>3. Content(c)'
  <2>1. ServeContent("ran", st[c], pipe[c], typed[c], ran[c], left)
    BY <1>2 DEF ServeContent
  <2> QED  BY <1>1, <1>2, <2>1 DEF Content, ContentOf
<1>4. Due(pc'[c], stage'[c], skip_next_prompt') = Due(pc[c], stage[c], skip_next_prompt)
  BY <1>1, <1>2 DEF Due
<1>5. Loose(c) => Loose(c)'
  BY <1>1 DEF Loose
<1>6. Account(c)'
  BY <1>1, <1>4, <1>5, AccountMoves
<1> QED  BY <1>3, <1>6

LEMMA NextLineServed ==
  ASSUME CliInv, History, Flags, NEW c \in Clients, Mine(c), NextLine(c)
  PROVE  Content(c)' /\ Account(c)'
<1>1. /\ pc[c] = "ran"
      /\ UNCHANGED <<stage, pipe, eof, left, lock, skip_next_prompt, pinger, pings, typed, ran, prompts>>
  BY DEF NextLine, history
<1>2. stage[c] = "serve" /\ ServeContent("ran", st[c], pipe[c], typed[c], ran[c], left)
  BY <1>1, OfClient DEF Mine, Content, ContentOf, JunkContent, GreetContent
<1>3. left = 0 /\ Pending(typed[c], ran[c], pipe[c]) /\ LineContent(st[c])
  BY <1>2 DEF ServeContent
<1>4. pc'[c] = "prompt" /\ st'[c] = Shifted(st[c])
  BY <1>3 DEF NextLine, CliInv, CliTypes
<1>5. st'[c].buf = <<>> /\ st'[c].soff = 0
  <2>1. st[c] \in SearchState /\ Len(st[c].buf) \in Nat
    BY OfClient
  <2>2. Len(st[c].buf) - st[c].noff - 1 = 0
    BY <1>3, <2>1 DEF LineContent
  <2> QED  BY <1>4, <2>1, <2>2 DEF Shifted, SearchState
<1>6. Content(c)'
  <2>1. ServeContent("prompt", st'[c], pipe[c], typed[c], ran[c], left)
    BY <1>3, <1>5 DEF ServeContent, ShiftedContent
  <2> QED  BY <1>1, <1>2, <1>4, <2>1 DEF Content, ContentOf
<1>7. Due(pc'[c], stage'[c], skip_next_prompt') = Due(pc[c], stage[c], skip_next_prompt)
  BY <1>1, <1>2, <1>4 DEF Due
<1>8. Loose(c) => Loose(c)'
  BY <1>1 DEF Loose
<1>9. Account(c)'
  BY <1>1, <1>4, <1>7, <1>8, AccountMoves
<1> QED  BY <1>6, <1>9

LEMMA LeaveServed ==
  ASSUME CliInv, History, Flags, NEW c \in Clients, Mine(c), Leave(c)
  PROVE  Content(c)' /\ Account(c)'
<1>1. /\ pc[c] = "ran" /\ Handled(c, FALSE, st[c]) /\ (~doubt' => ~skip_next_prompt)
      /\ UNCHANGED <<pipe, eof, left, skip_next_prompt, pinger, pings, typed, ran, prompts>>
  BY DEF Leave
<1>2. stage[c] = "serve" /\ ServeContent("ran", st[c], pipe[c], typed[c], ran[c], left)
  BY <1>1, OfClient DEF Mine, Content, ContentOf, JunkContent, GreetContent
<1>3. pc'[c] = "dead" /\ stage'[c] = "serve"
  BY <1>1, <1>2 DEF Handled, CliInv, CliTypes
<1>4. /\ typed[c] \in Seq(Seq(STRING)) /\ ran[c] \in Seq(Seq(STRING)) /\ pipe[c] \in Seq(STRING)
      /\ prompts[c] \in Nat /\ pings[c] \in Nat
  BY MyTypes, OfClient
<1>5. IsPrefix(ran[c], typed[c]) /\ PromptsFor(ran[c]) \in Nat /\ PromptsFor(typed[c]) \in Nat
      /\ PromptsFor(typed[c]) >= PromptsFor(ran[c])
  <2>1. typed[c] = ran[c] \/ typed[c] = Append(ran[c], pipe[c])
    BY <1>2 DEF ServeContent, Pending
  <2> QED  BY <1>4, <2>1, PendingFacts
<1>6. Content(c)'
  <2>1. ServeContent("dead", st'[c], pipe[c], typed[c], ran[c], left)
    BY <1>5 DEF ServeContent
  <2> QED  BY <1>1, <1>3, <2>1 DEF Content, ContentOf
<1>7. Account(c)'
  <2> SUFFICES ASSUME ~eof[c]
               PROVE  AccountOf("dead", "serve", prompts[c] + pings[c], typed[c], ran[c],
                                skip_next_prompt, Loose(c)')
    BY <1>1, <1>3 DEF Account
  <2>1. AccountOf("ran", "serve", prompts[c] + pings[c], typed[c], ran[c],
                  skip_next_prompt, Loose(c))
    BY <1>1, <1>2, OwnAccount DEF Mine
  <2>2. ~skip_next_prompt
    BY <1>1 DEF Mine, Trusted
  <2>3. Due("ran", "serve", skip_next_prompt) = 1
    BY <2>2 DEF Due
  <2>4. prompts[c] + pings[c] + 1 <= 1 + PromptsFor(ran[c])
    BY <2>1, <2>3 DEF AccountOf
  <2>5. prompts[c] + pings[c] <= PromptsFor(typed[c])
    BY <1>4, <1>5, <2>4
  <2> QED  BY <2>5 DEF AccountOf
<1> QED  BY <1>6, <1>7

LEMMA PromptServed ==
  ASSUME CliInv, History, Flags, NEW c \in Clients, Mine(c), Prompt(c)
  PROVE  Content(c)' /\ Account(c)'
<1>1. /\ pc[c] = "prompt" /\ pc'[c] = "clear" /\ TestPrompt(c)
      /\ UNCHANGED <<stage, st, pipe, eof, left, lock, fd, skip_next_prompt, pinger, pings, typed, ran>>
  BY DEF Prompt, input, CliInv, CliTypes
<1>2. ~pinger
  BY DEF Prompt, Mine, Trusted
<1>3. lock = c /\ fd = c
  BY <1>1, HolderFocus DEF Holding
<1>4. stage[c] \in {"greet", "serve"}
  BY <1>1, OfClient DEF Mine, Content, ContentOf, JunkContent
<1>5. Content(c)'
  <2>1. ContentOf("prompt", stage[c], st[c], pipe[c], typed[c], ran[c], pings[c], left)
    BY <1>1 DEF Mine, Content
  <2>2. ContentOf("clear", stage[c], st[c], pipe[c], typed[c], ran[c], pings[c], left)
    BY <1>4, <2>1 DEF ContentOf, GreetContent, ServeContent
  <2> QED  BY <1>1, <2>2 DEF Content
<1>6. Account(c)'
  <2> SUFFICES ASSUME ~eof[c]
               PROVE  AccountOf("clear", stage[c], prompts'[c] + pings[c], typed[c], ran[c],
                                skip_next_prompt, Loose(c)')
    BY <1>1 DEF Account
  <2>1. AccountOf("prompt", stage[c], prompts[c] + pings[c], typed[c], ran[c],
                  skip_next_prompt, Loose(c))
    BY <1>1, OwnAccount DEF Mine
  <2>2. fd_alive /\ prompts \in [Clients -> Nat] /\ prompts[c] \in Nat /\ pings[c] \in Nat
    BY <1>1, <1>3, MyTypes DEF Flags, History
  <2>3. ~Loose(c)
    BY <1>2 DEF Loose
  <2>4. prompts[c] + pings[c] + Due("prompt", stage[c], skip_next_prompt) = 1 + PromptsFor(ran[c])
    BY <2>1, <2>3 DEF AccountOf
  <2>5. Due("clear", stage[c], skip_next_prompt) = 0
    BY <1>4 DEF Due
  <2>6. prompts'[c] = prompts[c] + Due("prompt", stage[c], skip_next_prompt)
    <3>1. CASE skip_next_prompt
      <4>1. stage[c] = "serve" /\ prompts' = prompts
        BY <1>1, <1>3, <3>1 DEF Flags, Mine, TestPrompt
      <4>2. Due("prompt", stage[c], skip_next_prompt) = 0
        BY <3>1, <4>1 DEF Due
      <4> QED  BY <2>2, <4>1, <4>2
    <3>2. CASE ~skip_next_prompt
      <4>1. PICK ok \in BOOLEAN :
              CanSend(ok) /\ prompts' = IF ok THEN [prompts EXCEPT ![fd] = @ + 1] ELSE prompts
        BY <1>1, <2>2, <3>2 DEF TestPrompt
      <4>2. ok \in {TRUE}
        BY <1>3, <4>1 DEF CanSend
      <4>3. prompts'[c] = prompts[c] + 1
        BY <1>3, <2>2, <4>1, <4>2
      <4>4. Due("prompt", stage[c], skip_next_prompt) = 1
        BY <1>4, <3>2 DEF Due
      <4> QED  BY <4>3, <4>4
    <3> QED  BY <3>1, <3>2
  <2>7. prompts'[c] + pings[c] + 0 = 1 + PromptsFor(ran[c])
    <3> DEFINE d == Due("prompt", stage[c], skip_next_prompt)
    <3>1. d \in {0, 1}
      BY DueType
    <3>2. prompts[c] + pings[c] + d = 1 + PromptsFor(ran[c]) /\ prompts'[c] = prompts[c] + d
      BY <2>4, <2>6
    <3> HIDE DEF d
    <3> QED  BY <2>2, <3>1, <3>2
  <2>8. prompts'[c] + pings[c] + 0 <= 1 + PromptsFor(ran[c])
    BY <2>7, MyTypes
  <2> QED  BY <2>5, <2>7, <2>8 DEF AccountOf
<1> QED  BY <1>5, <1>6

LEMMA UnlockServed ==
  ASSUME CliInv, History, Flags, NEW c \in Clients, Mine(c), Unlock(c)
  PROVE  Content(c)' /\ Account(c)'
<1>1. /\ pc[c] = "clear" /\ Handled(c, fd_alive, st[c]) /\ skip_next_prompt' = FALSE
      /\ UNCHANGED <<pipe, eof, left, fd_alive, pinger, pings, typed, ran, prompts>>
  BY DEF Unlock, focus, history
<1>2. lock = c
  BY <1>1, HolderFocus DEF Holding
<1>3. ~pinger
  <2>1. ~doubt /\ lock # None
    BY <1>2, BufferAssumption DEF Mine, Trusted
  <2> QED  BY <1>1, <1>2, <2>1 DEF Flags
<1>4. stage[c] \in {"greet", "serve"}
  BY <1>1, OfClient DEF Mine, Content, ContentOf, JunkContent
<1>5. /\ stage'[c] = "serve" /\ st'[c] = st[c]
      /\ pc'[c] = IF stage[c] = "greet" THEN "read" ELSE IF fd_alive THEN "alive" ELSE "dead"
  BY <1>1, <1>4 DEF Handled, CliInv, CliTypes
<1>6. st[c].buf = <<>> /\ st[c].soff = 0 /\ Pending(typed[c], ran[c], pipe[c])
  BY <1>1, <1>4 DEF Mine, Content, ContentOf, GreetContent, ServeContent, ShiftedContent
<1>7. /\ typed[c] \in Seq(Seq(STRING)) /\ ran[c] \in Seq(Seq(STRING)) /\ pipe[c] \in Seq(STRING)
  BY MyTypes, OfClient
<1>8. ReadContent(st[c], pipe[c], typed[c], ran[c])
  <2>1. <<>> \o pipe[c] = pipe[c]
    BY <1>7, ConcatEmptySeq
  <2>2. Clean(<<>>) /\ Len(<<>>) = 0
    BY DEF Clean
  <2> QED  BY <1>6, <2>1, <2>2 DEF ReadContent
<1>9. IsPrefix(ran[c], typed[c])
  <2>1. typed[c] = ran[c] \/ typed[c] = Append(ran[c], pipe[c])
    BY <1>6 DEF Pending
  <2> QED  BY <1>7, <2>1, PendingFacts
<1>10. Content(c)'
  <2>1. ServeContent(pc'[c], st[c], pipe[c], typed[c], ran[c], left)
    BY <1>5, <1>8, <1>9 DEF ServeContent
  <2> QED  BY <1>1, <1>5, <2>1 DEF Content, ContentOf
<1>11. CASE ~eof[c]
  <2>1. fd_alive
    BY <1>1, <1>2, <1>11 DEF Flags
  <2>2. pc'[c] \in {"read", "alive"}
    BY <1>5, <2>1
  <2>3. Due(pc'[c], stage'[c], skip_next_prompt') = Due(pc[c], stage[c], skip_next_prompt)
    BY <1>1, <1>4, <1>5, <2>2 DEF Due
  <2>4. Loose(c) => Loose(c)'
    BY <1>3 DEF Loose
  <2>5. Account(c)'
    BY <1>1, <2>2, <2>3, <2>4, AccountMoves
  <2> QED  BY <1>10, <2>5
<1>12. CASE eof[c]
  <2>1. Account(c)'
    BY <1>1, <1>12 DEF Account
  <2> QED  BY <1>10, <2>1
<1> QED  BY <1>11, <1>12

LEMMA ReceivedMeans ==
  ASSUME NEW c \in Clients, NEW s \in SearchState, Len(s.buf) <= s.cap, CliTypes, Received(c, s)
  PROVE  /\ Clean(s.buf) /\ stage[c] = "junk" =>
              /\ pc'[c] = "lock" /\ stage'[c] = "greet"
              /\ st'[c].buf = <<>> /\ st'[c].soff = 0
         /\ Clean(s.buf) /\ stage[c] = "serve" =>
              /\ pc'[c] \in {"alive", "dead"} /\ stage'[c] = "serve"
              /\ st'[c].buf = s.buf /\ st'[c].soff = Len(s.buf)
         /\ Line(s.buf) /\ s.soff < Len(s.buf) /\ stage[c] = "serve" =>
              /\ pc'[c] \in {"lock", "dead"} /\ stage'[c] = "serve"
              /\ st'[c].buf = s.buf /\ st'[c].noff = Len(s.buf) - 1
<1> DEFINE t == Terminated(Search(s))
<1>1. t \in SearchState /\ t.buf = s.buf /\ t.soff = Search(s).soff /\ t.noff = Search(s).noff
  <2>1. Search(s) \in SearchState /\ Search(s).buf = s.buf /\ Search(s).cap = s.cap
    BY SearchKeeps
  <2> QED  BY <2>1, GrowFits DEF Terminated
<1>2. IF Full(s) \/ ~Found(s) THEN Handled(c, ~Full(s), t)
      ELSE pc' = [pc EXCEPT ![c] = "lock"] /\ st' = [st EXCEPT ![c] = t] /\ UNCHANGED stage
  BY DEF Received
<1>3. /\ pc \in [Clients -> PCs] /\ stage \in [Clients -> {"junk", "greet", "serve"}]
      /\ st \in [Clients -> SearchState]
  BY DEF CliTypes
<1> HIDE DEF t
<1>4. ASSUME Clean(s.buf), stage[c] = "junk"
      PROVE  /\ pc'[c] = "lock" /\ stage'[c] = "greet"
             /\ st'[c].buf = <<>> /\ st'[c].soff = 0
  <2>1. Handled(c, ~Full(s), t)
    BY <1>2, <1>4, SearchClean
  <2> DEFINE r == [t EXCEPT !.buf = <<>>, !.soff = 0, !.noff = 0]
  <2>2. r.buf = <<>> /\ r.soff = 0
    BY <1>1 DEF SearchState
  <2> HIDE DEF r
  <2>3. /\ stage' = [stage EXCEPT ![c] = "greet"] /\ pc' = [pc EXCEPT ![c] = "lock"]
        /\ st' = [st EXCEPT ![c] = r]
    BY <1>4, <2>1 DEF Handled, r
  <2> QED  BY <1>3, <2>2, <2>3
<1>5. ASSUME Clean(s.buf), stage[c] = "serve"
      PROVE  /\ pc'[c] \in {"alive", "dead"} /\ stage'[c] = "serve"
             /\ st'[c].buf = s.buf /\ st'[c].soff = Len(s.buf)
  <2>1. Handled(c, ~Full(s), t) /\ t.soff = Len(s.buf)
    BY <1>1, <1>2, <1>5, SearchClean
  <2> QED  BY <1>1, <1>3, <1>5, <2>1 DEF Handled
<1>6. ASSUME Line(s.buf), s.soff < Len(s.buf), stage[c] = "serve"
      PROVE  /\ pc'[c] \in {"lock", "dead"} /\ stage'[c] = "serve"
             /\ st'[c].buf = s.buf /\ st'[c].noff = Len(s.buf) - 1
  <2>1. Found(s) /\ t.noff = Len(s.buf) - 1
    BY <1>1, <1>6, SearchLine
  <2>2. CASE Full(s)
    <3>1. Handled(c, FALSE, t)
      BY <1>2, <2>2
    <3> QED  BY <1>1, <1>3, <1>6, <2>1, <3>1 DEF Handled
  <2>3. CASE ~Full(s)
    BY <1>1, <1>2, <1>3, <1>6, <2>1, <2>3
  <2> QED  BY <2>2, <2>3
<1> QED  BY <1>4, <1>5, <1>6

LEMMA ReadMeans ==
  ASSUME CliInv, NEW c \in Clients, Read(c)
  PROVE  \E n \in 1 .. Len(pipe[c]), u \in SearchState :
           /\ u.buf = st[c].buf \o SubSeq(pipe[c], 1, n) /\ u.soff = st[c].soff
           /\ Len(u.buf) <= u.cap
           /\ pipe'[c] = SubSeq(pipe[c], n + 1, Len(pipe[c]))
           /\ Received(c, u)
<1> DEFINE s == search_state_grow_if_full(st[c])
<1>1. PICK n \in 1 .. Len(pipe[c]) :
        /\ n <= s.cap - Len(s.buf)
        /\ pipe' = [pipe EXCEPT ![c] = SubSeq(@, n + 1, Len(@))]
        /\ Received(c, [s EXCEPT !.buf = @ \o SubSeq(pipe[c], 1, n)])
  BY DEF Read
<1>2. s \in SearchState /\ s.buf = st[c].buf /\ s.soff = st[c].soff
  BY OfClient, GrowFits
<1> HIDE DEF s
<1> DEFINE b == s.buf \o SubSeq(pipe[c], 1, n)
           u == [s EXCEPT !.buf = b]
<1>3. pipe[c] \in Seq(STRING) /\ Len(pipe[c]) \in Nat /\ n \in Nat
  BY OfClient
<1>4. SubSeq(pipe[c], 1, n) \in Seq(STRING) /\ Len(SubSeq(pipe[c], 1, n)) = n
  BY <1>3, SubSeqProperties
<1>5. s.buf \in Seq(STRING) /\ s.cap \in Int /\ Len(s.buf) \in Nat
  BY <1>2 DEF SearchState
<1>6. b \in Seq(STRING) /\ Len(b) = Len(s.buf) + n
  BY <1>4, <1>5
<1>7. u \in SearchState /\ u.buf = b /\ u.cap = s.cap /\ u.soff = s.soff
  BY <1>2, <1>6, SetBuf
<1>8. Len(b) <= s.cap
  BY <1>1, <1>3, <1>5, <1>6
<1>9. Received(c, u)
  BY <1>1
<1>10. pipe'[c] = SubSeq(pipe[c], n + 1, Len(pipe[c]))
  BY <1>1 DEF CliInv, CliTypes
<1>11. b = st[c].buf \o SubSeq(pipe[c], 1, n)
  BY <1>2
<1> HIDE DEF u, b
<1> QED  BY <1>2, <1>7, <1>8, <1>9, <1>10, <1>11

\* A thread that reads does not hold the lock.
LEMMA ReadFrame ==
  ASSUME CliInv, NEW c \in Clients, ReadLeftover(c) \/ Read(c) \/ ReadEof(c)
  PROVE  /\ pc[c] = "read" /\ lock # c /\ ~Loose(c)
         /\ UNCHANGED <<eof, left, lock, skip_next_prompt, pinger, pings, typed, ran, prompts>>
<1>1. pc[c] = "read"
  BY DEF ReadLeftover, Read, ReadEof
<1>2. lock # c
  BY <1>1, OfClient DEF Holding
<1>3. UNCHANGED <<eof, left, lock, skip_next_prompt, pinger, pings, typed, ran, prompts>>
  BY DEF ReadLeftover, Read, ReadEof, Unread, history
<1> QED  BY <1>1, <1>2, <1>3 DEF Loose

LEMMA ReadStages ==
  ASSUME CliInv, NEW c \in Clients, Content(c), pc[c] = "read"
  PROVE  /\ stage[c] \in {"junk", "serve"} /\ Clean(st[c].buf) /\ ~Found(st[c])
         /\ stage[c] = "junk" => JunkContent("read", st[c], pipe[c], typed[c], ran[c], pings[c])
         /\ stage[c] = "serve" => ReadContent(st[c], pipe[c], typed[c], ran[c])
<1>1. stage[c] \in {"junk", "serve"}
  BY OfClient DEF Content, ContentOf, GreetContent
<1>2. stage[c] = "junk" => JunkContent("read", st[c], pipe[c], typed[c], ran[c], pings[c])
  BY DEF Content, ContentOf
<1>3. stage[c] = "serve" => ReadContent(st[c], pipe[c], typed[c], ran[c])
  BY DEF Content, ContentOf, ServeContent
<1>4. Clean(<<>>)
  BY DEF Clean
<1>5. Clean(st[c].buf)
  BY <1>1, <1>2, <1>3, <1>4 DEF JunkContent, ReadContent
<1>6. ~Found(st[c])
  BY <1>5, OfClient, SearchClean
<1> QED  BY <1>1, <1>2, <1>3, <1>5, <1>6

\* The first request is forgotten: the client has sent nothing that counts.
LEMMA JunkServed ==
  ASSUME CliInv, History, NEW c \in Clients, Mine(c), Read(c) \/ ReadEof(c), stage[c] = "junk",
         pc'[c] = "lock", stage'[c] = "greet", st'[c].buf = <<>>, st'[c].soff = 0, pipe'[c] = <<>>
  PROVE  Content(c)' /\ Account(c)'
<1>1. /\ pc[c] = "read" /\ ~Loose(c)
      /\ UNCHANGED <<eof, left, lock, skip_next_prompt, pinger, pings, typed, ran, prompts>>
  BY ReadFrame
<1>2. typed[c] = <<>> /\ ran[c] = <<>> /\ pings[c] = 0
  BY <1>1, ReadStages DEF Mine, JunkContent
<1>3. Content(c)'
  BY <1>1, <1>2 DEF Content, ContentOf, GreetContent, Pending
<1>4. Due(pc'[c], stage'[c], skip_next_prompt') = Due(pc[c], stage[c], skip_next_prompt)
  BY DEF Due
<1>5. Account(c)'
  BY <1>1, <1>4, AccountMoves
<1> QED  BY <1>3, <1>5

LEMMA ReadEofServed ==
  ASSUME CliInv, History, NEW c \in Clients, Mine(c), ReadEof(c)
  PROVE  Content(c)' /\ Account(c)'
<1>1. /\ Handled(c, FALSE, st[c]) /\ UNCHANGED pipe /\ pipe[c] = <<>> /\ eof[c]
  BY DEF ReadEof
<1>2. /\ pc[c] = "read"
      /\ UNCHANGED <<eof, left, lock, skip_next_prompt, pinger, pings, typed, ran, prompts>>
  BY ReadFrame
<1>3. stage[c] \in {"junk", "serve"}
      /\ (stage[c] = "serve" => ReadContent(st[c], pipe[c], typed[c], ran[c]))
  BY <1>2, ReadStages DEF Mine
<1>4. /\ pc \in [Clients -> PCs] /\ stage \in [Clients -> {"junk", "greet", "serve"}]
      /\ st \in [Clients -> SearchState] /\ st[c] \in SearchState
  BY DEF CliInv, CliTypes
<1>5. CASE stage[c] = "junk"
  <2> DEFINE r == [st[c] EXCEPT !.buf = <<>>, !.soff = 0, !.noff = 0]
  <2>1. r.buf = <<>> /\ r.soff = 0
    BY <1>4 DEF SearchState
  <2> HIDE DEF r
  <2>2. /\ stage' = [stage EXCEPT ![c] = "greet"] /\ pc' = [pc EXCEPT ![c] = "lock"]
        /\ st' = [st EXCEPT ![c] = r]
    BY <1>1, <1>5 DEF Handled, r
  <2>3. pc'[c] = "lock" /\ stage'[c] = "greet" /\ st'[c].buf = <<>> /\ st'[c].soff = 0
    BY <1>4, <2>1, <2>2
  <2> QED  BY <1>1, <1>5, <2>3, JunkServed
<1>6. CASE stage[c] = "serve"
  <2>1. pc'[c] = "dead" /\ stage'[c] = "serve"
    BY <1>1, <1>4, <1>6 DEF Handled
  <2>2. /\ typed[c] \in Seq(Seq(STRING)) /\ ran[c] \in Seq(Seq(STRING))
        /\ st[c].buf \o pipe[c] \in Seq(STRING)
    BY MyTypes, OfClient
  <2>3. typed[c] = ran[c] \/ typed[c] = Append(ran[c], st[c].buf \o pipe[c])
    BY <1>3, <1>6 DEF ReadContent, Pending
  <2>4. IsPrefix(ran[c], typed[c])
    BY <2>2, <2>3, PendingFacts
  <2>5. ServeContent("dead", st'[c], pipe'[c], typed[c], ran[c], left)
    BY <2>4 DEF ServeContent
  <2>6. Content(c)'
    BY <1>2, <2>1, <2>5 DEF Content, ContentOf
  <2>7. Account(c)'
    BY <1>1, <1>2 DEF Account
  <2> QED  BY <2>6, <2>7
<1> QED  BY <1>3, <1>5, <1>6

\* A line comes in parts: the last one takes it to the parser.
LEMMA ReadServed ==
  ASSUME CliInv, History, NEW c \in Clients, Mine(c), Read(c)
  PROVE  Content(c)' /\ Account(c)'
<1>1. PICK n \in 1 .. Len(pipe[c]), u \in SearchState :
        /\ u.buf = st[c].buf \o SubSeq(pipe[c], 1, n) /\ u.soff = st[c].soff
        /\ Len(u.buf) <= u.cap
        /\ pipe'[c] = SubSeq(pipe[c], n + 1, Len(pipe[c]))
        /\ Received(c, u)
  BY ReadMeans
<1>2. /\ pc[c] = "read" /\ ~Loose(c)
      /\ UNCHANGED <<eof, left, lock, skip_next_prompt, pinger, pings, typed, ran, prompts>>
  BY ReadFrame
<1>3. /\ stage[c] \in {"junk", "serve"}
      /\ stage[c] = "junk" => JunkContent("read", st[c], pipe[c], typed[c], ran[c], pings[c])
      /\ stage[c] = "serve" => ReadContent(st[c], pipe[c], typed[c], ran[c])
  BY <1>2, ReadStages DEF Mine
<1>4. /\ typed[c] \in Seq(Seq(STRING)) /\ ran[c] \in Seq(Seq(STRING))
      /\ st[c].buf \in Seq(STRING) /\ pipe[c] \in Seq(STRING) /\ Len(pipe[c]) \in Nat
      /\ Len(st[c].buf) \in Nat /\ st[c].buf \o pipe[c] \in Seq(STRING) /\ st[c].soff \in Nat
  BY MyTypes, OfClient DEF SearchState
<1>5. CliTypes
  BY DEF CliInv
<1>6. CASE stage[c] = "junk"
  <2>1. st[c].buf = <<>> /\ Len(pipe[c]) <= 1 /\ Clean(pipe[c])
    BY <1>3, <1>6 DEF JunkContent
  <2>2. n = Len(pipe[c])
    BY <1>4, <2>1
  <2>3. SubSeq(pipe[c], 1, n) = pipe[c] /\ SubSeq(pipe[c], n + 1, Len(pipe[c])) = <<>>
    BY <1>4, <2>2
  <2>4. u.buf = pipe[c]
    BY <1>1, <1>4, <2>1, <2>3, ConcatEmptySeq
  <2>5. pc'[c] = "lock" /\ stage'[c] = "greet" /\ st'[c].buf = <<>> /\ st'[c].soff = 0
    BY <1>1, <1>5, <1>6, <2>1, <2>4, ReceivedMeans
  <2> QED  BY <1>1, <1>6, <2>3, <2>5, JunkServed
<1>7. CASE stage[c] = "serve"
  <2> DEFINE b == st[c].buf
             w == pipe[c]
             l == b \o w
  <2>1. b \in Seq(STRING) /\ w \in Seq(STRING) /\ l \in Seq(STRING) /\ n \in 1 .. Len(w)
        /\ Len(b) \in Nat /\ Len(w) \in Nat
    BY <1>4
  <2>2. Pending(typed[c], ran[c], l) /\ st[c].soff <= Len(b)
    BY <1>3, <1>7 DEF ReadContent
  <2>3. typed[c] = Append(ran[c], l) /\ Line(l)
    <3>1. l # <<>>
      <4>1. w # <<>>
        BY <2>1
      <4> QED  BY <2>1, <4>1, ConcatEqualIffEmpty
    <3> QED  BY <2>2, <3>1 DEF Pending
  <2>4. u.buf = b \o SubSeq(w, 1, n) /\ pipe'[c] = SubSeq(w, n + 1, Len(w))
    BY <1>1
  <2> HIDE DEF b, w
  <2>5. /\ u.buf \in Seq(STRING) /\ Len(b) < Len(u.buf) /\ u.buf \o pipe'[c] = l
        /\ n = Len(w) => u.buf = l /\ pipe'[c] = <<>>
        /\ n # Len(w) => Clean(u.buf)
    <3> DEFINE x == b \o SubSeq(w, 1, n)
               y == SubSeq(w, n + 1, Len(w))
    <3>1. Line(b \o w)
      BY <2>3
    <3>2. /\ x \in Seq(STRING) /\ Len(b) < Len(x) /\ x \o y = b \o w
          /\ n = Len(w) => x = b \o w /\ y = <<>>
          /\ n # Len(w) => Clean(x)
      BY <2>1, <3>1, LineRead
    <3>3. x = u.buf /\ y = pipe'[c] /\ l = b \o w
      BY <2>4
    <3> HIDE DEF x, y, l
    <3> QED  BY <3>2, <3>3
  <2> HIDE DEF l
  <2>6. u.soff < Len(u.buf) /\ Len(u.buf) \in Nat
    <3>1. u.soff = st[c].soff /\ st[c].soff \in Nat /\ st[c].soff <= Len(b)
      BY <1>1, <1>4, <2>2
    <3>2. Len(u.buf) \in Nat /\ Len(b) \in Nat /\ Len(b) < Len(u.buf)
      BY <2>1, <2>5
    <3> QED  BY <3>1, <3>2
  <2>7. IsPrefix(ran[c], typed[c]) /\ PromptsFor(typed[c]) = PromptsFor(ran[c]) + Owed(l)
        /\ PromptsFor(ran[c]) \in Nat /\ Owed(l) \in Nat /\ Owed(l) >= 1
    BY <1>4, <2>1, <2>3, PendingFacts, OwedType
  <2>8. stage'[c] = "serve" /\ pc'[c] \in {"lock", "alive", "dead"}
        /\ (pc'[c] = "lock" => n = Len(w) /\ st'[c].buf = u.buf /\ st'[c].noff = Len(u.buf) - 1)
        /\ (pc'[c] = "alive" => n # Len(w) /\ st'[c].buf = u.buf /\ st'[c].soff = Len(u.buf))
    <3>1. CASE n = Len(w)
      <4>1. Line(u.buf)
        BY <2>3, <2>5, <3>1
      <4>2. /\ pc'[c] \in {"lock", "dead"} /\ stage'[c] = "serve"
            /\ st'[c].buf = u.buf /\ st'[c].noff = Len(u.buf) - 1
        BY <1>1, <1>5, <1>7, <2>6, <4>1, ReceivedMeans
      <4> QED  BY <3>1, <4>2
    <3>2. CASE n # Len(w)
      <4>1. /\ pc'[c] \in {"alive", "dead"} /\ stage'[c] = "serve"
            /\ st'[c].buf = u.buf /\ st'[c].soff = Len(u.buf)
        BY <1>1, <1>5, <1>7, <2>5, <3>2, ReceivedMeans
      <4> QED  BY <3>2, <4>1
    <3> QED  BY <3>1, <3>2
  <2>9. CASE pc'[c] = "dead"
    <3>1. ServeContent("dead", st'[c], pipe'[c], typed[c], ran[c], left)
      BY <2>7 DEF ServeContent
    <3>2. Content(c)'
      BY <1>2, <2>8, <2>9, <3>1 DEF Content, ContentOf
    <3>3. Account(c)'
      <4> SUFFICES ASSUME ~eof[c]
                   PROVE  AccountOf("dead", "serve", prompts[c] + pings[c], typed[c], ran[c],
                                    skip_next_prompt, Loose(c)')
        BY <1>2, <2>8, <2>9 DEF Account
      <4>1. AccountOf("read", "serve", prompts[c] + pings[c], typed[c], ran[c],
                      skip_next_prompt, Loose(c))
        BY <1>2, <1>7, OwnAccount DEF Mine
      <4>2. Due("read", "serve", skip_next_prompt) = 0
        BY DEF Due
      <4>3. prompts[c] + pings[c] + 0 <= 1 + PromptsFor(ran[c])
        BY <4>1, <4>2 DEF AccountOf
      <4>4. prompts[c] + pings[c] <= PromptsFor(typed[c])
        BY <2>7, <4>3, MyTypes
      <4> QED  BY <4>4 DEF AccountOf
    <3> QED  BY <3>2, <3>3
  <2>10. CASE pc'[c] # "dead"
    <3>1. ServeContent(pc'[c], st'[c], pipe'[c], typed[c], ran[c], left)
      <4>1. CASE pc'[c] = "lock"
        <5>1. st'[c].buf = l /\ pipe'[c] = <<>> /\ st'[c].noff = Len(st'[c].buf) - 1
          BY <2>5, <2>8, <4>1
        <5> QED  BY <2>3, <4>1, <5>1 DEF ServeContent, LineContent
      <4>2. CASE pc'[c] = "alive"
        <5>1. ReadContent(st'[c], pipe'[c], typed[c], ran[c])
          <6>1. st'[c].buf = u.buf /\ st'[c].soff = Len(u.buf) /\ Clean(u.buf)
            BY <2>5, <2>8, <4>2
          <6>2. Pending(typed[c], ran[c], u.buf \o pipe'[c])
            BY <2>3, <2>5 DEF Pending
          <6> QED  BY <2>6, <6>1, <6>2 DEF ReadContent
        <5> QED  BY <4>2, <5>1 DEF ServeContent
      <4> QED  BY <2>8, <2>10, <4>1, <4>2
    <3>2. Content(c)'
      BY <1>2, <2>8, <3>1 DEF Content, ContentOf
    <3>3. Due(pc'[c], stage'[c], skip_next_prompt') = Due(pc[c], stage[c], skip_next_prompt)
      BY <1>2, <1>7, <2>8, <2>10 DEF Due
    <3>4. pc'[c] \notin {"dead", "gone"}
      BY <2>8, <2>10
    <3>5. Account(c)'
      BY <1>2, <3>3, <3>4, AccountMoves
    <3> QED  BY <3>2, <3>5
  <2> QED  BY <2>9, <2>10
<1> QED  BY <1>3, <1>6, <1>7

\* The ping thread gives its client the prompt, or skips it with the one of
\* the command that is at work for the same client.
LEMMA FeedbackServed ==
  ASSUME CliInv, History, Flags, NEW c \in Clients, Mine(c), Feedback(c)
  PROVE  Content(c)' /\ Account(c)'
<1>0. /\ prompts \in [Clients -> Nat] /\ pings \in [Clients -> Nat]
      /\ prompts[c] \in Nat /\ pings[c] \in Nat
      /\ PromptsFor(typed[c]) \in Nat /\ PromptsFor(ran[c]) \in Nat
  BY MyTypes DEF CliInv, CliTypes, History
<1>1. /\ ~pinger /\ pinger' /\ pings[c] > 0 /\ TestPrompt(c)
      /\ UNCHANGED <<pc, stage, st, pipe, eof, left, lock, skip_next_prompt, typed, ran>>
  BY DEF Feedback, input
<1>2. pings'[c] = pings[c] - 1
  BY <1>0 DEF Feedback
<1>3. ~doubt /\ fd = c /\ fd_alive
  BY DEF Feedback, Mine, Trusted
<1>4. stage[c] = "serve"
  BY <1>1, OfClient DEF Mine, Content, ContentOf, JunkContent, GreetContent
<1>5. Content(c)'
  <2>1. ServeContent(pc[c], st[c], pipe[c], typed[c], ran[c], left)
    BY <1>4 DEF Mine, Content, ContentOf
  <2> QED  BY <1>1, <1>4, <2>1 DEF Content, ContentOf
<1>6. Account(c)'
  <2> DEFINE m == prompts[c] + pings[c]
             k == prompts'[c] + pings'[c]
             d == Due(pc[c], stage[c], skip_next_prompt)
             x == PromptsFor(ran[c])
             y == PromptsFor(typed[c])
  <2> SUFFICES ASSUME ~eof[c]
               PROVE  AccountOf(pc[c], stage[c], k, typed[c], ran[c], skip_next_prompt, Loose(c)')
    BY <1>1 DEF Account
  <2>0. m \in Nat /\ x \in Nat /\ y \in Nat /\ d \in {0, 1}
    BY <1>0, DueType
  <2>1. /\ pc[c] \notin {"dead", "gone"} => m + d = 1 + x
        /\ pc[c] = "dead" => m <= y
    <3>1. AccountOf(pc[c], stage[c], m, typed[c], ran[c], skip_next_prompt, Loose(c))
      BY OwnAccount DEF Mine
    <3>2. ~Loose(c)
      BY <1>1 DEF Loose
    <3> QED  BY <3>1, <3>2 DEF AccountOf
  <2>2. CASE skip_next_prompt
    <3>1. prompts' = prompts
      BY <1>1, <2>2 DEF TestPrompt
    <3>2. lock = c
      BY <1>3, <2>2 DEF Flags
    <3>3. Loose(c)'
      BY <1>1, <2>2, <3>2 DEF Loose
    <3>4. k = m - 1
      BY <1>0, <1>2, <3>1
    <3> HIDE DEF m, k, d, x, y
    <3>5. /\ pc[c] \notin {"dead", "gone"} => k + d <= 1 + x
          /\ pc[c] = "dead" => k <= y
      BY <2>0, <2>1, <3>4
    <3> QED  BY <3>3, <3>5 DEF AccountOf, d, x, y
  <2>3. CASE ~skip_next_prompt
    <3>1. PICK ok \in BOOLEAN :
            CanSend(ok) /\ prompts' = IF ok THEN [prompts EXCEPT ![fd] = @ + 1] ELSE prompts
      BY <1>1, <1>3, <2>3 DEF TestPrompt
    <3>2. ok \in {TRUE}
      BY <1>3, <3>1 DEF CanSend
    <3>3. prompts'[c] = prompts[c] + 1
      BY <1>0, <1>3, <3>1, <3>2
    <3>4. k = m
      BY <1>0, <1>2, <3>3
    <3> HIDE DEF m, k, d, x, y
    <3>5. /\ pc[c] \notin {"dead", "gone"} => k + d <= 1 + x /\ k + d = 1 + x
          /\ pc[c] = "dead" => k <= y
      BY <2>0, <2>1, <3>4
    <3> QED  BY <3>5 DEF AccountOf, d, x, y
  <2> QED  BY <2>2, <2>3
<1> QED  BY <1>5, <1>6

\* The answer to another client's ping.
LEMMA OtherFeedback ==
  ASSUME CliInv, History, Flags, NEW d \in Clients, NEW c \in Clients, c # d, Trusted(c)',
         Feedback(d)
  PROVE  Aside(c)
<1>1. fd = d
  BY DEF Feedback, Trusted
<1>2. lock # c /\ lock' # c
  BY <1>1, BufferAssumption DEF Flags, Feedback
<1>3. prompts'[c] = prompts[c]
  BY <1>1 DEF Feedback, TestPrompt, History
<1>4. pings'[c] = pings[c]
  BY DEF Feedback, CliInv, CliTypes
<1> QED  BY <1>2, <1>3, <1>4 DEF Feedback, Aside, Same, input

LEMMA FeedbackEndsServed ==
  ASSUME CliInv, History, NEW c \in Clients, Mine(c), FeedbackEnds
  PROVE  Content(c)' /\ Account(c)'
<1>1. /\ pinger /\ ~pinger' /\ ~skip_next_prompt' /\ ~skip_next_prompt
      /\ UNCHANGED <<pc, stage, st, pipe, eof, left, lock, pings, typed, ran, prompts>>
  BY DEF FeedbackEnds, input, Mine, Trusted
<1>2. Content(c)'
  BY <1>1 DEF Mine, Content
<1>3. ~Loose(c) /\ ~Loose(c)'
  BY <1>1 DEF Loose
<1>4. Due(pc'[c], stage'[c], skip_next_prompt') = Due(pc[c], stage[c], skip_next_prompt)
  BY <1>1 DEF Due
<1>5. Account(c)'
  <2>1. CASE pc[c] \notin {"dead", "gone"}
    BY <1>1, <1>3, <1>4, <2>1, AccountMoves
  <2>2. CASE pc[c] \in {"dead", "gone"}
    <3> SUFFICES ASSUME ~eof[c]
                 PROVE  AccountOf(pc[c], stage[c], prompts[c] + pings[c], typed[c], ran[c],
                                  skip_next_prompt', Loose(c)')
      BY <1>1 DEF Account
    <3>1. AccountOf(pc[c], stage[c], prompts[c] + pings[c], typed[c], ran[c],
                    skip_next_prompt, Loose(c))
      BY OwnAccount DEF Mine
    <3> QED  BY <2>2, <3>1 DEF AccountOf
  <2> QED  BY <2>1, <2>2
<1> QED  BY <1>2, <1>5

-----------------------------------------------------------------------------
(* Together.                                                               *)

\* What is trusted after a step was trusted before.
LEMMA TrustedBefore ==
  ASSUME CliNext, NEW c \in Clients, Trusted(c)'
  PROVE  Trusted(c)
<1>1. CASE Listen
  BY <1>1 DEF Listen, history, Trusted
<1>2. ASSUME NEW d \in Clients, Types(d) PROVE Trusted(c)
  <2>1. PICK line : Type(d, line)
    BY <1>2 DEF Types
  <2>2. doubt' = doubt /\ ahead \subseteq ahead'
    BY <2>1 DEF Type
  <2> QED  BY <2>2 DEF Trusted
<1>3. ASSUME NEW d \in Clients, Accept(d) \/ Hangup(d) PROVE Trusted(c)
  BY <1>3 DEF Accept, Hangup, history, Trusted
<1>4. ASSUME NEW d \in Clients, Serve(d) PROVE Trusted(c)
  <2>1. CASE ReadLeftover(d) \/ Read(d) \/ ReadEof(d)
    <3>1. doubt' = doubt /\ ahead' = ahead
      BY <2>1 DEF ReadLeftover, Read, ReadEof, Unread, history
    <3> QED  BY <3>1 DEF Trusted
  <2>2. CASE Lock(d) \/ SkipPrompt(d) \/ Raise(d) \/ NextLine(d) \/ Unlock(d) \/ Check(d)
    BY <2>2 DEF Lock, SkipPrompt, Raise, NextLine, Unlock, Check, history, Trusted
  <2>3. CASE Show(d) \/ SetVerbose(d) \/ Exit(d) \/ Ping(d) \/ Shutdown(d)
    BY <2>3 DEF Show, SetVerbose, Exit, Ping, Shutdown, Trusted
  <2>4. CASE Leave(d) \/ Prompt(d)
    BY <2>4 DEF Leave, Prompt, Trusted
  <2> QED  BY <1>4, <2>1, <2>2, <2>3, <2>4 DEF Serve
<1>5. ASSUME NEW d \in Clients, Feedback(d) PROVE Trusted(c)
  BY <1>5 DEF Feedback, Trusted
<1>6. CASE FeedbackEnds
  BY <1>6 DEF FeedbackEnds, Trusted
<1> QED  BY <1>1, <1>2, <1>3, <1>4, <1>5, <1>6 DEF CliNext

LEMMA ServedKeeps ==
  ASSUME CliInv, History, Flags, Served, CliNext
  PROVE  Served'
<1> SUFFICES ASSUME NEW c \in Clients, Trusted(c)'
             PROVE  Content(c)' /\ Account(c)'
  BY DEF Served
<1>1. Mine(c)
  BY TrustedBefore DEF Mine, Served
<1>2. Content(c) /\ Account(c)
  BY <1>1 DEF Mine
<1>3. CASE Listen
  <2>1. Aside(c)
    BY <1>3 DEF Listen, Aside, Same, input, history
  <2> QED  BY <1>2, <2>1, AsideKeeps
<1>4. ASSUME NEW d \in Clients, d # c, Accept(d) \/ Types(d) \/ Hangup(d) \/ Serve(d)
      PROVE  Content(c)' /\ Account(c)'
  BY <1>2, <1>4, OthersAside, AsideKeeps
<1>5. ASSUME NEW d \in Clients, d # c, Feedback(d) PROVE Content(c)' /\ Account(c)'
  BY <1>2, <1>5, OtherFeedback, AsideKeeps
<1>6. CASE FeedbackEnds
  BY <1>1, <1>6, FeedbackEndsServed
<1>7. CASE Accept(c) \/ Types(c) \/ Hangup(c) \/ Feedback(c)
  BY <1>1, <1>7, AcceptServed, TypeServed, HangupServed, FeedbackServed
<1>8. CASE Serve(c)
  <2>1. ~ReadLeftover(c)
    BY <1>2, ReadStages DEF ReadLeftover
  <2>2. CASE Read(c) \/ ReadEof(c) \/ Lock(c) \/ Check(c)
    BY <1>1, <2>2, ReadServed, ReadEofServed, LockServed, CheckServed
  <2>3. CASE Show(c) \/ SetVerbose(c) \/ Exit(c) \/ Ping(c) \/ Shutdown(c) \/ SkipPrompt(c)
    BY <1>1, <2>3, RunServed, SkipPromptServed
  <2>4. CASE Leave(c) \/ NextLine(c) \/ Prompt(c) \/ Unlock(c)
    BY <1>1, <2>4, LeaveServed, NextLineServed, PromptServed, UnlockServed
  <2>5. CASE Raise(c)
    <3>1. Aside(c)
      BY <2>5 DEF Raise, Aside, Same, input, history
    <3> QED  BY <1>2, <3>1, AsideKeeps
  <2> QED  BY <1>8, <2>1, <2>2, <2>3, <2>4, <2>5 DEF Serve
<1> QED  BY <1>3, <1>4, <1>5, <1>6, <1>7, <1>8 DEF CliNext

LEMMA InitServed ==
  ASSUME CliInit PROVE ServedInv
<1>1. History
  <2>1. \A c \in Clients : ~IsVerbose(ran[c])
    BY DEF CliInit, IsVerbose
  <2>2. /\ eof \in [Clients -> BOOLEAN] /\ verbose \in [Clients -> BOOLEAN]
        /\ prompts \in [Clients -> Nat]
    BY DEF CliInit
  <2>3. typed \in [Clients -> Seq(Seq(STRING))] /\ ran \in [Clients -> Seq(Seq(STRING))]
    BY DEF CliInit
  <2>4. heard \in [Clients -> SUBSET Clients] /\ \A c \in Clients : heard[c] \subseteq {c}
    BY DEF CliInit
  <2>5. \A c \in Clients : verbose[c] = FALSE
    BY DEF CliInit
  <2> QED  BY <2>1, <2>2, <2>3, <2>4, <2>5 DEF History
<1>2. Flags
  BY BufferAssumption DEF CliInit, Flags
<1>3. ASSUME NEW c \in Clients PROVE Content(c) /\ Account(c)
  <2>1. /\ pc[c] = "none" /\ stage[c] = "junk" /\ st[c] = search_state_init /\ pipe[c] = <<>>
        /\ typed[c] = <<>> /\ ran[c] = <<>> /\ prompts[c] = 0 /\ pings[c] = 0 /\ ~pinger
    BY DEF CliInit
  <2>2. Clean(<<>>) /\ Len(<<>>) = 0
    BY DEF Clean
  <2>3. st[c].buf = <<>> /\ st[c].soff = 0
    BY <2>1 DEF search_state_init
  <2>4. Content(c)
    BY <2>1, <2>2, <2>3 DEF Content, ContentOf, JunkContent
  <2>5. PromptsFor(<<>>) = 0
    <3>1. <<>> \in Seq(STRING)
      OBVIOUS
    <3> QED  BY <3>1, PromptsForType
  <2>6. Due("none", "junk", skip_next_prompt) = 1
    BY DEF Due
  <2>7. Account(c)
    BY <2>1, <2>5, <2>6 DEF Account, AccountOf
  <2> QED  BY <2>4, <2>7
<1> QED  BY <1>1, <1>2, <1>3 DEF ServedInv, Served

LEMMA ServedUnchanged ==
  ASSUME ServedInv, UNCHANGED cliVars PROVE ServedInv'
<1>1. History'
  BY DEF ServedInv, History, cliVars
<1>2. Flags'
  BY DEF ServedInv, Flags, cliVars, Trusted
<1>3. Served'
  <2> SUFFICES ASSUME NEW c \in Clients, Trusted(c)' PROVE Content(c)' /\ Account(c)'
    BY DEF Served
  <2>1. Content(c) /\ Account(c)
    BY DEF ServedInv, Served, Trusted, cliVars
  <2>2. Content(c)'
    BY <2>1 DEF Content, cliVars
  <2>3. Account(c)'
    BY <2>1 DEF Account, Loose, cliVars
  <2> QED  BY <2>2, <2>3
<1> QED  BY <1>1, <1>2, <1>3 DEF ServedInv

LEMMA ServedInvariance == Spec => []ServedInv
<1>1. Init => ServedInv
  BY InitServed DEF Init
<1>2. CliInv /\ ServedInv /\ [Next]_vars => ServedInv'
  <2> SUFFICES ASSUME CliInv, ServedInv, [Next]_vars PROVE ServedInv'
    OBVIOUS
  <2>1. UNCHANGED cliVars \/ CliNext
    <3>1. Boot => UNCHANGED cliVars
      BY DEF Boot, InitInstance, AddInterface, StartTransport, StartNetwork
    <3>2. Network => UNCHANGED cliVars
      BY DEF Network, Select, ReadPacket, sr_integ_input
    <3>3. ASSUME NEW i \in DOMAIN File, NEW p \in Packets, Arrive(i, p) PROVE UNCHANGED cliVars
      BY <3>3 DEF Arrive
    <3>4. ASSUME NEW w \in Workers, StartWork(w) \/ HandleWork(w) PROVE UNCHANGED cliVars
      BY <3>4 DEF StartWork, HandleWork
    <3>5. UNCHANGED vars => UNCHANGED cliVars
      BY DEF vars
    <3> QED  BY <3>1, <3>2, <3>3, <3>4, <3>5 DEF Next
  <2>2. CASE CliNext
    <3>1. History /\ Flags /\ Served
      BY DEF ServedInv
    <3> QED  BY <2>2, <3>1, HistoryKeeps, FlagsKeep, ServedKeeps DEF ServedInv
  <2> QED  BY <2>1, <2>2, ServedUnchanged
<1> QED  BY <1>1, <1>2, Invariance, PTL DEF Spec

(* A client of the command line that waits for its prompts is served as    *)
(* promised, whatever the other clients, the reads and the ping thread do  *)
(* (cli_client_handle_request, cli_parser_handle_client, cli_send_prompt,  *)
(* cli_ping_feedback): its lines are run in order and each once, it gets   *)
(* one prompt for the welcome and for each line (for a flood one for each  *)
(* request), and it is sent nothing that was meant for another, as long as *)
(* no prompt of a ping goes astray.                                        *)
THEOREM ClientsAreServed == Spec => []ClientServed
<1>1. CliInv /\ ServedInv => ClientServed
  <2> SUFFICES ASSUME CliInv, ServedInv PROVE ClientServed
    OBVIOUS
  <2>0. History /\ Served
    BY DEF ServedInv
  <2>1. RightAddressee
    BY <2>0 DEF RightAddressee, History, IsVerbose
  <2>2. ASSUME NEW c \in Clients, Trusted(c)
        PROVE  /\ typed[c] \in Seq(Seq(STRING)) /\ ran[c] \in Seq(Seq(STRING))
               /\ stage[c] \in {"junk", "greet", "serve"} /\ pc[c] \in PCs
               /\ \/ typed[c] = ran[c]
                  \/ \E b \in Seq(STRING) : typed[c] = Append(ran[c], b)
                  \/ IsPrefix(ran[c], typed[c])
    <3>1. Content(c)
      BY <2>0, <2>2 DEF Served
    <3>2. stage[c] \in {"junk", "greet", "serve"} /\ pc[c] \in PCs /\ st[c].buf \in Seq(STRING)
          /\ pipe[c] \in Seq(STRING) /\ st[c].buf \o pipe[c] \in Seq(STRING)
          /\ typed[c] \in Seq(Seq(STRING)) /\ ran[c] \in Seq(Seq(STRING))
      BY <2>0, OfClient, MyTypes
    <3>3. \/ typed[c] = ran[c]
          \/ \E b \in Seq(STRING) : typed[c] = Append(ran[c], b)
          \/ IsPrefix(ran[c], typed[c])
      BY <3>1, <3>2 DEF Content, ContentOf, JunkContent, GreetContent, ServeContent, ReadContent,
                        ShiftedContent, Pending, PCs, Holding
    <3> QED  BY <3>2, <3>3
  <2>3. ASSUME NEW c \in Clients, Trusted(c) PROVE IsPrefix(ran[c], typed[c])
    <3>1. /\ typed[c] \in Seq(Seq(STRING)) /\ ran[c] \in Seq(Seq(STRING))
          /\ \/ typed[c] = ran[c]
             \/ \E b \in Seq(STRING) : typed[c] = Append(ran[c], b)
             \/ IsPrefix(ran[c], typed[c])
      BY <2>2, <2>3
    <3>2. \A b \in Seq(STRING) : typed[c] = ran[c] \/ typed[c] = Append(ran[c], b)
                                   => IsPrefix(ran[c], typed[c])
      BY <3>1, PendingFacts
    <3>3. <<>> \in Seq(STRING)
      OBVIOUS
    <3> QED  BY <3>1, <3>2, <3>3
  <2>4. ASSUME NEW c \in Clients, Trusted(c), pc[c] = "read", stage[c] = "serve",
               pipe[c] = <<>>, st[c].buf = <<>>
        PROVE  ran[c] = typed[c]
    <3>1. ReadContent(st[c], pipe[c], typed[c], ran[c])
      BY <2>0, <2>4, ReadStages DEF Served
    <3>2. <<>> \o <<>> = <<>>
      OBVIOUS
    <3> QED  BY <2>4, <3>1, <3>2 DEF ReadContent, Pending, Line
  <2>5. LinesRunOnce
    BY <2>3, <2>4 DEF LinesRunOnce, Trusted
  <2>6. ASSUME NEW c \in Clients, Trusted(c), pc[c] = "read", stage[c] = "serve",
               ran[c] = typed[c], ~pinger, ~eof[c]
        PROVE  prompts[c] + pings[c] = 1 + PromptsFor(typed[c])
    <3>1. AccountOf("read", "serve", prompts[c] + pings[c], typed[c], ran[c], skip_next_prompt,
                    Loose(c))
      BY <2>0, <2>6, OwnAccount DEF Served
    <3>2. ~Loose(c)
      BY <2>6 DEF Loose
    <3>3. Due("read", "serve", skip_next_prompt) = 0
      BY DEF Due
    <3>4. prompts[c] + pings[c] + 0 = 1 + PromptsFor(ran[c])
      BY <3>1, <3>2, <3>3 DEF AccountOf
    <3> QED  BY <2>0, <2>6, <3>4, MyTypes
  <2>7. PromptEach
    BY <2>6 DEF PromptEach, Trusted
  <2> QED  BY <2>1, <2>5, <2>7 DEF ClientServed
<1> QED  BY <1>1, Invariance, ServedInvariance, PTL

(* The interface table, the jobs and the clients' buffers are sane at every *)
(* point of every run (search_state_grow_if_full, read_search,             *)
(* cli_client_handle_request): whatever is read, at every capacity and     *)
(* however the bytes are cut into reads, it fits its buffer, and so does   *)
(* the NUL behind a line for the parser; and the thread that is in the     *)
(* parser holds parser_lock and has the focus on its own client            *)
(* (cli_focus_set).                                                        *)
THEOREM BuffersAreSane == Spec => []BuffersSane
<1>1. CliInv /\ PathInv /\ ServedInv => BuffersSane
  <2> SUFFICES ASSUME CliInv, PathInv, ServedInv PROVE BuffersSane
    OBVIOUS
  <2>1. CliTypeOK
    <3>1. ASSUME NEW c \in Clients
          PROVE  /\ pc[c] \in {"none", "read", "lock", "run", "skip", "raise", "ran",
                               "prompt", "clear", "alive", "dead", "gone"}
                 /\ stage[c] \in {"junk", "greet", "serve"}
                 /\ st[c].cap \in InitBuf .. MaxBuf
                 /\ Len(st[c].buf) <= st[c].cap
                 /\ pings[c] \in Nat
      <4>1. st[c] \in SearchState /\ pings[c] \in Nat
        BY DEF CliInv, CliTypes
      <4> QED  BY <4>1, OfClient DEF SearchState, PCs, Holding
    <3> QED  BY <3>1 DEF CliTypeOK, CliInv, CliTypes
  <2>2. TypeOK
    BY <2>1, PathInvImplies DEF TypeOK, PathInv, PathTypes
  <2>3. NulFits
    BY OfClient DEF NulFits, Fits
  <2>4. HolderInParser
    <3>1. Flags
      BY DEF ServedInv
    <3>2. ASSUME NEW c \in Clients
          PROVE  /\ pc[c] \in {"run", "skip", "raise", "ran", "prompt", "clear"} <=> lock = c
                 /\ lock = c => fd = c
      BY <3>1, BufferAssumption DEF Holding, Flags, CliInv, Holder
    <3> QED  BY <3>2 DEF HolderInParser
  <2> QED  BY <2>2, <2>3, <2>4 DEF BuffersSane
<1> QED  BY <1>1, Invariance, ServedInvariance, PTL
===============================================================================
