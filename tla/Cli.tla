--------------------------------- MODULE Cli ---------------------------------
(***************************************************************************)
(* The command line of the router (SW_stub/cli): cli_main accepts clients  *)
(* and gives each a thread; the thread collects what its client sends in a *)
(* growing buffer (read_search, search_state_t), and for every newline     *)
(* takes parser_lock, turns the focus of the single parser on its client   *)
(* and runs the command.  The thread of cli_ping.c answers pings later and *)
(* prints the next prompt for them, without the lock.                      *)
(*                                                                         *)
(* A command is one byte here and a line is such a byte and a newline; a   *)
(* longer line is one the grammar rejects.  "show" stands for all commands *)
(* that leave the state below as it is (show, date, traceroute, help, a    *)
(* ping of the router's own address, the commands whose bodies are empty   *)
(* and cli_manip_ip_intf_set, which sets an address of an interface).      *)
(*                                                                         *)
(* A write waits while its client does not read and the send buffer is     *)
(* full, with parser_lock held: such a step is never owed (Waits).        *)
(*                                                                         *)
(* The CLI reads from sockets of lwIP or, for negative descriptors, of the *)
(* operating system; the two versions of the code are the same.            *)
(***************************************************************************)
EXTENDS Integers, Sequences, FiniteSets, FiniteSetsExt, SequencesExt

CONSTANTS
  Clients,  \* the connections that may be made
  None,
  InitBuf,  \* CLI_INIT_BUF
  MaxBuf,   \* CLI_MAX_BUF
  Scenarios,\* bounds: what each client may type, the clients that do not
            \* read what they are sent, and the packets that arrive
  Hellos,   \* what each client may send by itself when it connects
  Hasty,    \* the clients that type without waiting for a prompt
  Leavers,  \* the clients that may hang up
  Flood     \* how many requests a ping flood makes

NL == "\n"

ASSUME BufferAssumption ==
  /\ None \notin Clients
  /\ InitBuf \in Nat \ {0} /\ MaxBuf \in Nat /\ MaxBuf >= InitBuf
  /\ Flood \in Nat \ {0}

\* What a client sends is bytes, and a line of its script ends in its newline.
\* What it sends by itself (the options of telnet) is one of our bytes or none:
\* it arrives in one read, with no newline.
ASSUME ClientAssumption ==
  /\ \A s \in Scenarios : s.deaf \subseteq Clients /\ \A c \in DOMAIN s.script :
       \A line \in s.script[c].lines :
         /\ line \in Seq(STRING) /\ line # <<>>
         /\ \A i \in DOMAIN line : line[i] = NL <=> i = Len(line)
  /\ \A c \in Clients : \A hello \in Hellos[c] :
       hello \in Seq(STRING) /\ Len(hello) <= 1 /\ hello # <<NL>>

VARIABLES
  listening,   \* cli_main: TRUE in accept, FALSE at the test of its loop
  pc, stage,   \* of each client's thread; its stage is "junk" (the first
               \* request), "greet" (the welcome) and then "serve"
  pipe, eof,   \* what the client has sent and nobody has read; it has closed
  st,          \* search_state_t: [buf, cap, soff, noff], used is Len(buf)
  left,        \* newlines of the buffer the parser has not come to
  lock,        \* the holder of parser_lock
  fd, fd_alive,        \* the focus of the parser
  verbose,             \* client->verbose
  skip_next_prompt,
  router_shutdown,
  down,        \* the process has ended
  pings,       \* unanswered requests of each client in the list of cli_ping.c
  pinger,      \* the ping thread is between the two halves of a prompt
  scenario,    \* the member of Scenarios, fixed at the start
  typed, ran,  \* history: lines typed, commands run
  prompts,     \* history: prompts each client has seen
  heard,       \* history: whose output each client has seen
  ahead,       \* history: the clients that typed without waiting for a prompt
  doubt        \* history: a ping's prompt met a command at work or was sent
               \* astray, or a client died with skip_next_prompt set

cliVars == <<listening, pc, stage, pipe, eof, st, left, lock, fd, fd_alive,
             verbose, skip_next_prompt, router_shutdown, down, pings, pinger,
             scenario, typed, ran, prompts, heard, ahead, doubt>>

focus == <<fd, fd_alive>>
history == <<scenario, typed, ran, prompts, heard, ahead, doubt>>
input == <<pipe, eof, st>>

Commands == {"show", "set", "unset", "ping", "flood", "exit", "shutdown"}

\* What the grammar makes of a line.
Command(line) == CASE Len(line) = 1 -> "empty"
                   [] Len(line) = 2 /\ line[1] \in Commands -> line[1]
                   [] OTHER -> "bad"

-----------------------------------------------------------------------------
(* search_state.c and read_search.                                         *)

search_state_init == [buf |-> <<>>, cap |-> InitBuf, soff |-> 0, noff |-> 0]

Full(s) == Len(s.buf) = s.cap /\ s.cap = MaxBuf

search_state_grow_if_full(s) ==
  IF Len(s.buf) = s.cap
  THEN [s EXCEPT !.cap = IF 2 * @ > MaxBuf THEN MaxBuf ELSE 2 * @]
  ELSE s

\* Mutant: a missing growth before the terminating NUL is written.
NoGrowth(s) == s

Newlines(s) == {i \in 0 .. Len(s.buf) - 1 : s.buf[i + 1] = NL}
Found(s) == \E i \in Newlines(s) : i >= s.soff

Search(s) ==
  IF Found(s)
  THEN LET i == CHOOSE i \in Newlines(s) :
                  i >= s.soff /\ \A k \in Newlines(s) : k >= s.soff => i <= k
       IN  [s EXCEPT !.noff = i, !.soff = i + 1]
  ELSE [s EXCEPT !.soff = Len(s.buf)]

CliInit ==
  /\ listening = FALSE
  /\ pc = [c \in Clients |-> "none"] /\ stage = [c \in Clients |-> "junk"]
  /\ pipe = [c \in Clients |-> <<>>] /\ eof = [c \in Clients |-> FALSE]
  /\ st = [c \in Clients |-> search_state_init]
  /\ left = 0
  /\ lock = None /\ fd = None /\ fd_alive = FALSE
  /\ verbose = [c \in Clients |-> FALSE]
  /\ skip_next_prompt = FALSE /\ router_shutdown = FALSE /\ down = FALSE
  /\ pings = [c \in Clients |-> 0] /\ pinger = FALSE
  /\ typed = [c \in Clients |-> <<>>] /\ ran = [c \in Clients |-> <<>>]
  /\ prompts = [c \in Clients |-> 0] /\ heard = [c \in Clients |-> {}]
  /\ ahead = {} /\ doubt = FALSE
  /\ scenario \in Scenarios

-----------------------------------------------------------------------------
(* The clients.                                                            *)

Owed(line) == IF Command(line) = "flood" THEN Flood ELSE 1
PromptsFor(s) ==
  LET sum[i \in 0 .. Len(s)] == IF i = 0 THEN 0 ELSE sum[i - 1] + Owed(s[i])
  IN  sum[Len(s)]

\* The client has got the prompts for all it has typed.
Answered(c) == prompts[c] >= 1 + PromptsFor(typed[c])

Connected(c) == pc[c] \notin {"none", "gone"}

Type(c, line) ==
  /\ ~down /\ Connected(c) /\ ~eof[c] /\ Len(typed[c]) < scenario.script[c].max
  /\ Answered(c) \/ c \in Hasty
  /\ pipe' = [pipe EXCEPT ![c] = @ \o line]
  /\ typed' = [typed EXCEPT ![c] = Append(@, line)]
  /\ ahead' = IF Answered(c) THEN ahead ELSE ahead \cup {c}
  /\ UNCHANGED <<listening, pc, stage, eof, st, left, lock, focus, verbose,
                 skip_next_prompt, router_shutdown, down, pings, pinger, ran,
                 prompts, heard, doubt, scenario>>

Types(c) ==
  c \in DOMAIN scenario.script /\ \E line \in scenario.script[c].lines : Type(c, line)

Hangup(c) ==
  /\ ~down /\ c \in Leavers /\ Connected(c) /\ ~eof[c]
  /\ eof' = [eof EXCEPT ![c] = TRUE]
  /\ UNCHANGED <<listening, pc, stage, pipe, st, left, lock, focus, verbose,
                 skip_next_prompt, router_shutdown, down, pings, pinger,
                 history>>

-----------------------------------------------------------------------------
(* cli_main: the flag is tested, then accept blocks.                       *)

Listen ==
  /\ ~down /\ ~listening
  /\ listening' = ~router_shutdown
  /\ down' = router_shutdown
  /\ UNCHANGED <<pc, stage, input, left, lock, focus, verbose,
                 skip_next_prompt, router_shutdown, pings, pinger, history>>

Accept(c) ==
  /\ ~down /\ listening /\ pc[c] = "none" /\ c \in DOMAIN scenario.script
  /\ listening' = FALSE
  /\ pc' = [pc EXCEPT ![c] = "read"]
  /\ \E hello \in Hellos[c] : pipe' = [pipe EXCEPT ![c] = hello]
  /\ UNCHANGED <<stage, eof, st, left, lock, focus, verbose,
                 skip_next_prompt, router_shutdown, down, pings, pinger,
                 history>>

-----------------------------------------------------------------------------
(* cli_client_handle_request up to the lock.                               *)

\* What cli_client_handler_main does with the result of a request: the first
\* one is forgotten with all that was read, a later one comes to the test of
\* the shutdown flag.
Handled(c, alive, s) ==
  CASE stage[c] = "junk" ->
         /\ stage' = [stage EXCEPT ![c] = "greet"]
         /\ pc' = [pc EXCEPT ![c] = "lock"]
         /\ st' = [st EXCEPT ![c] = [s EXCEPT !.buf = <<>>, !.soff = 0,
                                              !.noff = 0]]
    [] stage[c] = "greet" ->
         /\ stage' = [stage EXCEPT ![c] = "serve"]
         /\ pc' = [pc EXCEPT ![c] = "read"]
         /\ st' = [st EXCEPT ![c] = s]
    [] stage[c] = "serve" ->
         /\ pc' = [pc EXCEPT ![c] = IF alive THEN "alive" ELSE "dead"]
         /\ st' = [st EXCEPT ![c] = s]
         /\ UNCHANGED stage

Terminated(s) == search_state_grow_if_full(s)

\* The buffer as read_search leaves it, with its NUL: a newline goes to the
\* parser, the lack of one is no answer yet, a full buffer ends the client.
Received(c, s) ==
  LET t == Terminated(Search(s)) IN
  IF Full(s) \/ ~Found(s) THEN Handled(c, ~Full(s), t)
  ELSE /\ pc' = [pc EXCEPT ![c] = "lock"]
       /\ st' = [st EXCEPT ![c] = t]
       /\ UNCHANGED stage

Unread == UNCHANGED <<listening, eof, left, lock, focus, verbose,
                      skip_next_prompt, router_shutdown, down, pings, pinger,
                      history>>

ReadLeftover(c) ==
  /\ ~down /\ pc[c] = "read" /\ Found(st[c])
  /\ Received(c, st[c])
  /\ UNCHANGED pipe /\ Unread

Read(c) ==
  /\ ~down /\ pc[c] = "read" /\ ~Found(st[c]) /\ pipe[c] # <<>>
  /\ LET s == search_state_grow_if_full(st[c]) IN
       \E n \in 1 .. Len(pipe[c]) :
         /\ n <= s.cap - Len(s.buf)
         /\ pipe' = [pipe EXCEPT ![c] = SubSeq(@, n + 1, Len(@))]
         /\ Received(c, [s EXCEPT !.buf = @ \o SubSeq(pipe[c], 1, n)])
  /\ Unread

ReadEof(c) ==
  /\ ~down /\ pc[c] = "read" /\ ~Found(st[c]) /\ pipe[c] = <<>> /\ eof[c]
  /\ Handled(c, FALSE, st[c])
  /\ UNCHANGED pipe /\ Unread

-----------------------------------------------------------------------------
(* The parser.                                                             *)

\* Mutant: the focus set before the lock is held.
LockLate(c) ==
  /\ ~down /\ pc[c] = "lock"
  /\ fd' = c /\ fd_alive' = TRUE
  /\ IF lock = None
     THEN /\ lock' = c
          /\ left' = Cardinality(Newlines(st[c]))
          /\ pc' = [pc EXCEPT ![c] = IF stage[c] = "greet" THEN "prompt" ELSE "run"]
     ELSE UNCHANGED <<lock, left, pc>>
  /\ UNCHANGED <<listening, stage, input, verbose, skip_next_prompt,
                 router_shutdown, down, pings, pinger, history>>

\* pthread_mutex_lock and cli_focus_set; cli_parser_handle_client goes through
\* the newlines of the buffer.
Lock(c) ==
  /\ ~down /\ pc[c] = "lock" /\ lock = None
  /\ lock' = c /\ fd' = c /\ fd_alive' = TRUE
  /\ left' = Cardinality(Newlines(st[c]))
  /\ pc' = [pc EXCEPT ![c] = IF stage[c] = "greet" THEN "prompt" ELSE "run"]
  /\ UNCHANGED <<listening, stage, input, verbose, skip_next_prompt,
                 router_shutdown, down, pings, pinger, history>>

\* A write to d waits, for ever if d never reads: there is nobody to end it
\* but the client.
Blocks(d) == d \in scenario.deaf /\ ~eof[d]

\* A write to the focus: it fails only when the client has hung up.
CanSend(ok) == fd_alive /\ ok \in (IF eof[fd] THEN BOOLEAN ELSE {TRUE})

\* cli_send_str of c's thread.
Send(c) ==
  IF fd_alive
  THEN \E ok \in BOOLEAN :
         /\ CanSend(ok) /\ fd_alive' = ok
         /\ heard' = IF ok THEN [heard EXCEPT ![fd] = @ \cup {c}] ELSE heard
  ELSE UNCHANGED <<fd_alive, heard>>

\* The command of the first line: every round of the loop copies the buffer
\* from its start, and the grammar accepts one command.
FirstLine(s) ==
  SubSeq(s.buf, 1, 1 + CHOOSE i \in Newlines(s) : \A k \in Newlines(s) : i <= k)

Runs(c, cmd) ==
  /\ ~down /\ pc[c] = "run" /\ Command(FirstLine(st[c])) = cmd
  /\ ran' = [ran EXCEPT ![c] = Append(@, FirstLine(st[c]))]
  /\ left' = left - 1

Show(c) ==
  /\ \E cmd \in {"show", "bad", "empty"} : Runs(c, cmd)
  /\ IF Command(FirstLine(st[c])) = "empty" THEN UNCHANGED <<fd_alive, heard>>
     ELSE Send(c)
  /\ pc' = [pc EXCEPT ![c] = "ran"]
  /\ UNCHANGED <<listening, stage, input, lock, fd, verbose,
                 skip_next_prompt, router_shutdown, down, pings, pinger,
                 typed, prompts, ahead, doubt, scenario>>

\* cli_opt_verbose sets *pverbose, which cli_focus_set set with fd.
SetVerbose(c) ==
  /\ \E on \in BOOLEAN :
       /\ Runs(c, IF on THEN "set" ELSE "unset")
       /\ verbose' = [verbose EXCEPT ![fd] = on]
  /\ Send(c)
  /\ pc' = [pc EXCEPT ![c] = "ran"]
  /\ UNCHANGED <<listening, stage, input, lock, fd, skip_next_prompt,
                 router_shutdown, down, pings, pinger, typed, prompts, ahead,
                 doubt, scenario>>

Exit(c) ==
  /\ Runs(c, "exit")
  /\ \E ok \in BOOLEAN :
       /\ fd_alive => CanSend(ok)
       /\ heard' = IF fd_alive /\ ok THEN [heard EXCEPT ![fd] = @ \cup {c}]
                   ELSE heard
  /\ fd_alive' = FALSE
  /\ pc' = [pc EXCEPT ![c] = "ran"]
  /\ UNCHANGED <<listening, stage, input, lock, fd, verbose,
                 skip_next_prompt, router_shutdown, down, pings, pinger,
                 typed, prompts, ahead, doubt, scenario>>

\* cli_ping and cli_ping_flood up to the requests; only the latter writes
\* through the focus.
Ping(c) ==
  /\ \/ /\ Runs(c, "ping")
        /\ pings' = [pings EXCEPT ![fd] = @ + 1]
        /\ UNCHANGED <<fd_alive, heard>>
     \/ /\ Runs(c, "flood")
        /\ pings' = [pings EXCEPT ![fd] = @ + Flood]
        /\ Send(c)
  /\ pc' = [pc EXCEPT ![c] = "skip"]
  /\ UNCHANGED <<listening, stage, input, lock, fd, verbose,
                 skip_next_prompt, router_shutdown, down, pinger, typed,
                 prompts, ahead, doubt, scenario>>

SkipPrompt(c) ==
  /\ ~down /\ pc[c] = "skip"
  /\ skip_next_prompt' = TRUE
  /\ pc' = [pc EXCEPT ![c] = "ran"]
  /\ UNCHANGED <<listening, stage, input, left, lock, focus, verbose,
                 router_shutdown, down, pings, pinger, history>>

Shutdown(c) ==
  /\ Runs(c, "shutdown")
  /\ Send(c)
  /\ router_shutdown' = TRUE
  /\ pc' = [pc EXCEPT ![c] = "raise"]
  /\ UNCHANGED <<listening, stage, input, lock, fd, verbose,
                 skip_next_prompt, down, pings, pinger, typed, prompts, ahead,
                 doubt, scenario>>

\* Nothing handles SIGINT: after cli_ping_destroy the process is killed.  That
\* call may wait for ever (DestroyReturns of Ping), so this step is not owed.
Raise(c) ==
  /\ ~down /\ pc[c] = "raise"
  /\ down' = TRUE
  /\ UNCHANGED <<listening, pc, stage, input, left, lock, focus, verbose,
                 skip_next_prompt, router_shutdown, pings, pinger, history>>

-----------------------------------------------------------------------------
(* cli_parser_handle_client after a command.                               *)

\* What is left of the buffer: used - needle_offset - 1 bytes, copied from
\* the first newline on and not from the byte after it.
Shifted(s) ==
  LET num == Len(s.buf) - s.noff - 1 IN
  [s EXCEPT !.buf = IF num > 0 THEN SubSeq(s.buf, s.noff + 1, s.noff + num)
                    ELSE <<>>,
            !.soff = 0, !.noff = s.cap + 1]

\* Mutant: the return that forgets the lock.
LeaveLocked(c) ==
  /\ ~down /\ pc[c] = "ran" /\ (~fd_alive \/ router_shutdown)
  /\ doubt' = (doubt \/ skip_next_prompt)
  /\ Handled(c, FALSE, st[c])
  /\ UNCHANGED <<listening, pipe, eof, left, lock, focus, verbose,
                 skip_next_prompt, router_shutdown, down, pings, pinger,
                 typed, ran, prompts, heard, ahead, scenario>>

\* The client has gone or the router goes down: no prompt.
Leave(c) ==
  /\ ~down /\ pc[c] = "ran" /\ (~fd_alive \/ router_shutdown)
  /\ lock' = None
  /\ doubt' = (doubt \/ skip_next_prompt)
  /\ Handled(c, FALSE, st[c])
  /\ UNCHANGED <<listening, pipe, eof, left, focus, verbose,
                 skip_next_prompt, router_shutdown, down, pings, pinger,
                 typed, ran, prompts, heard, ahead, scenario>>

NextLine(c) ==
  /\ ~down /\ pc[c] = "ran" /\ fd_alive /\ ~router_shutdown
  /\ IF left > 0
     THEN pc' = [pc EXCEPT ![c] = "run"] /\ UNCHANGED st
     ELSE /\ pc' = [pc EXCEPT ![c] = "prompt"]
          /\ st' = [st EXCEPT ![c] = Shifted(@)]
  /\ UNCHANGED <<listening, stage, pipe, eof, left, lock, focus, verbose,
                 skip_next_prompt, router_shutdown, down, pings, pinger,
                 history>>

\* cli_send_prompt: the test of the flag and the write, here and in the ping
\* thread the first of two steps.
TestPrompt(by) ==
  IF skip_next_prompt \/ ~fd_alive THEN UNCHANGED <<fd_alive, heard, prompts>>
  ELSE \E ok \in BOOLEAN :
         /\ CanSend(ok) /\ fd_alive' = ok
         /\ heard' = IF ok THEN [heard EXCEPT ![fd] = @ \cup {by}] ELSE heard
         /\ prompts' = IF ok THEN [prompts EXCEPT ![fd] = @ + 1] ELSE prompts

Prompt(c) ==
  /\ ~down /\ pc[c] = "prompt"
  /\ TestPrompt(c)
  /\ pc' = [pc EXCEPT ![c] = "clear"]
  /\ doubt' = (doubt \/ pinger)
  /\ UNCHANGED <<listening, stage, input, left, lock, fd, verbose,
                 skip_next_prompt, router_shutdown, down, pings, pinger,
                 typed, ran, ahead, scenario>>

Unlock(c) ==
  /\ ~down /\ pc[c] = "clear"
  /\ skip_next_prompt' = FALSE
  /\ lock' = None
  /\ Handled(c, fd_alive, st[c])
  /\ UNCHANGED <<listening, pipe, eof, left, focus, verbose,
                 router_shutdown, down, pings, pinger, history>>

\* The test after a request: exit(1), clean up or go on.
Check(c) ==
  /\ ~down /\ pc[c] \in {"alive", "dead"}
  /\ down' = router_shutdown
  /\ pc' = [pc EXCEPT ![c] = IF pc[c] = "alive" THEN "read" ELSE "gone"]
  /\ UNCHANGED <<listening, stage, input, left, lock, focus, verbose,
                 skip_next_prompt, router_shutdown, pings, pinger, history>>

-----------------------------------------------------------------------------
(* cli_ping_feedback in the ping thread: the answer goes to the client that *)
(* asked, the prompt to whoever has the focus.                             *)

Feedback(c) ==
  /\ ~down /\ ~pinger /\ pings[c] > 0
  /\ pings' = [pings EXCEPT ![c] = @ - 1]
  /\ TestPrompt(c)
  /\ pinger' = TRUE
  /\ doubt' = (doubt \/ fd # c \/ ~fd_alive
                     \/ (lock # None /\ pc[lock] \in {"prompt", "clear"}))
  /\ UNCHANGED <<listening, pc, stage, input, left, lock, fd, verbose,
                 skip_next_prompt, router_shutdown, down, typed, ran, ahead, scenario>>

FeedbackEnds ==
  /\ ~down /\ pinger
  /\ pinger' = FALSE
  /\ skip_next_prompt' = FALSE
  /\ doubt' = (doubt \/ skip_next_prompt)
  /\ UNCHANGED <<listening, pc, stage, input, left, lock, focus, verbose,
                 router_shutdown, down, pings, typed, ran, prompts, heard,
                 ahead, scenario>>

-----------------------------------------------------------------------------

\* The thread of c, or the ping thread for a request of c, has to write to a
\* client that does not read.
Waits(c) == pc[c] \in {"run", "prompt"} /\ fd_alive /\ Blocks(fd)
FeedbackWaits(c) == Blocks(c) \/ (fd_alive /\ Blocks(fd))

\* What the thread of c does, up to what may take for ever.
Proceeds(c) == pc[c] # "raise" /\ ~Waits(c)

Serve(c) ==
  \/ ReadLeftover(c) \/ Read(c) \/ ReadEof(c) \/ Lock(c)
  \/ Show(c) \/ SetVerbose(c) \/ Exit(c) \/ Ping(c) \/ SkipPrompt(c)
  \/ Shutdown(c) \/ Raise(c)
  \/ Leave(c) \/ NextLine(c) \/ Prompt(c) \/ Unlock(c) \/ Check(c)

CliNext ==
  \/ Listen
  \/ \E c \in Clients :
       \/ Accept(c) \/ Types(c) \/ Hangup(c)
       \/ Serve(c) \/ Feedback(c)
  \/ FeedbackEnds

-----------------------------------------------------------------------------

CliTypeOK ==
  /\ \A c \in Clients :
       /\ pc[c] \in {"none", "read", "lock", "run", "skip", "raise", "ran",
                     "prompt", "clear", "alive", "dead", "gone"}
       /\ stage[c] \in {"junk", "greet", "serve"}
       /\ st[c].cap \in InitBuf .. MaxBuf
       /\ Len(st[c].buf) <= st[c].cap
       /\ pings[c] \in Nat
  /\ lock \in Clients \cup {None} /\ fd \in Clients \cup {None}
  /\ left \in Nat

\* The thread that holds parser_lock is the one that is in the parser, and while
\* it is there the focus is its client (cli_client_handle_request,
\* cli_parser_handle_client).
HolderInParser ==
  \A c \in Clients :
    /\ pc[c] \in {"run", "skip", "raise", "ran", "prompt", "clear"} <=> lock = c
    /\ lock = c => fd = c

\* One client's output, prompt and options are its own: what is written while
\* the parser serves a client goes to that client, and verbose mode is on for
\* those that have turned it on last (cli_focus_set under parser_lock).
RightAddressee ==
  ~doubt => \A c \in Clients :
    /\ heard[c] \subseteq {c}
    /\ verbose[c] <=> \E i \in DOMAIN ran[c] :
                        /\ Command(ran[c][i]) = "set"
                        /\ \A k \in i + 1 .. Len(ran[c]) : Command(ran[c][k]) # "unset"

\* The NUL that ends the buffer for strchr is inside it, at every capacity
\* (cli_client_handle_request grows the buffer once more for it).
NulFits ==
  \A c \in Clients : pc[c] \in {"lock", "run", "ran"} /\ stage[c] # "greet"
                       => Len(st[c].buf) < st[c].cap

\* A client that waits for its prompt before it types has its lines run in
\* order, each once, however the bytes are cut into reads; one that was sent
\* the prompt of another client's ping may not have waited for its own.
LinesRunOnce ==
  ~doubt => \A c \in Clients \ ahead :
    /\ IsPrefix(ran[c], typed[c])
    /\ pc[c] = "read" /\ stage[c] = "serve" /\ pipe[c] = <<>> /\ st[c].buf = <<>>
         => ran[c] = typed[c]

\* ... and gets one prompt for the welcome and for each line, from the parser
\* or from the ping thread in its place, and for a flood one for each of its
\* requests.
PromptEach ==
  ~doubt => \A c \in Clients \ ahead :
    pc[c] = "read" /\ stage[c] = "serve" /\ ran[c] = typed[c] /\ ~pinger
      /\ ~eof[c] => prompts[c] + pings[c] = 1 + PromptsFor(typed[c])
=============================================================================
