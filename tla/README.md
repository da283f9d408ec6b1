# A TLA+ development for the P33 router

The repository holds the software of a teaching router: the `sr` program in
`SW_stub/` and the FPGA side in `HW_stub/`.  This directory models the parts of
`sr` that carry its control logic, and the Linux driver of the card, checks them
with TLC on small instances and proves the most important facts with TLAPS for
every instance.

## 1. Inventory

| part | source | state | operations | what is hard |
|---|---|---|---|---|
| Work queue | `sr_work_queue.[ch]`, its caller in `sr_integration.c` | mutex, condition variable, linked list `head`/`tail`, `done`, `workers` | `wq_init`, `wq_enqueue`, `wq_wait_for_work`, `wq_destroy` | signal after the unlock, teardown with busy workers, unlocked read of `workers` |
| OS emulation of the TCP stack | `lwtcp/sys_arch.c` | binary semaphores, ring mailboxes, thread list | `sys_sem_*`, `sys_arch_sem_wait`, `sys_mbox_*`, `sys_arch_mbox_fetch` | wake-up only when the ring was empty, no test for a full ring, two consumers |
| Timeouts | `lwtcp/sys.c` | delta list per thread | `sys_timeout`, `sys_mbox_fetch`, `sys_sem_wait` | delta arithmetic, handlers that re-arm |
| Memory | `lwtcp/mem.c`, `memp.c`, `pbuf.c` | a heap of blocks, pools, chains of buffers with reference counts | `mem_malloc`, `mem_free`, `mem_realloc`, `pbuf_*` | a pool without a lock, reclaiming from inside an allocation, cutting and joining chains |
| TCP | `lwtcp/tcp.c`, `tcp_input.c`, `tcp_output.c` | control blocks on three lists, queues of segments, timers | `tcp_input`, `tcp_process`, `tcp_receive`, `tcp_enqueue`, `tcp_output`, the two timers, the raw API | loss, duplication and reordering of segments; sequence numbers; the handshakes; control blocks that are reclaimed |
| Connection API, sockets | `lwtcp/transport_subsys.c`, `api_lib.c`, `api_msg.c`, `sockets.c`, `udp.c` | transport mailbox, one mailbox and semaphore per connection, descriptors | request and reply between application threads and the transport thread | answers nobody asked for, requests nobody answers, fields of a connection that two threads write without a lock |
| Ping | `cli/cli_ping.c` | sorted list of outstanding pings, mutex, two condition variables | request, reply, scrubber, destroy | scrubber sleeping outside the lock when the router shuts down |
| Command line | `cli/cli.c`, `cli_main.c`, the parser | focus, client threads, prompt flags | accept, read, parse, shutdown | the focus is global, clients and the ping thread run concurrently |
| Input buffering | `cli/search_state.c`, `socket_helper.c`, `real_socket_helper.c` | growing buffer | search, read, write | capacity limits and short reads |
| Start and packet path | `sr_main.c`, `sr_base.c`, `sr_integration.c`, `sr_router.c`, `sr_interface.c`, `sr_mininet_extension.c` | interface table, router status, the frame in hand | boot in order, read loop, hand-over to the workers | the reader's buffer is on its stack while workers run |
| Driver of the card | `HW_stub/.../reference_nic/sw/host/driver` | descriptor and completion rings with counters, stopped queues, interrupt state | `nf10_probe`, `nf10_remove`, `nf10priv_xmit`, `work_handler`, the ioctls | counters that senders and handler change without a common lock, interrupts switched off and on |
| DMA core of the card | `HW_stub/.../dma_v1_10_a` (`rx_ctrl.v`, `tx_ctrl.v`, `cfg.v`) | heads of the rings, interrupt enables, buffer of register writes | completions, interrupts | an enable that is written without waiting for it |
| Other cores, embedded code, topologies | the rest of `HW_stub/` | | Verilog cores, generated maps | not code of the router |

The work queue and the ping handler use pthreads directly.  The TCP stack runs
in one transport thread that sleeps in `sys_mbox_fetch` on its mailbox; received
packets and requests of application threads come as messages, its timers as
timeouts of the same sleep (`sys.c` over `sys_arch.c`), and results go back
through a mailbox and a semaphore per connection.  The command line is one
application of the sockets above it.  A frame comes in by `sr_mininet_read_packet`
and `sr_integ_input`, which copies it onto the work queue; in this repository the
forwarding behind it is still to be written.  The driver is the other end of the
interfaces when the router runs over a NetFPGA card.

What makes the parts correct:

- work queue: a FIFO list, no item lost, run twice or used after it is freed, no
  worker asleep while work waits, teardown that ends every worker;
- semaphores and mailboxes: a wait consumes exactly one signal, no signal and no
  mail is lost when a timeout races it, messages come out in order, none leaks;
- timeouts: each one is as far away as it was asked for, and they fire in order;
- ping: the list stays linked and sorted, each request is answered exactly once
  and eventually, by the right client's socket, and shutdown ends;
- TCP: the application gets a prefix of the peer's stream, nothing is
  acknowledged and lost, everything is acknowledged in the end;
- TCP, sending and connecting: the queues hold the stream from the last
  acknowledgement on, the lists of control blocks obey the axioms of `tcp.h`, no
  segment has two receivers, two ends never disagree about what was sent;
- connection API: every call is answered, once, by the answer to it, both
  directions of a stream pass without a gap, no freed connection is used;
- memory: no buffer is lost or at two places, the heap's list is never damaged, the
  lengths of a chain add up;
- command line: each line is run once, answered to the client that typed it, and
  followed by one prompt; buffers never overflow;
- packet path: every frame reaches a worker as it was received;
- driver: no slot or line of the card is given out twice, what is freed is what was
  sent, no completion is missed, no queue stays stopped.

## 2. Modules

Each module has the state of one part as its variables, named as in the code, and
one action per step between two points where another thread can interfere.
`PROJECT.json` maps every definition to its lines.

**WorkQueue** (`sr_work_queue.c`).  `head`, `tail`, `next` are the pointers of the
list, `lock` the holder of the mutex, `waiting` the workers in
`pthread_cond_wait`.  `wq_enqueue` is `CallEnqueue`, `EnqueueLock`,
`EnqueueLink` (the critical section) and `EnqueueSignal`, because the signal
comes after the unlock; a worker is `WorkerLock`, then the test of the list and
of `done`, the wait, the job, the exit; `wq_destroy` is a chain of `Destroy...`
steps.  `log` and `taken` are history: the list has to be the part of `log` after
`taken`.  Locking a destroyed mutex is what the C library does: an error nobody
looks at.  **JobQueue** is what `sr_work_queue.h` promises: items are started in
the order they were submitted, finished once, and after the close deleted.

**SysSem** (`sys_sem_*`, `sys_arch_sem_wait`, `cond_wait`) is a semaphore over a
pthread mutex and condition variable, with timed waits, spurious wake-ups and a
timeout that comes together with a signal.  **BinarySemaphore** is its abstract
specification.  **SysMbox** builds on that: the ring, its two binary semaphores,
the pool of messages and the transport thread as the one fetcher.

**SysTimeouts** (`sys.c`) is the delta list of one thread.  The time an entry is
away is kept beside the list in `left`, in the units the list is charged:
`sys_arch_mbox_fetch` charges at least one millisecond for each sleep, and
working is not charged at all, so work is a stuttering step.

**Ping** (`cli_ping.c`, and from the command line the clients that come and go and
`cli_shutdown`).  Nodes are explicit, with `prev` and `next` and the dangling
`prev` of the head; descriptors are given to clients as the kernel does, the
lowest one first; the clock can be set back.  Adding a request and searching
for a reply's request hold the lock throughout and are one step each; the
scrubber reads the shutdown flag without a lock and takes more.

**TcpReceive** (`tcp_input.c` and what of `tcp.c` and `tcp_output.c` belongs to
receiving).  A passively opened connection from ESTABLISHED until its own
application closes it.  The environment is a peer with a stream of `Bytes`
bytes and a set `Sent` of segments; any of them may arrive at any time, so loss,
repetition and reordering are the choice of what arrives.  Sequence numbers are
counted from the peer's first byte, and a payload is the position of its first
byte in the stream, so that a payload shifted against its sequence number shows.
`Arrive` is `tcp_input` with `tcp_process` and `tcp_receive` in one step, as the
transport thread runs them: `TrimHead`, the window test, `InSequence` with the
chain of queued segments that follow on, or `OutOfSequence` with the insertion
into the queue.  `recv` is handed one chain of pbufs; here each pbuf is a chunk
of `passed`, and the application reports the chunks one by one.

**TcpSend** (`tcp_output.c`, the acknowledgement half of `tcp_receive`, the
retransmission of `tcp_slowtmr`).  One connection from ESTABLISHED until its FIN
is acknowledged or it is given up, with `pcb` as a record of the code's fields.  A
segment carries both its number (from `snd_lbb`) and the position of its payload
in what the application wrote, so that the two can disagree.  `Write` is
`do_write` with `tcp_enqueue` and `tcp_output`; `Ack` the window update, the
duplicate counter, fast retransmit, congestion window and round-trip estimate;
`SlowTimer` the time-out, which puts the segments back on `unsent`.  Fields of 8
and 16 bits wrap as in the code.

**TcpConn** (`tcp.c`, `tcp_process`).  Two hosts run the same code; each has its
pool of control blocks, its lists of active, waiting and listening blocks in their order, and a
counter of initial sequence numbers.  Open, accept, close, abort, the timers and
the reclaiming of old connections when the pool is empty are actions; every
segment once sent may arrive at any time, again, or never.

**Netconn** (`api_lib.c`, `api_msg.c`, `sockets.c`, `transport_subsys.c`, `udp.c`).
`conn` holds the fields of each `struct netconn`, `thread` where each caller is,
`queue` the requests of the transport thread.  A call is a request and a wait;
the callbacks `recv_tcp`, `sent_tcp`, `poll_tcp`, `err_tcp` and `accept_function`
are actions of the transport thread and interleave with the steps of the callers
between their look at a field and its use.  Each request may find no memory for
itself (`RequestFails`) or for the message that carries it (`Post`).  A step that touches memory that is
gone adds to `faults` and the program stops.

**Mem** holds the heap of `mem.c` as a value, one operator per function, for the
functions run under a semaphore.  **Pbuf** extends it with chains, the pool of
headers and the pool of fixed buffers, which has no lock: there each access to
`pbuf_pool`, the two counters and the cache is a step of its own.

**Cli** (`cli/`) and **Router** (the process around it, with the abstract
`JobQueue` in place of the work queue).  A command is one byte, a line is that byte
and a newline; what a client types is a script of `Scenarios`, cut into reads in
every way.  `parser_lock`, the focus and `skip_next_prompt` are as in the code.
`Boot` brings the parts up in the order of `main`; `Network` reads a frame into the
one buffer on the stack, copies it and queues it.  A write to a client that does
not read waits with `parser_lock` held (`Blocks`, `Waits`), and a shutdown may wait
in `cli_ping_destroy`: no fairness is owed to such a step.

**SrMininet** (`sr_mininet_read_packet` and the loop around it) is the network thread
alone, as an abstract specification that counts frames and lets them come for
ever.  `Router`, which tells a bounded number of frames apart, implements it.

**Nf10** (the Linux driver).  `nf10_probe` takes its resources one by one and a
failing step gives back those below its label; `nf10priv_xmit` is cut at the
points where `work_handler`, which does not take `tx_lock`, can change the
counters; `work_handler` is a loop of its reads, frees and wake-ups.  The card is
modelled from its DMA core: it takes descriptors in order, looks at its interrupt
enable when it queues a completion (`rx_ctrl.v:230`, `245`) and sends the interrupt
behind it.  The driver's write of the enable is posted and crosses into another
clock domain (`cfg.v:162`), so completions may still land that were queued under an
older value: `card.may` holds the values that are possible, until `CardSettles`.

`JobQueue`, `BinarySemaphore` and `SrMininet` are abstract specifications; `WorkQueue`,
`SysSem` and `Router` state the refinement with `INSTANCE`, and `Router` builds on
`JobQueue`.
`...Proofs` modules hold the proofs, `MC...` modules and `.cfg` files the
instances.  `SysArchProofs` is about `SysSem`, `SysMbox` and `SysTimeouts`,
`RouterProofs` about `Router` and `Cli`; `WorkQueue`, `Ping`, `TcpReceive`, `TcpSend`, `TcpConn` and `Nf10`
have a module of proofs of their own.  The invariants of a module are conjunctions of
named parts, each with its own comment: `QueueSane`, for example, is `TypeOK`,
`MutualExclusion`, `ListIsFifo` and `NoDanglingItem`.

## 3. Runs

| run | what it asks | instance | distinct states |
|---|---|---|---|
| `work_queue` | `QueueSane`: exclusion, FIFO list, no use after free; refinement of `JobQueue`; every item and every worker ends | 2 workers, 2 producers, 3 jobs | 29,437 |
| `semaphore` | `SemaphoreSane`: no lost signal; refinement of `BinarySemaphore`; every signal is used | 3 threads | 3,735 |
| `mailbox` | `MailboxSane`: exclusion, the ring is the queue of posted messages, one owner per message, no lost mail; every message comes back to the pool | 2 posters, 3 messages, 4 slots | 389,277 |
| `timeouts` | `DeltaListSane`: differences add up, firing in order | 5 timers, 4 pool elements, delays 0 to 7 | 660, up to the symmetry of timers |
| `ping` | `PingListSane`: list linked and sorted, no request the scrubber sleeps over; at most one answer; every request is answered or times out | 3 requests, clock to 3, one setback | 169,086 |
| `tcp_receive` | `ReceiverSane`: queue in order, nothing skipped; delivery is a prefix, the end comes after the data, all is acknowledged | 7 bytes and a FIN in 8 overlapping segments, window 4 | 5,419 |
| `tcp_send` | `SenderSane`: nothing lost from the queues, the counters fit them; `SenderRegular`; all is acknowledged in the end | 3 bytes and a FIN, one transmission lost, windows 1 and 3 | 348,662 |
| `tcp_conn` | `PcbsSane`: the axioms of the lists, one receiver per segment; `Agreement` of the two ends | a client with 2 control blocks, a server with 1, 8 segments | 324,092 |
| `netconn` | `ConnsOwned`: one owner each; `RequestsSafe`: own answers, nothing freed is used; `StreamsIntact`; every waiting call ends | 2 netconns, 2 descriptors, server and worker, two segments each way, three budgets | 233,081 |
| `memory` | `MemorySane`: heap well formed and owned; each buffer at one place; lengths add up | 2 threads, a heap of 36 bytes, 2 pool buffers, 1 header | 879,744 |
| `router` | `BuffersSane`, `ClientServed`; frames read as `SrMininet` says, handled as received, all of them; clients get their prompts | 2 interfaces, 2 workers, 2 clients, 6 scenarios | 162,652 |
| `driver` | `DriverSane`: counters, what a start or a removal leaves; own slot and lines, order of the rings; completions seen, queues woken | 2 ports, rings of 2 and 4, six budgets | 201,034 |

Why the bounds are enough.  Two workers and two producers make every pair of
roles meet, with a third job on the list while two are in hand; three jobs make
a list with a head, a middle and a tail.  Three threads on a semaphore are a
signaller, a sleeper and one that takes the signal from under it.  Three
messages in four slots fill the ring as far as the pool allows and wrap the
indices.  Three requests reach the insertion in the middle of the list, two
sequence numbers the wrap of the counter.  The segments of `tcp_receive`
include three lengths of the same segment and gaps on both sides of it, and the
window is smaller than the stream, so that it closes and opens.  In `tcp_send`
a segment holds two bytes and a window of 1 is smaller than that: the third byte is
chained to a segment that is unsent or was put back by the time-out, or starts a
second segment; the three bytes fill the send buffer, so that the FIN wraps
`snd_buf`; four duplicate acknowledgements pass the threshold of fast retransmit.
In `tcp_conn` the server's single control block makes every
second connection reclaim the first, and old segments of one connection meet
the next one.  `netconn` needs two netconns for a listener and what it accepts; a
write of two pieces into a send buffer of one waits for room, and reads of two
bytes cut the arriving segments of three, of which a connection gets two.  Its budgets
are two connections, a repeated end, or one mishap (a reset, or a lack of memory
anywhere) at any point.  The heap of `memory` holds two buffers with gaps, so that
it is exhausted, cut and merged; two pool buffers make a chain and empty the pool
under the allocator.  The rings of `driver` wrap after two and four slots; each
budget lets one side be busy (two senders with frames of two sizes, more frames than
slots, a failing step, allocation or mapping, receiving, removal, register writes).
The scenarios of `router` include a client that does not read and a ping beside a
shutdown.

Every bound is a constant of its module (`MaxTime`, `SetBacks`, `Pings`, `Losses`,
`MaxDups`, `MaxSent`, `MaxIss`, `MaxIn`, `MaxOut`, `MaxRef`, `MaxLive`,
`MaxPackets`, `Room`, `Scenarios`, `Budgets`); the work queue, the semaphore, the mailbox and the timeouts
are finite by themselves.

`CHECK_DEADLOCK FALSE` is set where the system may stop: after `wq_destroy`,
after the shutdown of the ping handler or of the router, when a stream has been
sent or received, when a bound is used up, and after a card has been removed.

What a property excuses is written in it, and nothing that the code recovers from is
excused.  `Netconn` and `Nf10` keep in `trouble`, `Cli` in `doubt` and `ahead`, the
events from which the code does not recover; each can happen in the run, and
section 5 says what goes wrong after it.

- `RequestsSafe`: that answers go to their callers is claimed until `err_tcp` has
  answered where nobody asked, a request was dropped or a connect found no memory.
  Each fault is tied to its cause: a freed request is used only after a reset, a
  null control block only after a reset or a lack of memory, a freed mailbox only
  by a segment that reports the end again; a freed connection never.
- `StreamsIntact`: that no byte is written twice holds always, that none is left out
  until an event is in `trouble`.  `CallsEnd`: but for a call whose own request was
  thrown away.
- `ClientServed`: `doubt` and `ahead`.  `ClientsAnswered`: also a shutdown, and a write
  that is stuck for ever in a client that does not read.
- `PacketsHandled`: for an interface before which the traffic pauses in the end.
- `AllAcknowledged`: but for a lost acknowledgement of data (not of the FIN) that the
  code does not repeat.  `AllSent`: if again and again the windows are open and the
  time-out is within the reach of its counter.
- `OwnSlot`, `InCardOrder`, the counters of `DriverSane`: until a slot is skipped by a
  mapping error.  `CompletionsSeen`, `QueuesWoken`: until then or until a completion is
  wiped out; and but for the last completion of all, if it comes without an
  interrupt because the enable was still on its way.

### Configurations that show a flaw

These are kept beside the runs above and are run by hand, for example
`tlc -config MCTcpFin.cfg MCTcpReceive`; TLC ends each with a counterexample.

| configuration | module | violated | shows |
|---|---|---|---|
| `MCPingDestroy` | `MCPing` | `DestroyReturns` | `cli_ping_destroy` can wait for ever |
| `MCPingStaleFd` | `MCPing` | `NotifiesRequester` | an answer reaches another client |
| `MCTcpLostAck` | `MCTcpReceive` | `OutsideIsAcked` | repeated data is dropped without an answer |
| `MCTcpFin` | `MCTcpReceive` | `FinReported` | a queued FIN is acknowledged and not reported |
| `MCTcpRepacketized` | `MCTcpReceive` | `DeliveredIsPrefix` | wrong bytes from a peer that cuts its stream anew |
| `MCTcpTimer` | `MCTcpSend` | `RepeatedOrGivenUp` | after a few losses the time-out is beyond its counter, and the sender stops |
| `MCTcpCwnd` | `MCTcpSend` | `RepeatedOrGivenUp` | the congestion window wraps to 0 and the sender stops |
| `MCSrMininet` | `SrMininet` | `EachIntfChecked` | a busy interface starves those after it; `ReadsReady` and `ReadInTurn` of the same configuration hold |

Four more need no configuration of their own: named as the INVARIANT in a run's
configuration, in place of its properties, they are violated.

| in | violated | shows |
|---|---|---|
| `MCNetconn` | `ClosedMailboxUnused` | `recv_tcp` posts to a mailbox that `netconn_recv` has freed |
| `MCPbuf` | `LfreeLowest` | `mem_realloc` leaves a hole below `lfree` |
| `MCPbuf` | `Aligned` | a block behind an unaligned remainder is unaligned |
| `MCNf10` | `NoOverflow` | register writes go on although the card's buffer is full |

### Fairness

- A thread that can run does run: weak fairness of its steps.
- A thread that waits for a pthread mutex gets it if the mutex is free again and
  again (strong fairness of `EnqueueLock`, `WorkerLock`, `DestroyLock`,
  `ScrubLock`, `DestroyWait`, `DestroyEnd`, `ReplySearch`): the holders release it
  after a few instructions, and the kernel wakes waiters.
- Jobs end, time passes; nobody has to submit, to ping, to reply or to shut down,
  and a timeout does not have to strike.
- `TcpReceive`: the peer repeats the segment with the first byte it has not heard to
  be acknowledged, and nothing else is certain to be sent; not every copy of it and
  not every acknowledgement of it is lost (strong fairness of that `Arrive`).  The
  acknowledgements of the timer and of `tcp_recved` may all be lost.
- `TcpSend`: the slow timer ticks and polls, since `tcp_tmr` re-arms itself; what the
  network has not lost arrives, and so does the acknowledgement of it, with any
  window.  Losses are bounded by `Losses`; that a window opens again is a premise of
  `AllSent` (the code has no persist timer).
- `Netconn`: application threads and the transport thread run; the poll timer and
  the set-up of a connection come again and again (strong fairness, for other
  requests are served in between).
- `Router`: main, the network thread, the workers, the ping thread and the clients'
  threads run, except for a write to a client that does not read and for the end of a
  shutdown (`Proceeds`, `FeedbackWaits`).  Clients need not type.
- `SrMininet`: the network thread runs; nothing is assumed of the senders.
- `Nf10`: senders and `work_handler` run, the card sends what it is given, and what it
  has put on the bus arrives (`CardInterrupts`, `CardSettles`); frames need not
  arrive.

## 4. Proofs

All for every value of the constants that satisfies the `ASSUME` of the module.

- `WorkQueueProofs`: type correctness, mutual exclusion, FIFO list, memory, their
  conjunction `QueueSane`, and the refinement of `JobQueue`.  The invariant is made
  inductive by `ThreadState` (which thread may be where, and that producers are
  gone once `wq_destroy` runs) and `Items` (each item is at one place: with its
  producer, on the list, with one worker, or freed).  `ThreadsAssumption`: the kinds
  of threads are disjoint, and there are finitely many workers.
- `SysArchProofs`, the semaphore: types, no lost signal (`SemaphoreSane`), the refinement
  of `BinarySemaphore`.  `NotYet` says that a thread still in the wait has not been
  given the semaphore.
- `SysArchProofs`, the mailbox: types, exclusion, ring, ownership and wake-ups (`MailboxSane`).
  That the ring never fills up is a pigeonhole argument (`InboxFits`): the messages
  in it are different elements of a pool smaller than the ring, which is
  `MboxAssumption`; for the transport thread the code has 8 messages and 100
  slots.
- `TcpReceiveProofs`: types, nothing skipped and the queue (`ReceiverSane`), delivery,
  the end of the stream, for a peer that is `Regular`: it never starts a segment
  inside another one, though it may add data to a segment before it repeats it, and
  does not add a FIN.  The strengthening is `QueueAsSent`: under `Regular` nothing
  that is queued was ever cut, which is what makes the next chain of segments fit
  exactly.  Without `Regular` the theorem is false, as `MCTcpRepacketized` shows.  That
  a peer that runs the code of this repository is like that is the theorem
  `SenderRegularCorrect` of the next module.
- `TcpSendProofs`: the stream is queued without a gap and the counters of the buffer
  are right (`StreamQueued`: `NothingLost` and `Accounting`), the segments ever sent
  are `SenderRegular`, and `SenderSane`.  The invariant takes `unacked` and `unsent` as
  one queue, because `tcp_output` and the time-out only move the border between them:
  it is a `Chain` (no empty segment, no gap, each payload at its number) that `Spans`
  from `lastack` to `snd_lbb`; `snd_buf` and `snd_queuelen` are functions of it.  `Sent`
  is needed for `SenderRegular`: each segment ever on the wire is `Apart` from every
  other and from every queued one, so that a repetition with more data still starts
  where it started.  `SenderSaneCorrect` has the hypothesis `CountersFit`, that `cwnd`,
  `ssthresh` and `rto` are within their widths, for `TypeOK` claims that and the code
  does not see to it (`cwnd` wraps, section 5, and nothing bounds `rto`); the other
  three theorems have no such hypothesis.
- `TcpConnProofs`: `PcbsSane` and `Agreement`.  Two blocks with matching ports need not
  belong to the same connection: a client can be in SYN_SENT with a port whose last
  connection the server still holds, or the server can answer an old SYN.  The
  invariant (`Pair`) calls the two `Engaged` once the client's side has seen the SYN of the
  server's block.  From then on a client that still waits can only get
  acknowledgements older than its SYN (`TooOld`), so that it never joins a connection
  of its predecessor, and a synchronized one agrees with the server (`Agree`), also about
  every acknowledgement still on the way.  `Own` and `GoodPcb` bound what was ever sent
  from a pair of ports by the initial sequence number: that is where the proof needs
  `Ticks` to be 3 at least, the numbers that a SYN and a FIN of one connection use (the
  code adds `tcp_ticks`, which is more than that two seconds after the start).
  `ConnAssumption` further says that there are two hosts, that a host has more ports
  than blocks, so that `tcp_new_port` ends, and room for a listener.  Every
  operator of the model (`AckNow`, `TakeAck`, `PcbRemove`, `Reclaim`, ...) has a lemma
  that it keeps the invariant of the two sides (`World`) and of the lists
  (`Lists`); an action is a chain of them.
- `SysArchProofs`, the timeouts: `DeltaListSane`.  The invariant relates each entry to the one
  before it only (`Differences`); that the sums of the walk in `sys_timeout` are the
  delays follows by induction along the list.  `TimeoutsAssumption`: delays are
  natural numbers and there is a longest one.
- `PingProofs`: the list (`PingListSane`) and one answer for each request (`OneAnswer`).
  The invariant `Chained` names the nodes in order by a sequence and says of `next`,
  `prev` and `expire` what they are for each; what the loops of the code (`Walk`,
  `FirstIn`) find follows by induction.  `Answered` ties the answers to the list: a
  request is on it and not answered, or off it and answered once.
- `Nf10Proofs`: `DriverSane`, `OwnSlot` and `InCardOrder`.  For the first, what is held
  while a start runs is a prefix of `Steps`, so that each failing step is seen to leave exactly what
  its label forgets.  The
  driver knows slots and counters; the invariant says which frame is behind each.
  Frames are numbered as they were given a slot, and as long as no slot was skipped
  the k-th is in slot `(k - 1) % TxRing` (`Numbered`), so that the pointers of the driver
  and of the card, each of which goes round on its own, are the numbers of the next
  frame to book, to send and to free; `InHand`, `Booked`, `Posted` and `Done` say where a
  frame is in between, and `Taped` takes the packet memory of the card as a tape that
  is used once, from which the lines of two frames are seen to be different.
  `SizesAssumption`: the rings have room, a frame fits into the memory of the card, and
  the marks at which queues are woken lie within it.  After a failed mapping has left
  a slot out ("slot skipped") the books are wrong, as section 5 says, and the parts
  that depend on them are excused.
- `RouterProofs`: `BuffersSane`, `HandledAsReceived` and `ClientServed`.  For the first,
  `CliInv` adds to the types and to `HolderInParser` (a thread is in the parser exactly
  when it holds `parser_lock`, and then the focus is its client) that a buffer on its
  way to the parser has a newline and room behind it.  For the second, `PathInv` has the stream of each interface as the
  concatenation of its jobs, the one buffer of the network thread and its socket.
  `ClientServed` needs more: that a client which waits for its prompts has at most one
  line under way depends on its prompts, and its prompts depend on what the parser, the
  ping thread and `skip_next_prompt` have done before.  `Content` says, for each place
  its thread can be at, where the bytes of that line are (in the socket, cut anywhere
  between socket and buffer, or in the buffer with `noff` at its newline) and that
  nothing else is there, so that the wrong copy of section 5 (`cli_parser.y:467`) copies
  nothing.  `Account` balances the books: prompts seen, pings open and the prompt `Due`
  make one for the welcome and one for each line run (`Flood` for a flood).  The only
  imbalance is `Loose`: the ping thread has found the flag set by a command of the same
  client, and its own second half will be in `doubt` if the flag is still set then.
  `Flags` says that the focus is the holder's, alive unless its client has hung up,
  and that a set flag belongs to the holder.  `BufferAssumption`: `CLI_INIT_BUF` is
  positive and not above `CLI_MAX_BUF`, a flood asks at least once.  `ClientAssumption`:
  what clients type are lines, each with its newline at the end only, and what they send
  by themselves when they connect has no newline and arrives in one read, for that read
  is all the code forgets.  `PathAssumption`: the interface file is a sequence of names,
  and `None` is neither a job nor a frame.

Induction over data uses no theorem with an operator as its parameter: the lemmas
`LeastNatural` (`Least`) and `Induction` of these modules are stated for sets and
follow from `NatLessThanWellFounded` and `WFMin`.

Only model-checked: every liveness property, for liveness and `ENABLED` are outside
what the prover does; the widths of `cwnd`, `ssthresh` and `rto` of `TcpSend`; and all
of `Netconn`, `Mem` and `Pbuf`.

## 5. What the models show of the code

With a counterexample (section 3):

- `cli_ping.c:64` waits without a predicate ("wait for the scrubber thread to
  terminate", line 61) for a signal that may already have been sent; the router
  does not shut down.
- `cli_ping.c:169` answers on a descriptor that may belong to another client by now.
- `tcp_input.c:861` does not acknowledge repeated data before the window, though line
  1059 says that segments out of the window are.
- `tcp_input.c:928` reads the FIN flag from `inseg`, not from the queued `cseg`.
- `tcp_input.c:872`: a queue that starts before `rcv_nxt` makes a length wrap.
- `tcp_input.c:641`, `679`, `684`: the test for an overflow of `cwnd` compares
  integers and is always true; the window can become 0, and the next growth
  divides by it.
- `tcp.c:469` shifts the time-out by a table of back-offs, beyond the 8 bits of `rtime`
  (`tcp.h:197`): after a few losses in a row the segment is neither repeated nor given
  up after `TCP_MAXRTX` ("Maximum number of retransmissions of data segments",
  `lwipopts.h:121`).
- `mem.c:348`: `mem_realloc` cuts at an unaligned place, so that a later payload
  ends up to three bytes past its block (`pbuf.c:279`) and `mem_malloc`'s own assertion
  (`mem.c:250`) fails; it does not lower `lfree`, "pointer to the lowest free block"
  (`mem.c:83`), and the hole is not found.
- `api_msg.c:58`: `recv_tcp` tests `recvmbox` and posts to it in two steps; `TF_GOT_FIN` is
  never cleared, so that each later segment reports the end again, and
  `netconn_recv` frees the mailbox at the first one (`api_lib.c:462`).
- `sr_mininet_extension.c:118`, `126`: the scan starts at the first interface and returns
  after one frame, though line 78 says that it "polls each of the interfaces".
- `nf10fops.c:97` has `~` for `!`: the status of the write buffer is never seen to be
  full, against "check for write buffer overflow" (line 87).

Built into the models as it is in the code, and excused by name in a property:

- `api_msg.c:58`: `recv_tcp` clears `conn->err` between the ERR_MEM of `do_write` and the
  look of `netconn_write` at it (`api_lib.c:585`); the piece is lost ("error lost").
- `api_msg.c:136`: `err_tcp` posts an answer nobody asked for, and the next call takes
  it for its own; `netconn_recv` and `netconn_peer` use the control block it cleared,
  and after a reset `netconn_delete` frees the connection before the request that
  deletes it is served ("reset").
- `transport_subsys.c:155`: a request for which there is no message is thrown away and
  its caller waits for ever ("drop").
- `cli_parser.y:456`, `467`: two lines in one read run the first twice and the second
  never ("ahead").  `cli_ping.c:177` prints its prompt without `parser_lock`
  ("doubt"), and `skip_next_prompt` stays set when a flooding client dies.
- `socket_helper.c:144` waits for a client that does not read, with `parser_lock` held
  (`Stuck`); `cli.c:411` waits in `cli_ping_destroy` with it held.
- `nf10priv.c:227` invalidates a completion after the counter has gone down
  ("completion lost"); `113` leaves the pointers moved when a mapping fails ("slot
  skipped"): from then on a frame can be freed in the place of another, what
  `mem_tx_pkt.cnt` is given back is not what was taken, and it can pass its bounds.
  `343` enables the interrupts by a posted write without reading it back, so that the
  last completion can go unseen (`card.quiet`) until the next one.
  `nf10iface.c:87` reads the length of a frame that may be freed;
  `nf10priv.c:278` forgets the buffer of a bad frame.
- `nf10driver.c:264` leaves interrupt, interfaces and buffers registered,
  `nf10iface.c:160` the interrupt, and no path destroys the work queue; `nf10_remove`
  does not wait for its work and does not free the buffers the card has (`GivesBack`
  says so exactly).

Seen while reading, in parts the models leave out or abstract:

- Work queue and timers: `sr_work_queue.c:63` reads the number of workers without the
  lock and can destroy the mutex while the last worker holds it; `sys_arch.c:235`
  charges a millisecond for every message, so that a busy transport thread runs its
  timers early; `sys.c:95` runs timers inside waits for semaphores; `sys.c:157` drops a
  timeout silently when the pool is empty; `sys_arch.c:151` has an unlocked list of
  threads; `cli_ping.c:260` can compute a negative time to sleep.
- TCP: `tcp_input.c:974` leaks the queued segment that a longer one replaces; `507`
  and `271` move the state on a FIN that is ahead of its data and never clear
  `TF_GOT_FIN`; `528` takes an acknowledgement of everything sent for one of a FIN
  that is not sent yet; `482` uses a control block after `tcp_abort`; `tcp.c:500`
  compares a timer of 16 bits with ticks of 32; `tcp.c:307` leaves a listener on no list when its
  pool is empty; `tcp_close` of a bound, unconnected control block leaks it.
- Sockets: `get_socket` accepts `NUM_SOCKETS`; `lwip_sendto` before a bind uses a null
  pointer; `lwip_recvfrom` reads a netbuf it has deleted; `transport_apimsg` gives its
  request back to another pool; the ring of `recvmbox` is bounded by no pool
  (`api_msg.c:60`); `memp_malloc` and `memp_free` are used from two threads without the
  lock (`api_lib.c:273`).
- Memory: `pbuf_header` of a ROM pbuf compares unrelated addresses, so that `udp.c:276`
  writes in front of the caller's data; `pbuf_realloc` frees twice when two buffers
  are left over (`pbuf.c:422`), which no caller reaches.
- Router: `sr_mininet_extension.c:122` takes a read error for a length;
  `router_add_interface` has no bound; `sr_transport_input` does not look at what
  `pbuf_alloc` returns (`sr_lwtcp_glue.c:42`); nobody frees the packets that
  `sr_integ_input` copies; `sr_destroy_instance` is never reached.

## 6. Not modelled, and the plan

`PROJECT.json` lists every part with its status.  Left out for good: `ip.c`,
`icmp.c`, `tcpip.c` and `main.c` of lwIP, which the Makefile does not link (so
`udp_input`, called only by `ip.c:531`, runs in other programs only); the Verilog
cores, generated register maps and embedded code; topologies; formatting, logging
and the grammar of the command line; the CPU mode, whose sockets are never opened;
forwarding, look-ups and ARP, whose bodies are empty in this repository.

Left out of parts that are modelled, because it needs a second failure or changes
nothing the properties speak of:

- `SysMbox`: a request for which there is no message is given up; that
  `transport_subsys.c:154` frees it into the pool of messages is not followed.
- `Ping`: no spurious wake-up of the wait at `cli_ping.c:64`.
- `TcpConn`: `tcp_enqueue` of the SYN|ACK failing (`tcp_input.c:441`), the null pointer
  at `tcp_input.c:450` after a connect without memory, the queueing of a SYN or FIN out
  of sequence (`949`; `TcpReceive` has it), the second call of `tcp_next_iss` in a
  connect, and a listener on no list (`tcp.c:307`), for which the pool is too large.
- `Pbuf`: the pool allocator is modelled although its only caller, `ip.c:348`, is not
  linked.
- `Cli`: a flood makes its requests in one step; the text of a ping's answer, and who
  gets it, are in `Ping`; a ping may be answered after a shutdown has begun;
  `cli_manip_ip_intf_set` (`cli.c:308`) changes an address that nothing reads.
- `Router`: a read that fails (`sr_mininet_extension.c:122`) and a failing `select`, which
  leaves its sets full.
- `Netconn`: the race of `err_tcp` for `recvmbox`, which is that of `recv_tcp`.
- `Nf10`: `create_workqueue` failing (`nf10driver.c:230`, which goes on with NULL),
  `skb_pad` failing (`nf10iface.c:68`); the enables for sending and receiving are written
  as one.

Hazards without a property here are those of the last list of section 5: most need
a second allocation to fail, nine hours of ticks, or a caller that this repository
does not have.

In this order:

1. Proofs of the safety invariants that are only model-checked: that `mem_malloc`,
   `mem_free` and `mem_realloc` keep the heap of `Mem` `WellFormed`, and from that
   `MemorySane` of `Pbuf`; `ConnsOwned` of `Netconn`.
2. The composition of `TcpSend` and `TcpReceive` over one lossy network, as a
   refinement of a byte stream.
3. The mailboxes of `Netconn` as instances of the abstract queue that `SysMbox`
   implements.
