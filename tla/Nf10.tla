--------------------------------- MODULE Nf10 --------------------------------
(***************************************************************************)
(* The Linux driver of the NetFPGA-10G card (HW_stub/.../reference_nic/    *)
(* sw/host/driver): nf10_probe takes the resources of the card one by one  *)
(* and gives them back from the failing one; nf10priv_xmit puts frames of  *)
(* the four interfaces into one ring of descriptors; the interrupt handler *)
(* queues work_handler, which polls the two completion rings, frees what   *)
(* was sent, delivers what was received and gives the card new buffers;    *)
(* the ioctls of /dev/nf10 write and read registers over the AXI bus.      *)
(*                                                                         *)
(* The card (its DMA core, dma_v1_10_a) takes the descriptors of a ring in *)
(* order and writes a completion for each.  When it queues a completion it *)
(* looks at its interrupt enable, and if that is set it sends an interrupt *)
(* behind the completion; the enable is set by a posted write that nobody  *)
(* waits for and crosses into another clock domain, so completions still   *)
(* land that were queued under an older value.  Sizes are in cache lines,  *)
(* as in the driver.                                                       *)
(***************************************************************************)
EXTENDS Integers, Sequences, FiniteSets, SequencesExt

CONSTANTS
  Ports,     \* the interfaces nf0 .. nf3, each with its sender
  None,
  TxRing, RxRing, \* cl_size of the descriptor and completion rings
  PktRoom,   \* cl_size of the card's memory for packets to send
  RxRoom,    \* 21: the receive buffers the card's memory is good for
  StopRoom,  \* 32: room for the largest frame
  WakeDsc,   \* 8 descriptors ...
  WakeRoom,  \* ... and 4 * 32 lines free before the queues are woken
  MaxTcnt,   \* 10000: the most rounds work_handler polls in vain
  AxiDepth,  \* 64: writes the AXI buffer holds
  AxiAlmost, \* 49: the count when it is not almost full
  Budgets,   \* bounds: [tx, rx, regs, toggles, faults, remove] and the
             \* cl_size of the frames to send, [sizes]
  MaxFrames  \* the most frames of a budget

ASSUME SizesAssumption ==
  /\ TxRing \in Nat \ {0} /\ RxRing \in Nat /\ RxRing > 2
  /\ PktRoom \in Nat \ {0} /\ RxRoom \in Nat \ {0}
  /\ MaxTcnt \in Nat \ {0} /\ AxiDepth \in Nat /\ AxiAlmost \in Nat
  /\ Budgets \subseteq [sizes : SUBSET (1 .. PktRoom), tx : Nat, rx : Nat, regs : Nat,
                        toggles : Nat, faults : Nat, remove : Nat]
  /\ None \notin Ports \cup {"bad"}
  /\ WakeDsc <= TxRing /\ WakeRoom <= PktRoom

TxSlots == 0 .. TxRing - 1
RxSlots == 0 .. RxRing - 1
RxBuffers == IF RxRing - 2 < RxRoom THEN RxRing - 2 ELSE RxRoom
TxAfter(slot) == (slot + 1) % TxRing
RxAfter(slot) == (slot + 1) % RxRing

VARIABLES
  stage,     \* "probing", "ready", "failed" or "removed"
  held,      \* the resources the driver owns
  tx_lock,
  tx,        \* [wr, rd, cnt, pktWr, pktCnt]: mem_tx_dsc, host_tx_dne, mem_tx_pkt
  tx_bk,     \* tx_bk_skb, tx_bk_size and tx_bk_port of each slot
  tx_dsc,    \* the descriptors written to the card: a frame or 0
  tx_dne,    \* host_tx_dne_ptr: the frame the card has sent, or 0
  pc, cur,   \* of each port's sender: where it is, the frame it has in hand
  stopped,   \* netif_queue_stopped
  rx,        \* [wr, rd, cnt]: mem_rx_dsc and host_rx_dne
  rx_bk,     \* rx_bk_skb
  rx_dsc,    \* the buffers given to the card: an skb or 0
  rx_dne,    \* host_rx_dne_ptr: the port the card has written, or None
  port_up,
  queued,    \* the work is on its queue
  hpc, h,    \* where work_handler is, and its variables
  axi_wr_cnt,
  card,      \* the card: [tx, rx] slots it comes to, [wish] the enable the
             \* driver wrote last, [may] the values completions still to land
             \* were queued under, [int] an interrupt on its way, [quiet] the
             \* last completion came without one though the driver had enabled
             \* them, [fifo] AXI writes it has not done
  budget,    \* what is left of the bounds
  frame,     \* history: where each frame to send was put, [slot, at, size]
  sent,      \* history: the frames the card has sent
  freed,     \* history: the frames work_handler has freed
  data,      \* history: the frame the card has put into each skb
  got,       \* history: how many frames the card has received
  taken,     \* history: the frames work_handler has found, in order
  trouble    \* history: what the driver does not recover from

txVars == <<tx_lock, tx, tx_bk, tx_dsc, tx_dne, pc, cur, stopped, frame, sent,
            freed>>
rxVars == <<rx, rx_bk, rx_dsc, rx_dne, port_up, data, got, taken>>
workVars == <<queued, hpc, h>>
ownVars == <<stage, held>>
vars == <<ownVars, txVars, rxVars, workVars, axi_wr_cnt, card, budget, trouble>>

Init ==
  /\ stage = "probing" /\ held = {}
  /\ tx_lock = None
  /\ tx = [wr |-> 0, rd |-> 0, cnt |-> 0, pktWr |-> 0, pktCnt |-> 0]
  /\ tx_bk = [i \in TxSlots |-> [skb |-> 0, size |-> 0, port |-> None]]
  /\ tx_dsc = [i \in TxSlots |-> 0] /\ tx_dne = [i \in TxSlots |-> 0]
  /\ pc = [p \in Ports |-> "idle"] /\ cur = [p \in Ports |-> 0]
  /\ stopped = [p \in Ports |-> FALSE]
  /\ rx = [wr |-> 0, rd |-> 0, cnt |-> 0]
  /\ rx_bk = [i \in RxSlots |-> 0] /\ rx_dsc = [i \in RxSlots |-> 0]
  /\ rx_dne = [i \in RxSlots |-> None]
  /\ port_up = [p \in Ports |-> FALSE]
  /\ queued = FALSE /\ hpc = "idle"
  /\ h = [index |-> 0, tcnt |-> 0, work |-> FALSE, on |-> TRUE, done |-> TRUE,
          port |-> None]
  /\ axi_wr_cnt = 0
  /\ card = [tx |-> 0, rx |-> 0, wish |-> TRUE, may |-> {TRUE}, int |-> FALSE,
             quiet |-> FALSE, fifo |-> 0]
  /\ budget \in Budgets
  /\ frame = <<>> /\ sent = <<>> /\ freed = <<>>
  /\ data = <<>> /\ got = 0 /\ taken = <<>>
  /\ trouble = {}

Spend(what) == budget[what] > 0 /\ budget' = [budget EXCEPT ![what] = @ - 1]
Note(what, happened) ==
  trouble' = IF happened THEN trouble \cup {what} ELSE trouble

\* The interfaces are there from nf10iface_probe on.
Attached == stage \in {"probing", "ready"} /\ "netdevs" \in held

-----------------------------------------------------------------------------
(* nf10_probe and nf10_remove.                                             *)

Steps == <<"device", "mask", "msi", "region0", "region2", "card", "cfg", "dsc",
           "dne", "wq", "books", "irq", "netdevs", "skbs", "chrdev">>
Step == Steps[Cardinality(held) + 1]

\* The labels at the end of nf10_probe, each with all that follow it.
err_out_disable_device == {"device", "mask"}
err_out_msi == err_out_disable_device \cup {"msi"}
err_out_release_mem_region1 == err_out_msi \cup {"region0"}
err_out_release_mem_region2 == err_out_release_mem_region1 \cup {"region2"}
err_out_iounmap == err_out_release_mem_region2 \cup {"card", "cfg", "dsc"}
err_out_free_private2 == err_out_iounmap \cup {"dne", "books"}

\* Mutant: the card's memory not unmapped when its descriptors cannot be mapped.
GotoShort(step) == IF step = "dsc" THEN err_out_release_mem_region2
                   ELSE err_out_free_private2

\* Where a failing step goes.
Goto(step) == CASE step = "device" -> {}
                [] step \in {"mask", "msi"} -> err_out_disable_device
                [] step = "region0" -> err_out_msi
                [] step = "region2" -> err_out_release_mem_region1
                [] step = "card" -> err_out_release_mem_region2
                [] step \in {"cfg", "dsc"} -> err_out_iounmap
                [] OTHER -> err_out_free_private2

\* Once the interfaces are registered the card gets its buffers, for all slots
\* but two or as many as fit, or fewer for lack of memory, which goes unnoticed.
FirstBuffers(n) ==
  /\ rx' = [wr |-> n, rd |-> 0, cnt |-> n]
  /\ rx_bk' = [i \in RxSlots |-> IF i < n THEN i + 1 ELSE 0]
  /\ rx_dsc' = rx_bk'
  /\ data' = [i \in 1 .. n |-> 0]
  /\ IF n = RxBuffers THEN UNCHANGED <<budget, trouble>>
     ELSE Spend("faults") /\ Note("no buffer", TRUE)

Probe ==
  /\ stage = "probing"
  /\ held' = held \cup {Step}
  /\ stage' = IF Step = "chrdev" THEN "ready" ELSE "probing"
  /\ IF Step = "skbs" THEN \E n \in 0 .. RxBuffers : FirstBuffers(n)
     ELSE UNCHANGED <<rx, rx_bk, rx_dsc, data, budget, trouble>>
  /\ UNCHANGED <<txVars, rx_dne, port_up, got, taken, workVars, axi_wr_cnt, card>>

\* That the work queue or a buffer cannot be made is only printed.
ProbeFails ==
  /\ stage = "probing" /\ Step \notin {"wq", "skbs"} /\ Spend("faults")
  /\ stage' = "failed"
  /\ held' = held \ Goto(Step)
  /\ UNCHANGED <<txVars, rxVars, workVars, axi_wr_cnt, card, trouble>>

\* nf10_remove, which waits for the senders but not for work_handler, and
\* frees neither its queue nor the buffers the card has.
RemoveCard ==
  /\ stage = "ready" /\ \A p \in Ports : pc[p] = "idle"
  /\ Spend("remove")
  /\ stage' = "removed" /\ held' = {"wq", "skbs"}
  /\ Note("removed at work", queued \/ hpc # "idle")
  /\ UNCHANGED <<txVars, rxVars, workVars, axi_wr_cnt, card>>

\* nf10i_open and nf10i_stop.
Toggle(p) ==
  /\ Attached /\ pc[p] = "idle" /\ Spend("toggles")
  /\ port_up' = [port_up EXCEPT ![p] = ~@]
  /\ UNCHANGED <<ownVars, txVars, rx, rx_bk, rx_dsc, rx_dne, data, got, taken,
                 workVars, axi_wr_cnt, card, trouble>>

-----------------------------------------------------------------------------
(* nf10i_tx and nf10priv_xmit: the kernel calls them for an open port whose *)
(* queue is not stopped, one frame of a port at a time.                    *)

\* Mutant: the card's packet memory taken for one line longer than it is.
FitsOneMore(size) == tx.cnt + 1 <= TxRing /\ tx.pktCnt + size <= PktRoom + 1

Fits(size) == tx.cnt + 1 <= TxRing /\ tx.pktCnt + size <= PktRoom

Sending(p) == Attached /\ port_up[p] /\ pc[p] = "idle" /\ ~stopped[p]
              /\ tx_lock = None

Claimed(size) == [tx EXCEPT !.wr = TxAfter(@), !.pktWr = (@ + size) % PktRoom]

Xmit(p, size) ==
  /\ Sending(p) /\ Fits(size) /\ Spend("tx")
  /\ tx_lock' = p
  /\ tx' = [Claimed(size) EXCEPT !.cnt = @ + 1, !.pktCnt = @ + size]
  /\ frame' = Append(frame, [slot |-> tx.wr, at |-> tx.pktWr, size |-> size])
  /\ cur' = [cur EXCEPT ![p] = Len(frame) + 1]
  /\ pc' = [pc EXCEPT ![p] = "test"]
  /\ UNCHANGED <<ownVars, tx_bk, tx_dsc, tx_dne, stopped, sent, freed, rxVars,
                 workVars, axi_wr_cnt, card, trouble>>

\* The frame is dropped: for lack of room, or because its address cannot be
\* mapped, and then the pointers have moved on all the same.
XmitFails(p, size) ==
  /\ Sending(p)
  /\ \/ ~Fits(size) /\ Spend("tx") /\ UNCHANGED <<tx, trouble>>
     \/ /\ Fits(size) /\ Spend("faults")
        /\ tx' = Claimed(size)
        /\ Note("slot skipped", TRUE)
  /\ UNCHANGED <<ownVars, tx_lock, tx_bk, tx_dsc, tx_dne, pc, cur, stopped,
                 frame, sent, freed, rxVars, workVars, axi_wr_cnt, card>>

XmitStep(p, from, to) == Attached /\ pc[p] = from /\ pc' = [pc EXCEPT ![p] = to]

\* Still under tx_lock: is there room for another frame?
TestRoom(p) ==
  /\ IF Fits(StopRoom) THEN XmitStep(p, "test", "book") /\ tx_lock' = None
     ELSE XmitStep(p, "test", "stop") /\ UNCHANGED tx_lock
  /\ UNCHANGED <<ownVars, tx, tx_bk, tx_dsc, tx_dne, cur, stopped, frame, sent,
                 freed, rxVars, workVars, axi_wr_cnt, card, budget, trouble>>

\* netif_stop_queue; work_handler does not take tx_lock, and may have made
\* room and looked for stopped queues since the test.  The frame in hand is
\* posted only after this, so another look is still to come.
StopQueue(p) ==
  /\ XmitStep(p, "stop", "book")
  /\ stopped' = [stopped EXCEPT ![p] = TRUE]
  /\ tx_lock' = None
  /\ UNCHANGED <<ownVars, tx, tx_bk, tx_dsc, tx_dne, cur, frame, sent, freed,
                 rxVars, workVars, axi_wr_cnt, card, budget, trouble>>

Slot(k) == frame[k].slot

KeepBooks(p) ==
  /\ XmitStep(p, "book", "post")
  /\ tx_bk' = [tx_bk EXCEPT ![Slot(cur[p])] =
                 [skb |-> cur[p], size |-> frame[cur[p]].size, port |-> p]]
  /\ UNCHANGED <<ownVars, tx_lock, tx, tx_dsc, tx_dne, cur, stopped, frame,
                 sent, freed, rxVars, workVars, axi_wr_cnt, card, budget,
                 trouble>>

WriteDescriptor(p) ==
  /\ XmitStep(p, "post", "stats")
  /\ tx_dsc' = [tx_dsc EXCEPT ![Slot(cur[p])] = cur[p]]
  /\ UNCHANGED <<ownVars, tx_lock, tx, tx_bk, tx_dne, cur, stopped, frame,
                 sent, freed, rxVars, workVars, axi_wr_cnt, card, budget,
                 trouble>>

\* The statistics of nf10i_tx read the length of the frame.
Stats(p) ==
  /\ XmitStep(p, "stats", "idle")
  /\ cur' = [cur EXCEPT ![p] = 0]
  /\ Note("freed frame read", cur[p] \in ToSet(freed))
  /\ UNCHANGED <<ownVars, tx_lock, tx, tx_bk, tx_dsc, tx_dne, stopped, frame,
                 sent, freed, rxVars, workVars, axi_wr_cnt, card, budget>>

Sender(p) == TestRoom(p) \/ StopQueue(p) \/ KeepBooks(p) \/ WriteDescriptor(p)
             \/ Stats(p)

-----------------------------------------------------------------------------
(* The card, and int_handler.                                              *)

\* A completion reaches the host, queued under the enable on.
Landed(on) == [card EXCEPT !.int = @ \/ on, !.quiet = ~on /\ card.wish]

CardSends ==
  /\ Attached /\ tx_dsc[card.tx] # 0
  /\ sent' = Append(sent, tx_dsc[card.tx])
  /\ tx_dne' = [tx_dne EXCEPT ![card.tx] = tx_dsc[card.tx]]
  /\ tx_dsc' = [tx_dsc EXCEPT ![card.tx] = 0]
  /\ \E on \in card.may : card' = [Landed(on) EXCEPT !.tx = TxAfter(@)]
  /\ UNCHANGED <<ownVars, tx_lock, tx, tx_bk, pc, cur, stopped, frame, freed,
                 rxVars, workVars, axi_wr_cnt, budget, trouble>>

\* "bad" stands for a length or a port code that work_handler rejects.
CardReceives(port) ==
  /\ Attached /\ rx_dsc[card.rx] # 0 /\ Spend("rx")
  /\ got' = got + 1
  /\ data' = [data EXCEPT ![rx_dsc[card.rx]] = got + 1]
  /\ rx_dne' = [rx_dne EXCEPT ![card.rx] = port]
  /\ rx_dsc' = [rx_dsc EXCEPT ![card.rx] = 0]
  /\ \E on \in card.may : card' = [Landed(on) EXCEPT !.rx = RxAfter(@)]
  /\ UNCHANGED <<ownVars, txVars, rx, rx_bk, port_up, taken, workVars,
                 axi_wr_cnt, trouble>>

\* The interrupt arrives, behind the completion it tells of: int_handler.
CardInterrupts ==
  /\ Attached /\ card.int
  /\ card' = [card EXCEPT !.int = FALSE]
  /\ queued' = TRUE
  /\ UNCHANGED <<ownVars, txVars, rxVars, hpc, h, axi_wr_cnt, budget, trouble>>

\* What was queued before the enable last written has all landed.
CardSettles ==
  /\ Attached /\ card.may # {card.wish}
  /\ card' = [card EXCEPT !.may = {card.wish}]
  /\ UNCHANGED <<ownVars, txVars, rxVars, workVars, axi_wr_cnt, budget, trouble>>

-----------------------------------------------------------------------------
(* work_handler.                                                           *)

HandlerStep(from, to) == Attached /\ hpc = from /\ hpc' = to

StartWork ==
  /\ queued /\ HandlerStep("idle", "poll")
  /\ queued' = FALSE
  /\ h' = [h EXCEPT !.tcnt = 1, !.work = FALSE, !.on = TRUE]
  /\ UNCHANGED <<ownVars, txVars, rxVars, axi_wr_cnt, card, budget, trouble>>

\* The registers 25 and 26 written.
WriteEnable(on) == [card EXCEPT !.wish = on, !.may = @ \cup {on}]

\* From the second round on the interrupts are off.
DisableInterrupts ==
  /\ HandlerStep("top", "poll")
  /\ h' = [h EXCEPT !.on = FALSE]
  /\ card' = WriteEnable(FALSE)
  /\ UNCHANGED <<ownVars, txVars, rxVars, queued, axi_wr_cnt, budget, trouble>>

\* Both completion rings are read before either is served.
Poll ==
  LET done == tx_dne[tx.rd] # 0
      port == rx_dne[rx.rd]
  IN  /\ HandlerStep("poll", IF done THEN "tx" ELSE IF port # None THEN "rx"
                             ELSE "end")
      /\ h' = [h EXCEPT !.done = (~done /\ port = None), !.port = port]
      /\ UNCHANGED <<ownVars, txVars, rxVars, queued, axi_wr_cnt, card, budget,
                     trouble>>

\* Mutant: the frame after the completed one freed.
FreedNext == tx_bk[TxAfter(tx.rd)]

Completed == tx_bk[tx.rd]

FreeSent ==
  /\ HandlerStep("tx", "invalidate")
  /\ h' = [h EXCEPT !.index = tx.rd]
  /\ freed' = Append(freed, Completed.skb)
  /\ tx' = [tx EXCEPT !.rd = TxAfter(@), !.cnt = @ - 1, !.pktCnt = @ - Completed.size]
  /\ UNCHANGED <<ownVars, tx_lock, tx_bk, tx_dsc, tx_dne, pc, cur, stopped,
                 frame, sent, rxVars, queued, axi_wr_cnt, card, budget, trouble>>

\* The slot is free for a sender since the counter went down: the card may
\* have completed its next frame by now.
Invalidate ==
  /\ HandlerStep("invalidate", "wake")
  /\ Note("completion lost", tx_dne[h.index] # Last(freed))
  /\ tx_dne' = [tx_dne EXCEPT ![h.index] = 0]
  /\ UNCHANGED <<ownVars, tx_lock, tx, tx_bk, tx_dsc, pc, cur, stopped, frame,
                 sent, freed, rxVars, queued, h, axi_wr_cnt, card, budget>>

\* Mutant: the port of the frame woken, not all of them.
WokenOne(p) == p = tx_bk[h.index].port

Woken(p) == TRUE

WakeQueues ==
  /\ HandlerStep("wake", IF h.port # None THEN "rx" ELSE "end")
  /\ stopped' = IF tx.cnt + WakeDsc <= TxRing /\ tx.pktCnt + WakeRoom <= PktRoom
                THEN [p \in Ports |-> stopped[p] /\ ~Woken(p)] ELSE stopped
  /\ UNCHANGED <<ownVars, tx_lock, tx, tx_bk, tx_dsc, tx_dne, pc, cur, frame,
                 sent, freed, rxVars, queued, h, axi_wr_cnt, card, budget,
                 trouble>>

Skb == rx_bk[rx.rd]

TakeReceived ==
  /\ HandlerStep("rx", "refill")
  /\ h' = [h EXCEPT !.index = rx.rd]
  /\ rx_dne' = [rx_dne EXCEPT ![rx.rd] = None]
  /\ rx' = [rx EXCEPT !.rd = RxAfter(@), !.cnt = @ - 1]
  /\ taken' = Append(taken, data[Skb])
  /\ UNCHANGED <<ownVars, txVars, rx_bk, rx_dsc, port_up, data, got, queued,
                 axi_wr_cnt, card, budget, trouble>>

\* The card is given a new skb, or none for lack of memory; there is room in
\* the ring, for the counter has just gone down.
nf10priv_send_rx_dsc(leaked) ==
  /\ rx.cnt + 1 <= RxRing /\ rx.cnt + 1 <= RxRoom
  /\ \/ /\ data' = Append(data, 0)
        /\ rx_bk' = [rx_bk EXCEPT ![rx.wr] = Len(data) + 1]
        /\ rx_dsc' = [rx_dsc EXCEPT ![rx.wr] = Len(data) + 1]
        /\ rx' = [rx EXCEPT !.wr = RxAfter(@), !.cnt = @ + 1]
        /\ trouble' = trouble \cup leaked
        /\ UNCHANGED budget
     \/ /\ Spend("faults")
        /\ trouble' = trouble \cup leaked \cup {"no buffer"}
        /\ UNCHANGED <<rx, rx_bk, rx_dsc, data>>

\* Then the skb that was taken goes to the kernel or, if its port is down, is
\* freed; that of a bad frame is forgotten.
Refill ==
  /\ HandlerStep("refill", "end")
  /\ nf10priv_send_rx_dsc(IF h.port = "bad" THEN {"skb leaked"} ELSE {})
  /\ UNCHANGED <<ownVars, txVars, rx_dne, port_up, got, taken, queued, h,
                 axi_wr_cnt, card>>

\* Mutant: the last round ended together with the polling.
EnableLeaves(t, on) ==
  IF t <= 1 /\ ~on THEN [tcnt |-> 0, work |-> FALSE, on |-> TRUE]
  ELSE [tcnt |-> t, work |-> TRUE, on |-> on]

\* The interrupts are enabled again before the last look at the rings.
Enable(t, on) ==
  IF t <= 1 /\ ~on THEN [tcnt |-> 1, work |-> FALSE, on |-> TRUE]
  ELSE [tcnt |-> t, work |-> TRUE, on |-> on]

EndRound ==
  LET t == IF h.done THEN h.tcnt - 1
           ELSE IF h.tcnt < MaxTcnt THEN h.tcnt + 1 ELSE h.tcnt
      e == Enable(t, h.on)
  IN  /\ HandlerStep("end", IF e.tcnt = 0 THEN "idle"
                             ELSE IF e.on /\ e.work THEN "top" ELSE "poll")
      /\ h' = [index |-> 0, port |-> None, done |-> TRUE, tcnt |-> e.tcnt,
               work |-> e.work, on |-> e.on]
      /\ card' = WriteEnable(e.on)
      /\ UNCHANGED <<ownVars, txVars, rxVars, queued, axi_wr_cnt, budget,
                     trouble>>

Handler == \/ StartWork \/ DisableInterrupts \/ Poll
           \/ FreeSent \/ Invalidate \/ WakeQueues
           \/ TakeReceived \/ Refill \/ EndRound

-----------------------------------------------------------------------------
(* nf10fops_ioctl, under axi_lock.  The status of the buffer is asked only  *)
(* when the count has reached its depth.                                   *)

\* The count after a write, from the status: "~(val & 0x2)" holds whatever
\* val is, so a buffer that is not empty counts as not almost full.
Counted == IF axi_wr_cnt < AxiDepth THEN axi_wr_cnt + 1
           ELSE IF card.fifo = 0 THEN 1 ELSE AxiAlmost

WriteReg ==
  /\ stage = "ready" /\ Spend("regs")
  /\ axi_wr_cnt' = Counted
  /\ card' = [card EXCEPT !.fifo = @ + 1]
  /\ UNCHANGED <<ownVars, txVars, rxVars, workVars, trouble>>

\* The answer comes behind all writes.
ReadReg ==
  /\ stage = "ready" /\ Spend("regs")
  /\ axi_wr_cnt' = 0
  /\ card' = [card EXCEPT !.fifo = 0]
  /\ UNCHANGED <<ownVars, txVars, rxVars, workVars, trouble>>

CardWrites ==
  /\ stage = "ready" /\ card.fifo > 0
  /\ card' = [card EXCEPT !.fifo = @ - 1]
  /\ UNCHANGED <<ownVars, txVars, rxVars, workVars, axi_wr_cnt, budget, trouble>>

-----------------------------------------------------------------------------

Next ==
  \/ Probe \/ ProbeFails \/ RemoveCard
  \/ \E p \in Ports :
       \/ Toggle(p) \/ Sender(p)
       \/ \E size \in budget.sizes : Xmit(p, size) \/ XmitFails(p, size)
  \/ \E port \in Ports \cup {"bad"} : CardReceives(port)
  \/ CardSends \/ CardInterrupts \/ CardSettles \/ Handler
  \/ WriteReg \/ ReadReg \/ CardWrites

Spec == Init /\ [][Next]_vars

\* Senders and the handler run on, the card sends what it is given, and what it
\* has put on the bus arrives.
Fairness == /\ WF_vars(CardSends) /\ WF_vars(CardInterrupts) /\ WF_vars(CardSettles)
            /\ WF_vars(Handler)
            /\ \A p \in Ports : WF_vars(Sender(p))

FairSpec == Spec /\ Fairness

-----------------------------------------------------------------------------

\* Type correctness; the counters of both rings stay within their sizes, and
\* the rounds of work_handler within its limit.  Once a slot has been skipped a
\* frame may be freed in place of another, and mem_tx_pkt.cnt is wrong.
TypeOK ==
  /\ stage \in {"probing", "ready", "failed", "removed"}
  /\ held \subseteq ToSet(Steps)
  /\ tx_lock \in Ports \cup {None}
  /\ tx.wr \in TxSlots /\ tx.rd \in TxSlots /\ rx.wr \in RxSlots /\ rx.rd \in RxSlots
  /\ "slot skipped" \notin trouble =>
       tx.cnt \in 0 .. TxRing /\ tx.pktCnt \in 0 .. PktRoom
  /\ rx.cnt \in 0 .. RxRing
  /\ h.tcnt \in 0 .. MaxTcnt

Bare == {"wq"}
WithIrq == Bare \cup {"irq"}
WithNetdevs == WithIrq \cup {"netdevs", "skbs"}

\* A probe that fails at any step, and a removal, leave what the labels of
\* nf10_probe and nf10_remove forget and nothing else: the work queue always,
\* the interrupt when no interface can be made (nf10iface.c:160), interrupt,
\* interfaces and buffers when there is no device file (nf10driver.c:264), and
\* the card's buffers after a removal.
GivesBack ==
  /\ stage = "failed" => held \in {{}, Bare, WithIrq, WithNetdevs}
  /\ stage = "removed" => held = {"wq", "skbs"}

Unfinished == {k \in DOMAIN frame : k \notin ToSet(freed)}
Lines(k) == {(frame[k].at + i) % PktRoom : i \in 0 .. frame[k].size - 1}

\* No two frames the card may still read share a slot of the ring or a line of
\* its packet buffer, with senders of several ports and the handler changing
\* the counters at once (nf10priv_xmit, work_handler).
OwnSlot ==
  "slot skipped" \notin trouble =>
    \A j, k \in Unfinished :
      j # k => Slot(j) # Slot(k) /\ Lines(j) \cap Lines(k) = {}

\* What work_handler frees are the frames the card has sent, in that order and
\* each once, though it knows only the slots.
FreedAsSent == "slot skipped" \notin trouble => IsPrefix(freed, sent)

\* The received frames come out of the buffers in the order they came in.
TakenAsReceived == \A i \in DOMAIN taken : taken[i] = i

\* The driver never writes to a full buffer of register writes: it counts them
\* and asks for the status when its count has reached the depth (the "check for
\* write buffer overflow" of nf10fops_ioctl).
NoOverflow == card.fifo <= AxiDepth

Hopeless == stage \in {"failed", "removed"}
            \/ trouble \cap {"slot skipped", "completion lost"} # {}

\* Every frame the card sends is freed and every frame it receives is taken:
\* no completion is left in a ring with the interrupt for it gone by, although
\* work_handler switches the interrupts off and on while completions land.
\* The exception is the last completion of all if it was queued before the
\* enable written by the handler took effect and lands after its last look.
CompletionsSeen ==
  \A n \in 1 .. MaxFrames :
    /\ (Len(sent) >= n) ~> (Len(freed) >= n \/ Hopeless \/ []card.quiet)
    /\ (got >= n) ~> (Len(taken) >= n \/ Hopeless \/ []card.quiet)

\* A stopped queue is woken again, also if work_handler made room and looked
\* for stopped queues between a sender's test and its netif_stop_queue, unless
\* the last completion of all goes unseen as above.
QueuesWoken ==
  \A p \in Ports : stopped[p] ~> (~stopped[p] \/ Hopeless \/ []card.quiet)

\* The card's rings are served in their order: what work_handler frees is what
\* was sent, and what it delivers comes in the order of arrival.
InCardOrder == FreedAsSent /\ TakenAsReceived

\* The counters of nf10priv.c stay within their bounds, and nf10_probe and
\* nf10_remove leave nothing behind but what their labels forget.
DriverSane == TypeOK /\ GivesBack
=============================================================================
