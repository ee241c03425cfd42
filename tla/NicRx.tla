-------------------------------- MODULE NicRx --------------------------------
(***************************************************************************)
(* The receive path of the White Rabbit NIC driver (wr_nic/nic-core.c,     *)
(* ring set up by wr_nic/device.c).  Three parties share the ring:         *)
(*                                                                         *)
(*   - the NIC fills the EMPTY descriptors round-robin and latches the     *)
(*     RCOMP event (external: gateware);                                   *)
(*   - the hard interrupt handler acknowledges RCOMP, masks it and         *)
(*     schedules the tasklet, one register write at a time;                *)
(*   - the tasklet (wrn_rx_interrupt) empties the ring and unmasks RCOMP.  *)
(*                                                                         *)
(* They run on different processors, so every register access of the       *)
(* driver is a step of its own.  A frame is its arrival number; whether    *)
(* the NIC flags it (ERROR, or no RX OOB block) is drawn once in traffic.  *)
(***************************************************************************)
EXTENDS Ring, Sequences

CONSTANTS
  MaxFrames   \* bound on the frames the NIC stores in a run

ASSUME MaxFramesAssumption == MaxFrames \in Nat

VARIABLES
  traffic,    \* traffic[n]: does frame n arrive without error and with OOB?
  stored,     \* number of frames the NIC has stored
  hwNext,     \* the NIC's own ring pointer
  empty,      \* the EMPTY bit of rx1 in each descriptor
  buf,        \* the frame in each descriptor's data buffer (0: none yet)
  rcomp,      \* RCOMP latched in the NIC's interrupt controller
  ier,        \* RCOMP enabled (not masked)
  ipc,        \* interrupt handler: where it is in wrn_interrupt
  sched,      \* TASKLET_STATE_SCHED of rx_tlet
  tpc,        \* tasklet: where it is in wrn_rx_interrupt
  next_rx,    \* wrn->next_rx
  skb,        \* the tasklet's local skb: the frame copied, 0 on the error path
  delivered,  \* frames passed to netif_receive_skb, in order
  rxErrors    \* ep->stats.rx_errors

hwVars == <<traffic, stored, hwNext>>
ringVars == <<empty, buf>>
irqVars == <<rcomp, ier, ipc, sched>>
outVars == <<delivered, rxErrors>>
vars == <<traffic, stored, hwNext, empty, buf, rcomp, ier, ipc, sched,
          tpc, next_rx, skb, delivered, rxErrors>>


\* Frames the driver has finished with.
Processed == Len(delivered) + rxErrors

Init ==
  /\ traffic \in [1..MaxFrames -> BOOLEAN]
  /\ stored = 0
  /\ hwNext = 0
  /\ empty = [d \in Desc |-> TRUE]
  /\ buf = [d \in Desc |-> 0]
  /\ rcomp = FALSE
  /\ ier = TRUE
  /\ ipc = "idle"
  /\ sched = FALSE
  /\ tpc = "idle"
  /\ next_rx = 0
  /\ skb = 0
  /\ delivered = << >>
  /\ rxErrors = 0

-----------------------------------------------------------------------------
(* The NIC.  A frame that finds no EMPTY descriptor is dropped by the NIC  *)
(* (the "buffer not available" status), which changes nothing here.        *)

HwStore ==
  /\ stored < MaxFrames
  /\ empty[hwNext]
  /\ stored' = stored + 1
  /\ empty' = [empty EXCEPT ![hwNext] = FALSE]
  /\ buf' = [buf EXCEPT ![hwNext] = stored + 1]
  /\ hwNext' = NextDesc(hwNext)
  /\ rcomp' = TRUE
  /\ UNCHANGED <<traffic, ier, ipc, sched, tpc, next_rx, skb, delivered, rxErrors>>

-----------------------------------------------------------------------------
(* wrn_interrupt.  It runs because RCOMP is pending and enabled, or on     *)
(* behalf of TCOMP; it reads the whole ISR, so it may act on an RCOMP that *)
(* is masked.  Reading an ISR without RCOMP does nothing here.             *)

IrqEnter ==
  /\ ipc = "idle"
  /\ rcomp
  /\ ipc' = "ack"
  /\ UNCHANGED <<hwVars, ringVars, rcomp, ier, sched, tpc, next_rx, skb, outVars>>

IrqAck ==
  /\ ipc = "ack"
  /\ rcomp' = FALSE
  /\ ipc' = "disable"
  /\ UNCHANGED <<hwVars, ringVars, ier, sched, tpc, next_rx, skb, outVars>>

IrqDisable ==
  /\ ipc = "disable"
  /\ ier' = FALSE
  /\ ipc' = "schedule"
  /\ UNCHANGED <<hwVars, ringVars, rcomp, sched, tpc, next_rx, skb, outVars>>

IrqSchedule ==
  /\ ipc = "schedule"
  /\ sched' = TRUE
  /\ ipc' = "idle"
  /\ UNCHANGED <<hwVars, ringVars, rcomp, ier, tpc, next_rx, skb, outVars>>

-----------------------------------------------------------------------------
(* wrn_rx_interrupt, the tasklet.  The kernel clears SCHED before it calls *)
(* the function and never runs a tasklet on two processors at once.        *)

TaskletStart ==
  /\ tpc = "idle"
  /\ sched
  /\ sched' = FALSE
  /\ tpc' = "check"
  /\ UNCHANGED <<hwVars, ringVars, rcomp, ier, ipc, next_rx, skb, outVars>>

\* Mutant: the loop ends without unmasking RCOMP.
RxCheckNoEnable ==
  /\ tpc = "check"
  /\ tpc' = IF empty[next_rx] THEN "idle" ELSE "copy"
  /\ UNCHANGED <<hwVars, ringVars, irqVars, next_rx, skb, outVars>>

RxCheck ==
  /\ tpc = "check"
  /\ tpc' = IF empty[next_rx] THEN "enable" ELSE "copy"
  /\ UNCHANGED <<hwVars, ringVars, irqVars, next_rx, skb, outVars>>

\* __wrn_rx_descriptor reads the flags and, for a good frame, copies the data.
RxCopy ==
  /\ tpc = "copy"
  /\ skb' = IF traffic[buf[next_rx]] THEN buf[next_rx] ELSE 0
  /\ tpc' = "free"
  /\ UNCHANGED <<hwVars, ringVars, irqVars, next_rx, outVars>>

\* Mutant: the error path forgets to give the descriptor back.
RxFreeGoodOnly ==
  /\ tpc = "free"
  /\ empty' = IF skb = 0 THEN empty ELSE [empty EXCEPT ![next_rx] = TRUE]
  /\ tpc' = "finish"
  /\ UNCHANGED <<hwVars, buf, irqVars, next_rx, skb, outVars>>

\* rx3 and then rx1 are rewritten: the NIC owns the descriptor again.
RxFree ==
  /\ tpc = "free"
  /\ empty' = [empty EXCEPT ![next_rx] = TRUE]
  /\ tpc' = "finish"
  /\ UNCHANGED <<hwVars, buf, irqVars, next_rx, skb, outVars>>

\* Mutant: next_rx stays put after an error.
RxFinishErrorStays ==
  /\ tpc = "finish"
  /\ \/ /\ skb # 0
        /\ delivered' = Append(delivered, skb)
        /\ next_rx' = NextDesc(next_rx)
        /\ UNCHANGED rxErrors
     \/ /\ skb = 0
        /\ rxErrors' = rxErrors + 1
        /\ UNCHANGED <<delivered, next_rx>>
  /\ skb' = 0
  /\ tpc' = "check"
  /\ UNCHANGED <<hwVars, ringVars, irqVars>>

\* netif_receive_skb or rx_errors++, then the loop advances next_rx.
RxFinish ==
  /\ tpc = "finish"
  /\ \/ /\ skb # 0
        /\ delivered' = Append(delivered, skb)
        /\ UNCHANGED rxErrors
     \/ /\ skb = 0
        /\ rxErrors' = rxErrors + 1
        /\ UNCHANGED delivered
  /\ next_rx' = NextDesc(next_rx)
  /\ skb' = 0
  /\ tpc' = "check"
  /\ UNCHANGED <<hwVars, ringVars, irqVars>>

\* Mutant: a last acknowledge, "to start clean", just before unmasking.
RxEnableAck ==
  /\ tpc = "enable"
  /\ ier' = TRUE
  /\ rcomp' = FALSE
  /\ tpc' = "idle"
  /\ UNCHANGED <<hwVars, ringVars, ipc, sched, next_rx, skb, outVars>>

RxEnable ==
  /\ tpc = "enable"
  /\ ier' = TRUE
  /\ tpc' = "idle"
  /\ UNCHANGED <<hwVars, ringVars, rcomp, ipc, sched, next_rx, skb, outVars>>

-----------------------------------------------------------------------------
Interrupt == IrqEnter \/ IrqAck \/ IrqDisable \/ IrqSchedule
Tasklet == TaskletStart \/ RxCheck \/ RxCopy \/ RxFree \/ RxFinish \/ RxEnable

Next == HwStore \/ Interrupt \/ Tasklet

Spec == Init /\ [][Next]_vars

(* An enabled and pending interrupt is taken, a handler that was entered   *)
(* and a tasklet that was scheduled run to their end.  The NIC owes        *)
(* nothing, and a masked interrupt is never taken on its own account.      *)
Fairness ==
  /\ WF_vars(ier /\ IrqEnter)
  /\ WF_vars(IrqAck \/ IrqDisable \/ IrqSchedule)
  /\ WF_vars(Tasklet)

FairSpec == Spec /\ Fairness

-----------------------------------------------------------------------------
(* Properties *)

(* Every variable has its type; the ring pointers stay in the ring and     *)
(* nothing is delivered or counted that was not stored.                    *)
TypeOK ==
  /\ traffic \in [1..MaxFrames -> BOOLEAN]
  /\ stored \in 0..MaxFrames
  /\ hwNext \in Desc
  /\ empty \in [Desc -> BOOLEAN]
  /\ buf \in [Desc -> 0..MaxFrames]
  /\ rcomp \in BOOLEAN
  /\ ier \in BOOLEAN
  /\ ipc \in {"idle", "ack", "disable", "schedule"}
  /\ sched \in BOOLEAN
  /\ tpc \in {"idle", "check", "copy", "free", "finish", "enable"}
  /\ next_rx \in Desc
  /\ skb \in 0..MaxFrames
  /\ delivered \in Seq(1..MaxFrames)
  /\ rxErrors \in 0..MaxFrames


\* 1 when the tasklet holds a frame whose descriptor it already gave back.
InHand == IF tpc = "finish" THEN 1 ELSE 0
\* The oldest descriptor the NIC may not touch, were it to hold a frame.
Oldest == IF tpc = "finish" THEN NextDesc(next_rx) ELSE next_rx
\* Frames waiting in descriptors.
Pending == stored - Processed - InHand

(* The NIC and the driver agree about the ring: the descriptors that are   *)
(* not EMPTY are the Pending ones that follow the driver's pointer, they   *)
(* hold the next frames in arrival order, and the NIC's own pointer sits   *)
(* right behind them.  This is what lets nic-core.c find its frames with   *)
(* nothing but next_rx and the EMPTY bits, also while a descriptor was     *)
(* given back "ASAP" and its frame is still in the tasklet's hands.        *)
RingInv ==
  /\ Pending \in 0..NDesc
  /\ hwNext = (Oldest + Pending) % NDesc
  /\ \A d \in Desc : empty[d] <=> Dist(Oldest, d) >= Pending
  /\ \A d \in Desc : ~empty[d] => buf[d] = stored - Pending + 1 + Dist(Oldest, d)

(* The frame in the tasklet's hands is the one due: the next good one, or  *)
(* none when the next frame is flagged.  A descriptor that was reused by   *)
(* the NIC before the copy, or freed twice, would break it.                *)
HandInv ==
  /\ tpc \in {"copy", "free"} => ~empty[next_rx]
  /\ IF tpc \in {"free", "finish"}
       THEN skb = IF traffic[Processed + 1] THEN Processed + 1 ELSE 0
       ELSE skb = 0

(* No wake-up is lost: frames waiting in the ring are always covered by a  *)
(* latched RCOMP, a handler on its way, a scheduled tasklet or one that    *)
(* has not yet looked at the last descriptor.  The order "acknowledge,     *)
(* mask, schedule" in wrn_interrupt and "drain, unmask" in the tasklet     *)
(* exist for this.                                                         *)
NoLostWakeup ==
  Pending > 0 =>
     \/ rcomp
     \/ ipc \in {"disable", "schedule"}
     \/ sched
     \/ tpc \in {"check", "copy", "free", "finish"}

(* RCOMP is masked only while somebody is bound to unmask it.              *)
NeverStuckMasked == ~ier => sched \/ tpc # "idle" \/ ipc = "schedule"

(* Every frame the NIC stored is delivered, or counted as an error, sooner *)
(* or later, however the interrupt and the tasklet interleave with it.     *)
EveryFrameHandled ==
  \A n \in 1..MaxFrames : stored >= n ~> Processed >= n

Fifo == INSTANCE RxFifo WITH Capacity <- NDesc + 1

(* The receive path is a FIFO of NDesc + 1 frames: the descriptors, and    *)
(* the frame the tasklet holds after it freed its descriptor.  Frames      *)
(* leave in order, each once, flagged ones to the error counter only.      *)
ImplementsFifo == Fifo!Spec
=============================================================================
