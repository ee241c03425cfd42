-------------------------------- MODULE NicTx --------------------------------
(***************************************************************************)
(* The transmit path of the White Rabbit NIC driver (wr_nic/nic-core.c and *)
(* wr_nic/timestamp.c): the descriptor ring, the skb_desc slots that keep  *)
(* a frame until it is sent or stamped, and the frame ids that tie a       *)
(* hardware time stamp to its frame.  Three parties share them:            *)
(*                                                                         *)
(*   - wrn_start_xmit, called by the network core for one frame at a time; *)
(*     the spin locks around its parts are commented out in the source, so *)
(*     the interrupt may run between any two of its stores;                *)
(*   - the interrupt, which runs wrn_tx_interrupt for TCOMP and            *)
(*     record_tstamp for the TXTSU; one handler (wrn_handler) serves both, *)
(*     so these two never overlap each other;                              *)
(*   - the NIC, which sends READY descriptors round-robin and queues the   *)
(*     time stamps of the frames that asked for one (external: gateware).  *)
(*                                                                         *)
(* A frame is the number of the wrn_start_xmit call that brought it, and   *)
(* stands for its skb too.  An skb is released at most once; releases are  *)
(* counted.  Frame ids are taken modulo IdSpace, as frame_id and the       *)
(* descriptor field keep 16 bits of wrn->id.                               *)
(***************************************************************************)
EXTENDS Ring, Sequences

CONSTANTS
  MaxFrames,  \* bound on the frames submitted in a run
  IdSpace,    \* 2^16, the number of frame ids
  Stamping    \* the choices for SKBTX_HW_TSTAMP: {TRUE, FALSE}, or less

ASSUME MaxFramesAssumption == MaxFrames \in Nat
ASSUME IdSpaceAssumption == IdSpace \in Nat /\ IdSpace > 1
ASSUME StampingAssumption == Stamping \subseteq BOOLEAN /\ Stamping # {}

VARIABLES
  wantStamp,  \* wantStamp[n]: does frame n carry SKBTX_HW_TSTAMP?
  submitted,  \* number of wrn_start_xmit calls so far
  xpc,        \* wrn_start_xmit: where it is
  desc,       \* its local desc
  id,         \* its local id
  next_tx_head,
  next_tx_tail,
  idCount,    \* wrn->id
  slotSkb,    \* skb_desc[d].skb (0: none)
  slotId,     \* skb_desc[d].frame_id
  ready,      \* READY bit of tx1 in each descriptor
  txd,        \* the rest of each descriptor: its frame's data, the id, and tsE,
              \* the stamp the NIC still owes for TS_E
  hwNext,     \* the NIC's own ring pointer
  tcomp,      \* TCOMP latched in the NIC's interrupt controller
  tsFifo,     \* stamps in the TXTSU FIFO, each with its frame and id
  ipc,        \* interrupt handler: where it is
  iskb,       \* its local skb
  its,        \* the FIFO entry record_tstamp works on
  islot,      \* the slot record_tstamp found
  accepted,   \* history: frames handed to the NIC, in order
  refused,    \* history: frames refused with -ENOMEM
  wire,       \* history: frames sent, in order
  freed,      \* history: how often the skb of frame n was released
  stamped     \* history: <<n, m>> when the stamp of frame m went to frame n

xmitVars == <<submitted, xpc, desc, id, next_tx_head, idCount>>
slotVars == <<slotSkb, slotId>>
descVars == <<ready, txd>>
hwVars == <<hwNext, tcomp, tsFifo>>
irqVars == <<next_tx_tail, ipc, iskb, its, islot>>
skbHistory == <<freed, stamped>>
vars == <<wantStamp, xmitVars, slotVars, descVars, hwVars, irqVars,
          accepted, refused, wire, skbHistory>>

Frame == 1..MaxFrames
NoTs == [frame |-> 0, id |-> 0]

Init ==
  /\ wantStamp \in [Frame -> Stamping]
  /\ submitted = 0
  /\ xpc = "idle"
  /\ desc = 0
  /\ id = 0
  /\ next_tx_head = 0
  /\ next_tx_tail = 0
  /\ idCount = 0
  /\ slotSkb = [d \in Desc |-> 0]
  /\ slotId = [d \in Desc |-> 0]
  /\ ready = [d \in Desc |-> FALSE]
  /\ txd = [d \in Desc |-> [frame |-> 0, id |-> 0, tsE |-> FALSE]]
  /\ hwNext = 0
  /\ tcomp = FALSE
  /\ tsFifo = << >>
  /\ ipc = "idle"
  /\ iskb = 0
  /\ its = NoTs
  /\ islot = 0
  /\ accepted = << >>
  /\ refused = {}
  /\ wire = << >>
  /\ freed = [n \in Frame |-> 0]
  /\ stamped = {}

-----------------------------------------------------------------------------
(* wrn_start_xmit *)

\* A frame longer than WRN_MTU is refused before anything else is touched.
XmitTooLong ==
  /\ xpc = "idle"
  /\ submitted < MaxFrames
  /\ submitted' = submitted + 1
  /\ UNCHANGED <<wantStamp, xpc, desc, id, next_tx_head, idCount, slotVars, descVars,
                 hwVars, irqVars, accepted, refused, wire, skbHistory>>

\* id = wrn->id++, and once more when that was 0.
NewId == IF idCount = 0 THEN 1 ELSE idCount
NextIdCount == (NewId + 1) % IdSpace

\* Mutant: the descriptor is taken without a look at its READY bit.
XmitAllocNoCheck ==
  /\ xpc = "idle"
  /\ submitted < MaxFrames
  /\ submitted' = submitted + 1
  /\ idCount' = NextIdCount
  /\ desc' = next_tx_head
  /\ id' = NewId
  /\ next_tx_head' = NextDesc(next_tx_head)
  /\ xpc' = "skb"
  /\ UNCHANGED refused
  /\ UNCHANGED <<wantStamp, slotVars, descVars, hwVars, irqVars, accepted, wire, skbHistory>>

\* Mutant: one descriptor is always kept free.
XmitAllocKeepOne ==
  /\ xpc = "idle"
  /\ submitted < MaxFrames
  /\ submitted' = submitted + 1
  /\ idCount' = NextIdCount
  /\ \/ /\ ready[NextDesc(next_tx_head)]
        /\ refused' = refused \cup {submitted + 1}
        /\ UNCHANGED <<xpc, desc, id, next_tx_head>>
     \/ /\ ~ready[NextDesc(next_tx_head)]
        /\ desc' = next_tx_head
        /\ id' = NewId
        /\ next_tx_head' = NextDesc(next_tx_head)
        /\ xpc' = "skb"
        /\ UNCHANGED refused
  /\ UNCHANGED <<wantStamp, slotVars, descVars, hwVars, irqVars, accepted, wire, skbHistory>>

\* Mutant: the head advances also when no descriptor is taken.
XmitAllocSkip ==
  /\ xpc = "idle"
  /\ submitted < MaxFrames
  /\ submitted' = submitted + 1
  /\ idCount' = NextIdCount
  /\ next_tx_head' = NextDesc(next_tx_head)
  /\ \/ /\ ready[next_tx_head]
        /\ refused' = refused \cup {submitted + 1}
        /\ UNCHANGED <<xpc, desc, id>>
     \/ /\ ~ready[next_tx_head]
        /\ desc' = next_tx_head
        /\ id' = NewId
        /\ xpc' = "skb"
        /\ UNCHANGED refused
  /\ UNCHANGED <<wantStamp, slotVars, descVars, hwVars, irqVars, accepted, wire, skbHistory>>

\* __wrn_alloc_tx_desc and the frame id.  The id is drawn either way.
XmitAlloc ==
  /\ xpc = "idle"
  /\ submitted < MaxFrames
  /\ submitted' = submitted + 1
  /\ idCount' = NextIdCount
  /\ \/ /\ ready[next_tx_head]
        /\ refused' = refused \cup {submitted + 1}
        /\ UNCHANGED <<xpc, desc, id, next_tx_head>>
     \/ /\ ~ready[next_tx_head]
        /\ desc' = next_tx_head
        /\ id' = NewId
        /\ next_tx_head' = NextDesc(next_tx_head)
        /\ xpc' = "skb"
        /\ UNCHANGED refused
  /\ UNCHANGED <<wantStamp, slotVars, descVars, hwVars, irqVars, accepted, wire, skbHistory>>

\* skb_desc[desc].skb = skb, whatever the slot held.
XmitStoreSkb ==
  /\ xpc = "skb"
  /\ slotSkb' = [slotSkb EXCEPT ![desc] = submitted]
  /\ xpc' = "id"
  /\ UNCHANGED <<wantStamp, submitted, desc, id, next_tx_head, idCount, slotId, descVars,
                 hwVars, irqVars, accepted, refused, wire, skbHistory>>

XmitStoreId ==
  /\ xpc = "id"
  /\ slotId' = [slotId EXCEPT ![desc] = id]
  /\ xpc' = "copy"
  /\ UNCHANGED <<wantStamp, submitted, desc, id, next_tx_head, idCount, slotSkb, descVars,
                 hwVars, irqVars, accepted, refused, wire, skbHistory>>

\* __wrn_tx_desc: data, tx3 and tx2 first ...
XmitCopy ==
  /\ xpc = "copy"
  /\ txd' = [txd EXCEPT ![desc].frame = submitted]
  /\ xpc' = "fire"
  /\ UNCHANGED <<wantStamp, submitted, desc, id, next_tx_head, idCount, slotVars, ready,
                 hwVars, irqVars, accepted, refused, wire, skbHistory>>

\* ... and tx1 last: id, TS_E and READY in one register write.
XmitFire ==
  /\ xpc = "fire"
  /\ txd' = [txd EXCEPT ![desc].id = id, ![desc].tsE = wantStamp[submitted]]
  /\ ready' = [ready EXCEPT ![desc] = TRUE]
  /\ accepted' = Append(accepted, submitted)
  /\ xpc' = "idle"
  /\ UNCHANGED <<wantStamp, submitted, desc, id, next_tx_head, idCount, slotVars,
                 hwVars, irqVars, refused, wire, skbHistory>>

-----------------------------------------------------------------------------
(* The NIC.  A stamp is taken when the frame starts, so it may reach the   *)
(* driver before the descriptor is given back.                             *)

HwStamp ==
  /\ ready[hwNext]
  /\ txd[hwNext].tsE
  /\ tsFifo' = Append(tsFifo, [frame |-> txd[hwNext].frame, id |-> txd[hwNext].id])
  /\ txd' = [txd EXCEPT ![hwNext].tsE = FALSE]
  /\ UNCHANGED <<wantStamp, xmitVars, slotVars, ready, hwNext, tcomp, irqVars,
                 accepted, refused, wire, skbHistory>>

HwDone ==
  /\ ready[hwNext]
  /\ ~txd[hwNext].tsE
  /\ wire' = Append(wire, txd[hwNext].frame)
  /\ ready' = [ready EXCEPT ![hwNext] = FALSE]
  /\ hwNext' = NextDesc(hwNext)
  /\ tcomp' = TRUE
  /\ UNCHANGED <<wantStamp, xmitVars, slotVars, txd, tsFifo, irqVars,
                 accepted, refused, skbHistory>>

-----------------------------------------------------------------------------
(* wrn_interrupt and wrn_tx_interrupt *)

TxIrqEnter ==
  /\ ipc = "idle"
  /\ tcomp
  /\ ipc' = "check"
  /\ UNCHANGED <<wantStamp, xmitVars, slotVars, descVars, hwVars, next_tx_tail, iskb, its, islot,
                 accepted, refused, wire, skbHistory>>

\* One turn of the loop: stop at an empty ring, at a descriptor that is still
\* READY, or at one with "no socket"; else look at its skb.
TxIrqCheck ==
  /\ ipc = "check"
  /\ IF \/ next_tx_tail = next_tx_head
        \/ ready[next_tx_tail]
        \/ slotSkb[next_tx_tail] = 0
       THEN /\ ipc' = "ack"
            /\ iskb' = 0
       ELSE /\ ipc' = "reap"
            /\ iskb' = slotSkb[next_tx_tail]
  /\ UNCHANGED <<wantStamp, xmitVars, slotVars, descVars, hwVars, next_tx_tail, its, islot,
                 accepted, refused, wire, skbHistory>>

\* Mutant: the slot is not cleared after the release.
TxIrqReapKeepSlot ==
  /\ ipc = "reap"
  /\ freed' = IF wantStamp[iskb] THEN freed ELSE [freed EXCEPT ![iskb] = @ + 1]
  /\ next_tx_tail' = NextDesc(next_tx_tail)
  /\ iskb' = 0
  /\ ipc' = "check"
  /\ UNCHANGED <<wantStamp, xmitVars, slotVars, descVars, hwVars, its, islot,
                 accepted, refused, wire, stamped>>

\* A frame that wants a stamp stays in its slot: wrn_tx_tstamp_skb returns at
\* once, as nothing ever sets skb_desc[].valid.  Any other frame is released.
TxIrqReap ==
  /\ ipc = "reap"
  /\ \/ /\ wantStamp[iskb]
        /\ UNCHANGED <<slotSkb, freed>>
     \/ /\ ~wantStamp[iskb]
        /\ freed' = [freed EXCEPT ![iskb] = @ + 1]
        /\ slotSkb' = [slotSkb EXCEPT ![next_tx_tail] = 0]
  /\ next_tx_tail' = NextDesc(next_tx_tail)
  /\ iskb' = 0
  /\ ipc' = "check"
  /\ UNCHANGED <<wantStamp, xmitVars, slotId, descVars, hwVars, its, islot,
                 accepted, refused, wire, stamped>>

\* TCOMP is acknowledged after the loop.
TxIrqAck ==
  /\ ipc = "ack"
  /\ tcomp' = FALSE
  /\ ipc' = "idle"
  /\ UNCHANGED <<wantStamp, xmitVars, slotVars, descVars, hwNext, tsFifo, next_tx_tail, iskb, its,
                 islot, accepted, refused, wire, skbHistory>>

-----------------------------------------------------------------------------
(* wrn_tstamp_interrupt and record_tstamp *)

\* The slots that match an id; the scan takes the first one.
Matching(fid) == {d \in Desc : slotSkb[d] # 0 /\ slotId[d] = fid}

TsIrqFind ==
  /\ ipc = "idle"
  /\ tsFifo # << >>
  /\ tsFifo' = Tail(tsFifo)
  /\ LET m == Matching(Head(tsFifo).id) IN
       \/ /\ m = {}
          /\ UNCHANGED <<ipc, iskb, its, islot>>
       \/ \E i \in m :
            /\ \A j \in m : i <= j
            /\ islot' = i
            /\ iskb' = slotSkb[i]
            /\ its' = Head(tsFifo)
            /\ ipc' = "stamp"
  /\ UNCHANGED <<wantStamp, xmitVars, slotVars, descVars, hwNext, tcomp, next_tx_tail,
                 accepted, refused, wire, skbHistory>>

\* The stamp goes to the socket unless it is flagged incorrect; the skb is
\* released and its slot cleared.
TsIrqDeliver ==
  /\ ipc = "stamp"
  /\ \E incorrect \in BOOLEAN :
       stamped' = IF incorrect THEN stamped ELSE stamped \cup {<<iskb, its.frame>>}
  /\ freed' = [freed EXCEPT ![iskb] = @ + 1]
  /\ slotSkb' = [slotSkb EXCEPT ![islot] = 0]
  /\ iskb' = 0
  /\ its' = NoTs
  /\ islot' = 0
  /\ ipc' = "idle"
  /\ UNCHANGED <<wantStamp, xmitVars, slotId, descVars, hwVars, next_tx_tail,
                 accepted, refused, wire>>

-----------------------------------------------------------------------------
XmitBegin == XmitTooLong \/ XmitAlloc
XmitRest == XmitStoreSkb \/ XmitStoreId \/ XmitCopy \/ XmitFire
Hw == HwStamp \/ HwDone
TxIrq == TxIrqEnter \/ TxIrqCheck \/ TxIrqReap \/ TxIrqAck
TsIrq == TsIrqFind \/ TsIrqDeliver

Next == XmitBegin \/ XmitRest \/ Hw \/ TxIrq \/ TsIrq

Spec == Init /\ [][Next]_vars

(* A call of wrn_start_xmit that began goes on, a pending interrupt is     *)
(* served, and the NIC sends what is READY; nobody has to submit frames.   *)
Fairness ==
  /\ WF_vars(XmitRest)
  /\ WF_vars(HwStamp)
  /\ WF_vars(HwDone)
  /\ WF_vars(TxIrq)
  /\ WF_vars(TsIrq)

FairSpec == Spec /\ Fairness

-----------------------------------------------------------------------------
(* Properties *)

\* The values of a sequence.
Values(s) == {s[i] : i \in DOMAIN s}

(* Every variable has its type; the three ring pointers stay in the ring.  *)
TypeOK ==
  /\ wantStamp \in [Frame -> BOOLEAN]
  /\ submitted \in 0..MaxFrames
  /\ xpc \in {"idle", "skb", "id", "copy", "fire"}
  /\ {desc, next_tx_head, next_tx_tail, hwNext, islot} \subseteq Desc
  /\ {id, idCount} \subseteq 0..(IdSpace - 1)
  /\ slotSkb \in [Desc -> 0..MaxFrames]
  /\ slotId \in [Desc -> 0..(IdSpace - 1)]
  /\ ready \in [Desc -> BOOLEAN]
  /\ txd \in [Desc -> [frame : 0..MaxFrames, id : 0..(IdSpace - 1), tsE : BOOLEAN]]
  /\ tcomp \in BOOLEAN
  /\ tsFifo \in Seq([frame : Frame, id : 0..(IdSpace - 1)])
  /\ ipc \in {"idle", "check", "reap", "ack", "stamp"}
  /\ iskb \in 0..MaxFrames
  /\ its \in [frame : 0..MaxFrames, id : 0..(IdSpace - 1)]
  /\ accepted \in Seq(Frame)
  /\ refused \subseteq Frame
  /\ wire \in Seq(Frame)
  /\ freed \in [Frame -> Nat]
  /\ stamped \subseteq Frame \X Frame


\* Frames the NIC has still to send, and 1 while a descriptor is taken but not fired.
Queued == Len(accepted) - Len(wire)
Taken == IF xpc = "idle" THEN 0 ELSE 1

(* The NIC and wrn_start_xmit agree about the ring although they only      *)
(* share the READY bits: the READY descriptors are the Queued ones from    *)
(* the NIC's pointer on, they hold the accepted frames in order, the one   *)
(* being filled follows them, and next_tx_head follows that.  The ring     *)
(* may be completely full, when head, tail and the NIC's pointer coincide. *)
RingInv ==
  /\ Queued \in 0..(NDesc - Taken)
  /\ next_tx_head = (hwNext + (Queued + Taken)) % NDesc
  /\ xpc # "idle" => desc = (hwNext + Queued) % NDesc
  /\ \A d \in Desc : ready[d] <=> Dist(hwNext, d) < Queued
  /\ \A d \in Desc :
       ready[d] => txd[d].frame = accepted[Len(wire) + 1 + Dist(hwNext, d)]

(* Whatever the interleaving of wrn_start_xmit, the TX interrupt and the   *)
(* time stamp interrupt, an skb sits in one slot at most, is released at   *)
(* most once, and is in no slot when it was: nothing is released twice,    *)
(* although nothing is locked.                                             *)
SkbOwnership ==
  /\ \A d, e \in Desc : slotSkb[d] = slotSkb[e] /\ slotSkb[d] # 0 => d = e
  /\ \A n \in Frame : freed[n] <= 1
  /\ \A d \in Desc : slotSkb[d] # 0 => freed[slotSkb[d]] = 0
  /\ iskb # 0 => freed[iskb] = 0

(* Frame id 0 "cannot be used in the SPEC" (nic-core.c): no READY          *)
(* descriptor and no stamp carries it, also after wrn->id wrapped.         *)
IdNeverZero ==
  /\ \A d \in Desc : ready[d] => txd[d].id # 0
  /\ \A i \in DOMAIN tsFifo : tsFifo[i].id # 0

Fifo == INSTANCE TxFifo WITH Capacity <- NDesc

(* The transmit path is a FIFO of NDesc frames: in order, each frame once, *)
(* and -ENOMEM only when NDesc frames really wait for the NIC.             *)
ImplementsFifo == Fifo!Spec

(* A frame that wrn_start_xmit accepted is sent.                           *)
EveryAcceptedSent ==
  \A n \in Frame : n \in Values(accepted) ~> n \in Values(wire)

(* nic-core.c on a slot that wrn_start_xmit finds in use: "The timestamp   *)
(* has not been collected: silently discard it".  Only an skb that waits   *)
(* for a stamp may be overwritten.                                         *)
OnlyUncollectedDiscarded ==
  [][\A d \in Desc :
       slotSkb[d] # 0 /\ slotSkb'[d] \notin {0, slotSkb[d]} => wantStamp[slotSkb[d]]]_vars

(* "Check if this is txdone": an skb is released only when its data was    *)
(* handed to the NIC, never while wrn_start_xmit still copies from it.     *)
FreedOnlyAfterCopied ==
  \A n \in Frame : freed[n] > 0 => n \in Values(accepted)

(* "Loop using our tail until one is not sent": between two calls of       *)
(* wrn_start_xmit, the loop ends only at an empty ring or an unsent frame, *)
(* also when the stamp interrupt came before the TX interrupt.             *)
LoopsUntilOneNotSent ==
  [][ipc = "check" /\ ipc' = "ack" /\ xpc = "idle" =>
       next_tx_tail = next_tx_head \/ ready[next_tx_tail]]_vars

(* The frame id matches a hardware stamp with the frame it was taken for.  *)
StampGoesToItsFrame == \A p \in stamped : p[1] = p[2]

(* A frame that was sent is noticed: its skb is released after the TX      *)
(* interrupt that reports it.                                              *)
EverySentReleased ==
  \A n \in Frame : n \in Values(wire) ~> freed[n] = 1
=============================================================================
