----------------------------- MODULE NicTxProof -----------------------------
(***************************************************************************)
(* Proofs about NicTx, for every ring size, every number of frame ids and  *)
(* every traffic: the ring invariant, who holds an skb, the frame ids, and *)
(* that the transmit path implements TxFifo.  No lock is needed for any of *)
(* them.  And about NicLifecycle: interrupts, interface and removal.       *)
(***************************************************************************)
EXTENDS NicTx, NicLifecycle, RingLemmas

-----------------------------------------------------------------------------
(* The inductive invariant: the properties and what they need of the       *)
(* locals of wrn_start_xmit and of the interrupt handler.                  *)

\* The frame in the hands of wrn_start_xmit, and the order of submission:
\* every frame accepted or refused was submitted before it.
XmitOrder ==
  /\ xpc # "idle" => submitted > 0
  /\ xpc = "fire" => txd[desc].frame = submitted
  /\ \A i \in DOMAIN accepted : accepted[i] <= submitted - Taken
  /\ \A n \in refused : n <= submitted - Taken

\* The wire carries a prefix of the accepted frames.
WirePrefix ==
  /\ Len(wire) <= Len(accepted)
  /\ \A i \in DOMAIN wire : wire[i] = accepted[i]

\* What the interrupt handler works on.
IrqLocals ==
  /\ ipc \in {"reap", "stamp"} => iskb \in Frame
  /\ ipc = "stamp" => its.frame \in Frame

\* No slot and no local of the handler holds a frame before its slot is set.
SkbNew ==
  /\ \A d \in Desc : slotSkb[d] <= submitted
  /\ iskb <= submitted
  /\ \A n \in Frame : n > submitted => freed[n] = 0
  /\ xpc = "skb" =>
       /\ \A d \in Desc : slotSkb[d] # submitted
       /\ iskb # submitted
       /\ freed[submitted] = 0

\* The handler releases an skb from the one slot that may still hold it.
SkbInHandler ==
  ipc \in {"reap", "stamp"} =>
    \A d \in Desc :
      slotSkb[d] = iskb => d = IF ipc = "reap" THEN next_tx_tail ELSE islot

\* An id in use is not 0.
IdInUse == xpc # "idle" => id # 0

IInv ==
  /\ TypeOK
  /\ RingInv
  /\ XmitOrder
  /\ WirePrefix
  /\ IrqLocals
  /\ SkbOwnership
  /\ SkbNew
  /\ SkbInHandler
  /\ IdNeverZero
  /\ IdInUse

-----------------------------------------------------------------------------
(* What every step may assume of the state it starts from.                 *)
LEMMA Facts ==
  ASSUME IInv
  PROVE  /\ Len(accepted) \in Nat /\ Len(wire) \in Nat
         /\ Taken = IF xpc = "idle" THEN 0 ELSE 1
         /\ Queued = Len(accepted) - Len(wire)
         /\ Queued \in 0..(NDesc - Taken)
         /\ submitted \in 0..MaxFrames
         /\ NDesc \in Nat \ {0} /\ MaxFrames \in Nat
<1>1. Len(accepted) \in Nat /\ Len(wire) \in Nat /\ submitted \in 0..MaxFrames
  <2>1. accepted \in Seq(Frame) /\ wire \in Seq(Frame) /\ submitted \in 0..MaxFrames
    BY Zenon DEF IInv, TypeOK
  <2> QED BY <2>1
<1>2. Queued \in 0..(NDesc - Taken)
  BY DEF IInv, RingInv
<1> QED BY <1>1, <1>2, NDescAssumption, MaxFramesAssumption DEF Queued, Taken

(* The descriptor the NIC looks at is the oldest accepted frame not sent.  *)
LEMMA HeadFacts ==
  ASSUME IInv, ready[hwNext]
  PROVE  /\ Queued > 0
         /\ Len(wire) + 1 \in DOMAIN accepted
         /\ txd[hwNext].frame = accepted[Len(wire) + 1]
         /\ txd[hwNext].frame \in Frame
<1>1. hwNext \in Desc /\ accepted \in Seq(Frame)
  BY DEF IInv, TypeOK
<1>2. Dist(hwNext, hwNext) = 0
  BY <1>1, DistFacts
<1>3. 0 < Queued /\ txd[hwNext].frame = accepted[Len(wire) + 1 + 0]
  BY <1>1, <1>2 DEF IInv, RingInv
<1>4. Len(wire) + 1 \in 1..Len(accepted)
  BY <1>3, Facts
<1>5. accepted[Len(wire) + 1] \in Frame
  BY <1>1, <1>4
<1>6. Len(wire) + 1 + 0 = Len(wire) + 1
  BY Facts
<1> QED BY <1>1, <1>3, <1>4, <1>5, <1>6

(* What is taken from a queue, and what stays in it.                       *)
LEMMA HeadTail ==
  ASSUME NEW S, NEW q \in Seq(S), q # << >>
  PROVE  /\ Head(q) \in S /\ Head(q) = q[1]
         /\ Tail(q) \in Seq(S)
         /\ \A i \in DOMAIN Tail(q) : i + 1 \in DOMAIN q /\ Tail(q)[i] = q[i + 1]
OBVIOUS

(* A fresh id is never 0, and the counter stays in its range.              *)
LEMMA IdStep ==
  ASSUME idCount \in 0..(IdSpace - 1)
  PROVE  /\ NewId \in 1..(IdSpace - 1)
         /\ NextIdCount \in 0..(IdSpace - 1)
<1>1. NewId \in 1..(IdSpace - 1)
  BY IdSpaceAssumption DEF NewId
<1>2. (NewId + 1) % IdSpace \in 0..(IdSpace - 1)
  BY <1>1, IdSpaceAssumption
<1> QED BY <1>1, <1>2 DEF NextIdCount

-----------------------------------------------------------------------------
(* The initial states satisfy the invariant.                               *)
LEMMA InitInv == Init => IInv
<1> SUFFICES ASSUME Init PROVE IInv
  OBVIOUS
<1>1. Queued = 0 /\ Taken = 0
  BY DEF Init, Queued, Taken
<1>2. 0 \in Desc /\ (0 + 0) % NDesc = 0
  BY PlusStep, NDescAssumption DEF Desc
<1>3. \A d \in Desc : Dist(0, d) \in 0..(NDesc - 1)
  BY <1>2, DistFacts
<1>4. TypeOK
  <2>1. wantStamp \in [Frame -> BOOLEAN]
    BY StampingAssumption DEF Init
  <2>2. 0 \in 0..MaxFrames /\ 0 \in 0..(IdSpace - 1)
    BY MaxFramesAssumption, IdSpaceAssumption
  <2>3. txd \in [Desc -> [frame : 0..MaxFrames, id : 0..(IdSpace - 1), tsE : BOOLEAN]]
    BY <2>2 DEF Init
  <2>4. its \in [frame : 0..MaxFrames, id : 0..(IdSpace - 1)]
    BY <2>2 DEF Init, NoTs
  <2>5. freed \in [Frame -> Nat]
    BY DEF Init
  <2>6. /\ slotSkb \in [Desc -> 0..MaxFrames] /\ slotId \in [Desc -> 0..(IdSpace - 1)]
        /\ ready \in [Desc -> BOOLEAN]
    BY <2>2 DEF Init
  <2>7. tsFifo \in Seq([frame : Frame, id : 0..(IdSpace - 1)])
        /\ accepted \in Seq(Frame) /\ wire \in Seq(Frame)
    BY DEF Init
  <2>8. /\ submitted \in 0..MaxFrames /\ iskb \in 0..MaxFrames
        /\ {desc, next_tx_head, next_tx_tail, hwNext, islot} \subseteq Desc
        /\ {id, idCount} \subseteq 0..(IdSpace - 1)
    BY <1>2, <2>2 DEF Init
  <2>9. /\ xpc = "idle" /\ ipc = "idle" /\ tcomp = FALSE
        /\ refused = {} /\ stamped = {}
    BY DEF Init
  <2> QED BY <2>1, <2>3, <2>4, <2>5, <2>6, <2>7, <2>8, <2>9 DEF TypeOK
<1>5. RingInv
  BY <1>1, <1>2, <1>3, NDescAssumption DEF Init, RingInv
<1>6. XmitOrder /\ WirePrefix /\ IrqLocals
  BY DEF Init, XmitOrder, WirePrefix, IrqLocals
<1>7. SkbOwnership /\ SkbNew /\ SkbInHandler
  BY DEF Init, SkbOwnership, SkbNew, SkbInHandler
<1>8. IdNeverZero /\ IdInUse
  BY DEF Init, IdNeverZero, IdInUse
<1> QED BY <1>4, <1>5, <1>6, <1>7, <1>8 DEF IInv

-----------------------------------------------------------------------------
(* Types.  Only the NIC's steps and the release of an skb need more than   *)
(* the types themselves.                                                   *)
LEMMA XmitType == IInv /\ (XmitBegin \/ XmitRest) => TypeOK'
<1> SUFFICES ASSUME IInv, XmitBegin \/ XmitRest PROVE TypeOK'
  OBVIOUS
<1> USE DEF slotVars, descVars, hwVars, irqVars, skbHistory
<1>1. TypeOK /\ submitted \in 0..MaxFrames /\ MaxFrames \in Nat
  BY Facts DEF IInv
<1>2. submitted < MaxFrames => submitted + 1 \in Frame /\ submitted + 1 \in 0..MaxFrames
  BY <1>1 DEF Frame
<1>3. CASE XmitTooLong
  BY <1>1, <1>2, <1>3 DEF XmitTooLong, TypeOK
<1>4. CASE XmitAlloc
  <2>1. NewId \in 0..(IdSpace - 1) /\ idCount' \in 0..(IdSpace - 1)
    BY <1>1, <1>4, IdStep DEF XmitAlloc, TypeOK
  <2>2. NextDesc(next_tx_head) \in Desc
    BY <1>1, NextDescStep DEF TypeOK
  <2>3. /\ submitted' \in 0..MaxFrames /\ refused' \subseteq Frame
        /\ {desc', next_tx_head'} \subseteq Desc
        /\ id' \in 0..(IdSpace - 1)
        /\ xpc' \in {"idle", "skb"}
    BY <1>1, <1>2, <1>4, <2>1, <2>2 DEF XmitAlloc, TypeOK
  <2> QED BY <1>1, <1>4, <2>1, <2>3 DEF XmitAlloc, TypeOK
<1>5. CASE XmitStoreSkb
  BY <1>1, <1>5 DEF XmitStoreSkb, TypeOK
<1>6. CASE XmitStoreId
  BY <1>1, <1>6 DEF XmitStoreId, TypeOK
<1>7. CASE XmitCopy
  <2>1. txd' \in [Desc -> [frame : 0..MaxFrames, id : 0..(IdSpace - 1), tsE : BOOLEAN]]
    BY <1>1, <1>7 DEF XmitCopy, TypeOK
  <2> QED BY <1>1, <1>7, <2>1 DEF XmitCopy, TypeOK
<1>8. CASE XmitFire
  <2>1. submitted \in Frame
    BY <1>1, <1>8 DEF XmitFire, IInv, XmitOrder, Frame
  <2>2. wantStamp[submitted] \in BOOLEAN
    BY <1>1, <2>1 DEF TypeOK
  <2>3. txd' \in [Desc -> [frame : 0..MaxFrames, id : 0..(IdSpace - 1), tsE : BOOLEAN]]
    BY <1>1, <1>8, <2>2 DEF XmitFire, TypeOK
  <2>4. ready' \in [Desc -> BOOLEAN] /\ accepted' \in Seq(Frame)
    BY <1>1, <1>8, <2>1 DEF XmitFire, TypeOK
  <2> QED BY <1>1, <1>8, <2>3, <2>4 DEF XmitFire, TypeOK
<1> QED BY <1>3, <1>4, <1>5, <1>6, <1>7, <1>8 DEF XmitBegin, XmitRest

(* The NIC's steps: what it sends or stamps is a frame.                    *)
LEMMA HwType == IInv /\ Hw => TypeOK'
<1> SUFFICES ASSUME IInv, Hw PROVE TypeOK'
  OBVIOUS
<1> USE DEF xmitVars, slotVars, irqVars, skbHistory
<1>1. TypeOK /\ ready[hwNext] /\ txd[hwNext].frame \in Frame /\ hwNext \in Desc
  BY HeadFacts DEF IInv, TypeOK, Hw, HwStamp, HwDone
<1>2. CASE HwStamp
  <2>1. txd[hwNext].id \in 0..(IdSpace - 1)
    BY <1>1 DEF TypeOK
  <2>2. [frame |-> txd[hwNext].frame, id |-> txd[hwNext].id]
          \in [frame : Frame, id : 0..(IdSpace - 1)]
    BY <1>1, <2>1
  <2>3. tsFifo' \in Seq([frame : Frame, id : 0..(IdSpace - 1)])
    BY <1>1, <1>2, <2>2 DEF HwStamp, TypeOK
  <2>4. txd' \in [Desc -> [frame : 0..MaxFrames, id : 0..(IdSpace - 1), tsE : BOOLEAN]]
    BY <1>1, <1>2 DEF HwStamp, TypeOK
  <2> QED BY <1>1, <1>2, <2>3, <2>4 DEF HwStamp, TypeOK
<1>3. CASE HwDone
  <2>1. wire' \in Seq(Frame)
    BY <1>1, <1>3 DEF HwDone, TypeOK
  <2>2. hwNext' \in Desc
    BY <1>1, <1>3, NextDescStep DEF HwDone
  <2>3. ready' \in [Desc -> BOOLEAN]
    BY <1>1, <1>3 DEF HwDone, TypeOK
  <2> QED BY <1>1, <1>3, <2>1, <2>2, <2>3 DEF HwDone, TypeOK
<1> QED BY <1>2, <1>3 DEF Hw

(* The interrupt handler's steps.                                          *)
LEMMA IrqType == IInv /\ (TxIrq \/ TsIrq) => TypeOK'
<1> SUFFICES ASSUME IInv, TxIrq \/ TsIrq PROVE TypeOK'
  OBVIOUS
<1> USE DEF xmitVars, slotVars, descVars, hwVars, skbHistory
<1>1. TypeOK /\ IrqLocals
  BY DEF IInv
<1>2. CASE TxIrqEnter
  BY <1>1, <1>2 DEF TxIrqEnter, TypeOK
<1>3. CASE TxIrqCheck
  <2>1. slotSkb[next_tx_tail] \in 0..MaxFrames /\ 0 \in 0..MaxFrames
    BY <1>1, MaxFramesAssumption DEF TypeOK
  <2>2. iskb' \in 0..MaxFrames /\ ipc' \in {"ack", "reap"}
    BY <1>3, <2>1 DEF TxIrqCheck
  <2> QED BY <1>1, <1>3, <2>2 DEF TxIrqCheck, TypeOK
<1>4. CASE TxIrqReap
  <2>1. iskb \in Frame /\ next_tx_tail \in Desc
    BY <1>1, <1>4 DEF TxIrqReap, IrqLocals, TypeOK
  <2>2. NextDesc(next_tx_tail) \in Desc
    BY <2>1, NextDescStep
  <2>3. freed' \in [Frame -> Nat] /\ slotSkb' \in [Desc -> 0..MaxFrames]
    <3>1. freed \in [Frame -> Nat] /\ slotSkb \in [Desc -> 0..MaxFrames]
      BY <1>1 DEF TypeOK
    <3>2. freed' \in {freed, [freed EXCEPT ![iskb] = @ + 1]}
          /\ slotSkb' \in {slotSkb, [slotSkb EXCEPT ![next_tx_tail] = 0]}
      BY <1>4 DEF TxIrqReap
    <3> QED BY <2>1, <3>1, <3>2, MaxFramesAssumption
  <2>4. iskb' \in 0..MaxFrames
    BY <1>4, MaxFramesAssumption DEF TxIrqReap
  <2> QED BY <1>1, <1>4, <2>2, <2>3, <2>4 DEF TxIrqReap, TypeOK
<1>5. CASE TxIrqAck
  BY <1>1, <1>5 DEF TxIrqAck, TypeOK
<1>6. CASE TsIrqFind
  <2>1. tsFifo \in Seq([frame : Frame, id : 0..(IdSpace - 1)]) /\ tsFifo # << >>
    BY <1>1, <1>6 DEF TsIrqFind, TypeOK
  <2>2. /\ tsFifo' \in Seq([frame : Frame, id : 0..(IdSpace - 1)])
        /\ Head(tsFifo) \in [frame : Frame, id : 0..(IdSpace - 1)]
    <3>1. tsFifo' = Tail(tsFifo)
      BY <1>6 DEF TsIrqFind
    <3> QED BY <2>1, <3>1, HeadTail
  <2>3. Head(tsFifo) \in [frame : 0..MaxFrames, id : 0..(IdSpace - 1)]
    BY <2>2, MaxFramesAssumption DEF Frame
  <2>4. /\ ipc' \in {ipc, "stamp"} /\ islot' \in Desc /\ iskb' \in 0..MaxFrames
        /\ its' \in [frame : 0..MaxFrames, id : 0..(IdSpace - 1)]
    <3>1. /\ islot \in Desc /\ iskb \in 0..MaxFrames
          /\ its \in [frame : 0..MaxFrames, id : 0..(IdSpace - 1)]
          /\ \A d \in Desc : slotSkb[d] \in 0..MaxFrames
      BY <1>1 DEF TypeOK
    <3>2. CASE UNCHANGED <<ipc, iskb, its, islot>>
      BY <3>1, <3>2
    <3>3. CASE \E i \in Matching(Head(tsFifo).id) :
                 islot' = i /\ iskb' = slotSkb[i] /\ its' = Head(tsFifo) /\ ipc' = "stamp"
      BY <2>3, <3>1, <3>3 DEF Matching
    <3> QED BY <1>6, <3>2, <3>3 DEF TsIrqFind
  <2> QED BY <1>1, <1>6, <2>2, <2>4 DEF TsIrqFind, TypeOK
<1>7. CASE TsIrqDeliver
  <2>1. iskb \in Frame /\ its.frame \in Frame /\ islot \in Desc
    BY <1>1, <1>7 DEF TsIrqDeliver, IrqLocals, TypeOK
  <2>2. 0 \in 0..MaxFrames /\ 0 \in 0..(IdSpace - 1) /\ 0 \in Desc
    BY MaxFramesAssumption, IdSpaceAssumption, NDescAssumption DEF Desc
  <2>3. stamped' \subseteq Frame \X Frame
    <3>1. stamped \subseteq Frame \X Frame /\ <<iskb, its.frame>> \in Frame \X Frame
      BY <1>1, <2>1 DEF TypeOK
    <3>2. stamped' \in {stamped, stamped \cup {<<iskb, its.frame>>}}
      BY <1>7 DEF TsIrqDeliver
    <3> QED BY <3>1, <3>2
  <2>4. freed' \in [Frame -> Nat] /\ slotSkb' \in [Desc -> 0..MaxFrames]
    <3>1. freed \in [Frame -> Nat] /\ slotSkb \in [Desc -> 0..MaxFrames]
      BY <1>1 DEF TypeOK
    <3>2. freed' = [freed EXCEPT ![iskb] = @ + 1] /\ slotSkb' = [slotSkb EXCEPT ![islot] = 0]
      BY <1>7 DEF TsIrqDeliver
    <3> QED BY <2>1, <2>2, <3>1, <3>2
  <2>5. its' \in [frame : 0..MaxFrames, id : 0..(IdSpace - 1)]
    BY <1>7, <2>2 DEF TsIrqDeliver, NoTs
  <2> QED BY <1>1, <1>7, <2>2, <2>3, <2>4, <2>5 DEF TsIrqDeliver, TypeOK
<1> QED BY <1>2, <1>3, <1>4, <1>5, <1>6, <1>7 DEF TxIrq, TsIrq

-----------------------------------------------------------------------------
(* The ring.  A step that leaves the pointers, the READY bits and the      *)
(* frames of READY descriptors alone preserves the ring invariant.         *)
LEMMA RingUnchanged ==
  ASSUME RingInv, UNCHANGED <<hwNext, next_tx_head, desc, ready, accepted, wire>>,
         xpc = "idle" <=> xpc' = "idle",
         \A d \in Desc : ready[d] => txd'[d].frame = txd[d].frame
  PROVE  RingInv'
<1>1. Queued' = Queued /\ Taken' = Taken
  BY DEF Queued, Taken
<1>2. \A d \in Desc : Dist(hwNext', d) = Dist(hwNext, d)
  BY DEF Dist
<1> QED BY <1>1, <1>2 DEF RingInv

(* A descriptor that is being filled is right behind the READY ones, and   *)
(* not READY itself.                                                       *)
LEMMA FillFacts ==
  ASSUME IInv, xpc # "idle"
  PROVE  /\ desc \in Desc /\ hwNext \in Desc
         /\ Taken = 1 /\ Queued \in 0..(NDesc - 1)
         /\ Dist(hwNext, desc) = Queued
         /\ ~ready[desc]
<1>1. desc \in Desc /\ hwNext \in Desc
  BY DEF IInv, TypeOK
<1>2. Taken = 1 /\ Queued \in 0..(NDesc - 1) /\ NDesc \in Nat \ {0}
  BY Facts
<1>3. desc = (hwNext + Queued) % NDesc
  BY DEF IInv, RingInv
<1>4. Dist(hwNext, desc) = Queued
  BY <1>1, <1>2, <1>3, DistPlus
<1>5. ready[desc] <=> Dist(hwNext, desc) < Queued
  BY <1>1 DEF IInv, RingInv
<1> QED BY <1>1, <1>2, <1>4, <1>5

(* __wrn_alloc_tx_desc takes the descriptor behind the READY ones; when it *)
(* finds next_tx_head READY, the ring is full.                             *)
LEMMA AllocFacts ==
  ASSUME IInv, xpc = "idle"
  PROVE  /\ Taken = 0 /\ next_tx_head \in Desc /\ hwNext \in Desc
         /\ next_tx_head = (hwNext + Queued) % NDesc
         /\ ready[next_tx_head] <=> Queued = NDesc
<1>1. next_tx_head \in Desc /\ hwNext \in Desc
  BY DEF IInv, TypeOK
<1>2. Taken = 0 /\ Queued \in 0..NDesc /\ NDesc \in Nat \ {0}
  BY Facts
<1>3. next_tx_head = (hwNext + Queued) % NDesc
  <2>1. next_tx_head = (hwNext + (Queued + Taken)) % NDesc
    BY DEF IInv, RingInv
  <2>2. Queued + Taken = Queued
    BY <1>2
  <2> QED BY <2>1, <2>2
<1>4. Dist(hwNext, next_tx_head) = IF Queued = NDesc THEN 0 ELSE Queued
  BY <1>1, <1>2, <1>3, DistPlus
<1>5. ready[next_tx_head] <=> Dist(hwNext, next_tx_head) < Queued
  BY <1>1 DEF IInv, RingInv
<1> QED BY <1>1, <1>2, <1>3, <1>4, <1>5

(* wrn_start_xmit preserves the ring invariant.                            *)
LEMMA XmitRing == IInv /\ (XmitBegin \/ XmitRest) => RingInv'
<1> SUFFICES ASSUME IInv, XmitBegin \/ XmitRest PROVE RingInv'
  OBVIOUS
<1> USE DEF slotVars, descVars, hwVars, irqVars, skbHistory
<1>1. RingInv
  BY DEF IInv
<1>2. CASE XmitTooLong \/ XmitStoreSkb \/ XmitStoreId
  BY <1>1, <1>2, RingUnchanged DEF XmitTooLong, XmitStoreSkb, XmitStoreId
<1>3. CASE XmitAlloc /\ ready[next_tx_head]
  BY <1>1, <1>3, RingUnchanged DEF XmitAlloc
<1>4. CASE XmitAlloc /\ ~ready[next_tx_head]
  <2>1. /\ xpc = "idle" /\ xpc' = "skb" /\ desc' = next_tx_head
        /\ next_tx_head' = NextDesc(next_tx_head)
        /\ UNCHANGED <<hwNext, ready, txd, accepted, wire>>
    BY <1>4 DEF XmitAlloc
  <2>2. /\ Queued \in 0..NDesc /\ NDesc \in Nat \ {0} /\ Queued # NDesc
        /\ hwNext \in Desc /\ next_tx_head = (hwNext + Queued) % NDesc
    BY <1>4, <2>1, Facts, AllocFacts
  <2>3. Queued' = Queued /\ Taken' = 1
    BY <2>1 DEF Queued, Taken
  <2>4. next_tx_head' = (hwNext + (Queued + 1)) % NDesc
    BY <2>1, <2>2, DistPlus
  <2>5. \A d \in Desc : Dist(hwNext', d) = Dist(hwNext, d)
    BY <2>1 DEF Dist
  <2>6. Queued' \in 0..(NDesc - Taken')
    BY <2>2, <2>3
  <2> QED BY <1>1, <2>1, <2>2, <2>3, <2>4, <2>5, <2>6 DEF RingInv
<1>5. CASE XmitCopy
  <2>1. xpc = "copy" /\ xpc' = "fire" /\ txd' = [txd EXCEPT ![desc].frame = submitted]
        /\ UNCHANGED <<hwNext, next_tx_head, desc, ready, accepted, wire>>
    BY <1>5 DEF XmitCopy
  <2>2. ~ready[desc]
    BY <2>1, FillFacts
  <2>3. ASSUME NEW d \in Desc, ready[d] PROVE txd'[d].frame = txd[d].frame
    <3>1. d # desc
      BY <2>2, <2>3
    <3>2. txd \in [Desc -> [frame : 0..MaxFrames, id : 0..(IdSpace - 1), tsE : BOOLEAN]]
      BY DEF IInv, TypeOK
    <3> QED BY <2>1, <3>1, <3>2
  <2> QED BY <1>1, <2>1, <2>3, RingUnchanged
<1>6. CASE XmitFire
  <2>1. /\ xpc = "fire" /\ xpc' = "idle"
        /\ ready' = [ready EXCEPT ![desc] = TRUE]
        /\ accepted' = Append(accepted, submitted)
        /\ UNCHANGED <<hwNext, next_tx_head, wire>>
    BY <1>6 DEF XmitFire
  <2>2. /\ desc \in Desc /\ hwNext \in Desc /\ Taken = 1 /\ Queued \in 0..(NDesc - 1)
        /\ Dist(hwNext, desc) = Queued /\ NDesc \in Nat \ {0}
        /\ Len(accepted) \in Nat /\ Len(wire) \in Nat /\ Queued = Len(accepted) - Len(wire)
    BY <2>1, FillFacts, Facts
  <2>3. /\ accepted \in Seq(Frame) /\ ready \in [Desc -> BOOLEAN]
        /\ txd \in [Desc -> [frame : 0..MaxFrames, id : 0..(IdSpace - 1), tsE : BOOLEAN]]
    BY DEF IInv, TypeOK
  <2>4. /\ Len(accepted') = Len(accepted) + 1 /\ accepted'[Len(accepted) + 1] = submitted
        /\ \A i \in 1..Len(accepted) : accepted'[i] = accepted[i]
    BY <2>1, <2>3
  <2>5. Queued' = Queued + 1 /\ Taken' = 0
    BY <2>1, <2>2, <2>4 DEF Queued, Taken
  <2>6. next_tx_head' = (hwNext' + (Queued' + Taken')) % NDesc
    <3>1. next_tx_head = (hwNext + (Queued + Taken)) % NDesc
      BY <1>1 DEF RingInv
    <3>2. Queued' + Taken' = Queued + Taken
      BY <2>2, <2>5
    <3> QED BY <2>1, <3>1, <3>2
  <2>7. ASSUME NEW d \in Desc
        PROVE  /\ ready'[d] <=> Dist(hwNext, d) < Queued + 1
               /\ ready'[d] => txd'[d].frame = accepted'[Len(wire) + 1 + Dist(hwNext, d)]
    <3>1. CASE d = desc
      <4>1. ready'[d] = TRUE
        BY <2>1, <2>2, <2>3, <3>1
      <4>2. txd'[desc].frame = txd[desc].frame
        BY <1>6, <2>2, <2>3 DEF XmitFire
      <4>3. txd[desc].frame = submitted
        BY <2>1 DEF IInv, XmitOrder
      <4>4. Len(wire) + 1 + Dist(hwNext, d) = Len(accepted) + 1
        BY <2>2, <3>1
      <4> QED BY <2>2, <2>4, <3>1, <4>1, <4>2, <4>3, <4>4
    <3>2. CASE d # desc
      <4>1. ready'[d] = ready[d]
        BY <2>1, <2>3, <3>2
      <4>2. txd'[d].frame = txd[d].frame
        BY <1>6, <2>3, <3>2 DEF XmitFire
      <4>3. Dist(hwNext, d) # Queued /\ Dist(hwNext, d) \in Nat
        BY <2>2, <3>2, DistFacts
      <4>4. /\ ready[d] <=> Dist(hwNext, d) < Queued
            /\ ready[d] => txd[d].frame = accepted[Len(wire) + 1 + Dist(hwNext, d)]
        BY <1>1 DEF RingInv
      <4>5. ready[d] => Len(wire) + 1 + Dist(hwNext, d) \in 1..Len(accepted)
        BY <2>2, <4>3, <4>4
      <4>6. ready'[d] <=> Dist(hwNext, d) < Queued + 1
        BY <2>2, <4>1, <4>3, <4>4
      <4>7. ASSUME ready[d]
            PROVE  txd'[d].frame = accepted'[Len(wire) + 1 + Dist(hwNext, d)]
        BY <2>4, <4>2, <4>4, <4>5, <4>7
      <4> QED BY <4>1, <4>6, <4>7
    <3> QED BY <3>1, <3>2
  <2>8. \A d \in Desc : Dist(hwNext', d) = Dist(hwNext, d)
    BY <2>1 DEF Dist
  <2>9. Queued' \in 0..(NDesc - Taken')
    BY <2>2, <2>5
  <2>10. xpc' = "idle" /\ wire' = wire
    BY <2>1
  <2> QED BY <2>5, <2>6, <2>7, <2>8, <2>9, <2>10 DEF RingInv
<1> QED BY <1>2, <1>3, <1>4, <1>5, <1>6 DEF XmitBegin, XmitRest

(* A stamp leaves the ring alone; a frame that is sent leaves it at the    *)
(* NIC's pointer.                                                          *)
LEMMA HwRing == IInv /\ Hw => RingInv'
<1> SUFFICES ASSUME IInv, Hw PROVE RingInv'
  OBVIOUS
<1> USE DEF xmitVars, slotVars, irqVars, skbHistory
<1>1. RingInv /\ hwNext \in Desc /\ ready[hwNext] /\ ready \in [Desc -> BOOLEAN]
      /\ txd \in [Desc -> [frame : 0..MaxFrames, id : 0..(IdSpace - 1), tsE : BOOLEAN]]
  BY DEF IInv, TypeOK, Hw, HwStamp, HwDone
<1>2. CASE HwStamp
  <2>1. \A d \in Desc : txd'[d].frame = txd[d].frame
    BY <1>1, <1>2 DEF HwStamp
  <2> QED BY <1>1, <1>2, <2>1, RingUnchanged DEF HwStamp
<1>3. CASE HwDone
  <2>1. /\ ready' = [ready EXCEPT ![hwNext] = FALSE] /\ hwNext' = NextDesc(hwNext)
        /\ wire' = Append(wire, txd[hwNext].frame)
        /\ UNCHANGED <<xpc, desc, next_tx_head, txd, accepted>>
    BY <1>3 DEF HwDone
  <2>2. /\ Queued > 0 /\ Queued \in 0..(NDesc - Taken) /\ Taken \in {0, 1}
        /\ NDesc \in Nat \ {0} /\ Len(accepted) \in Nat /\ Len(wire) \in Nat
        /\ Queued = Len(accepted) - Len(wire)
    BY <1>1, HeadFacts, Facts
  <2>3. Len(wire') = Len(wire) + 1
    <3>1. wire \in Seq(Frame)
      BY DEF IInv, TypeOK
    <3> QED BY <2>1, <3>1
  <2>4. Queued' = Queued - 1 /\ Taken' = Taken
    BY <2>1, <2>2, <2>3 DEF Queued, Taken
  <2>5. Queued' \in 0..(NDesc - Taken')
    BY <2>2, <2>4
  <2>6. next_tx_head' = (hwNext' + (Queued' + Taken')) % NDesc
    <3>1. next_tx_head = (hwNext + (Queued + Taken)) % NDesc
      BY <1>1 DEF RingInv
    <3>2. Queued + Taken \in 0..NDesc /\ Queued + Taken > 0
          /\ Queued' + Taken' = Queued + Taken - 1
      BY <2>2, <2>4
    <3>3. PICK k \in 0..NDesc : k = Queued + Taken
      BY <3>2
    <3>4. (hwNext + k) % NDesc = (NextDesc(hwNext) + (k - 1)) % NDesc
      BY <1>1, <3>2, <3>3, DistPlus
    <3>5. next_tx_head' = (hwNext + k) % NDesc
      BY <2>1, <3>1, <3>3
    <3>6. Queued' + Taken' = k - 1
      BY <2>2, <2>4, <3>3
    <3> QED BY <2>1, <3>4, <3>5, <3>6
  <2>7. xpc' # "idle" => desc' = (hwNext' + Queued') % NDesc
    <3>1. Queued \in 0..NDesc
      BY <2>2
    <3>2. (hwNext + Queued) % NDesc = (NextDesc(hwNext) + (Queued - 1)) % NDesc
      BY <1>1, <2>2, <3>1, DistPlus
    <3> QED BY <1>1, <2>1, <2>4, <3>2 DEF RingInv
  <2>8. ASSUME NEW d \in Desc
        PROVE  /\ ready'[d] <=> Dist(hwNext', d) < Queued - 1
               /\ ready'[d] => txd[d].frame = accepted[Len(wire) + 2 + Dist(hwNext', d)]
    <3>1. CASE d = hwNext
      <4>1. ready'[d] = FALSE
        BY <1>1, <2>1, <3>1
      <4>2. Dist(hwNext', d) = NDesc - 1
        BY <1>1, <2>1, <3>1, DistFacts
      <4> QED BY <2>2, <4>1, <4>2
    <3>2. CASE d # hwNext
      <4>1. ready'[d] = ready[d]
        BY <1>1, <2>1, <3>2
      <4>2. Dist(hwNext', d) = Dist(hwNext, d) - 1 /\ Dist(hwNext, d) \in Nat
        BY <1>1, <2>1, <3>2, DistFacts
      <4>3. /\ ready[d] <=> Dist(hwNext, d) < Queued
            /\ ready[d] => txd[d].frame = accepted[Len(wire) + 1 + Dist(hwNext, d)]
        BY <1>1 DEF RingInv
      <4>4. Len(wire) + 2 + Dist(hwNext', d) = Len(wire) + 1 + Dist(hwNext, d)
        BY <2>2, <4>2
      <4> QED BY <2>2, <4>1, <4>2, <4>3, <4>4
    <3> QED BY <3>1, <3>2
  <2>9. ASSUME NEW d \in Desc, ready'[d]
        PROVE  txd'[d].frame = accepted'[Len(wire') + 1 + Dist(hwNext', d)]
    <3>1. hwNext' \in Desc
      BY <1>1, <2>1, NextDescStep
    <3>2. Dist(hwNext', d) \in Nat
      BY <3>1, DistFacts, NDescAssumption
    <3>3. Len(wire') + 1 + Dist(hwNext', d) = Len(wire) + 2 + Dist(hwNext', d)
      BY <2>2, <2>3, <3>2
    <3> QED BY <2>1, <2>8, <2>9, <3>3
  <2> QED BY <2>4, <2>5, <2>6, <2>7, <2>8, <2>9 DEF RingInv
<1> QED BY <1>2, <1>3 DEF Hw

(* The interrupt handler never touches the ring.                           *)
LEMMA IrqRing == IInv /\ (TxIrq \/ TsIrq) => RingInv'
<1> SUFFICES ASSUME IInv, TxIrq \/ TsIrq PROVE RingInv'
  OBVIOUS
<1>1. UNCHANGED <<hwNext, next_tx_head, desc, xpc, ready, txd, accepted, wire>>
  BY DEF TxIrq, TxIrqEnter, TxIrqCheck, TxIrqReap, TxIrqAck, TsIrq, TsIrqFind, TsIrqDeliver,
         xmitVars, slotVars, descVars, hwVars, skbHistory
<1> QED BY <1>1, RingUnchanged DEF IInv

-----------------------------------------------------------------------------
(* The order of submission, the wire and the handler's locals.             *)
LEMMA XmitOrderStep == IInv /\ [Next]_vars => XmitOrder'
<1> SUFFICES ASSUME IInv, [Next]_vars PROVE XmitOrder'
  OBVIOUS
<1> USE DEF slotVars, descVars, hwVars, irqVars, skbHistory
<1>1. /\ submitted \in Nat
      /\ accepted \in Seq(Frame) /\ refused \subseteq Frame
      /\ txd \in [Desc -> [frame : 0..MaxFrames, id : 0..(IdSpace - 1), tsE : BOOLEAN]]
      /\ desc \in Desc /\ hwNext \in Desc
  <2>1. submitted \in Nat
    BY Facts
  <2> QED BY <2>1 DEF IInv, TypeOK
<1>2. \A i \in DOMAIN accepted : accepted[i] \in Nat
  <2>1. \A i \in 1..Len(accepted) : accepted[i] \in Frame
    BY <1>1
  <2> QED BY <1>1, <2>1, MaxFramesAssumption DEF Frame
<1>3. \A n \in refused : n \in Nat
  BY <1>1 DEF Frame
<1>4. XmitOrder
  BY DEF IInv
<1>5. CASE XmitTooLong
  BY <1>1, <1>2, <1>3, <1>4, <1>5 DEF XmitTooLong, XmitOrder, Taken
<1>6. CASE XmitAlloc
  <2>1. xpc = "idle" /\ submitted' = submitted + 1 /\ accepted' = accepted
        /\ xpc' \in {"idle", "skb"}
    BY <1>6 DEF XmitAlloc
  <2>2. \/ refused' = refused /\ xpc' = "skb"
        \/ refused' = refused \cup {submitted + 1} /\ xpc' = "idle"
    BY <1>6 DEF XmitAlloc
  <2>3. /\ \A i \in DOMAIN accepted : accepted[i] <= submitted
        /\ \A n \in refused : n <= submitted
    BY <1>1, <1>4, <2>1 DEF XmitOrder, Taken
  <2>4. \A i \in DOMAIN accepted' : accepted'[i] <= submitted' - Taken'
    BY <1>1, <1>2, <2>1, <2>3 DEF Taken
  <2>5. \A n \in refused' : n <= submitted' - Taken'
    BY <1>1, <1>3, <2>1, <2>2, <2>3 DEF Taken
  <2> QED BY <1>1, <2>1, <2>4, <2>5 DEF XmitOrder
<1>7. CASE XmitStoreSkb \/ XmitStoreId
  BY <1>4, <1>7 DEF XmitStoreSkb, XmitStoreId, XmitOrder, Taken
<1>8. CASE XmitCopy
  <2>1. txd'[desc].frame = submitted
    BY <1>1, <1>8 DEF XmitCopy
  <2> QED BY <1>4, <1>8, <2>1 DEF XmitCopy, XmitOrder, Taken
<1>9. CASE XmitFire
  <2>1. /\ xpc = "fire" /\ xpc' = "idle" /\ accepted' = Append(accepted, submitted)
        /\ UNCHANGED <<submitted, refused>>
    BY <1>9 DEF XmitFire
  <2>2. \A i \in DOMAIN accepted' : (i \in DOMAIN accepted /\ accepted'[i] = accepted[i])
                                    \/ accepted'[i] = submitted
    BY <1>1, <2>1
  <2>3. /\ \A i \in DOMAIN accepted : accepted[i] <= submitted - 1
        /\ \A n \in refused : n <= submitted - 1
    BY <1>4, <2>1 DEF XmitOrder, Taken
  <2>4. \A i \in DOMAIN accepted' : accepted'[i] <= submitted
    BY <1>1, <1>2, <2>2, <2>3
  <2>5. \A n \in refused : n <= submitted
    BY <1>1, <1>3, <2>3
  <2> QED BY <1>1, <2>1, <2>4, <2>5 DEF XmitOrder, Taken
<1>10. CASE Hw \/ TxIrq \/ TsIrq \/ UNCHANGED vars
  <2>1. UNCHANGED <<submitted, xpc, desc, accepted, refused>>
    BY <1>10 DEF Hw, HwStamp, HwDone, TxIrq, TxIrqEnter, TxIrqCheck, TxIrqReap, TxIrqAck,
         TsIrq, TsIrqFind, TsIrqDeliver, vars, xmitVars
  <2>2. txd'[desc].frame = txd[desc].frame
    <3>1. CASE HwStamp
      BY <1>1, <3>1 DEF HwStamp
    <3>2. CASE ~HwStamp
      BY <1>10, <3>2 DEF Hw, HwDone, TxIrq, TxIrqEnter, TxIrqCheck, TxIrqReap, TxIrqAck,
           TsIrq, TsIrqFind, TsIrqDeliver, vars
    <3> QED BY <3>1, <3>2
  <2> QED BY <1>4, <2>1, <2>2 DEF XmitOrder, Taken
<1> QED BY <1>5, <1>6, <1>7, <1>8, <1>9, <1>10 DEF Next, XmitBegin, XmitRest

(* What is sent next is the oldest accepted frame that was not.            *)
LEMMA WirePrefixStep == IInv /\ [Next]_vars => WirePrefix'
<1> SUFFICES ASSUME IInv, [Next]_vars PROVE WirePrefix'
  OBVIOUS
<1> USE DEF xmitVars, slotVars, descVars, hwVars, irqVars, skbHistory
<1>1. /\ accepted \in Seq(Frame) /\ wire \in Seq(Frame)
      /\ Len(wire) <= Len(accepted)
      /\ \A i \in DOMAIN wire : wire[i] = accepted[i]
  BY DEF IInv, TypeOK, WirePrefix
<1>2. CASE XmitFire
  <2>1. accepted' = Append(accepted, submitted) /\ wire' = wire
    BY <1>2 DEF XmitFire
  <2>2. /\ Len(accepted') = Len(accepted) + 1
        /\ \A i \in 1..Len(accepted) : accepted'[i] = accepted[i]
    BY <1>1, <2>1
  <2> QED BY <1>1, <2>1, <2>2 DEF WirePrefix
<1>3. CASE HwDone
  <2>1. /\ wire' = Append(wire, txd[hwNext].frame) /\ accepted' = accepted /\ ready[hwNext]
    BY <1>3 DEF HwDone
  <2>2. Len(wire) + 1 \in DOMAIN accepted /\ txd[hwNext].frame = accepted[Len(wire) + 1]
    BY <2>1, HeadFacts
  <2> QED BY <1>1, <2>1, <2>2 DEF WirePrefix
<1>4. CASE UNCHANGED <<accepted, wire>>
  BY <1>1, <1>4 DEF WirePrefix
<1> QED BY <1>2, <1>3, <1>4
  DEF Next, XmitBegin, XmitTooLong, XmitAlloc, XmitRest, XmitStoreSkb, XmitStoreId, XmitCopy,
      Hw, HwStamp, TxIrq, TxIrqEnter, TxIrqCheck, TxIrqReap, TxIrqAck, TsIrq, TsIrqFind,
      TsIrqDeliver, vars

(* The handler works on an skb only when it found one.                     *)
LEMMA IrqLocalsStep == IInv /\ [Next]_vars => IrqLocals'
<1> SUFFICES ASSUME IInv, [Next]_vars PROVE IrqLocals'
  OBVIOUS
<1> USE DEF xmitVars, slotVars, descVars, hwVars, irqVars, skbHistory
<1>1. IrqLocals /\ slotSkb \in [Desc -> 0..MaxFrames] /\ next_tx_tail \in Desc
      /\ tsFifo \in Seq([frame : Frame, id : 0..(IdSpace - 1)])
  BY DEF IInv, TypeOK
<1>2. \A d \in Desc : slotSkb[d] # 0 => slotSkb[d] \in Frame
  BY <1>1, MaxFramesAssumption DEF Frame
<1>3. CASE TxIrqCheck
  BY <1>1, <1>2, <1>3 DEF TxIrqCheck, IrqLocals
<1>4. CASE TsIrqFind
  <2>1. CASE UNCHANGED <<ipc, iskb, its, islot>>
    BY <1>1, <2>1 DEF IrqLocals
  <2>2. CASE \E i \in Matching(Head(tsFifo).id) :
               islot' = i /\ iskb' = slotSkb[i] /\ its' = Head(tsFifo) /\ ipc' = "stamp"
    <3>1. tsFifo # << >>
      BY <1>4 DEF TsIrqFind
    <3>2. Head(tsFifo) \in [frame : Frame, id : 0..(IdSpace - 1)]
      BY <1>1, <3>1, HeadTail
    <3> QED BY <1>2, <2>2, <3>2 DEF Matching, IrqLocals
  <2> QED BY <1>4, <2>1, <2>2 DEF TsIrqFind
<1>5. CASE TxIrqEnter \/ TxIrqReap \/ TxIrqAck \/ TsIrqDeliver
  BY <1>5 DEF TxIrqEnter, TxIrqReap, TxIrqAck, TsIrqDeliver, IrqLocals
<1>6. CASE UNCHANGED <<ipc, iskb, its>>
  BY <1>1, <1>6 DEF IrqLocals
<1> QED BY <1>3, <1>4, <1>5, <1>6
  DEF Next, XmitBegin, XmitTooLong, XmitAlloc, XmitRest, XmitStoreSkb, XmitStoreId, XmitCopy,
      XmitFire, Hw, HwStamp, HwDone, TxIrq, TsIrq, vars

-----------------------------------------------------------------------------
(* Who holds an skb.  wrn_start_xmit puts a frame into its slot that was   *)
(* nowhere before.                                                         *)
LEMMA XmitSkb == IInv /\ (XmitBegin \/ XmitRest) => (SkbOwnership /\ SkbNew /\ SkbInHandler)'
<1> SUFFICES ASSUME IInv, XmitBegin \/ XmitRest
             PROVE  SkbOwnership' /\ SkbNew' /\ SkbInHandler'
  OBVIOUS
<1> USE DEF descVars, hwVars, irqVars, skbHistory
<1>1. SkbOwnership /\ SkbNew /\ SkbInHandler
  BY DEF IInv
<1>2. /\ slotSkb \in [Desc -> 0..MaxFrames] /\ freed \in [Frame -> Nat]
      /\ iskb \in 0..MaxFrames /\ desc \in Desc
  BY DEF IInv, TypeOK
<1>3. submitted \in 0..MaxFrames /\ MaxFrames \in Nat
  BY Facts
<1>4. UNCHANGED <<freed, iskb, ipc, next_tx_tail, islot>>
  BY DEF XmitBegin, XmitTooLong, XmitAlloc, XmitRest, XmitStoreSkb, XmitStoreId, XmitCopy,
         XmitFire
<1>5. CASE XmitBegin
  <2>1. slotSkb' = slotSkb /\ submitted' = submitted + 1 /\ submitted < MaxFrames
    BY <1>5 DEF XmitBegin, XmitTooLong, XmitAlloc, slotVars
  <2>2. SkbOwnership' /\ SkbInHandler'
    BY <1>1, <1>4, <2>1 DEF SkbOwnership, SkbInHandler
  <2>3. \A d \in Desc : slotSkb[d] <= submitted /\ slotSkb[d] \in Nat
    BY <1>1, <1>2 DEF SkbNew
  <2>4. iskb <= submitted /\ \A n \in Frame : n > submitted => freed[n] = 0
    BY <1>1 DEF SkbNew
  <2>5. submitted + 1 \in Frame
    BY <1>3, <2>1 DEF Frame
  <2>6. freed[submitted + 1] = 0
    BY <1>3, <2>4, <2>5
  <2>7. \A n \in Frame : n > submitted + 1 => freed[n] = 0
    BY <1>3, <2>4 DEF Frame
  <2>8. /\ \A d \in Desc : slotSkb[d] <= submitted + 1 /\ slotSkb[d] # submitted + 1
        /\ iskb <= submitted + 1 /\ iskb # submitted + 1
    BY <1>2, <1>3, <2>3, <2>4
  <2> QED BY <1>4, <2>1, <2>2, <2>6, <2>7, <2>8 DEF SkbNew
<1>6. CASE XmitStoreSkb
  <2>1. /\ xpc = "skb" /\ xpc' = "id" /\ submitted' = submitted
        /\ slotSkb' = [slotSkb EXCEPT ![desc] = submitted]
    BY <1>6 DEF XmitStoreSkb
  <2>2. /\ \A d \in Desc : slotSkb[d] # submitted
        /\ iskb # submitted /\ freed[submitted] = 0
    BY <1>1, <2>1 DEF SkbNew
  <2>3. \A d \in Desc : slotSkb'[d] = IF d = desc THEN submitted ELSE slotSkb[d]
    BY <1>2, <2>1
  <2>4. SkbOwnership'
    BY <1>1, <1>4, <2>2, <2>3 DEF SkbOwnership
  <2>5. SkbNew'
    BY <1>1, <1>3, <1>4, <2>1, <2>3 DEF SkbNew
  <2>6. SkbInHandler'
    BY <1>1, <1>4, <2>2, <2>3 DEF SkbInHandler
  <2> QED BY <2>4, <2>5, <2>6
<1>7. CASE XmitStoreId \/ XmitCopy \/ XmitFire
  <2>1. xpc' # "skb" /\ submitted' = submitted /\ slotSkb' = slotSkb
    BY <1>7 DEF XmitStoreId, XmitCopy, XmitFire, slotVars
  <2> QED BY <1>1, <1>4, <2>1 DEF SkbOwnership, SkbNew, SkbInHandler
<1> QED BY <1>5, <1>6, <1>7 DEF XmitRest

(* The handler: an skb leaves its slot and the handler when it is released.*)
LEMMA IrqSkb == IInv /\ (TxIrq \/ TsIrq) => (SkbOwnership /\ SkbNew /\ SkbInHandler)'
<1> SUFFICES ASSUME IInv, TxIrq \/ TsIrq
             PROVE  SkbOwnership' /\ SkbNew' /\ SkbInHandler'
  OBVIOUS
<1> USE DEF descVars, hwVars, xmitVars, skbHistory
<1>1. SkbOwnership /\ SkbNew /\ SkbInHandler /\ IrqLocals
  BY DEF IInv
<1>2. /\ slotSkb \in [Desc -> 0..MaxFrames] /\ freed \in [Frame -> Nat]
      /\ iskb \in 0..MaxFrames /\ next_tx_tail \in Desc /\ islot \in Desc
  BY DEF IInv, TypeOK
<1>3. submitted \in 0..MaxFrames /\ MaxFrames \in Nat
  BY Facts
<1>4. UNCHANGED <<submitted, xpc>>
  BY DEF TxIrq, TxIrqEnter, TxIrqCheck, TxIrqReap, TxIrqAck, TsIrq, TsIrqFind, TsIrqDeliver
<1>5. CASE TxIrqEnter \/ TxIrqAck
  <2>1. UNCHANGED <<slotSkb, freed, iskb>> /\ ipc' \notin {"reap", "stamp"}
    BY <1>5 DEF TxIrqEnter, TxIrqAck, slotVars
  <2> QED BY <1>1, <1>4, <2>1 DEF SkbOwnership, SkbNew, SkbInHandler
<1>6. CASE TxIrqCheck \/ TsIrqFind
  <2>1. UNCHANGED <<slotSkb, freed, next_tx_tail>>
    BY <1>6 DEF TxIrqCheck, TsIrqFind, slotVars
  <2>2. \/ iskb' = 0 /\ ipc' \notin {"reap", "stamp"}
        \/ UNCHANGED <<ipc, iskb, islot>>
        \/ \E i \in Desc :
             /\ slotSkb[i] # 0 /\ iskb' = slotSkb[i]
             /\ i = IF ipc' = "reap" THEN next_tx_tail ELSE islot'
    BY <1>2, <1>6 DEF TxIrqCheck, TsIrqFind, Matching
  <2>3. CASE iskb' = 0 /\ ipc' \notin {"reap", "stamp"}
    <3>1. SkbOwnership' /\ SkbInHandler'
      BY <1>1, <2>1, <2>3 DEF SkbOwnership, SkbInHandler
    <3>2. xpc = "skb" => submitted # 0
      BY <1>3 DEF IInv, XmitOrder
    <3> QED BY <1>1, <1>3, <1>4, <2>1, <2>3, <3>1, <3>2 DEF SkbNew
  <2>4. CASE UNCHANGED <<ipc, iskb, islot>>
    BY <1>1, <1>4, <2>1, <2>4 DEF SkbOwnership, SkbNew, SkbInHandler
  <2>5. ASSUME NEW i \in Desc, slotSkb[i] # 0, iskb' = slotSkb[i],
               i = IF ipc' = "reap" THEN next_tx_tail ELSE islot'
        PROVE  SkbOwnership' /\ SkbNew' /\ SkbInHandler'
    <3>1. SkbOwnership'
      BY <1>1, <2>1, <2>5 DEF SkbOwnership
    <3>2. SkbNew'
      BY <1>1, <1>4, <2>1, <2>5 DEF SkbNew
    <3>3. SkbInHandler'
      BY <1>1, <2>1, <2>5 DEF SkbOwnership, SkbInHandler
    <3> QED BY <3>1, <3>2, <3>3
  <2> QED BY <2>2, <2>3, <2>4, <2>5
<1>7. ASSUME NEW i \in Desc, iskb \in Frame,
             \A d \in Desc : slotSkb[d] = iskb => d = i,
             iskb' = 0, ipc' \notin {"reap", "stamp"},
             slotSkb' = [slotSkb EXCEPT ![i] = 0], freed' = [freed EXCEPT ![iskb] = @ + 1]
      PROVE  SkbOwnership' /\ SkbNew' /\ SkbInHandler'
  <2>1. \A d \in Desc : slotSkb'[d] = IF d = i THEN 0 ELSE slotSkb[d]
    BY <1>2, <1>7
  <2>2. freed[iskb] = 0 /\ iskb # 0
    BY <1>1, <1>3, <1>7 DEF SkbOwnership, Frame
  <2>3. \A n \in Frame : freed'[n] = IF n = iskb THEN 1 ELSE freed[n]
    BY <1>2, <1>7, <2>2
  <2>4. \A d \in Desc : slotSkb'[d] # 0 => slotSkb'[d] \in Frame
    BY <1>2, <1>3, <2>1 DEF Frame
  <2>5. SkbOwnership'
    <3>1. \A d, e \in Desc : slotSkb'[d] = slotSkb'[e] /\ slotSkb'[d] # 0 => d = e
      BY <1>1, <2>1 DEF SkbOwnership
    <3>2. \A n \in Frame : freed'[n] <= 1
      BY <1>1, <2>3 DEF SkbOwnership
    <3>3. \A d \in Desc : slotSkb'[d] # 0 => freed'[slotSkb'[d]] = 0
      BY <1>1, <1>7, <2>1, <2>3, <2>4 DEF SkbOwnership
    <3> QED BY <1>7, <3>1, <3>2, <3>3 DEF SkbOwnership
  <2>6. SkbNew'
    <3>1. \A d \in Desc : slotSkb'[d] <= submitted
      BY <1>1, <1>3, <2>1 DEF SkbNew
    <3>2. \A n \in Frame : n > submitted => freed'[n] = 0
      BY <1>1, <1>2, <1>3, <2>3 DEF SkbNew, Frame
    <3>3. xpc = "skb" => /\ \A d \in Desc : slotSkb'[d] # submitted
                         /\ submitted # 0
                         /\ freed'[submitted] = 0
      <4>1. xpc = "skb" => submitted \in Frame
        BY <1>3 DEF IInv, XmitOrder, Frame
      <4> QED BY <1>1, <2>1, <2>3, <4>1, <1>3 DEF SkbNew, Frame
    <3> QED BY <1>3, <1>4, <1>7, <3>1, <3>2, <3>3 DEF SkbNew
  <2>7. SkbInHandler'
    BY <1>7 DEF SkbInHandler
  <2> QED BY <2>5, <2>6, <2>7
<1>8. CASE TxIrqReap
  <2>1. /\ ipc = "reap" /\ iskb \in Frame /\ iskb' = 0 /\ ipc' = "check"
        /\ \A d \in Desc : slotSkb[d] = iskb => d = next_tx_tail
    BY <1>1, <1>8 DEF TxIrqReap, IrqLocals, SkbInHandler
  <2>2. CASE UNCHANGED <<slotSkb, freed>>
    <3>1. xpc = "skb" => submitted # 0
      BY <1>3 DEF IInv, XmitOrder
    <3> QED BY <1>1, <1>3, <1>4, <2>1, <2>2, <3>1 DEF SkbOwnership, SkbNew, SkbInHandler
  <2>3. CASE /\ slotSkb' = [slotSkb EXCEPT ![next_tx_tail] = 0]
             /\ freed' = [freed EXCEPT ![iskb] = @ + 1]
    BY <1>2, <1>7, <2>1, <2>3
  <2> QED BY <1>8, <2>2, <2>3 DEF TxIrqReap
<1>9. CASE TsIrqDeliver
  <2>1. /\ ipc = "stamp" /\ iskb \in Frame /\ iskb' = 0 /\ ipc' = "idle"
        /\ \A d \in Desc : slotSkb[d] = iskb => d = islot
        /\ slotSkb' = [slotSkb EXCEPT ![islot] = 0]
        /\ freed' = [freed EXCEPT ![iskb] = @ + 1]
    BY <1>1, <1>9 DEF TsIrqDeliver, IrqLocals, SkbInHandler
  <2> QED BY <1>2, <1>7, <2>1
<1> QED BY <1>5, <1>6, <1>8, <1>9 DEF TxIrq, TsIrq

-----------------------------------------------------------------------------
(* Frame ids: the id in a READY descriptor or in a stamp is one that       *)
(* wrn_start_xmit drew, and it never draws 0.                              *)
LEMMA IdStepInv == IInv /\ [Next]_vars => (IdNeverZero /\ IdInUse)'
<1> SUFFICES ASSUME IInv, [Next]_vars PROVE IdNeverZero' /\ IdInUse'
  OBVIOUS
<1> USE DEF slotVars, hwVars, irqVars, skbHistory
<1>1. IdNeverZero /\ IdInUse
  BY DEF IInv
<1>2. /\ ready \in [Desc -> BOOLEAN] /\ desc \in Desc /\ hwNext \in Desc
      /\ txd \in [Desc -> [frame : 0..MaxFrames, id : 0..(IdSpace - 1), tsE : BOOLEAN]]
      /\ tsFifo \in Seq([frame : Frame, id : 0..(IdSpace - 1)])
      /\ idCount \in 0..(IdSpace - 1)
  BY DEF IInv, TypeOK
<1>3. CASE XmitAlloc
  <2>1. NewId # 0
    BY <1>2, IdStep, IdSpaceAssumption
  <2>2. UNCHANGED <<ready, txd, tsFifo>>
    BY <1>3 DEF XmitAlloc, descVars
  <2>3. IdInUse'
    BY <1>1, <1>3, <2>1 DEF XmitAlloc, IdInUse
  <2> QED BY <1>1, <2>2, <2>3 DEF IdNeverZero
<1>4. CASE XmitCopy
  <2>1. \A d \in Desc : txd'[d].id = txd[d].id
    BY <1>2, <1>4 DEF XmitCopy
  <2> QED BY <1>1, <1>4, <2>1 DEF XmitCopy, IdNeverZero, IdInUse
<1>5. CASE XmitFire
  <2>1. id # 0 /\ xpc' = "idle" /\ tsFifo' = tsFifo
    BY <1>1, <1>5 DEF XmitFire, IdInUse
  <2>2. ASSUME NEW d \in Desc, ready'[d] PROVE txd'[d].id # 0
    <3>1. CASE d = desc
      <4>1. txd'[desc].id = id
        BY <1>2, <1>5 DEF XmitFire
      <4> QED BY <2>1, <3>1, <4>1
    <3>2. CASE d # desc
      <4>1. ready[d] /\ txd'[d] = txd[d]
        BY <1>2, <1>5, <2>2, <3>2 DEF XmitFire
      <4> QED BY <1>1, <4>1 DEF IdNeverZero
    <3> QED BY <3>1, <3>2
  <2> QED BY <1>1, <2>1, <2>2 DEF IdNeverZero, IdInUse
<1>6. CASE HwStamp
  <2>1. ready[hwNext] /\ UNCHANGED <<ready, xpc, id>>
    BY <1>6 DEF HwStamp, xmitVars
  <2>2. txd[hwNext].id # 0
    BY <1>1, <1>2, <2>1 DEF IdNeverZero
  <2>3. \A d \in Desc : txd'[d].id = txd[d].id
    BY <1>2, <1>6 DEF HwStamp
  <2>4. tsFifo' = Append(tsFifo, [frame |-> txd[hwNext].frame, id |-> txd[hwNext].id])
    BY <1>6 DEF HwStamp
  <2>5. ASSUME NEW i \in DOMAIN tsFifo' PROVE tsFifo'[i].id # 0
    <3>1. (i \in DOMAIN tsFifo /\ tsFifo'[i] = tsFifo[i]) \/ tsFifo'[i].id = txd[hwNext].id
      BY <1>2, <2>4, <2>5
    <3> QED BY <1>1, <2>2, <3>1 DEF IdNeverZero
  <2> QED BY <1>1, <2>1, <2>3, <2>5 DEF IdNeverZero, IdInUse
<1>7. CASE HwDone
  <2>1. ready' = [ready EXCEPT ![hwNext] = FALSE] /\ UNCHANGED <<txd, tsFifo, xpc, id>>
    BY <1>7 DEF HwDone, xmitVars
  <2>2. \A d \in Desc : ready'[d] => ready[d]
    BY <1>2, <2>1
  <2> QED BY <1>1, <2>1, <2>2 DEF IdNeverZero, IdInUse
<1>8. CASE TsIrqFind
  <2>1. tsFifo # << >> /\ tsFifo' = Tail(tsFifo) /\ UNCHANGED <<ready, txd, xpc, id>>
    BY <1>8 DEF TsIrqFind, xmitVars, descVars
  <2>2. \A i \in DOMAIN tsFifo' : i + 1 \in DOMAIN tsFifo /\ tsFifo'[i] = tsFifo[i + 1]
    BY <1>2, <2>1, HeadTail
  <2> QED BY <1>1, <2>1, <2>2 DEF IdNeverZero, IdInUse
<1>9. CASE XmitTooLong \/ XmitStoreSkb \/ XmitStoreId \/ TxIrq \/ TsIrqDeliver \/ UNCHANGED vars
  <2>1. UNCHANGED <<ready, txd, tsFifo, id>> /\ (xpc' # "idle" => xpc # "idle")
    BY <1>9 DEF XmitTooLong, XmitStoreSkb, XmitStoreId, TxIrq, TxIrqEnter, TxIrqCheck, TxIrqReap,
         TxIrqAck, TsIrqDeliver, vars, xmitVars, descVars
  <2> QED BY <1>1, <2>1 DEF IdNeverZero, IdInUse
<1> QED BY <1>3, <1>4, <1>5, <1>6, <1>7, <1>8, <1>9
        DEF Next, XmitBegin, XmitRest, Hw, TsIrq

-----------------------------------------------------------------------------
(* Every step preserves the invariant.                                     *)
LEMMA NextInv == IInv /\ [Next]_vars => IInv'
<1> SUFFICES ASSUME IInv, [Next]_vars PROVE IInv'
  OBVIOUS
<1>1. XmitOrder' /\ WirePrefix' /\ IrqLocals' /\ IdNeverZero' /\ IdInUse'
  BY XmitOrderStep, WirePrefixStep, IrqLocalsStep, IdStepInv
<1>2. CASE XmitBegin \/ XmitRest
  BY <1>1, <1>2, XmitType, XmitRing, XmitSkb DEF IInv
<1>3. CASE Hw
  <2>1. SkbOwnership' /\ SkbNew' /\ SkbInHandler'
    <3>1. UNCHANGED <<slotSkb, freed, iskb, ipc, submitted, xpc, next_tx_tail, islot>>
      BY <1>3 DEF Hw, HwStamp, HwDone, xmitVars, slotVars, irqVars, skbHistory
    <3> QED BY <3>1 DEF IInv, SkbOwnership, SkbNew, SkbInHandler
  <2> QED BY <1>1, <1>3, <2>1, HwType, HwRing DEF IInv
<1>4. CASE TxIrq \/ TsIrq
  BY <1>1, <1>4, IrqType, IrqRing, IrqSkb DEF IInv
<1>5. CASE UNCHANGED vars
  <2> USE <1>5 DEF vars, xmitVars, slotVars, descVars, hwVars, irqVars, skbHistory
  <2>1. TypeOK'
    BY DEF IInv, TypeOK
  <2>2. RingInv'
    BY RingUnchanged DEF IInv
  <2>3. SkbOwnership' /\ SkbNew' /\ SkbInHandler'
    BY DEF IInv, SkbOwnership, SkbNew, SkbInHandler
  <2> QED BY <1>1, <2>1, <2>2, <2>3 DEF IInv
<1> QED BY <1>2, <1>3, <1>4, <1>5 DEF Next

(* It holds throughout.                                                    *)
LEMMA Invariance == Spec => []IInv
  BY InitInv, NextInv, PTL DEF Spec

-----------------------------------------------------------------------------
(* Every variable keeps its type.                                          *)
THEOREM TypeCorrect == Spec => []TypeOK
  BY Invariance, PTL DEF IInv

(* The NIC and wrn_start_xmit never disagree about the ring.               *)
THEOREM RingCorrect == Spec => []RingInv
  BY Invariance, PTL DEF IInv

(* No skb is released twice or left in a slot after its release, although  *)
(* wrn_start_xmit and the interrupt handler share the slots without a lock.*)
THEOREM SkbCorrect == Spec => []SkbOwnership
  BY Invariance, PTL DEF IInv

(* Frame id 0 never reaches the hardware, whatever wraps.                  *)
THEOREM IdCorrect == Spec => []IdNeverZero
  BY Invariance, PTL DEF IInv

(* The transmit path is the bounded FIFO of TxFifo: frames leave in the    *)
(* order of submission, each once, and -ENOMEM means NDesc frames wait.    *)
THEOREM FifoImplemented == Spec => ImplementsFifo
<1>1. Init => Fifo!Init
  BY DEF Init, Fifo!Init
<1>2. ASSUME IInv, [Next]_vars PROVE [Fifo!Next]_(Fifo!vars)
  <2>1. /\ Fifo!Waiting = Queued /\ Queued \in 0..(NDesc - Taken)
        /\ Taken \in {0, 1} /\ NDesc \in Nat \ {0}
        /\ submitted \in 0..MaxFrames /\ MaxFrames \in Nat
    BY <1>2, Facts DEF Fifo!Waiting, Queued
  <2>2. /\ accepted \in Seq(Frame) /\ refused \subseteq Frame
        /\ \A i \in DOMAIN accepted : accepted[i] <= submitted - Taken
        /\ \A n \in refused : n <= submitted - Taken
    BY <1>2 DEF IInv, TypeOK, XmitOrder
  <2>3. /\ \A i \in DOMAIN accepted : accepted[i] \in Nat
        /\ \A n \in refused : n \in Nat
    <3>1. \A i \in 1..Len(accepted) : accepted[i] \in Frame
      BY <2>2
    <3> QED BY <2>1, <2>2, <3>1 DEF Frame
  <2>4. CASE XmitAlloc /\ ready[next_tx_head]
    <3>1. /\ xpc = "idle" /\ submitted < MaxFrames
          /\ refused' = refused \cup {submitted + 1} /\ UNCHANGED <<accepted, wire>>
      BY <2>4 DEF XmitAlloc
    <3>2. Taken = 0 /\ Queued = NDesc
      BY <1>2, <2>4, <3>1, AllocFacts
    <3>3. /\ submitted + 1 \in 1..MaxFrames
          /\ \A i \in DOMAIN accepted : accepted[i] # submitted + 1
          /\ submitted + 1 \notin refused
      BY <2>1, <2>2, <2>3, <3>1, <3>2
    <3> QED BY <2>1, <3>1, <3>2, <3>3 DEF Fifo!Next, Fifo!Refuse
  <2>5. CASE XmitFire
    <3>1. /\ xpc = "fire" /\ accepted' = Append(accepted, submitted)
          /\ UNCHANGED <<wire, refused>>
      BY <2>5 DEF XmitFire
    <3>2. Taken = 1 /\ submitted > 0
      BY <1>2, <3>1 DEF Taken, IInv, XmitOrder
    <3>3. /\ submitted \in 1..MaxFrames
          /\ \A i \in DOMAIN accepted : accepted[i] < submitted
          /\ submitted \notin refused
      BY <2>1, <2>2, <2>3, <3>2
    <3>4. Fifo!Waiting < NDesc
      BY <2>1, <3>2
    <3> QED BY <3>1, <3>3, <3>4 DEF Fifo!Next, Fifo!Accept
  <2>6. CASE HwDone
    <3>1. /\ ready[hwNext] /\ wire' = Append(wire, txd[hwNext].frame)
          /\ UNCHANGED <<accepted, refused>>
      BY <2>6 DEF HwDone
    <3>2. Queued > 0 /\ txd[hwNext].frame = accepted[Len(wire) + 1]
      BY <1>2, <3>1, HeadFacts
    <3> QED BY <2>1, <3>1, <3>2 DEF Fifo!Next, Fifo!Send
  <2>7. CASE \/ XmitTooLong \/ (XmitAlloc /\ ~ready[next_tx_head])
             \/ XmitStoreSkb \/ XmitStoreId \/ XmitCopy
             \/ HwStamp \/ TxIrq \/ TsIrq \/ UNCHANGED vars
    <3>1. UNCHANGED <<accepted, wire, refused>>
      BY <2>7 DEF XmitTooLong, XmitAlloc, XmitStoreSkb, XmitStoreId, XmitCopy, HwStamp, TxIrq,
           TxIrqEnter, TxIrqCheck, TxIrqReap, TxIrqAck, TsIrq, TsIrqFind, TsIrqDeliver, vars
    <3> QED BY <3>1 DEF Fifo!vars
  <2> QED BY <1>2, <2>4, <2>5, <2>6, <2>7 DEF Next, XmitBegin, XmitRest, Hw
<1> QED BY <1>1, <1>2, Invariance, PTL DEF Spec, ImplementsFifo, Fifo!Spec

-----------------------------------------------------------------------------
(* NicLifecycle.  The inductive invariant is a table over the places of the *)
(* thread that probes or removes: what is there at each.  Whoever interrupts *)
(* it then has what that place has.                                         *)

BusProbe == {"wrc", "lm32", "gpio", "irq", "alloc", "publish", "register", "vic"}
NetProbe == {"map", "reset", "endpoint", "mezzanine", "dioIer", "rings", "enable"}
NetRemove == {"cr", "mezzExit", "netExit", "unmap"}
BusRemove == {"vicExit", "unregister", "free", "clear", "irqFree"}

\* Who called the thread to its place, and the state of the module.
ThreadPlaced ==
  /\ pc = "idle" <=> job = "none"
  /\ pc # "idle" => bound
  /\ pc \in BusProbe \cup NetProbe => job = "probe"
  /\ pc \in BusRemove \cup {"mezzExit", "netExit"} => job = "remove"
  /\ pc \notin NetProbe \cup NetRemove => back = "idle"
  /\ pc \in NetProbe \cup NetRemove /\ job = "probe" =>
       back \in {"idle", "vic"} /\ mod = "in"
  /\ pc \in NetProbe \cup NetRemove => mod # "half"
  /\ pc \in NetRemove /\ job = "remove" => back \in {"idle", "free"}
  /\ pc \in NetRemove /\ job = "remove" /\ back = "idle" => mayUnload /\ mod = "leaving"
  /\ mod = "out" => job # "probe" /\ (pc = "idle" => ~bound)
  /\ plat => mod = "in"
  /\ pc # "lm32" => lm32 = "running"

BusUp == gpio /\ irq /\ pdev /\ mem = "live"
BusDown == ~gpio /\ ~irq /\ ~pdev /\ mem = "none" /\ ~vic

\* What wrn_fmc_probe has set up.  Without the VIC and RAM cores of the LM32 it
\* sets up nothing.
BusPlaced ==
  /\ vic => cores
  /\ pc = "idle" /\ ~bound => BusDown
  /\ pc \in {"idle", "vicExit"} => BusDown \/ (BusUp /\ vic)
  /\ pc \in {"wrc", "lm32", "gpio"} => BusDown
  /\ pc \in {"irq", "gpioExit"} => gpio /\ ~irq /\ ~pdev /\ mem = "none" /\ ~vic
  /\ pc = "alloc" => gpio /\ irq /\ ~pdev /\ mem = "none" /\ ~vic
  /\ pc = "publish" => gpio /\ irq /\ ~pdev /\ mem = "live" /\ ~vic
  /\ pc \in {"register", "vic", "unregister", "free"} => BusUp /\ ~vic
  /\ pc \in NetProbe \cup NetRemove => BusUp /\ (vic <=> back = "idle")
  /\ pc = "clear" => gpio /\ irq /\ pdev /\ mem = "freed" /\ ~vic
  /\ pc = "irqFree" => gpio /\ irq /\ ~pdev /\ mem = "none" /\ ~vic

NetNew == ~ppBound /\ ~net /\ maps = "null" /\ dio = "none"

\* Only unloading the module under the device leaves interrupts enabled.
NetDown ==
  /\ ~ppBound /\ ~net /\ dio # "live"
  /\ (mayUnload /\ mod \in {"leaving", "out"}) \/ (ier = {} /\ dio = "none")

NetUp ==
  /\ ppBound /\ net /\ cr /\ maps = "mapped" /\ dio # "freed"
  /\ {"nic", "txtsu"} \subseteq ier
  /\ "dio" \in ier <=> dio = "live"

\* What wrn_probe has set up.
NetPlaced ==
  /\ pc \in {"idle", "vicExit"} /\ ~pdev => NetNew
  /\ mod = "half" => NetNew
  /\ pc \in (BusProbe \ {"vic"}) \cup {"map", "clear", "irqFree", "gpioExit"} => NetNew
  /\ pc \in (BusProbe \ {"vic"}) \cup {"map", "reset", "endpoint", "mezzanine",
                                             "dioIer"} => ier = {}
  /\ (pc = "idle" /\ bound) \/ pc \in {"vic", "vicExit", "unregister"} =>
       NetUp \/ NetDown
  /\ pc \in {"reset", "endpoint"} => ~ppBound /\ ~net /\ maps = "mapped" /\ dio = "none"
  /\ pc \in {"mezzanine", "dioIer", "rings", "enable"} =>
       ~ppBound /\ net /\ maps = "mapped" /\ dio # "freed"
  /\ pc = "mezzanine" => dio = "none"
  /\ pc = "dioIer" => dio = "live"
  /\ pc \in {"rings", "enable"} =>
       ier \subseteq {"dio"} /\ ("dio" \in ier <=> dio = "live")
  /\ pc \in {"cr", "unmap"} /\ job = "probe" =>
       ~ppBound /\ ~net /\ dio = "none" /\ ier = {}
  /\ pc = "cr" /\ job = "remove" => NetUp
  /\ pc = "netExit" => dio # "live"
  /\ pc = "unmap" => ~net /\ dio # "live"
  /\ pc = "free" => ~ppBound /\ ~net

\* From the start of a probe until something is taken down, and when nothing runs
\* beside the removal.
Attended ==
  \/ bound /\ mod # "leaving" /\ (pc = "idle" \/ job = "probe")
  \/ ~smp /\ ~shared /\ ~mayUnload

\* What is between an interrupt and its end.
IrqPlaced ==
  /\ hpc # "idle" => irq
  /\ ~smp /\ ~irq => ~tlet
  /\ ~smp /\ ~shared /\ hpc # "idle" => raised # "none"
  /\ Attended /\ raised # "none" => vic /\ raised \in ier
  /\ Attended /\ hpc # "idle" => pdev /\ mem = "live"
  /\ Attended /\ tlet => ppBound /\ net /\ maps = "mapped" /\ mem = "live"

LifeInv ==
  LifeTypeOK /\ ThreadPlaced /\ BusPlaced /\ NetPlaced /\ IrqPlaced /\ InterruptsServed

\* A fault changes nothing else.
LEMMA FaultInv ==
  ASSUME NEW who \in {"bus", "handler", "tasklet", "ioctl"}, LifeInv, Faulting(who),
         who \in {"handler", "tasklet"} =>
           /\ When \in {"probe", "up"} => ~cores
           /\ When = "remove" => smp \/ shared \/ mayUnload
  PROVE  LifeInv'
<1> USE DEF LifeInv, Faulting, params, module, board, fmcVars, netVars, thread, others
<1>1. When \in {"probe", "up", "remove"}
  BY DEF When, LifeTypeOK, StateTypeOK, ThreadPlaced
<1>2. fault' = <<who, When>>
  OBVIOUS
<1>3. FlagTypeOK' /\ StateTypeOK'
  BY <1>1, <1>2 DEF LifeTypeOK, FlagTypeOK, StateTypeOK
<1>4. ThreadPlaced' /\ BusPlaced'
  BY DEF ThreadPlaced, BusPlaced, BusUp, BusDown
<1>5. NetPlaced' /\ IrqPlaced'
  BY DEF NetPlaced, NetNew, NetDown, NetUp, IrqPlaced, Attended
<1>6. InterruptsServed'
  BY <1>1, <1>2 DEF InterruptsServed
<1> QED BY <1>3, <1>4, <1>5, <1>6 DEF LifeTypeOK

\* Nothing is to be missed: someone attends to the device.
LEMMA AttendedWhen ==
  ASSUME LifeInv, When \in {"probe", "up"} \/ ~(smp \/ shared \/ mayUnload)
  PROVE  Attended
BY DEF LifeInv, LifeTypeOK, StateTypeOK, ThreadPlaced, When, Attended

\* A source that may interrupt has what its handler needs.
LEMMA SourceServed ==
  ASSUME LifeInv, Attended, vic, NEW s \in ier
  PROVE  cores /\ Served(s)
<1> USE DEF LifeInv
<1>1. cores /\ BusUp
  BY DEF BusPlaced, BusDown, BusUp, LifeTypeOK, StateTypeOK, NetProbe, NetRemove
<1>2. pc \in {"idle", "vicExit"} \cup NetProbe \cup NetRemove
  BY DEF BusPlaced, BusDown, BusUp, LifeTypeOK, StateTypeOK, NetProbe, NetRemove
<1>3. pc = "idle" => bound
  BY DEF BusPlaced, BusDown
<1>4. s \in Sources
  BY DEF LifeTypeOK, StateTypeOK
<1>5. CASE NetUp
  BY <1>1, <1>4, <1>5 DEF NetUp, Served, BusUp, Sources
<1>6. CASE ~NetUp
  <2>1. CASE pc \in {"idle", "vicExit"}
    <3>1. NetDown
      BY <1>3, <1>6, <2>1 DEF NetPlaced
    <3>2. ~(mayUnload /\ mod \in {"leaving", "out"})
      BY <1>3, <2>1 DEF Attended, ThreadPlaced, BusRemove
    <3> QED BY <3>1, <3>2 DEF NetDown
  <2>2. CASE pc \in NetProbe
    <3>1. pc \in {"rings", "enable"} /\ s = "dio" /\ dio = "live"
      BY <2>2 DEF NetPlaced, NetProbe
    <3> QED BY <1>1, <3>1 DEF Served, BusUp
  <2>3. CASE pc \in NetRemove
    <3>1. job = "probe"
      BY <2>3, <1>1 DEF Attended, ThreadPlaced, BusPlaced, NetRemove, LifeTypeOK, StateTypeOK
    <3>2. pc \in {"cr", "unmap"}
      BY <2>3, <3>1 DEF ThreadPlaced, NetRemove
    <3> QED BY <3>1, <3>2 DEF NetPlaced
  <2> QED BY <1>2, <2>1, <2>2, <2>3
<1> QED BY <1>5, <1>6

LEMMA HandlerFault ==
  ASSUME LifeInv, NEW who \in {"handler", "tasklet"}, Faulting(who),
         ~(Attended /\ cores), ~smp /\ ~shared /\ ~mayUnload => cores
  PROVE  LifeInv'
<1>1. When \in {"probe", "up"} => ~cores
  BY AttendedWhen
<1>2. When = "remove" => smp \/ shared \/ mayUnload
  BY AttendedWhen
<1>3. who \in {"handler", "tasklet"} =>
        /\ When \in {"probe", "up"} => ~cores
        /\ When = "remove" => smp \/ shared \/ mayUnload
  BY <1>1, <1>2
<1> QED BY <1>3, FaultInv

LEMMA ReadFault ==
  ASSUME LifeInv, HandlerRead, Faulting("handler")
  PROVE  LifeInv'
<1>1. Attended => mem = "live"
  BY DEF LifeInv, IrqPlaced, HandlerRead
<1>2. ~(mem = "live" /\ cores)
  BY DEF HandlerRead, Faulting, others
<1>3. ~smp /\ ~shared /\ ~mayUnload => cores
  BY DEF LifeInv, IrqPlaced, Attended, HandlerRead, BusPlaced
<1> QED BY <1>1, <1>2, <1>3, HandlerFault

LEMMA ServeFault ==
  ASSUME LifeInv, HandlerServe, Faulting("handler")
  PROVE  LifeInv'
<1>1. hpc = "serve" /\ ~Served(raised)
  BY DEF HandlerServe, Faulting, others
<1>2. ~Attended
  <2> SUFFICES ASSUME Attended PROVE FALSE
    OBVIOUS
  <2>1. mem = "live"
    BY <1>1 DEF LifeInv, IrqPlaced
  <2>2. raised # "none"
    BY <1>1, <2>1 DEF Served
  <2>3. vic /\ raised \in ier
    BY <2>2 DEF LifeInv, IrqPlaced
  <2> QED BY <1>1, <2>3, SourceServed
<1>3. ~(~smp /\ ~shared /\ ~mayUnload)
  BY <1>2 DEF Attended
<1> QED BY <1>2, <1>3, HandlerFault

LEMMA TaskletFault ==
  ASSUME LifeInv, Tasklet, Faulting("tasklet")
  PROVE  LifeInv'
<1>1. tlet /\ ~(mem = "live" /\ maps = "mapped" /\ net)
  BY DEF Tasklet, Faulting, others
<1>2. ~Attended
  BY <1>1 DEF LifeInv, IrqPlaced
<1>3. ~(~smp /\ ~shared /\ ~mayUnload)
  BY <1>2 DEF Attended
<1> QED BY <1>2, <1>3, HandlerFault

-----------------------------------------------------------------------------
(* Step by step                                                            *)

LEMMA InsmodFmcInv ==
  ASSUME LifeInv, InsmodFmc, fault = <<>>
  PROVE  LifeInv'
<1> USE DEF LifeInv, LifeTypeOK, InsmodFmc, At, Quiet, params, board,
      fmcVars, netVars, thread, others
<1>1. FlagTypeOK' /\ StateTypeOK'  BY DEF FlagTypeOK, StateTypeOK
<1>2. ThreadPlaced' /\ BusPlaced'
  BY DEF ThreadPlaced, BusProbe, NetProbe, NetRemove, BusRemove, BusPlaced,
         BusUp, BusDown
<1>3. NetPlaced'
  BY DEF StateTypeOK, ThreadPlaced, BusProbe, NetProbe, NetRemove,
         BusRemove, BusPlaced, BusUp, BusDown, NetPlaced, NetNew, NetDown, NetUp
<1>4. IrqPlaced' /\ InterruptsServed'
  BY DEF IrqPlaced, Attended, InterruptsServed
<1> QED BY <1>1, <1>2, <1>3, <1>4

LEMMA InsmodPlatInv ==
  ASSUME LifeInv, InsmodPlat, fault = <<>>
  PROVE  LifeInv'
<1> USE DEF LifeInv, LifeTypeOK, InsmodPlat, At, Start, Quiet, params,
      board, fmcVars, netVars, thread, others
<1>1. FlagTypeOK' /\ StateTypeOK'  BY DEF FlagTypeOK, StateTypeOK
<1>2. ThreadPlaced'
  BY DEF StateTypeOK, ThreadPlaced, BusProbe, NetProbe, NetRemove,
         BusRemove, NetPlaced, NetNew, NetDown, NetUp, BusPlaced, BusUp, BusDown
<1>3. BusPlaced'
    BY DEF BusPlaced, BusUp, BusDown, NetProbe, NetRemove
<1>4. NetPlaced'
    BY DEF NetPlaced, BusProbe, NetNew, NetDown, NetUp, BusPlaced, BusUp, BusDown,
         NetProbe, NetRemove
<1>5. IrqPlaced' /\ InterruptsServed'
  BY DEF IrqPlaced, Attended, InterruptsServed
<1> QED BY <1>1, <1>2, <1>3, <1>4, <1>5

LEMMA RmmodPlatInv ==
  ASSUME LifeInv, RmmodPlat, fault = <<>>
  PROVE  LifeInv'
<1> USE DEF LifeInv, LifeTypeOK, RmmodPlat, At, Start, Quiet, params,
      board, fmcVars, netVars, thread, others
<1>1. FlagTypeOK'  BY DEF FlagTypeOK
<1>2. StateTypeOK'  BY DEF StateTypeOK
<1>3. ThreadPlaced'
  BY DEF StateTypeOK, ThreadPlaced, BusProbe, NetProbe, NetRemove,
         BusRemove, NetPlaced, NetNew, NetDown, NetUp, BusPlaced, BusUp, BusDown
<1>4. BusPlaced'
  BY DEF StateTypeOK, ThreadPlaced, BusProbe, NetProbe, NetRemove,
         BusRemove, BusPlaced, BusUp, BusDown, NetPlaced, NetNew, NetDown, NetUp
<1>5. NetPlaced'
    BY DEF NetPlaced, BusProbe, NetNew, NetDown, NetUp, BusPlaced, BusUp, BusDown,
         NetProbe, NetRemove
<1>6. IrqPlaced' /\ InterruptsServed'
  BY DEF IrqPlaced, Attended, InterruptsServed
<1> QED BY <1>1, <1>2, <1>3, <1>4, <1>5, <1>6

LEMMA RmmodFmcInv ==
  ASSUME LifeInv, RmmodFmc, fault = <<>>
  PROVE  LifeInv'
<1> USE DEF LifeInv, LifeTypeOK, RmmodFmc, At, Start, Quiet, params,
      board, fmcVars, netVars, thread, others
<1>1. FlagTypeOK' /\ StateTypeOK'  BY DEF FlagTypeOK, StateTypeOK
<1>2. ThreadPlaced' /\ BusPlaced' /\ NetPlaced'
  BY DEF ThreadPlaced, BusProbe, NetProbe, NetRemove, BusRemove, BusPlaced,
         BusUp, BusDown, NetPlaced, NetNew, NetDown, NetUp
<1>3. IrqPlaced' /\ InterruptsServed'
  BY DEF IrqPlaced, Attended, InterruptsServed
<1> QED BY <1>1, <1>2, <1>3

LEMMA ProbeInv ==
  ASSUME LifeInv, Probe, fault = <<>>
  PROVE  LifeInv'
<1> USE DEF LifeInv, LifeTypeOK, Probe, At, Start, Quiet, params, module,
      netVars
<1>1. FlagTypeOK' /\ StateTypeOK'  BY DEF FlagTypeOK, StateTypeOK
<1>2. ThreadPlaced' /\ BusPlaced'
  BY DEF ThreadPlaced, BusProbe, NetProbe, NetRemove, BusRemove, BusPlaced,
         BusUp, BusDown
<1>3. NetPlaced'
    BY DEF NetPlaced, BusProbe, NetNew, NetDown, NetUp, BusPlaced, BusUp, BusDown,
         NetProbe, NetRemove
<1>4. IrqPlaced'
    BY DEF IrqPlaced, Attended, BusPlaced, BusUp, BusDown, NetProbe, NetRemove
<1>5. InterruptsServed'  BY DEF InterruptsServed
<1> QED BY <1>1, <1>2, <1>3, <1>4, <1>5

LEMMA WrcInv ==
  ASSUME LifeInv, Wrc, fault = <<>>
  PROVE  LifeInv'
<1> USE DEF LifeInv, LifeTypeOK, Wrc, At, Goto, Done, Quiet, params,
      module, netVars, others
<1>1. FlagTypeOK'  BY DEF FlagTypeOK
<1>2. StateTypeOK'  BY DEF StateTypeOK
<1>3. BusPlaced' /\ NetPlaced'
  BY DEF BusPlaced, BusUp, BusDown, NetProbe, NetRemove, NetPlaced, BusProbe,
         NetNew, NetDown, NetUp
<1>4. ThreadPlaced'
  <2>1. UNCHANGED <<mod, plat, mayUnload>> /\ pc = "wrc"
    OBVIOUS
  <2>2. CASE Goto("gpio") /\ UNCHANGED <<bound, lm32>>
    BY <2>1, <2>2 DEF ThreadPlaced, BusProbe, NetProbe, NetRemove, BusRemove
  <2>3. CASE Done(TRUE) /\ UNCHANGED lm32
    BY <2>1, <2>3 DEF ThreadPlaced, BusProbe, NetProbe, NetRemove, BusRemove
  <2>4. CASE Goto("lm32") /\ lm32' = "held" /\ UNCHANGED bound
    BY <2>1, <2>4 DEF ThreadPlaced, BusProbe, NetProbe, NetRemove, BusRemove
  <2> QED BY <2>2, <2>3, <2>4
<1>5. IrqPlaced'
    BY DEF IrqPlaced, Attended, ThreadPlaced, BusProbe, BusRemove
<1>6. InterruptsServed'  BY DEF InterruptsServed
<1> QED BY <1>1, <1>2, <1>3, <1>4, <1>5, <1>6

LEMMA LoadWrcInv ==
  ASSUME LifeInv, LoadWrc, fault = <<>>
  PROVE  LifeInv'
<1> USE DEF LifeInv, LifeTypeOK, LoadWrc, At, Goto, Done, Quiet, params,
      module, netVars, others
<1>1. FlagTypeOK' /\ StateTypeOK'  BY DEF FlagTypeOK, StateTypeOK
<1>2. BusPlaced' /\ NetPlaced'
  BY DEF BusPlaced, BusUp, BusDown, NetProbe, NetRemove, NetPlaced, BusProbe,
         NetNew, NetDown, NetUp
<1>3. ThreadPlaced'
  <2>1. UNCHANGED <<mod, plat, mayUnload>> /\ pc = "lm32"
    OBVIOUS
  <2>2. CASE Goto("gpio") /\ UNCHANGED bound
    BY <2>1, <2>2 DEF ThreadPlaced, BusProbe, NetProbe, NetRemove, BusRemove
  <2>3. CASE \E b \in BOOLEAN : Done(b)
    BY <2>1, <2>3 DEF ThreadPlaced, BusProbe, NetProbe, NetRemove, BusRemove
  <2> QED BY <2>2, <2>3
<1>4. IrqPlaced'
    BY DEF IrqPlaced, Attended, ThreadPlaced, BusProbe, BusRemove
<1>5. InterruptsServed'  BY DEF InterruptsServed
<1> QED BY <1>1, <1>2, <1>3, <1>4, <1>5

LEMMA GpioInitInv ==
  ASSUME LifeInv, GpioInit, fault = <<>>
  PROVE  LifeInv'
<1> SUFFICES ASSUME ~Faulting("bus") PROVE LifeInv'
  BY FaultInv
<1> USE DEF LifeInv, LifeTypeOK, GpioInit, At, Goto, Done, Quiet, params,
      module, board, fmcVars, netVars, thread, others
<1>1. FlagTypeOK'  BY DEF FlagTypeOK
<1>2. StateTypeOK'  BY DEF StateTypeOK
<1>3. BusPlaced' /\ NetPlaced'
  BY DEF BusPlaced, BusUp, BusDown, NetProbe, NetRemove, NetPlaced, BusProbe,
         NetNew, NetDown, NetUp
<1>4. ThreadPlaced'
  <2>1. UNCHANGED <<mod, plat, mayUnload, lm32>> /\ pc = "gpio"
    BY DEF board
  <2>2. CASE Goto("irq") /\ UNCHANGED bound
    BY <2>1, <2>2 DEF ThreadPlaced, BusProbe, NetProbe, NetRemove, BusRemove
  <2>3. CASE Done(FALSE)
    BY <2>1, <2>3 DEF ThreadPlaced, BusProbe, NetProbe, NetRemove, BusRemove
  <2> QED BY <2>2, <2>3
<1>5. IrqPlaced' /\ InterruptsServed'
  BY DEF IrqPlaced, Attended, InterruptsServed
<1> QED BY <1>1, <1>2, <1>3, <1>4, <1>5

LEMMA IrqRequestInv ==
  ASSUME LifeInv, IrqRequest, fault = <<>>
  PROVE  LifeInv'
<1> USE DEF LifeInv, LifeTypeOK, IrqRequest, At, Goto, Quiet, params,
      module, board, netVars, others
<1>1. FlagTypeOK'  BY DEF FlagTypeOK
<1>2. StateTypeOK'  BY DEF StateTypeOK
<1>3. ThreadPlaced' /\ BusPlaced' /\ NetPlaced'
  BY DEF ThreadPlaced, BusProbe, NetProbe, NetRemove, BusRemove, BusPlaced,
         BusUp, BusDown, NetPlaced, NetNew, NetDown, NetUp
<1>4. IrqPlaced' /\ InterruptsServed'
  BY DEF IrqPlaced, Attended, InterruptsServed
<1> QED BY <1>1, <1>2, <1>3, <1>4

LEMMA AllocInv ==
  ASSUME LifeInv, Alloc, fault = <<>>
  PROVE  LifeInv'
<1> USE DEF LifeInv, LifeTypeOK, Alloc, At, Goto, Quiet, params, module,
      board, netVars, others
<1>1. FlagTypeOK'  BY DEF FlagTypeOK
<1>2. StateTypeOK'  BY DEF StateTypeOK
<1>3. ThreadPlaced' /\ NetPlaced'
  BY DEF ThreadPlaced, BusProbe, NetProbe, NetRemove, BusRemove, NetPlaced,
         NetNew, NetDown, NetUp
<1>4. BusPlaced'
  <2>1. CASE Goto("publish")
    BY <2>1 DEF BusPlaced, BusUp, BusDown, NetProbe, NetRemove
  <2>2. CASE Goto("gpioExit")
    BY <2>2 DEF BusPlaced, BusUp, BusDown, NetProbe, NetRemove
  <2> QED BY <2>1, <2>2
<1>5. IrqPlaced'
  <2>1. pc = "alloc" /\ hpc' = hpc /\ raised' = raised /\ tlet' = tlet /\ ~vic
    BY DEF BusPlaced
  <2>2. CASE Goto("publish")
    BY <2>1, <2>2 DEF IrqPlaced, Attended, BusPlaced,
       ThreadPlaced, BusProbe, NetPlaced, NetNew
  <2>3. CASE Goto("gpioExit")
    BY <2>1, <2>3 DEF IrqPlaced, Attended, BusPlaced,
       ThreadPlaced, BusProbe, NetPlaced, NetNew
  <2> QED BY <2>2, <2>3
<1>6. InterruptsServed'  BY DEF InterruptsServed
<1> QED BY <1>1, <1>2, <1>3, <1>4, <1>5, <1>6

LEMMA PublishInv ==
  ASSUME LifeInv, Publish, fault = <<>>
  PROVE  LifeInv'
<1> USE DEF LifeInv, LifeTypeOK, Publish, At, Goto, Quiet, params, module,
      board, netVars, others
<1>1. FlagTypeOK' /\ StateTypeOK'  BY DEF FlagTypeOK, StateTypeOK
<1>2. ThreadPlaced' /\ BusPlaced' /\ NetPlaced'
  BY DEF ThreadPlaced, BusProbe, NetProbe, NetRemove, BusRemove, BusPlaced,
         BusUp, BusDown, NetPlaced, NetNew, NetDown, NetUp
<1>3. IrqPlaced' /\ InterruptsServed'
  BY DEF IrqPlaced, Attended, InterruptsServed
<1> QED BY <1>1, <1>2, <1>3

LEMMA RegisterInv ==
  ASSUME LifeInv, Register, fault = <<>>
  PROVE  LifeInv'
<1> USE DEF LifeInv, LifeTypeOK, Register, At, Goto, Start, Quiet, params,
      module, board, fmcVars, netVars, others
<1>1. FlagTypeOK' /\ StateTypeOK'  BY DEF FlagTypeOK, StateTypeOK
<1>2. ThreadPlaced' /\ BusPlaced' /\ NetPlaced'
  BY DEF ThreadPlaced, BusProbe, NetProbe, NetRemove, BusRemove, BusPlaced,
         BusUp, BusDown, NetPlaced, NetNew, NetDown, NetUp
<1>3. IrqPlaced' /\ InterruptsServed'
  BY DEF IrqPlaced, Attended, InterruptsServed
<1> QED BY <1>1, <1>2, <1>3

LEMMA VicInitInv ==
  ASSUME LifeInv, VicInit, fault = <<>>
  PROVE  LifeInv'
<1> SUFFICES ASSUME ~Faulting("bus") PROVE LifeInv'
  BY FaultInv
<1> USE DEF LifeInv, LifeTypeOK, VicInit, At, Done, Quiet, params, module,
      board, fmcVars, netVars, thread, others
<1>1. FlagTypeOK'  BY DEF FlagTypeOK
<1>2. StateTypeOK'  BY DEF StateTypeOK
<1>3. ThreadPlaced' /\ BusPlaced'
  BY DEF ThreadPlaced, BusProbe, NetProbe, NetRemove, BusRemove, BusPlaced,
         BusUp, BusDown
<1>4. NetPlaced'
    BY DEF NetPlaced, BusProbe, NetNew, NetDown, NetUp, BusPlaced, BusUp, BusDown,
         NetProbe, NetRemove
<1>5. IrqPlaced'
    BY DEF IrqPlaced, Attended, ThreadPlaced, BusProbe, BusRemove
<1>6. InterruptsServed'  BY DEF InterruptsServed
<1> QED BY <1>1, <1>2, <1>3, <1>4, <1>5, <1>6

LEMMA MapResourcesInv ==
  ASSUME LifeInv, MapResources, fault = <<>>
  PROVE  LifeInv'
<1> USE DEF LifeInv, LifeTypeOK, MapResources, At, Goto, Quiet, params,
      module, board, fmcVars, others
<1>1. FlagTypeOK' /\ StateTypeOK'  BY DEF FlagTypeOK, StateTypeOK
<1>2. ThreadPlaced' /\ BusPlaced'
  BY DEF ThreadPlaced, BusProbe, NetProbe, NetRemove, BusRemove, BusPlaced,
         BusUp, BusDown
<1>3. NetPlaced'
    BY DEF NetPlaced, BusProbe, NetNew, NetDown, NetUp, ThreadPlaced, NetProbe,
         NetRemove, BusRemove
<1>4. IrqPlaced' /\ InterruptsServed'
  BY DEF IrqPlaced, Attended, InterruptsServed
<1> QED BY <1>1, <1>2, <1>3, <1>4

LEMMA ResetInv ==
  ASSUME LifeInv, Reset, fault = <<>>
  PROVE  LifeInv'
<1> SUFFICES ASSUME ~Faulting("bus") PROVE LifeInv'
  BY FaultInv
<1> USE DEF LifeInv, LifeTypeOK, Reset, At, Goto, Quiet, params, module,
      board, fmcVars, netVars, thread, others
<1>1. FlagTypeOK'  BY DEF FlagTypeOK
<1>2. StateTypeOK'  BY DEF StateTypeOK
<1>3. ThreadPlaced' /\ BusPlaced' /\ NetPlaced'
  BY DEF ThreadPlaced, BusProbe, NetProbe, NetRemove, BusRemove, BusPlaced,
         BusUp, BusDown, NetPlaced, NetNew, NetDown, NetUp
<1>4. IrqPlaced' /\ InterruptsServed'
  BY DEF IrqPlaced, Attended, InterruptsServed
<1> QED BY <1>1, <1>2, <1>3, <1>4

LEMMA EndpointProbeInv ==
  ASSUME LifeInv, EndpointProbe, fault = <<>>
  PROVE  LifeInv'
<1> USE DEF LifeInv, LifeTypeOK, EndpointProbe, At, Goto, Leave, Quiet,
      params, module, board, fmcVars, others
<1>1. FlagTypeOK'  BY DEF FlagTypeOK
<1>2. StateTypeOK'  BY DEF StateTypeOK
<1>3. ThreadPlaced'
    BY DEF ThreadPlaced, BusProbe, NetProbe, NetRemove, BusRemove
<1>4. BusPlaced'
    BY DEF BusPlaced, BusUp, BusDown, NetProbe, NetRemove, ThreadPlaced, BusProbe,
         BusRemove
<1>5. NetPlaced'
  BY DEF StateTypeOK, ThreadPlaced, BusProbe, NetProbe, NetRemove,
         BusRemove, BusPlaced, BusUp, BusDown, NetPlaced, NetNew, NetDown, NetUp
<1>6. IrqPlaced'
    BY DEF IrqPlaced, Attended, BusPlaced, BusUp, BusDown, NetProbe, NetRemove,
         ThreadPlaced, BusProbe, BusRemove
<1>7. InterruptsServed'  BY DEF InterruptsServed
<1> QED BY <1>1, <1>2, <1>3, <1>4, <1>5, <1>6, <1>7

LEMMA MezzanineAllocInv ==
  ASSUME LifeInv, MezzanineAlloc, fault = <<>>
  PROVE  LifeInv'
<1> USE DEF LifeInv, LifeTypeOK, MezzanineAlloc, At, Goto, Quiet, params,
      module, board, fmcVars, others
<1>1. FlagTypeOK' /\ StateTypeOK'  BY DEF FlagTypeOK, StateTypeOK
<1>2. ThreadPlaced' /\ BusPlaced' /\ NetPlaced'
  BY DEF ThreadPlaced, BusProbe, NetProbe, NetRemove, BusRemove, BusPlaced,
         BusUp, BusDown, NetPlaced, NetNew, NetDown, NetUp
<1>3. IrqPlaced' /\ InterruptsServed'
  BY DEF IrqPlaced, Attended, InterruptsServed
<1> QED BY <1>1, <1>2, <1>3

LEMMA MezzanineEnableInv ==
  ASSUME LifeInv, MezzanineEnable, fault = <<>>
  PROVE  LifeInv'
<1> SUFFICES ASSUME ~Faulting("bus") PROVE LifeInv'
  BY FaultInv
<1> USE DEF LifeInv, LifeTypeOK, MezzanineEnable, At, Goto, Quiet, params,
      module, board, fmcVars, netVars, thread, others
<1>1. FlagTypeOK'  BY DEF FlagTypeOK
<1>2. StateTypeOK'
  <2>1. ier' = ier \cup {"dio"} /\ Goto("rings")
    OBVIOUS
  <2> QED BY <2>1 DEF StateTypeOK, Sources
<1>3. ThreadPlaced' /\ BusPlaced' /\ NetPlaced'
  BY DEF ThreadPlaced, BusProbe, NetProbe, NetRemove, BusRemove, BusPlaced,
         BusUp, BusDown, NetPlaced, NetNew, NetDown, NetUp
<1>4. IrqPlaced' /\ InterruptsServed'
  BY DEF IrqPlaced, Attended, InterruptsServed
<1> QED BY <1>1, <1>2, <1>3, <1>4

LEMMA RingsInv ==
  ASSUME LifeInv, Rings, fault = <<>>
  PROVE  LifeInv'
<1> USE DEF LifeInv, LifeTypeOK, Rings, At, Goto, Quiet, params, module,
      board, fmcVars, others
<1>1. FlagTypeOK'  BY DEF FlagTypeOK
<1>2. StateTypeOK'  BY NTxAssumption DEF StateTypeOK, Sources
<1>3. ThreadPlaced' /\ BusPlaced' /\ NetPlaced'
  BY DEF ThreadPlaced, BusProbe, NetProbe, NetRemove, BusRemove, BusPlaced,
         BusUp, BusDown, NetPlaced, NetNew, NetDown, NetUp
<1>4. IrqPlaced' /\ InterruptsServed'
  BY DEF IrqPlaced, Attended, InterruptsServed
<1> QED BY <1>1, <1>2, <1>3, <1>4

LEMMA EnableInv ==
  ASSUME LifeInv, Enable, fault = <<>>
  PROVE  LifeInv'
<1> USE DEF LifeInv, LifeTypeOK, Enable, At, Leave, Quiet, params, module,
      fmcVars, others
<1>1. FlagTypeOK'  BY DEF FlagTypeOK
<1>2. StateTypeOK'  BY NTxAssumption DEF StateTypeOK, Sources
<1>3. ThreadPlaced'
    BY DEF ThreadPlaced, BusProbe, NetProbe, NetRemove, BusRemove
<1>4. BusPlaced'
    BY DEF BusPlaced, BusUp, BusDown, NetProbe, NetRemove, ThreadPlaced, BusProbe,
         BusRemove
<1>5. NetPlaced'
  BY DEF StateTypeOK, ThreadPlaced, BusProbe, NetProbe, NetRemove,
         BusRemove, BusPlaced, BusUp, BusDown, NetPlaced, NetNew, NetDown, NetUp
<1>6. IrqPlaced'
    BY DEF IrqPlaced, Attended, BusPlaced, BusUp, BusDown, NetProbe, NetRemove,
         ThreadPlaced, BusProbe, BusRemove
<1>7. InterruptsServed'  BY DEF InterruptsServed
<1> QED BY <1>1, <1>2, <1>3, <1>4, <1>5, <1>6, <1>7

LEMMA StopNicInv ==
  ASSUME LifeInv, StopNic, fault = <<>>
  PROVE  LifeInv'
<1> SUFFICES ASSUME ~Faulting("bus") PROVE LifeInv'
  BY FaultInv
<1> USE DEF LifeInv, LifeTypeOK, StopNic, At, Goto, Quiet, params, module,
      board, fmcVars, netVars, thread, others
<1>1. FlagTypeOK' /\ StateTypeOK'  BY DEF FlagTypeOK, StateTypeOK
<1>2. ThreadPlaced'
  BY DEF StateTypeOK, ThreadPlaced, BusProbe, NetProbe, NetRemove,
         BusRemove, NetPlaced, NetNew, NetDown, NetUp, BusPlaced, BusUp, BusDown
<1>3. BusPlaced'
    BY DEF BusPlaced, BusUp, BusDown, NetProbe, NetRemove
<1>4. NetPlaced'
  BY DEF StateTypeOK, ThreadPlaced, BusProbe, NetProbe, NetRemove,
         BusRemove, BusPlaced, BusUp, BusDown, NetPlaced, NetNew, NetDown, NetUp
<1>5. IrqPlaced' /\ InterruptsServed'
  BY DEF IrqPlaced, Attended, InterruptsServed
<1> QED BY <1>1, <1>2, <1>3, <1>4, <1>5

LEMMA MezzanineExitInv ==
  ASSUME LifeInv, MezzanineExit, fault = <<>>
  PROVE  LifeInv'
<1> USE DEF LifeInv, LifeTypeOK, MezzanineExit, At, Goto, Quiet, params,
      module, fmcVars, others
<1>1. FlagTypeOK' /\ StateTypeOK'  BY DEF FlagTypeOK, StateTypeOK
<1>2. ThreadPlaced' /\ BusPlaced' /\ NetPlaced'
  BY DEF ThreadPlaced, BusProbe, NetProbe, NetRemove, BusRemove, BusPlaced,
         BusUp, BusDown, NetPlaced, NetNew, NetDown, NetUp
<1>3. IrqPlaced'
    BY DEF IrqPlaced, Attended, ThreadPlaced, BusProbe, BusRemove
<1>4. InterruptsServed'  BY DEF InterruptsServed
<1> QED BY <1>1, <1>2, <1>3, <1>4

LEMMA NetExitInv ==
  ASSUME LifeInv, NetExit, fault = <<>>
  PROVE  LifeInv'
<1> USE DEF LifeInv, LifeTypeOK, NetExit, At, Goto, Quiet, params, module,
      board, fmcVars, others
<1>1. FlagTypeOK'  BY DEF FlagTypeOK
<1>2. StateTypeOK'  BY DEF StateTypeOK
<1>3. ThreadPlaced' /\ BusPlaced'
  BY DEF ThreadPlaced, BusProbe, NetProbe, NetRemove, BusRemove, BusPlaced,
         BusUp, BusDown
<1>4. NetPlaced'
    BY DEF NetPlaced, BusProbe, NetNew, NetDown, NetUp, ThreadPlaced, NetProbe,
         NetRemove, BusRemove
<1>5. IrqPlaced'
    BY DEF IrqPlaced, Attended, ThreadPlaced, BusProbe, BusRemove
<1>6. InterruptsServed'  BY DEF InterruptsServed
<1> QED BY <1>1, <1>2, <1>3, <1>4, <1>5, <1>6

LEMMA UnmapInv ==
  ASSUME LifeInv, Unmap, fault = <<>>
  PROVE  LifeInv'
<1> USE DEF LifeInv, LifeTypeOK, Unmap, At, Leave, Quiet, params, module,
      board, fmcVars, others
<1>1. FlagTypeOK'  BY DEF FlagTypeOK
<1>2. StateTypeOK'  BY DEF StateTypeOK
<1>3. ThreadPlaced'
  BY DEF StateTypeOK, ThreadPlaced, BusProbe, NetProbe, NetRemove,
         BusRemove, NetPlaced, NetNew, NetDown, NetUp, BusPlaced, BusUp, BusDown
<1>4. BusPlaced'
  BY DEF StateTypeOK, ThreadPlaced, BusProbe, NetProbe, NetRemove,
         BusRemove, BusPlaced, BusUp, BusDown, NetPlaced, NetNew, NetDown, NetUp
<1>5. NetPlaced'
  <2>1. pc = "unmap" /\ back \in {"idle", "vic", "free"} /\ pc' = back /\ pdev
    BY DEF StateTypeOK, BusPlaced, BusUp, NetRemove
  <2>2. ~ppBound' /\ ~net' /\ dio' # "live" /\ mod' # "half"
    BY <2>1 DEF NetPlaced, ThreadPlaced, NetRemove
  <2>3. CASE job = "probe"
    <3>1. ier' = {} /\ dio' = "none"
      BY <2>1, <2>3 DEF NetPlaced
    <3> QED BY <2>1, <2>2, <3>1 DEF NetPlaced, BusProbe, NetDown
  <2>4. CASE job # "probe"
    <3>1. back \in {"idle", "free"} /\ (back = "idle" => mayUnload /\ mod = "leaving")
      BY <2>1, <2>4 DEF ThreadPlaced, NetRemove, StateTypeOK
    <3> QED BY <2>1, <2>2, <3>1 DEF NetPlaced, BusProbe, NetDown
  <2> QED BY <2>3, <2>4
<1>6. IrqPlaced'
  BY DEF StateTypeOK, ThreadPlaced, BusProbe, NetProbe, NetRemove,
         BusRemove, BusPlaced, BusUp, BusDown, NetPlaced, NetNew, NetDown,
         NetUp, IrqPlaced, Attended
<1>7. InterruptsServed'  BY DEF InterruptsServed
<1> QED BY <1>1, <1>2, <1>3, <1>4, <1>5, <1>6, <1>7

LEMMA RemoveInv ==
  ASSUME LifeInv, Remove, fault = <<>>
  PROVE  LifeInv'
<1> USE DEF LifeInv, LifeTypeOK, Remove, At, Start, Quiet, params, module,
      board, fmcVars, netVars, others
<1>1. FlagTypeOK' /\ StateTypeOK'  BY DEF FlagTypeOK, StateTypeOK
<1>2. ThreadPlaced' /\ BusPlaced' /\ NetPlaced'
  BY DEF ThreadPlaced, BusProbe, NetProbe, NetRemove, BusRemove, BusPlaced,
         BusUp, BusDown, NetPlaced, NetNew, NetDown, NetUp
<1>3. IrqPlaced' /\ InterruptsServed'
  BY DEF IrqPlaced, Attended, InterruptsServed
<1> QED BY <1>1, <1>2, <1>3

LEMMA VicExitInv ==
  ASSUME LifeInv, VicExit, fault = <<>>
  PROVE  LifeInv'
<1> SUFFICES ASSUME ~Faulting("bus") PROVE LifeInv'
  BY FaultInv
<1> USE DEF LifeInv, LifeTypeOK, VicExit, At, Goto, Quiet, params, module,
      board, fmcVars, netVars, thread, others
<1>1. FlagTypeOK'  BY DEF FlagTypeOK
<1>2. StateTypeOK'  BY DEF StateTypeOK
<1>3. ThreadPlaced' /\ BusPlaced' /\ NetPlaced'
  BY DEF ThreadPlaced, BusProbe, NetProbe, NetRemove, BusRemove, BusPlaced,
         BusUp, BusDown, NetPlaced, NetNew, NetDown, NetUp
<1>4. IrqPlaced'
    BY DEF IrqPlaced, Attended, ThreadPlaced, BusProbe, BusRemove
<1>5. InterruptsServed'  BY DEF InterruptsServed
<1> QED BY <1>1, <1>2, <1>3, <1>4, <1>5

LEMMA UnregisterInv ==
  ASSUME LifeInv, Unregister, fault = <<>>
  PROVE  LifeInv'
<1> USE DEF LifeInv, LifeTypeOK, Unregister, At, Goto, Start, Quiet,
      params, module, board, fmcVars, netVars, others
<1>1. FlagTypeOK' /\ StateTypeOK'  BY DEF FlagTypeOK, StateTypeOK
<1>2. ThreadPlaced'
    BY DEF ThreadPlaced, BusProbe, NetProbe, NetRemove, BusRemove, NetPlaced,
         NetNew
<1>3. BusPlaced'
    BY DEF BusPlaced, BusUp, BusDown, NetProbe, NetRemove
<1>4. NetPlaced'
    BY DEF NetPlaced, BusProbe, NetNew, NetDown, NetUp, ThreadPlaced, NetProbe,
         NetRemove, BusRemove
<1>5. IrqPlaced' /\ InterruptsServed'
  BY DEF IrqPlaced, Attended, InterruptsServed
<1> QED BY <1>1, <1>2, <1>3, <1>4, <1>5

LEMMA FreeInv ==
  ASSUME LifeInv, Free, fault = <<>>
  PROVE  LifeInv'
<1> USE DEF LifeInv, LifeTypeOK, Free, At, Goto, Quiet, params, module,
      board, others
<1>1. FlagTypeOK'  BY DEF FlagTypeOK
<1>2. StateTypeOK'  BY NTxAssumption DEF StateTypeOK, Sources
<1>3. ThreadPlaced' /\ BusPlaced' /\ NetPlaced'
  BY DEF ThreadPlaced, BusProbe, NetProbe, NetRemove, BusRemove, BusPlaced,
         BusUp, BusDown, NetPlaced, NetNew, NetDown, NetUp
<1>4. IrqPlaced'
    BY DEF IrqPlaced, Attended, ThreadPlaced, BusProbe, BusRemove
<1>5. InterruptsServed'  BY DEF InterruptsServed
<1> QED BY <1>1, <1>2, <1>3, <1>4, <1>5

LEMMA ClearInv ==
  ASSUME LifeInv, Clear, fault = <<>>
  PROVE  LifeInv'
<1> USE DEF LifeInv, LifeTypeOK, Clear, At, Goto, Quiet, params, module,
      board, netVars, others
<1>1. FlagTypeOK'  BY DEF FlagTypeOK
<1>2. StateTypeOK'  BY DEF StateTypeOK
<1>3. ThreadPlaced' /\ BusPlaced' /\ NetPlaced'
  BY DEF ThreadPlaced, BusProbe, NetProbe, NetRemove, BusRemove, BusPlaced,
         BusUp, BusDown, NetPlaced, NetNew, NetDown, NetUp
<1>4. IrqPlaced'
    BY DEF IrqPlaced, Attended, ThreadPlaced, BusProbe, BusRemove
<1>5. InterruptsServed'  BY DEF InterruptsServed
<1> QED BY <1>1, <1>2, <1>3, <1>4, <1>5

LEMMA IrqFreeInv ==
  ASSUME LifeInv, IrqFree, fault = <<>>
  PROVE  LifeInv'
<1> USE DEF LifeInv, LifeTypeOK, IrqFree, At, Goto, Quiet, params, module,
      board, netVars, others
<1>1. FlagTypeOK'  BY DEF FlagTypeOK
<1>2. StateTypeOK'  BY DEF StateTypeOK
<1>3. ThreadPlaced' /\ BusPlaced' /\ NetPlaced'
  BY DEF ThreadPlaced, BusProbe, NetProbe, NetRemove, BusRemove, BusPlaced,
         BusUp, BusDown, NetPlaced, NetNew, NetDown, NetUp
<1>4. IrqPlaced' /\ InterruptsServed'
  BY DEF IrqPlaced, Attended, InterruptsServed
<1> QED BY <1>1, <1>2, <1>3, <1>4

LEMMA GpioExitInv ==
  ASSUME LifeInv, GpioExit, fault = <<>>
  PROVE  LifeInv'
<1> SUFFICES ASSUME ~Faulting("bus") PROVE LifeInv'
  BY FaultInv
<1> USE DEF LifeInv, LifeTypeOK, GpioExit, At, Done, Quiet, params,
      module, board, fmcVars, netVars, thread, others
<1>1. FlagTypeOK'  BY DEF FlagTypeOK
<1>2. StateTypeOK'  BY DEF StateTypeOK
<1>3. ThreadPlaced' /\ BusPlaced' /\ NetPlaced'
  BY DEF ThreadPlaced, BusProbe, NetProbe, NetRemove, BusRemove, BusPlaced,
         BusUp, BusDown, NetPlaced, NetNew, NetDown, NetUp
<1>4. IrqPlaced' /\ InterruptsServed'
  BY DEF IrqPlaced, Attended, InterruptsServed
<1> QED BY <1>1, <1>2, <1>3, <1>4

LEMMA HwRaiseInv ==
  ASSUME NEW s \in Sources, LifeInv, HwRaise(s), fault = <<>>
  PROVE  LifeInv'
<1> USE DEF LifeInv, LifeTypeOK, HwRaise, params, module, board, fmcVars,
      netVars, thread
<1>1. FlagTypeOK' /\ StateTypeOK'  BY DEF FlagTypeOK, StateTypeOK
<1>2. ThreadPlaced' /\ BusPlaced' /\ NetPlaced'
  BY DEF ThreadPlaced, BusProbe, NetProbe, NetRemove, BusRemove, BusPlaced,
         BusUp, BusDown, NetPlaced, NetNew, NetDown, NetUp
<1>3. IrqPlaced' /\ InterruptsServed'
  BY DEF IrqPlaced, Attended, InterruptsServed
<1> QED BY <1>1, <1>2, <1>3

LEMMA HandlerEnterInv ==
  ASSUME LifeInv, HandlerEnter, fault = <<>>
  PROVE  LifeInv'
<1> USE DEF LifeInv, LifeTypeOK, HandlerEnter, params, module, board,
      fmcVars, netVars, thread
<1>1. FlagTypeOK' /\ StateTypeOK'  BY DEF FlagTypeOK, StateTypeOK
<1>2. ThreadPlaced' /\ BusPlaced' /\ NetPlaced'
  BY DEF ThreadPlaced, BusProbe, NetProbe, NetRemove, BusRemove, BusPlaced,
         BusUp, BusDown, NetPlaced, NetNew, NetDown, NetUp
<1>3. IrqPlaced'
  BY DEF StateTypeOK, ThreadPlaced, BusProbe, NetProbe, NetRemove,
         BusRemove, BusPlaced, BusUp, BusDown, NetPlaced, NetNew, NetDown,
         NetUp, IrqPlaced, Attended
<1>4. InterruptsServed'  BY DEF InterruptsServed
<1> QED BY <1>1, <1>2, <1>3, <1>4

LEMMA HandlerReadInv ==
  ASSUME LifeInv, HandlerRead, fault = <<>>
  PROVE  LifeInv'
<1> SUFFICES ASSUME ~Faulting("handler") PROVE LifeInv'
  BY ReadFault
<1> USE DEF LifeInv, LifeTypeOK, HandlerRead, params, module, board,
      fmcVars, netVars, thread, others
<1>1. FlagTypeOK' /\ StateTypeOK'  BY DEF FlagTypeOK, StateTypeOK
<1>2. ThreadPlaced' /\ BusPlaced' /\ NetPlaced'
  BY DEF ThreadPlaced, BusProbe, NetProbe, NetRemove, BusRemove, BusPlaced,
         BusUp, BusDown, NetPlaced, NetNew, NetDown, NetUp
<1>3. IrqPlaced' /\ InterruptsServed'
  BY DEF IrqPlaced, Attended, InterruptsServed
<1> QED BY <1>1, <1>2, <1>3

LEMMA HandlerServeInv ==
  ASSUME LifeInv, HandlerServe, fault = <<>>
  PROVE  LifeInv'
<1> SUFFICES ASSUME ~Faulting("handler") PROVE LifeInv'
  BY ServeFault
<1> USE DEF LifeInv, LifeTypeOK, HandlerServe, Served, params, module,
      board, fmcVars, netVars, thread, others
<1>1. FlagTypeOK'  BY DEF FlagTypeOK
<1>2. StateTypeOK'  BY DEF StateTypeOK
<1>3. ThreadPlaced' /\ BusPlaced' /\ NetPlaced'
  BY DEF ThreadPlaced, BusProbe, NetProbe, NetRemove, BusRemove, BusPlaced,
         BusUp, BusDown, NetPlaced, NetNew, NetDown, NetUp
<1>4. IrqPlaced'
  BY DEF StateTypeOK, ThreadPlaced, BusProbe, NetProbe, NetRemove,
         BusRemove, BusPlaced, BusUp, BusDown, NetPlaced, NetNew, NetDown,
         NetUp, IrqPlaced, Attended
<1>5. InterruptsServed'  BY DEF InterruptsServed
<1> QED BY <1>1, <1>2, <1>3, <1>4, <1>5

LEMMA TaskletInv ==
  ASSUME LifeInv, Tasklet, fault = <<>>
  PROVE  LifeInv'
<1> SUFFICES ASSUME ~Faulting("tasklet") PROVE LifeInv'
  BY TaskletFault
<1> USE DEF LifeInv, LifeTypeOK, Tasklet, params, module, board, fmcVars,
      netVars, thread, others
<1>1. FlagTypeOK'  BY DEF FlagTypeOK
<1>2. StateTypeOK'  BY DEF StateTypeOK
<1>3. ThreadPlaced' /\ BusPlaced' /\ NetPlaced'
  BY DEF ThreadPlaced, BusProbe, NetProbe, NetRemove, BusRemove, BusPlaced,
         BusUp, BusDown, NetPlaced, NetNew, NetDown, NetUp
<1>4. IrqPlaced' /\ InterruptsServed'
  BY DEF IrqPlaced, Attended, InterruptsServed
<1> QED BY <1>1, <1>2, <1>3, <1>4

LEMMA XmitInv ==
  ASSUME LifeInv, Xmit, fault = <<>>
  PROVE  LifeInv'
<1> USE DEF LifeInv, LifeTypeOK, Xmit, Quiet, params, module, board,
      fmcVars, thread, others
<1>1. FlagTypeOK'  BY DEF FlagTypeOK
<1>2. StateTypeOK'  BY NTxAssumption DEF StateTypeOK
<1>3. ThreadPlaced' /\ BusPlaced' /\ NetPlaced'
  BY DEF ThreadPlaced, BusProbe, NetProbe, NetRemove, BusRemove, BusPlaced,
         BusUp, BusDown, NetPlaced, NetNew, NetDown, NetUp
<1>4. IrqPlaced' /\ InterruptsServed'
  BY DEF IrqPlaced, Attended, InterruptsServed
<1> QED BY <1>1, <1>2, <1>3, <1>4

LEMMA IoctlEnterInv ==
  ASSUME LifeInv, IoctlEnter, fault = <<>>
  PROVE  LifeInv'
<1> USE DEF LifeInv, LifeTypeOK, IoctlEnter, Quiet, params, module, board,
      fmcVars, netVars, thread
<1>1. FlagTypeOK' /\ StateTypeOK'  BY DEF FlagTypeOK, StateTypeOK
<1>2. ThreadPlaced' /\ BusPlaced' /\ NetPlaced'
  BY DEF ThreadPlaced, BusProbe, NetProbe, NetRemove, BusRemove, BusPlaced,
         BusUp, BusDown, NetPlaced, NetNew, NetDown, NetUp
<1>3. IrqPlaced' /\ InterruptsServed'
  BY DEF IrqPlaced, Attended, InterruptsServed
<1> QED BY <1>1, <1>2, <1>3

LEMMA IoctlUseInv ==
  ASSUME LifeInv, IoctlUse, fault = <<>>
  PROVE  LifeInv'
<1> SUFFICES ASSUME ~Faulting("ioctl") PROVE LifeInv'
  BY FaultInv
<1> USE DEF LifeInv, LifeTypeOK, IoctlUse, Quiet, params, module, board,
      fmcVars, netVars, thread, others
<1>1. FlagTypeOK' /\ StateTypeOK'  BY DEF FlagTypeOK, StateTypeOK
<1>2. ThreadPlaced' /\ BusPlaced' /\ NetPlaced'
  BY DEF ThreadPlaced, BusProbe, NetProbe, NetRemove, BusRemove, BusPlaced,
         BusUp, BusDown, NetPlaced, NetNew, NetDown, NetUp
<1>3. IrqPlaced' /\ InterruptsServed'
  BY DEF IrqPlaced, Attended, InterruptsServed
<1> QED BY <1>1, <1>2, <1>3

LEMMA LifeInitInv == LifeInit => LifeInv
<1> SUFFICES ASSUME LifeInit PROVE LifeInv
  OBVIOUS
<1> USE DEF LifeInit
<1>1. FlagTypeOK
  BY Zenon DEF FlagTypeOK
<1>2. StateTypeOK
  BY NTxAssumption DEF StateTypeOK
<1>3. ThreadPlaced
  BY DEF ThreadPlaced, BusProbe, NetProbe, NetRemove, BusRemove
<1>4. BusPlaced
  BY DEF BusPlaced, BusDown, BusUp, NetProbe, NetRemove
<1>5. NetPlaced
  BY DEF NetPlaced, NetNew, BusProbe
<1>6. IrqPlaced /\ InterruptsServed
  BY DEF IrqPlaced, InterruptsServed
<1> QED BY <1>1, <1>2, <1>3, <1>4, <1>5, <1>6 DEF LifeInv, LifeTypeOK

LEMMA LifeNextInv == LifeInv /\ [LifeNext]_lifeVars => LifeInv'
<1> SUFFICES ASSUME LifeInv, [LifeNext]_lifeVars PROVE LifeInv'
  OBVIOUS
<1>1. CASE fault = <<>> /\ ModuleStep
  BY <1>1, InsmodFmcInv, InsmodPlatInv, RmmodPlatInv, RmmodFmcInv
     DEF ModuleStep
<1>2. CASE fault = <<>> /\ ProbeStep
  BY <1>2, ProbeInv, WrcInv, LoadWrcInv, GpioInitInv, IrqRequestInv, AllocInv, PublishInv,
     RegisterInv, VicInitInv, MapResourcesInv, ResetInv, EndpointProbeInv,
     MezzanineAllocInv, MezzanineEnableInv, RingsInv, EnableInv
     DEF ProbeStep
<1>3. CASE fault = <<>> /\ RemoveStep
  BY <1>3, StopNicInv, MezzanineExitInv, NetExitInv, UnmapInv, RemoveInv, VicExitInv,
     UnregisterInv, FreeInv, ClearInv, IrqFreeInv, GpioExitInv
     DEF RemoveStep
<1>4. CASE fault = <<>> /\ IrqStep
  BY <1>4, HwRaiseInv, HandlerEnterInv, HandlerReadInv, HandlerServeInv, TaskletInv
     DEF IrqStep
<1>5. CASE fault = <<>> /\ UserStep
  BY <1>5, XmitInv, IoctlEnterInv, IoctlUseInv DEF UserStep
<1>6. CASE UNCHANGED lifeVars
  BY <1>6 DEF lifeVars, params, module, board, fmcVars, netVars, thread, others, LifeInv,
     LifeTypeOK, FlagTypeOK, StateTypeOK, ThreadPlaced, BusPlaced, NetPlaced, IrqPlaced,
     InterruptsServed, BusUp, BusDown, NetNew, NetDown, NetUp, Attended
<1> QED BY <1>1, <1>2, <1>3, <1>4, <1>5, <1>6 DEF LifeNext

LEMMA LifeSafe == LifeSpec => []LifeInv
BY LifeInitInv, LifeNextInv, PTL DEF LifeSpec

-----------------------------------------------------------------------------
\* The flags and places of the driver's life keep their types, for every number
\* of transmit descriptors.
THEOREM LifeTypeCorrect == LifeSpec => []LifeTypeOK
BY LifeSafe, PTL DEF LifeInv

\* The handler and the tasklet find what they need: in every order of loading,
\* probing and failing, and while the card is taken away when nothing runs beside
\* the removal, the line is not shared and the module stays.
THEOREM ServedCorrect == LifeSpec => []InterruptsServed
BY LifeSafe, PTL DEF LifeInv

\* The VIC is enabled only for a device that the handler knows, and an interface
\* that is there between two operations of the bus is wired up.
THEOREM WiredCorrect == LifeSpec => []WiredUp
<1>1. LifeInv => WiredUp
  BY DEF LifeInv, WiredUp, BusPlaced, BusUp, BusDown, NetPlaced, NetNew, NetUp, NetDown,
     LifeTypeOK, StateTypeOK, BusProbe, NetProbe, NetRemove
<1> QED BY <1>1, LifeSafe, PTL

\* A probe that failed and a removal leave nothing behind.
THEOREM NothingLeftCorrect == LifeSpec => []NothingLeft
<1>1. LifeInv => NothingLeft
  BY DEF LifeInv, NothingLeft, BusPlaced, BusDown, NetPlaced, NetNew, ThreadPlaced,
     IrqPlaced
<1> QED BY <1>1, LifeSafe, PTL
=============================================================================
