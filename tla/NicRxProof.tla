----------------------------- MODULE NicRxProof -----------------------------
(***************************************************************************)
(* Proofs about NicRx, for every ring size and every traffic: the ring     *)
(* invariant, the frame in the tasklet's hands, the two wake-up            *)
(* invariants, and that the receive path implements RxFifo.  Then about    *)
(* PpsTime, which completes the stamp of a frame, for every number of      *)
(* cycles in a second and however long the reader is held up; and about    *)
(* IrqDelivery, which brings the interrupts, for every set of sources, any *)
(* number of events, with and without MSI or a shared line.                *)
(***************************************************************************)
EXTENDS NicRx, PpsTime, IrqDelivery, RingLemmas

-----------------------------------------------------------------------------
(* The inductive invariant: the ring is only preserved because the tasklet *)
(* frees a descriptor it really emptied (HandInv), and the type invariant  *)
(* because the ring never claims more frames than were stored.             *)
IInv == TypeOK /\ RingInv /\ HandInv

(* The ring is empty at first, every descriptor the NIC's.                 *)
LEMMA InitInv == Init => IInv
<1> SUFFICES ASSUME Init PROVE IInv
  OBVIOUS
<1>1. Len(delivered) = 0
  BY DEF Init
<1>2. Processed = 0 /\ InHand = 0 /\ Oldest = 0
  BY <1>1 DEF Init, InHand, Oldest, Processed
<1>3. Pending = 0
  BY <1>2 DEF Init, Pending
<1>4. 0 \in Desc /\ (0 + 0) % NDesc = 0
  BY PlusStep, NDescAssumption DEF Desc
<1>5. TypeOK
  BY <1>4, MaxFramesAssumption DEF Init, TypeOK
<1>6. RingInv
  <2>1. \A d \in Desc : Dist(0, d) \in 0..(NDesc - 1)
    BY <1>4, DistFacts
  <2> QED BY <1>2, <1>3, <1>4, <2>1, NDescAssumption DEF Init, RingInv
<1>7. HandInv
  BY DEF Init, HandInv
<1> QED BY <1>5, <1>6, <1>7 DEF IInv

(* What every step may assume of the state it starts from.                 *)
LEMMA RingFacts ==
  ASSUME IInv
  PROVE  /\ Len(delivered) \in Nat /\ rxErrors \in Nat
         /\ Processed \in Nat /\ Processed = Len(delivered) + rxErrors
         /\ InHand = IF tpc = "finish" THEN 1 ELSE 0
         /\ Pending \in 0..NDesc
         /\ Pending = stored - Processed - InHand
         /\ stored \in 0..MaxFrames
         /\ Oldest \in Desc
         /\ NDesc \in Nat \ {0} /\ MaxFrames \in Nat
<1>1. Len(delivered) \in Nat
  BY DEF IInv, TypeOK
<1>2. Oldest \in Desc
  BY NextDescStep DEF IInv, TypeOK, Oldest
<1>3. Pending \in 0..NDesc
  BY DEF IInv, RingInv
<1> QED
  BY <1>1, <1>2, <1>3, NDescAssumption, MaxFramesAssumption
  DEF IInv, TypeOK, Processed, InHand, Pending

(* A step that leaves the ring, the counters and the frame in hand alone   *)
(* preserves the ring invariant.                                           *)
LEMMA RingUnchanged ==
  ASSUME RingInv, UNCHANGED <<stored, hwNext, empty, buf, next_rx, outVars>>,
         tpc = "finish" <=> tpc' = "finish"
  PROVE  RingInv' /\ Pending' = Pending /\ Processed' = Processed
<1>1. Processed' = Processed /\ InHand' = InHand /\ Oldest' = Oldest
  BY DEF Processed, InHand, Oldest, outVars
<1>2. Pending' = Pending
  BY <1>1 DEF Pending
<1> QED BY <1>1, <1>2 DEF RingInv, Dist

(* The NIC stores a frame: Pending grows by one, and the descriptor it     *)
(* fills is the one right behind the pending ones.                         *)
LEMMA HwStoreInv == IInv /\ HwStore => IInv'
<1> SUFFICES ASSUME IInv, HwStore PROVE IInv'
  OBVIOUS
<1>1. Processed' = Processed /\ InHand' = InHand /\ Oldest' = Oldest
  BY DEF HwStore, Processed, InHand, Oldest
<1>2. /\ Processed \in Nat /\ InHand \in Nat /\ stored \in Nat /\ Oldest \in Desc
      /\ Pending \in 0..NDesc /\ NDesc \in Nat \ {0}
  BY RingFacts
<1>3. stored' = stored + 1 /\ stored < MaxFrames
  BY DEF HwStore
<1>4. Pending' = Pending + 1
  BY <1>1, <1>2, <1>3 DEF Pending
<1>5. hwNext \in Desc /\ hwNext = (Oldest + Pending) % NDesc
  BY DEF IInv, TypeOK, RingInv
<1>6. Dist(Oldest, hwNext) >= Pending
  BY <1>5 DEF HwStore, IInv, RingInv
<1>7. Dist(Oldest, hwNext) = IF Pending = NDesc THEN 0 ELSE Pending
  BY <1>2, <1>5, DistPlus
<1>8. Pending < NDesc /\ Dist(Oldest, hwNext) = Pending
  BY <1>2, <1>6, <1>7
<1>9. hwNext' = (Oldest + (Pending + 1)) % NDesc
  BY <1>2, <1>5, <1>8, DistPlus DEF HwStore
<1>10. hwNext' \in Desc
  BY <1>5, NextDescStep DEF HwStore
<1>11. TypeOK'
  <2>1. stored' \in 0..MaxFrames
    BY <1>2, <1>3, MaxFramesAssumption
  <2>2. empty' \in [Desc -> BOOLEAN]
    BY <1>5 DEF HwStore, IInv, TypeOK
  <2>3. buf' \in [Desc -> 0..MaxFrames]
    BY <1>3, <1>5, <2>1 DEF HwStore, IInv, TypeOK
  <2> QED BY <1>10, <2>1, <2>2, <2>3 DEF HwStore, IInv, TypeOK
<1>12. RingInv'
  <2>1. Pending' \in 0..NDesc
    BY <1>2, <1>4, <1>8
  <2>2. hwNext' = (Oldest' + Pending') % NDesc
    BY <1>1, <1>4, <1>9
  <2>3. stored' - Pending' = stored - Pending
    BY <1>2, <1>3, <1>4
  <2>4. ASSUME NEW d \in Desc
        PROVE  /\ empty'[d] <=> Dist(Oldest, d) >= Pending + 1
               /\ ~empty'[d] => buf'[d] = stored - Pending + 1 + Dist(Oldest, d)
    <3>1. CASE d = hwNext
      <4>1. empty'[d] = FALSE /\ buf'[d] = stored + 1
        BY <3>1 DEF HwStore, IInv, TypeOK
      <4> QED BY <3>1, <4>1, <1>2, <1>8
    <3>2. CASE d # hwNext
      <4>1. empty'[d] = empty[d] /\ buf'[d] = buf[d]
        BY <3>2 DEF HwStore, IInv, TypeOK
      <4>2. Dist(Oldest, d) # Dist(Oldest, hwNext) /\ Dist(Oldest, d) \in Nat
        BY <3>2, <1>2, <1>5, DistFacts
      <4>3. /\ empty[d] <=> Dist(Oldest, d) >= Pending
            /\ ~empty[d] => buf[d] = stored - Pending + 1 + Dist(Oldest, d)
        BY DEF IInv, RingInv
      <4> QED BY <4>1, <4>2, <4>3, <1>2, <1>8
    <3> QED BY <3>1, <3>2
  <2>5. \A d \in Desc : Dist(Oldest', d) = Dist(Oldest, d)
    BY <1>1 DEF Dist
  <2> QED BY <1>4, <2>1, <2>2, <2>3, <2>4, <2>5 DEF RingInv
<1>13. HandInv'
  <2>1. tpc \in {"copy", "free"} => ~empty'[next_rx]
    BY DEF HwStore, IInv, HandInv, TypeOK
  <2> QED BY <2>1, <1>1 DEF HwStore, IInv, HandInv
<1> QED BY <1>11, <1>12, <1>13 DEF IInv

(* No step of the interrupt handler touches the ring.                      *)
LEMMA InterruptInv == IInv /\ Interrupt => IInv'
<1> SUFFICES ASSUME IInv, Interrupt PROVE IInv'
  OBVIOUS
<1>1. UNCHANGED <<stored, hwNext, traffic, empty, buf, next_rx, tpc, skb, outVars>>
  BY DEF Interrupt, IrqEnter, IrqAck, IrqDisable, IrqSchedule, hwVars, ringVars
<1>2. RingInv' /\ Processed' = Processed
  BY <1>1, RingUnchanged DEF IInv
<1>3. TypeOK'
  BY <1>1 DEF Interrupt, IrqEnter, IrqAck, IrqDisable, IrqSchedule, IInv, TypeOK, outVars
<1>4. HandInv'
  BY <1>1, <1>2 DEF IInv, HandInv
<1> QED BY <1>2, <1>3, <1>4 DEF IInv

(* The tasklet's steps that move no frame: start, the check of the next    *)
(* descriptor, the copy of its data, and the final unmasking.              *)
LEMMA TaskletQuietInv ==
  IInv /\ (TaskletStart \/ RxCheck \/ RxCopy \/ RxEnable) => IInv'
<1> SUFFICES ASSUME IInv, TaskletStart \/ RxCheck \/ RxCopy \/ RxEnable
             PROVE  IInv'
  OBVIOUS
<1>1. UNCHANGED <<stored, hwNext, traffic, empty, buf, next_rx, outVars>>
  BY DEF TaskletStart, RxCheck, RxCopy, RxEnable, hwVars, ringVars
<1>2. tpc # "finish" /\ tpc' # "finish"
  BY DEF TaskletStart, RxCheck, RxCopy, RxEnable
<1>3. RingInv' /\ Processed' = Processed
  BY <1>1, <1>2, RingUnchanged DEF IInv
<1>4. ASSUME RxCopy
      PROVE skb' = (IF traffic[Processed + 1] THEN Processed + 1 ELSE 0)
            /\ skb' \in 0..MaxFrames
  <2>1. Oldest = next_rx /\ InHand = 0 /\ next_rx \in Desc
    BY <1>2 DEF Oldest, InHand, IInv, TypeOK
  <2>2. ~empty[next_rx] /\ Dist(next_rx, next_rx) = 0
    BY <1>4, <2>1, DistFacts DEF RxCopy, IInv, HandInv
  <2>3. buf[next_rx] = stored - Pending + 1 + 0 /\ buf[next_rx] \in 0..MaxFrames
    BY <2>1, <2>2 DEF IInv, RingInv, TypeOK
  <2>4. Processed \in Nat /\ stored \in Nat /\ Pending = stored - Processed - InHand
    BY RingFacts
  <2>5. buf[next_rx] = Processed + 1
    BY <2>1, <2>3, <2>4
  <2> QED BY <1>4, <2>3, <2>5, MaxFramesAssumption DEF RxCopy
<1>5. TypeOK'
  BY <1>1, <1>4 DEF TaskletStart, RxCheck, RxCopy, RxEnable, irqVars, outVars, IInv, TypeOK
<1>6. HandInv'
  BY <1>1, <1>3, <1>4 DEF TaskletStart, RxCheck, RxCopy, RxEnable, IInv, HandInv
<1> QED BY <1>3, <1>5, <1>6 DEF IInv

(* The descriptor goes back to the NIC: one pending frame less, the same   *)
(* frame now in hand, and every distance shrinks by one.                   *)
LEMMA RxFreeInv == IInv /\ RxFree => IInv'
<1> SUFFICES ASSUME IInv, RxFree PROVE IInv'
  OBVIOUS
<1>1. /\ UNCHANGED <<stored, hwNext, traffic, buf, next_rx, skb, outVars>>
      /\ tpc = "free" /\ tpc' = "finish"
      /\ empty' = [empty EXCEPT ![next_rx] = TRUE]
  BY DEF RxFree, hwVars
<1>2. /\ Processed \in Nat /\ stored \in Nat /\ next_rx \in Desc
      /\ Pending \in 0..NDesc /\ Pending = stored - Processed - 0
      /\ NDesc \in Nat \ {0} /\ Oldest = next_rx
  BY <1>1, RingFacts DEF IInv, TypeOK, Oldest
<1>3. Processed' = Processed /\ InHand' = 1 /\ Oldest' = NextDesc(next_rx)
  BY <1>1 DEF Processed, InHand, Oldest, outVars
<1>4. Pending' = Pending - 1
  BY <1>1, <1>2, <1>3 DEF Pending
<1>5. Pending > 0
  <2>1. ~empty[next_rx] /\ Dist(next_rx, next_rx) = 0
    BY <1>1, <1>2, DistFacts DEF IInv, HandInv
  <2>2. ~(0 >= Pending)
    BY <2>1, <1>2 DEF IInv, RingInv
  <2> QED BY <2>2, <1>2
<1>6. RingInv'
  <2>1. Pending' \in 0..NDesc
    BY <1>2, <1>4, <1>5
  <2>2. hwNext' = (Oldest' + Pending') % NDesc
    <3>1. hwNext = (next_rx + Pending) % NDesc
      BY <1>2 DEF IInv, RingInv
    <3>2. hwNext = (NextDesc(next_rx) + (Pending - 1)) % NDesc
      BY <3>1, <1>2, <1>5, DistPlus
    <3> QED BY <3>2, <1>1, <1>3, <1>4
  <2>3. stored' - Pending' + 1 = stored - Pending + 2
    BY <1>1, <1>2, <1>4
  <2>4. ASSUME NEW d \in Desc
        PROVE  LET dist == Dist(NextDesc(next_rx), d) IN
               /\ empty'[d] <=> dist >= Pending - 1
               /\ ~empty'[d] => buf[d] = stored - Pending + 2 + dist
    <3>1. CASE d = next_rx
      <4>1. Dist(NextDesc(next_rx), d) = NDesc - 1
        BY <3>1, <1>2, DistFacts
      <4>2. empty'[d] = TRUE
        BY <3>1, <1>1 DEF IInv, TypeOK
      <4> QED BY <4>1, <4>2, <1>2
    <3>2. CASE d # next_rx
      <4>1. empty'[d] = empty[d]
        BY <3>2, <1>1 DEF IInv, TypeOK
      <4>2. Dist(NextDesc(next_rx), d) = Dist(next_rx, d) - 1
            /\ Dist(next_rx, d) \in Nat
        BY <3>2, <1>2, DistFacts
      <4>3. /\ empty[d] <=> Dist(next_rx, d) >= Pending
            /\ ~empty[d] => buf[d] = stored - Pending + 1 + Dist(next_rx, d)
        BY <1>2 DEF IInv, RingInv
      <4> QED BY <4>1, <4>2, <4>3, <1>2
    <3> QED BY <3>1, <3>2
  <2>5. \A d \in Desc : Dist(Oldest', d) = Dist(NextDesc(next_rx), d)
    BY <1>3 DEF Dist
  <2> QED BY <1>1, <1>4, <2>1, <2>2, <2>3, <2>4, <2>5 DEF RingInv
<1>7. TypeOK'
  BY <1>1, <1>2 DEF RxFree, irqVars, outVars, IInv, TypeOK
<1>8. HandInv'
  BY <1>1, <1>3 DEF IInv, HandInv
<1> QED BY <1>6, <1>7, <1>8 DEF IInv

(* The frame in hand is delivered or counted: Processed catches up and     *)
(* the ring is what it was.                                                *)
LEMMA RxFinishInv == IInv /\ RxFinish => IInv'
<1> SUFFICES ASSUME IInv, RxFinish PROVE IInv'
  OBVIOUS
<1>1. /\ UNCHANGED <<stored, hwNext, traffic, empty, buf, rcomp, ier, ipc, sched>>
      /\ tpc = "finish" /\ tpc' = "check"
      /\ next_rx' = NextDesc(next_rx) /\ skb' = 0
  BY DEF RxFinish, hwVars, ringVars, irqVars
<1>2. /\ Len(delivered) \in Nat /\ rxErrors \in Nat
      /\ Processed = Len(delivered) + rxErrors
      /\ Pending \in 0..NDesc /\ Pending = stored - Processed - 1
      /\ stored \in 0..MaxFrames /\ next_rx \in Desc
      /\ NDesc \in Nat \ {0} /\ MaxFrames \in Nat
  BY <1>1, RingFacts DEF IInv, TypeOK
<1>3. delivered \in Seq(1..MaxFrames) /\ skb \in 0..MaxFrames
  BY DEF IInv, TypeOK
<1>4. /\ delivered' \in Seq(1..MaxFrames) /\ rxErrors' \in Nat
      /\ Len(delivered') + rxErrors' = Processed + 1
  <2>1. CASE skb # 0 /\ delivered' = Append(delivered, skb) /\ rxErrors' = rxErrors
    <3>1. skb \in 1..MaxFrames
      BY <2>1, <1>2, <1>3
    <3>2. delivered' \in Seq(1..MaxFrames) /\ Len(delivered') = Len(delivered) + 1
      BY <2>1, <3>1, <1>3
    <3> QED BY <2>1, <3>2, <1>2
  <2>2. CASE skb = 0 /\ delivered' = delivered /\ rxErrors' = rxErrors + 1
    BY <2>2, <1>2, <1>3
  <2> QED BY <2>1, <2>2 DEF RxFinish
<1>5. Processed' = Processed + 1 /\ InHand' = 0 /\ Oldest' = Oldest
  BY <1>1, <1>4 DEF Processed, InHand, Oldest
<1>6. Pending' = Pending
  BY <1>1, <1>2, <1>5 DEF Pending
<1>7. RingInv'
  BY <1>1, <1>5, <1>6 DEF IInv, RingInv, Dist
<1>8. TypeOK'
  <2>1. rxErrors' \in 0..MaxFrames
    <3>1. Len(delivered') \in Nat
      BY <1>4
    <3> QED BY <3>1, <1>2, <1>4
  <2>2. next_rx' \in Desc
    BY <1>1, <1>2, NextDescStep
  <2> QED BY <1>1, <1>4, <2>1, <2>2, <1>2 DEF IInv, TypeOK
<1>9. HandInv'
  BY <1>1 DEF HandInv
<1> QED BY <1>7, <1>8, <1>9 DEF IInv

(* Every step preserves it.                                                *)
LEMMA NextInv == IInv /\ [Next]_vars => IInv'
<1> SUFFICES ASSUME IInv, [Next]_vars PROVE IInv'
  OBVIOUS
<1>1. CASE HwStore
  BY <1>1, HwStoreInv
<1>2. CASE Interrupt
  BY <1>2, InterruptInv
<1>3. CASE Tasklet
  BY <1>3, TaskletQuietInv, RxFreeInv, RxFinishInv DEF Tasklet
<1>4. CASE UNCHANGED vars
  BY <1>4, RingUnchanged DEF vars, IInv, TypeOK, HandInv, outVars
<1> QED BY <1>1, <1>2, <1>3, <1>4 DEF Next

(* It holds throughout.                                                    *)
LEMMA Invariance == Spec => []IInv
  BY InitInv, NextInv, PTL DEF Spec

-----------------------------------------------------------------------------
(* Type correctness of the receive path.                                   *)
THEOREM TypeCorrect == Spec => []TypeOK
  BY Invariance, PTL DEF IInv

(* The NIC and the driver never disagree about the ring.                   *)
THEOREM RingCorrect == Spec => []RingInv
  BY Invariance, PTL DEF IInv

(* The tasklet always holds the frame that is due, and no other.           *)
THEOREM HandCorrect == Spec => []HandInv
  BY Invariance, PTL DEF IInv

(* No interleaving of the NIC, the interrupt and the tasklet loses the     *)
(* wake-up for a stored frame.  The step that needs the ring is the        *)
(* tasklet's last look: an EMPTY descriptor at next_rx means no frame is   *)
(* pending at all.                                                         *)
THEOREM WakeupCorrect == Spec => []NoLostWakeup
<1>1. Init => NoLostWakeup
  BY DEF Init, NoLostWakeup, Pending, Processed, InHand
<1>2. ASSUME IInv, NoLostWakeup, [Next]_vars PROVE NoLostWakeup'
  <2>1. CASE HwStore
    BY <2>1 DEF HwStore, NoLostWakeup
  <2>2. CASE Interrupt
    <3>1. Pending' = Pending
      BY <2>2, RingUnchanged, <1>2
      DEF Interrupt, IrqEnter, IrqAck, IrqDisable, IrqSchedule, hwVars, ringVars, IInv
    <3> QED BY <2>2, <3>1, <1>2
        DEF Interrupt, IrqEnter, IrqAck, IrqDisable, IrqSchedule, NoLostWakeup
  <2>3. CASE RxCheck
    <3>1. Pending' = Pending
      BY <2>3, RingUnchanged, <1>2 DEF RxCheck, hwVars, ringVars, IInv
    <3>2. CASE empty[next_rx]
      <4>1. Oldest = next_rx /\ next_rx \in Desc
        BY <2>3, <1>2 DEF RxCheck, Oldest, IInv, TypeOK
      <4>2. Dist(next_rx, next_rx) >= Pending
        BY <3>2, <4>1, <1>2 DEF IInv, RingInv
      <4>3. Dist(next_rx, next_rx) = 0
        BY <4>1, DistFacts
      <4>4. ~(Pending > 0)
        BY <4>2, <4>3, <1>2, RingFacts
      <4> QED BY <3>1, <4>4 DEF NoLostWakeup
    <3>3. CASE ~empty[next_rx]
      BY <2>3, <3>3 DEF RxCheck, NoLostWakeup
    <3> QED BY <3>2, <3>3
  <2>4. CASE RxEnable
    <3>1. Pending' = Pending
      BY <2>4, RingUnchanged, <1>2 DEF RxEnable, hwVars, ringVars, IInv
    <3> QED BY <2>4, <3>1, <1>2 DEF RxEnable, NoLostWakeup
  <2>5. CASE TaskletStart \/ RxCopy \/ RxFree \/ RxFinish
    BY <2>5 DEF TaskletStart, RxCopy, RxFree, RxFinish, NoLostWakeup
  <2>6. CASE UNCHANGED vars
    <3>1. Pending' = Pending
      BY <2>6, RingUnchanged, <1>2 DEF vars, outVars, IInv
    <3> QED BY <2>6, <3>1, <1>2 DEF vars, NoLostWakeup
  <2> QED BY <1>2, <2>1, <2>2, <2>3, <2>4, <2>5, <2>6 DEF Next, Tasklet
<1> QED BY <1>1, <1>2, Invariance, PTL DEF Spec

(* RCOMP is never masked with nobody left to unmask it.                    *)
THEOREM UnmaskCorrect == Spec => []NeverStuckMasked
<1>1. Init => NeverStuckMasked
  BY DEF Init, NeverStuckMasked
<1>2. NeverStuckMasked /\ [Next]_vars => NeverStuckMasked'
  BY DEF NeverStuckMasked, Next, vars, HwStore, Interrupt, IrqEnter, IrqAck,
         IrqDisable, IrqSchedule, Tasklet, TaskletStart, RxCheck, RxCopy, RxFree,
         RxFinish, RxEnable, irqVars
<1> QED BY <1>1, <1>2, PTL DEF Spec

(* The receive path, descriptors, interrupts and tasklet together, is the  *)
(* bounded FIFO of RxFifo: in order, each frame once, NDesc + 1 at most.   *)
THEOREM FifoImplemented == Spec => ImplementsFifo
<1>1. Init => Fifo!Init
  BY DEF Init, Fifo!Init
<1>2. ASSUME IInv, [Next]_vars PROVE [Fifo!Next]_(Fifo!vars)
  <2>1. /\ Fifo!Left = Processed /\ Processed \in Nat /\ InHand \in {0, 1}
        /\ Pending \in 0..NDesc /\ Pending = stored - Processed - InHand
        /\ stored \in Nat /\ NDesc \in Nat
    BY <1>2, RingFacts DEF Fifo!Left, Processed
  <2>2. CASE HwStore
    <3>1. stored' = stored + 1 /\ stored < MaxFrames
          /\ UNCHANGED <<traffic, delivered, rxErrors>>
      BY <2>2 DEF HwStore
    <3>2. Pending' = Pending + 1
      <4>1. Processed' = Processed /\ InHand' = InHand
        BY <2>2 DEF HwStore, Processed, InHand
      <4> QED BY <3>1, <4>1, <2>1 DEF Pending
    <3>3. Pending' \in 0..NDesc
      BY <1>2, <2>2, HwStoreInv DEF IInv, RingInv
    <3>4. stored - Processed < NDesc + 1
      BY <2>1, <3>2, <3>3
    <3> QED BY <2>1, <3>1, <3>4 DEF Fifo!Next, Fifo!Accept
  <2>3. CASE RxFinish
    <3>1. tpc = "finish" /\ UNCHANGED <<traffic, stored>>
      BY <2>3 DEF RxFinish, hwVars
    <3>2. skb = IF traffic[Processed + 1] THEN Processed + 1 ELSE 0
      BY <3>1, <1>2 DEF IInv, HandInv
    <3>3. Processed < stored
      BY <3>1, <2>1 DEF InHand
    <3>4. CASE traffic[Processed + 1]
      <4>1. skb = Processed + 1 /\ skb # 0
        BY <3>2, <3>4, <2>1
      <4>2. delivered' = Append(delivered, Processed + 1) /\ rxErrors' = rxErrors
        BY <4>1, <2>3 DEF RxFinish
      <4> QED BY <4>2, <3>1, <3>3, <3>4, <2>1 DEF Fifo!Next, Fifo!DeliverGood
    <3>5. CASE ~traffic[Processed + 1]
      <4>1. rxErrors' = rxErrors + 1 /\ delivered' = delivered
        BY <3>2, <3>5, <2>3 DEF RxFinish
      <4> QED BY <4>1, <3>1, <3>3, <3>5, <2>1 DEF Fifo!Next, Fifo!CountBad
    <3> QED BY <3>4, <3>5
  <2>4. CASE Interrupt \/ TaskletStart \/ RxCheck \/ RxCopy \/ RxFree \/ RxEnable
             \/ UNCHANGED vars
    <3>1. UNCHANGED <<traffic, stored, delivered, rxErrors>>
      BY <2>4 DEF Interrupt, IrqEnter, IrqAck, IrqDisable, IrqSchedule, TaskletStart,
                  RxCheck, RxCopy, RxFree, RxEnable, hwVars, outVars, vars
    <3> QED BY <3>1 DEF Fifo!vars
  <2> QED BY <1>2, <2>2, <2>3, <2>4 DEF Next, Tasklet
<1> QED BY <1>1, <1>2, Invariance, PTL DEF Spec, ImplementsFifo, Fifo!Spec


-----------------------------------------------------------------------------
(* The time that completes the stamp of a frame.  The inductive invariant: *)
(* ReadBetween says nothing before the reader has its result; what it      *)
(* needs is what each local is worth, compared with the clock, at each     *)
(* register read.                                                          *)

\* The stamp was taken before the read began, and the read before now.
StampOld == pc # "idle" => LeqTime(<<evSec, tsval>>, clock)

ReadOld ==
  pc \in {"cnt", "utc2", "again", "result", "done"} =>
     /\ utc1 = begin[1]
     /\ LeqTime(<<evSec, tsval>>, begin)
     /\ LeqTime(begin, clock)

\* While the second is still utc1, the cycles read belong to it.
CntFresh ==
  pc = "utc2" /\ sec = utc1 =>
     /\ begin[2] <= cnt
     /\ cnt <= cyc

\* The cycles are read again only when a second went by.
AgainLater == pc = "again" => utc1 < utc2 /\ utc2 <= sec

Completed == pc = "done" => utc = SecondOfStamp

PpsInv ==
  /\ PpsTypeOK
  /\ StampOld
  /\ ReadOld
  /\ CntFresh
  /\ AgainLater
  /\ ReadBetween
  /\ Completed

(* The initial states satisfy it: the reader is idle.                      *)
LEMMA PpsInitInv == PpsInit => PpsInv
  BY CyclesAssumption
  DEF PpsInit, PpsInv, PpsTypeOK, StampOld, ReadOld, CntFresh, AgainLater, ReadBetween, Completed

(* A tick of the clock between any two register reads preserves it.        *)
LEMMA PpsTickInv == PpsInv /\ Tick => PpsInv'
<1> SUFFICES ASSUME PpsInv, Tick PROVE PpsInv'
  OBVIOUS
<1> USE CyclesAssumption DEF PpsInv, PpsTypeOK, Tick
<1>1. sec' \in Nat /\ cyc' \in 0..(Cycles - 1)
  OBVIOUS
<1>2. (sec' = sec /\ cyc' = cyc + 1) \/ (sec' = sec + 1 /\ cyc' = 0)
  OBVIOUS
<1>3. PpsTypeOK'
  BY <1>1
<1>4. \A t \in Nat \X (0..(Cycles - 1)) : LeqTime(t, clock) => LeqTime(t, clock')
  BY <1>2 DEF LeqTime, clock
<1>5. /\ <<evSec, tsval>> \in Nat \X (0..(Cycles - 1))
      /\ <<utc2, cnt>> \in Nat \X (0..(Cycles - 1))
  OBVIOUS
<1>6. StampOld'
  BY <1>4, <1>5 DEF StampOld, LeqTime
<1>7. ReadOld'
  BY <1>4 DEF ReadOld, LeqTime
<1>8. CntFresh'
  BY <1>2 DEF CntFresh, ReadOld, LeqTime, clock
<1>9. AgainLater'
  BY <1>2 DEF AgainLater
<1>10. ReadBetween'
  BY <1>4, <1>5 DEF ReadBetween, LeqTime
<1>11. Completed'
  BY DEF Completed, SecondOfStamp
<1> QED BY <1>3, <1>6, <1>7, <1>8, <1>9, <1>10, <1>11

(* A new stamp preserves it.                                               *)
LEMMA PpsStampInv == PpsInv /\ Stamp => PpsInv'
  BY CyclesAssumption
  DEF PpsInv, PpsTypeOK, Stamp, StampOld, ReadOld, CntFresh, AgainLater, ReadBetween, Completed,
      LeqTime, clock

(* Each register read of wrn_ppsg_read_time, and the completion of the     *)
(* stamp, preserve it.                                                     *)
LEMMA PpsReaderInv == PpsInv /\ Reader => PpsInv'
<1> SUFFICES ASSUME PpsInv, Reader PROVE PpsInv'
  OBVIOUS
<1> USE CyclesAssumption DEF PpsInv, PpsTypeOK, StampOld, ReadOld, CntFresh, AgainLater,
                             ReadBetween, Completed, LeqTime, clock
<1>1. CASE ReadUtc1
  BY <1>1 DEF ReadUtc1
<1>2. CASE ReadCnt
  BY <1>2 DEF ReadCnt
<1>3. CASE ReadUtc2
  BY <1>3 DEF ReadUtc2
<1>4. CASE ReadCntAgain
  BY <1>4 DEF ReadCntAgain
<1>5. CASE Complete
  BY <1>5 DEF Complete, SecondOfStamp
<1>6. CASE Return
  BY <1>6 DEF Return
<1> QED BY <1>1, <1>2, <1>3, <1>4, <1>5, <1>6 DEF Reader

(* Every step preserves it.                                                *)
LEMMA PpsNextInv == PpsInv /\ [PpsNext]_ppsVars => PpsInv'
<1> SUFFICES ASSUME PpsInv, [PpsNext]_ppsVars PROVE PpsInv'
  OBVIOUS
<1>1. CASE Tick
  BY <1>1, PpsTickInv
<1>2. CASE Stamp
  BY <1>2, PpsStampInv
<1>3. CASE Reader
  BY <1>3, PpsReaderInv
<1>4. CASE UNCHANGED ppsVars
  BY <1>4 DEF ppsVars, clock, PpsInv, PpsTypeOK, StampOld, ReadOld, CntFresh, AgainLater,
              ReadBetween, Completed, SecondOfStamp
<1> QED BY <1>1, <1>2, <1>3, <1>4 DEF PpsNext

(* It holds throughout.                                                    *)
LEMMA PpsInvariance == PpsSpec => []PpsInv
  BY PpsInitInv, PpsNextInv, PTL DEF PpsSpec

-----------------------------------------------------------------------------
(* Every variable keeps its type.                                          *)
THEOREM PpsTypeCorrect == PpsSpec => []PpsTypeOK
  BY PpsInvariance, PTL DEF PpsInv

(* wrn_ppsg_read_time returns a time between its call and its return,      *)
(* wherever the seconds roll over between its three or four reads.         *)
THEOREM ReadCorrect == PpsSpec => []ReadBetween
  BY PpsInvariance, PTL DEF PpsInv

(* The second that record_tstamp and __wrn_rx_descriptor put in front of   *)
(* the cycles of a stamp is the one in which the stamp was taken, when     *)
(* they are done within one second of it.                                  *)
THEOREM StampCorrect == PpsSpec => []StampSecond
<1>1. PpsInv => StampSecond
  <2> SUFFICES ASSUME PpsInv, pc = "done", ~LeqTime(<<evSec + 1, tsval>>, clock)
               PROVE  utc = evSec
    BY DEF StampSecond
  <2>1. /\ LeqTime(<<evSec, tsval>>, <<utc2, cnt>>)
        /\ ~LeqTime(<<evSec + 1, tsval>>, <<utc2, cnt>>)
    BY DEF PpsInv, PpsTypeOK, ReadOld, ReadBetween, LeqTime, clock
  <2>2. evSec = IF cnt < tsval THEN utc2 - 1 ELSE utc2
    BY <2>1 DEF PpsInv, PpsTypeOK, LeqTime
  <2> QED BY <2>2 DEF PpsInv, Completed, SecondOfStamp
<1> QED BY <1>1, PpsInvariance, PTL

-----------------------------------------------------------------------------
(* Interrupt delivery                                                      *)

(* The inductive invariant.  VicNotForgotten needs LatchHasMessage (a VIC  *)
(* edge that meets a set latch sends no message of its own) and            *)
(* EarlyOnlyBeforeVic (an early handler clears the latch without EOIR).    *)

\* The VIC's output is high exactly while it waits for EOIR.
LineHolds == line <=> cur # None

\* What the VIC presents has an event until the handler served it.
PresentedHasWork == cur # None /\ hpc \notin {"ack", "eoir"} => work[cur] > 0

\* A vector is what the VIC still presents.
VectorIsCur == hpc = "serve" /\ vector # None => vector = cur

DeliveryInv ==
  /\ DeliveryTypeOK
  /\ LineHolds
  /\ PresentedHasWork
  /\ VectorIsCur
  /\ VicNotForgotten
  /\ LatchHasMessage
  /\ EarlyOnlyBeforeVic

(* It holds before the first interrupt.                                    *)
LEMMA DeliveryInitInv == DeliveryInit => DeliveryInv
<1> SUFFICES ASSUME DeliveryInit PROVE DeliveryInv
  OBVIOUS
<1>1. DeliveryTypeOK
  <2>1. work \in [Sources -> Nat]
    BY DEF DeliveryInit
  <2>2. budget \in 0..MaxEvents
    BY MaxEventsAssumption DEF DeliveryInit
  <2> QED BY <2>1, <2>2 DEF DeliveryInit, DeliveryTypeOK
<1>2. LineHolds /\ PresentedHasWork /\ VectorIsCur
  BY DEF DeliveryInit, LineHolds, PresentedHasWork, VectorIsCur
<1>3. VicNotForgotten /\ LatchHasMessage /\ EarlyOnlyBeforeVic
  BY DEF DeliveryInit, VicNotForgotten, LatchHasMessage, EarlyOnlyBeforeVic
<1> QED BY <1>1, <1>2, <1>3 DEF DeliveryInv

(* wrn_eth_init preserves it.                                              *)
LEMMA DriverInv == DeliveryInv /\ (Publish \/ VicInit) => DeliveryInv'
<1> SUFFICES ASSUME DeliveryInv, Publish \/ VicInit PROVE DeliveryInv'
  OBVIOUS
<1>1. UNCHANGED <<bus, budget, work, cur, line, status, msi, hpc, vector>>
  BY DEF Publish, VicInit, devVars, vicVars, gnVars
<1>2. \/ phase' = "published" /\ phase = "requested"
      \/ phase' = "running" /\ hpc # "early"
  BY DEF Publish, VicInit
<1>3. DeliveryTypeOK'
  BY <1>1, <1>2 DEF DeliveryInv, DeliveryTypeOK
<1>4. LineHolds' /\ PresentedHasWork' /\ VectorIsCur'
  BY <1>1 DEF DeliveryInv, LineHolds, PresentedHasWork, VectorIsCur
<1>5. VicNotForgotten' /\ LatchHasMessage'
  BY <1>1 DEF DeliveryInv, VicNotForgotten, LatchHasMessage, HostPending
<1>6. EarlyOnlyBeforeVic'
  BY <1>1, <1>2 DEF DeliveryInv, EarlyOnlyBeforeVic
<1> QED BY <1>3, <1>4, <1>5, <1>6 DEF DeliveryInv

(* A device event preserves it: work only grows.                           *)
LEMMA DeviceInv == ASSUME NEW s \in Sources, DeliveryInv, DeviceEvent(s) PROVE DeliveryInv'
<1> USE DEF DeviceEvent, vicVars, gnVars, DeliveryInv, DeliveryTypeOK
<1>1. /\ budget' \in 0..MaxEvents
      /\ work' \in [Sources -> Nat]
  BY MaxEventsAssumption
<1>2. \A t \in Sources : work'[t] >= work[t]
  OBVIOUS
<1>3. DeliveryTypeOK'
  BY <1>1
<1>4. PresentedHasWork'
  BY <1>1, <1>2 DEF PresentedHasWork
<1>5. LineHolds' /\ VectorIsCur'
  BY DEF LineHolds, VectorIsCur
<1>6. VicNotForgotten' /\ LatchHasMessage' /\ EarlyOnlyBeforeVic'
  BY DEF VicNotForgotten, LatchHasMessage, EarlyOnlyBeforeVic, HostPending
<1> QED BY <1>3, <1>4, <1>5, <1>6

(* The VIC presenting a source preserves it: its output was low, so the    *)
(* edge is seen, and a latch that was set already has its message.         *)
LEMMA RaiseInv == ASSUME NEW s \in Sources, DeliveryInv, VicRaise(s) PROVE DeliveryInv'
<1> USE NoneAssumption DEF VicRaise, devVars, DeliveryInv, DeliveryTypeOK
<1>1. DeliveryTypeOK'
  OBVIOUS
<1>2. ~line
  BY DEF LineHolds
<1>3. LineHolds' /\ PresentedHasWork' /\ VectorIsCur'
  <2>1. cur' = s /\ line' = TRUE /\ UNCHANGED <<work, hpc, vector>>
    BY DEF devVars
  <2>2. LineHolds'
    BY <2>1 DEF LineHolds
  <2>3. PresentedHasWork'
    BY <2>1 DEF PresentedHasWork
  <2>4. VectorIsCur'
    BY <2>1 DEF VectorIsCur
  <2> QED BY <2>2, <2>3, <2>4
<1>4. LatchHasMessage'
  BY <1>2 DEF LatchHasMessage
<1>5. EarlyOnlyBeforeVic'
  BY DEF EarlyOnlyBeforeVic
<1>6. VicNotForgotten'
  BY <1>2 DEF VicNotForgotten, LatchHasMessage, EarlyOnlyBeforeVic, HostPending
<1> QED BY <1>1, <1>3, <1>4, <1>5, <1>6

(* The entry of the handler, for its own interrupt or another board's,     *)
(* preserves it.                                                           *)
LEMMA EnterInv == DeliveryInv /\ (HandlerEnter \/ HandlerShared) => DeliveryInv'
<1> SUFFICES ASSUME DeliveryInv, HandlerEnter \/ HandlerShared PROVE DeliveryInv'
  OBVIOUS
<1>1. hpc' = "read" /\ UNCHANGED <<bus, phase, work, cur, line, status, vector>>
  BY DEF HandlerEnter, HandlerShared, devVars, vicVars, gnVars
<1>2. budget' \in 0..MaxEvents /\ msi' \in BOOLEAN
  <2>1. CASE HandlerEnter
    BY <2>1 DEF HandlerEnter, devVars, DeliveryInv, DeliveryTypeOK
  <2>2. CASE HandlerShared
    BY <2>2, MaxEventsAssumption DEF HandlerShared, gnVars, DeliveryInv, DeliveryTypeOK
  <2> QED BY <2>1, <2>2
<1>3. hpc = "idle"
  BY DEF HandlerEnter, HandlerShared
<1>4. DeliveryTypeOK'
  BY <1>1, <1>2 DEF DeliveryInv, DeliveryTypeOK
<1>5. LineHolds' /\ PresentedHasWork' /\ VectorIsCur'
  BY <1>1, <1>3 DEF DeliveryInv, LineHolds, PresentedHasWork, VectorIsCur
<1>6. VicNotForgotten' /\ LatchHasMessage' /\ EarlyOnlyBeforeVic'
  BY <1>1 DEF DeliveryInv, VicNotForgotten, LatchHasMessage, EarlyOnlyBeforeVic
<1> QED BY <1>4, <1>5, <1>6 DEF DeliveryInv

(* The rest of the handler preserves it.                                   *)
LEMMA RestInv == DeliveryInv /\ HandlerRest => DeliveryInv'
<1> SUFFICES ASSUME DeliveryInv, HandlerRest PROVE DeliveryInv'
  OBVIOUS
<1> USE NoneAssumption DEF devVars, vicVars, gnVars, DeliveryInv
<1>1. CASE HandlerRead
  BY <1>1 DEF HandlerRead, DeliveryTypeOK, LineHolds, PresentedHasWork, VectorIsCur, VicNotForgotten,
              LatchHasMessage, EarlyOnlyBeforeVic, HostPending
<1>2. CASE HandlerEarly
  BY <1>2 DEF HandlerEarly, DeliveryTypeOK, LineHolds, PresentedHasWork, VectorIsCur, VicNotForgotten,
              LatchHasMessage, EarlyOnlyBeforeVic, HostPending
<1>3. CASE HandlerServe
  <2>1. work' \in [Sources -> Nat]
    <3>1. CASE vector \in Sources
      <4>1. work[vector] \in Nat
        BY <3>1 DEF DeliveryTypeOK
      <4>2. PICK left \in 0..(work[vector] - 1) : work' = [work EXCEPT ![vector] = left]
        BY <1>3, <3>1 DEF HandlerServe
      <4>3. left \in Nat
        BY <4>1
      <4> QED BY <4>2, <4>3 DEF DeliveryTypeOK
    <3>2. CASE vector \notin Sources
      BY <1>3, <3>2 DEF HandlerServe, DeliveryTypeOK
    <3> QED BY <3>1, <3>2
  <2>2. hpc' = "ack"
    BY <1>3 DEF HandlerServe
  <2>3. DeliveryTypeOK'
    BY <1>3, <2>1 DEF HandlerServe, DeliveryTypeOK
  <2>4. LineHolds' /\ PresentedHasWork' /\ VectorIsCur'
    BY <1>3, <2>2 DEF HandlerServe, LineHolds, PresentedHasWork, VectorIsCur
  <2>5. VicNotForgotten' /\ LatchHasMessage' /\ EarlyOnlyBeforeVic'
    BY <1>3, <2>2 DEF HandlerServe, VicNotForgotten, LatchHasMessage, EarlyOnlyBeforeVic,
                      HostPending
  <2> QED BY <2>3, <2>4, <2>5
<1>4. CASE HandlerEnd
  <2>1. vector' = None /\ UNCHANGED <<bus, phase, budget, work, msi>>
    BY <1>4 DEF HandlerEnd
  <2>2. CASE hpc = "ack"
    <3>1. status' = FALSE /\ hpc' = "eoir" /\ cur' = cur /\ line' = line
      BY <1>4, <2>2 DEF HandlerEnd
    <3>2. DeliveryTypeOK'
      BY <2>1, <3>1 DEF DeliveryTypeOK
    <3>3. LineHolds' /\ PresentedHasWork' /\ VectorIsCur'
      BY <2>1, <3>1 DEF LineHolds, PresentedHasWork, VectorIsCur
    <3>4. VicNotForgotten' /\ LatchHasMessage' /\ EarlyOnlyBeforeVic'
      BY <2>1, <3>1 DEF VicNotForgotten, LatchHasMessage, EarlyOnlyBeforeVic
    <3> QED BY <3>2, <3>3, <3>4
  <2>3. CASE hpc = "eoir"
    <3>1. cur' = None /\ line' = FALSE /\ hpc' = "idle" /\ status' = status
      BY <1>4, <2>3 DEF HandlerEnd, LineAfterEoir
    <3>2. DeliveryTypeOK'
      BY <2>1, <3>1 DEF DeliveryTypeOK
    <3>3. LineHolds' /\ PresentedHasWork' /\ VectorIsCur'
      BY <2>1, <3>1 DEF LineHolds, PresentedHasWork, VectorIsCur
    <3>4. VicNotForgotten' /\ LatchHasMessage' /\ EarlyOnlyBeforeVic'
      BY <2>1, <2>3, <3>1 DEF VicNotForgotten, LatchHasMessage, EarlyOnlyBeforeVic
    <3> QED BY <3>2, <3>3, <3>4
  <2> QED BY <1>4, <2>2, <2>3 DEF HandlerEnd
<1> QED BY <1>1, <1>2, <1>3, <1>4 DEF HandlerRest

(* Every step preserves it.                                                *)
LEMMA DeliveryNextInv == DeliveryInv /\ [DeliveryNext]_deliveryVars => DeliveryInv'
<1> SUFFICES ASSUME DeliveryInv, [DeliveryNext]_deliveryVars PROVE DeliveryInv'
  OBVIOUS
<1>1. CASE Publish \/ VicInit
  BY <1>1, DriverInv
<1>2. CASE \E s \in Sources : DeviceEvent(s) \/ VicRaise(s)
  BY <1>2, DeviceInv, RaiseInv
<1>3. CASE HandlerEnter \/ HandlerShared
  BY <1>3, EnterInv
<1>4. CASE HandlerRest
  BY <1>4, RestInv
<1>5. CASE UNCHANGED deliveryVars
  BY <1>5 DEF deliveryVars, devVars, vicVars, gnVars, DeliveryInv, DeliveryTypeOK, LineHolds, PresentedHasWork,
              VectorIsCur, VicNotForgotten, LatchHasMessage, EarlyOnlyBeforeVic, HostPending
<1> QED BY <1>1, <1>2, <1>3, <1>4, <1>5 DEF DeliveryNext

(* It holds throughout.                                                    *)
LEMMA DeliveryInvariance == DeliverySpec => []DeliveryInv
  BY DeliveryInitInv, DeliveryNextInv, PTL DEF DeliverySpec

-----------------------------------------------------------------------------
(* Every variable keeps its type.                                          *)
THEOREM DeliveryTypeCorrect == DeliverySpec => []DeliveryTypeOK
  BY DeliveryInvariance, PTL DEF DeliveryInv

(* While the VIC waits for EOIR, the host is on its way to writing it:     *)
(* acknowledging the GN4124 before EOIR never loses the board's interrupt. *)
THEOREM VicCorrect == DeliverySpec => []VicNotForgotten
  BY DeliveryInvariance, PTL DEF DeliveryInv

(* With MSI, a set latch has its message or its handler.                   *)
THEOREM LatchCorrect == DeliverySpec => []LatchHasMessage
  BY DeliveryInvariance, PTL DEF DeliveryInv

(* The "too early" exit of wrn_handler is never taken once the VIC runs.   *)
THEOREM EarlyCorrect == DeliverySpec => []EarlyOnlyBeforeVic
  BY DeliveryInvariance, PTL DEF DeliveryInv

(* wrn_handler never serves a source that has nothing to serve.            *)
THEOREM VectorCorrect == DeliverySpec => []VectorHasWork
<1>1. DeliveryInv => VectorHasWork
  BY NoneAssumption DEF DeliveryInv, VectorHasWork, VectorIsCur, PresentedHasWork
<1> QED BY <1>1, DeliveryInvariance, PTL
=============================================================================
