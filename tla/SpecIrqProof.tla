---------------------------- MODULE SpecIrqProof ----------------------------
(***************************************************************************)
(* Proofs about SpecIrq, for every set of vectors, and about SpecLifecycle *)
(* with one caller, for every set of devices.                              *)
(***************************************************************************)
EXTENDS SpecIrq, SpecLifecycle, TLAPS

-----------------------------------------------------------------------------
(* The inductive invariant.  The table follows the driver's place in its   *)
(* call; the handler sees it only between calls, because both sides hold   *)
(* irq_lock.                                                               *)

InRequest == {"init", "find", "ivt", "table", "ier"}
InFree == {"idr", "restore", "clear", "unhook", "sync"}

\* Each side is where it is because it holds the lock.
LockOwner ==
  /\ lock = "driver" <=> dpc \in InRequest \cup InFree
  /\ lock = "handler" <=> hpc \in {"dispatch", "call", "end"}

\* An id in work is that of a vector.
DidIsVector ==
  dpc \in {"ivt", "table", "ier", "hook", "idr", "restore", "clear"} => did \in Vector

\* Without a VIC the table is empty, and a call that works on it has one.
VicHasTable ==
  /\ ~vic => handler = {}
  /\ dpc \in {"find", "ivt", "table", "ier", "hook", "idr", "restore", "clear"} => vic
  /\ dpc \in {"init", "unhook", "sync"} => ~vic
  /\ ctl = vic

\* The entries of the IVT that are indexes.
Indexed ==
  CASE dpc = "table" -> handler \cup {did}
    [] dpc = "clear" -> handler \ {did}
    [] OTHER -> handler

\* The VIC's registers, place by place: what is enabled is indexed.
TablesFollow ==
  /\ \A v \in Vector : ivt[v] = "index" <=> v \in Indexed
  /\ dpc = "ier" => handler = imr \cup {did}
  /\ dpc \in {"restore", "clear"} => imr = handler \ {did}
  /\ dpc \notin {"ier", "restore", "clear"} => imr = handler

\* The master handler is there only with the VIC, and is gone before the
\* first request of the next.
MasterHasVic ==
  /\ hooked => vic \/ dpc = "unhook"
  /\ hpc # "idle" => hooked \/ dpc = "sync"
  /\ first /\ dpc \in InRequest \cup {"hook"} => ~hooked /\ handler \subseteq {did}
  /\ dpc = "hook" => first

\* With a master, every handler is that of an interrupt held or in work.
HandlersHeld ==
  /\ hooked => handler \subseteq held \cup (IF dpc = "ier" THEN {did} ELSE {})
  /\ hpc = "call" => hv \in handler

IInv ==
  /\ TypeOK
  /\ LockOwner
  /\ DidIsVector
  /\ VicHasTable
  /\ TablesFollow
  /\ MasterHasVic
  /\ HandlersHeld
  /\ PresentedNamed

(* Nothing is requested at first.                                          *)
LEMMA InitInv == Init => IInv
BY VectorAssumption DEF Init, IInv, TypeOK, LockOwner, DidIsVector, VicHasTable,
   TablesFollow, Indexed, MasterHasVic, HandlersHeld, PresentedNamed, InRequest, InFree

(* A request takes the lock, and remembers whether it is the first.        *)
LEMMA RequestEnterInv ==
  ASSUME IInv, NEW id \in Vector \cup {Unknown}, RequestEnter(id)
  PROVE  IInv'
<1> USE VectorAssumption DEF IInv, TypeOK, tableVars, vicVars, driverVars, handlerVars, RequestEnter, Return
<1>1. TypeOK'
  OBVIOUS
<1>2. LockOwner'
  BY DEF LockOwner, InRequest
<1>3. DidIsVector'
  BY DEF DidIsVector
<1>4. VicHasTable'
  BY DEF VicHasTable
<1>5. TablesFollow'
  BY DEF TablesFollow, Indexed
<1>6. MasterHasVic'
  BY DEF MasterHasVic, VicHasTable
<1>7. HandlersHeld'
  BY DEF HandlersHeld
<1>8. PresentedNamed'
  BY DEF PresentedNamed
<1> QED BY <1>1, <1>2, <1>3, <1>4, <1>5, <1>6, <1>7, <1>8

(* The VIC is looked up and set up with an empty table.                    *)
LEMMA VicInitInv ==
  ASSUME IInv, VicInit
  PROVE  IInv'
<1> USE VectorAssumption DEF IInv, TypeOK, tableVars, vicVars, driverVars, handlerVars, VicInit, Return
<1>1. TypeOK'
  OBVIOUS
<1>2. LockOwner'
  BY DEF LockOwner, InRequest, InFree
<1>3. DidIsVector'
  BY DEF DidIsVector
<1>4. VicHasTable'
  BY DEF VicHasTable
<1>5. TablesFollow'
  BY DEF TablesFollow, Indexed, VicHasTable
<1>6. MasterHasVic'
  BY DEF MasterHasVic, VicHasTable
<1>7. HandlersHeld'
  BY DEF HandlersHeld, VicHasTable
<1>8. PresentedNamed'
  BY DEF PresentedNamed
<1> QED BY <1>1, <1>2, <1>3, <1>4, <1>5, <1>6, <1>7, <1>8

(* The vector of the id is searched.                                       *)
LEMMA FindInv ==
  ASSUME IInv, Find
  PROVE  IInv'
<1> USE VectorAssumption DEF IInv, TypeOK, tableVars, vicVars, driverVars, handlerVars, Find, Return
<1>1. TypeOK'
  OBVIOUS
<1>2. LockOwner'
  BY DEF LockOwner, InRequest, InFree
<1>3. DidIsVector'
  BY DEF DidIsVector
<1>4. VicHasTable'
  BY DEF VicHasTable
<1>5. TablesFollow'
  BY DEF TablesFollow, Indexed
<1>6. MasterHasVic'
  BY DEF MasterHasVic, InRequest
<1>7. HandlersHeld'
  BY DEF HandlersHeld
<1>8. PresentedNamed'
  BY DEF PresentedNamed
<1> QED BY <1>1, <1>2, <1>3, <1>4, <1>5, <1>6, <1>7, <1>8

(* Its IVT entry is made the index.                                        *)
LEMMA RequestIvtInv ==
  ASSUME IInv, RequestIvt
  PROVE  IInv'
<1> USE VectorAssumption DEF IInv, TypeOK, tableVars, vicVars, driverVars, handlerVars, RequestIvt, Return
<1>1. TypeOK'
  OBVIOUS
<1>2. LockOwner'
  BY DEF LockOwner, InRequest
<1>3. DidIsVector'
  BY DEF DidIsVector
<1>4. VicHasTable'
  BY DEF VicHasTable
<1>5. TablesFollow'
  BY DEF TablesFollow, Indexed
<1>6. MasterHasVic'
  BY DEF MasterHasVic, InRequest
<1>7. HandlersHeld'
  BY DEF HandlersHeld
<1>8. PresentedNamed'
  BY DEF PresentedNamed
<1> QED BY <1>1, <1>2, <1>3, <1>4, <1>5, <1>6, <1>7, <1>8

(* Its handler is set.                                                     *)
LEMMA RequestTableInv ==
  ASSUME IInv, RequestTable
  PROVE  IInv'
<1> USE VectorAssumption DEF IInv, TypeOK, tableVars, vicVars, driverVars, handlerVars, RequestTable, Return
<1>1. TypeOK'
  BY DEF DidIsVector
<1>2. LockOwner'
  BY DEF LockOwner, InRequest
<1>3. DidIsVector'
  BY DEF DidIsVector
<1>4. VicHasTable'
  BY DEF VicHasTable
<1>5. TablesFollow'
  BY DEF TablesFollow, Indexed
<1>6. MasterHasVic'
  BY DEF MasterHasVic, InRequest
<1>7. HandlersHeld'
  BY DEF HandlersHeld
<1>8. PresentedNamed'
  BY DEF PresentedNamed
<1> QED BY <1>1, <1>2, <1>3, <1>4, <1>5, <1>6, <1>7, <1>8

(* It is enabled, with index and handler in place.                         *)
LEMMA RequestEnableInv ==
  ASSUME IInv, RequestEnable
  PROVE  IInv'
<1> USE VectorAssumption DEF IInv, TypeOK, tableVars, vicVars, driverVars, handlerVars, RequestEnable, Return
<1>1. TypeOK'
  BY DEF DidIsVector
<1>2. LockOwner'
  BY DEF LockOwner, InRequest, InFree
<1>3. DidIsVector'
  BY DEF DidIsVector
<1>4. VicHasTable'
  BY DEF VicHasTable
<1>5. TablesFollow'
  BY DEF TablesFollow, Indexed
<1>6. MasterHasVic'
  BY DEF MasterHasVic, InRequest
<1>7. HandlersHeld'
  BY DEF HandlersHeld, MasterHasVic, InRequest
<1>8. PresentedNamed'
  BY DEF PresentedNamed
<1> QED BY <1>1, <1>2, <1>3, <1>4, <1>5, <1>6, <1>7, <1>8

(* The master handler of the first request.                                *)
LEMMA HookInv ==
  ASSUME IInv, Hook
  PROVE  IInv'
<1> USE VectorAssumption DEF IInv, TypeOK, tableVars, vicVars, driverVars, handlerVars, Hook, Return
<1>1. TypeOK'
  BY DEF DidIsVector
<1>2. LockOwner'
  BY DEF LockOwner, InRequest, InFree
<1>3. DidIsVector'
  BY DEF DidIsVector
<1>4. VicHasTable'
  BY DEF VicHasTable
<1>5. TablesFollow'
  BY DEF TablesFollow, Indexed
<1>6. MasterHasVic'
  BY DEF MasterHasVic, VicHasTable
<1>7. HandlersHeld'
  BY DEF HandlersHeld, MasterHasVic
<1>8. PresentedNamed'
  BY DEF PresentedNamed
<1> QED BY <1>1, <1>2, <1>3, <1>4, <1>5, <1>6, <1>7, <1>8

(* A free takes the lock.                                                  *)
LEMMA FreeEnterInv ==
  ASSUME IInv, NEW id \in Vector \cup {Unknown}, FreeEnter(id)
  PROVE  IInv'
<1> USE VectorAssumption DEF IInv, TypeOK, tableVars, vicVars, driverVars, handlerVars, FreeEnter, Return
<1>1. TypeOK'
  OBVIOUS
<1>2. LockOwner'
  BY DEF LockOwner, InFree
<1>3. DidIsVector'
  BY DEF DidIsVector
<1>4. VicHasTable'
  BY DEF VicHasTable
<1>5. TablesFollow'
  BY DEF TablesFollow, Indexed
<1>6. MasterHasVic'
  BY DEF MasterHasVic, InRequest
<1>7. HandlersHeld'
  BY DEF HandlersHeld
<1>8. PresentedNamed'
  BY DEF PresentedNamed
<1> QED BY <1>1, <1>2, <1>3, <1>4, <1>5, <1>6, <1>7, <1>8

(* The vector is disabled, before ...                                      *)
LEMMA FreeDisableInv ==
  ASSUME IInv, FreeDisable
  PROVE  IInv'
<1> USE VectorAssumption DEF IInv, TypeOK, tableVars, vicVars, driverVars, handlerVars, FreeDisable, Return
<1>1. TypeOK'
  OBVIOUS
<1>2. LockOwner'
  BY DEF LockOwner, InFree
<1>3. DidIsVector'
  BY DEF DidIsVector
<1>4. VicHasTable'
  BY DEF VicHasTable
<1>5. TablesFollow'
  BY DEF TablesFollow, Indexed
<1>6. MasterHasVic'
  BY DEF MasterHasVic, InRequest
<1>7. HandlersHeld'
  BY DEF HandlersHeld
<1>8. PresentedNamed'
  BY DEF PresentedNamed
<1> QED BY <1>1, <1>2, <1>3, <1>4, <1>5, <1>6, <1>7, <1>8

(* ... its IVT entry is restored.                                          *)
LEMMA FreeRestoreInv ==
  ASSUME IInv, FreeRestore
  PROVE  IInv'
<1> USE VectorAssumption DEF IInv, TypeOK, tableVars, vicVars, driverVars, handlerVars, FreeRestore, Return
<1>1. TypeOK'
  OBVIOUS
<1>2. LockOwner'
  BY DEF LockOwner, InFree
<1>3. DidIsVector'
  BY DEF DidIsVector
<1>4. VicHasTable'
  BY DEF VicHasTable
<1>5. TablesFollow'
  BY DEF TablesFollow, Indexed
<1>6. MasterHasVic'
  BY DEF MasterHasVic, InRequest
<1>7. HandlersHeld'
  BY DEF HandlersHeld
<1>8. PresentedNamed'
  BY DEF PresentedNamed
<1> QED BY <1>1, <1>2, <1>3, <1>4, <1>5, <1>6, <1>7, <1>8

(* Its handler goes; with the last one the VIC.                            *)
LEMMA FreeClearInv ==
  ASSUME IInv, FreeClear
  PROVE  IInv'
<1> USE VectorAssumption DEF IInv, TypeOK, tableVars, vicVars, driverVars, handlerVars, FreeClear, Return
<1>1. TypeOK'
  OBVIOUS
<1>2. LockOwner'
  BY DEF LockOwner, InRequest, InFree
<1>3. DidIsVector'
  BY DEF DidIsVector
<1>4. VicHasTable'
  BY DEF VicHasTable
<1>5. TablesFollow'
  BY DEF TablesFollow, Indexed
<1>6. MasterHasVic'
  BY DEF MasterHasVic, InRequest
<1>7. HandlersHeld'
  BY DEF HandlersHeld, LockOwner, InFree
<1>8. PresentedNamed'
  BY DEF PresentedNamed
<1> QED BY <1>1, <1>2, <1>3, <1>4, <1>5, <1>6, <1>7, <1>8

(* The master handler is taken off the list.                               *)
LEMMA UnhookInv ==
  ASSUME IInv, Unhook
  PROVE  IInv'
<1> USE VectorAssumption DEF IInv, TypeOK, tableVars, vicVars, driverVars, handlerVars, Unhook, Return
<1>1. TypeOK'
  OBVIOUS
<1>2. LockOwner'
  BY DEF LockOwner, InFree
<1>3. DidIsVector'
  BY DEF DidIsVector
<1>4. VicHasTable'
  BY DEF VicHasTable
<1>5. TablesFollow'
  BY DEF TablesFollow, Indexed
<1>6. MasterHasVic'
  BY DEF MasterHasVic, VicHasTable
<1>7. HandlersHeld'
  BY DEF HandlersHeld
<1>8. PresentedNamed'
  BY DEF PresentedNamed
<1> QED BY <1>1, <1>2, <1>3, <1>4, <1>5, <1>6, <1>7, <1>8

(* Nobody is in it when the lock is released.                              *)
LEMMA SynchronizeInv ==
  ASSUME IInv, Synchronize
  PROVE  IInv'
<1> USE VectorAssumption DEF IInv, TypeOK, tableVars, vicVars, driverVars, handlerVars, Synchronize, Return
<1>1. TypeOK'
  OBVIOUS
<1>2. LockOwner'
  BY DEF LockOwner, InRequest, InFree
<1>3. DidIsVector'
  BY DEF DidIsVector
<1>4. VicHasTable'
  BY DEF VicHasTable
<1>5. TablesFollow'
  BY DEF TablesFollow, Indexed
<1>6. MasterHasVic'
  BY DEF MasterHasVic
<1>7. HandlersHeld'
  BY DEF HandlersHeld, VicHasTable
<1>8. PresentedNamed'
  BY DEF PresentedNamed
<1> QED BY <1>1, <1>2, <1>3, <1>4, <1>5, <1>6, <1>7, <1>8

(* The host calls the master handler.                                      *)
LEMMA HandlerEnterInv ==
  ASSUME IInv, HandlerEnter
  PROVE  IInv'
<1> USE VectorAssumption DEF IInv, TypeOK, tableVars, vicVars, driverVars, handlerVars, HandlerEnter
<1>1. TypeOK'
  OBVIOUS
<1>2. LockOwner'
  BY DEF LockOwner
<1>3. DidIsVector'
  BY DEF DidIsVector
<1>4. VicHasTable'
  BY DEF VicHasTable
<1>5. TablesFollow'
  BY DEF TablesFollow, Indexed
<1>6. MasterHasVic'
  BY DEF MasterHasVic
<1>7. HandlersHeld'
  BY DEF HandlersHeld
<1>8. PresentedNamed'
  BY DEF PresentedNamed
<1> QED BY <1>1, <1>2, <1>3, <1>4, <1>5, <1>6, <1>7, <1>8

(* It gets the lock between calls of the driver.                           *)
LEMMA HandlerLockInv ==
  ASSUME IInv, HandlerLock
  PROVE  IInv'
<1> USE VectorAssumption DEF IInv, TypeOK, tableVars, vicVars, driverVars, handlerVars, HandlerLock
<1>1. TypeOK'
  OBVIOUS
<1>2. LockOwner'
  BY DEF LockOwner
<1>3. DidIsVector'
  BY DEF DidIsVector
<1>4. VicHasTable'
  BY DEF VicHasTable
<1>5. TablesFollow'
  BY DEF TablesFollow, Indexed
<1>6. MasterHasVic'
  BY DEF MasterHasVic
<1>7. HandlersHeld'
  BY DEF HandlersHeld
<1>8. PresentedNamed'
  BY DEF PresentedNamed
<1> QED BY <1>1, <1>2, <1>3, <1>4, <1>5, <1>6, <1>7, <1>8

(* The index read from VAR has a handler, or is passed over.               *)
LEMMA DispatchInv ==
  ASSUME IInv, Dispatch
  PROVE  IInv'
<1> USE VectorAssumption DEF IInv, TypeOK, tableVars, vicVars, driverVars, handlerVars, Dispatch
<1>1. TypeOK'
  OBVIOUS
<1>2. LockOwner'
  BY DEF LockOwner
<1>3. DidIsVector'
  BY DEF DidIsVector
<1>4. VicHasTable'
  BY DEF VicHasTable
<1>5. TablesFollow'
  BY DEF TablesFollow, Indexed
<1>6. MasterHasVic'
  BY DEF MasterHasVic
<1>7. HandlersHeld'
  BY DEF HandlersHeld
<1>8. PresentedNamed'
  BY DEF PresentedNamed
<1> QED BY <1>1, <1>2, <1>3, <1>4, <1>5, <1>6, <1>7, <1>8

(* The handler returns.                                                    *)
LEMMA CallInv ==
  ASSUME IInv, Call
  PROVE  IInv'
<1> USE VectorAssumption DEF IInv, TypeOK, tableVars, vicVars, driverVars, handlerVars, Call
<1>1. TypeOK'
  OBVIOUS
<1>2. LockOwner'
  BY DEF LockOwner
<1>3. DidIsVector'
  BY DEF DidIsVector
<1>4. VicHasTable'
  BY DEF VicHasTable
<1>5. TablesFollow'
  BY DEF TablesFollow, Indexed
<1>6. MasterHasVic'
  BY DEF MasterHasVic
<1>7. HandlersHeld'
  BY DEF HandlersHeld
<1>8. PresentedNamed'
  BY DEF PresentedNamed
<1> QED BY <1>1, <1>2, <1>3, <1>4, <1>5, <1>6, <1>7, <1>8

(* Acknowledge and unlock.                                                 *)
LEMMA HandlerEndInv ==
  ASSUME IInv, HandlerEnd
  PROVE  IInv'
<1> USE VectorAssumption DEF IInv, TypeOK, tableVars, vicVars, driverVars, handlerVars, HandlerEnd
<1>1. TypeOK'
  OBVIOUS
<1>2. LockOwner'
  BY DEF LockOwner
<1>3. DidIsVector'
  BY DEF DidIsVector
<1>4. VicHasTable'
  BY DEF VicHasTable
<1>5. TablesFollow'
  BY DEF TablesFollow, Indexed
<1>6. MasterHasVic'
  BY DEF MasterHasVic
<1>7. HandlersHeld'
  BY DEF HandlersHeld
<1>8. PresentedNamed'
  BY DEF PresentedNamed
<1> QED BY <1>1, <1>2, <1>3, <1>4, <1>5, <1>6, <1>7, <1>8

(* The VIC presents a vector that is enabled, thus indexed.                *)
LEMMA VicRaiseInv ==
  ASSUME IInv, NEW v \in Vector, VicRaise(v)
  PROVE  IInv'
<1> USE VectorAssumption DEF IInv, TypeOK, tableVars, vicVars, driverVars, handlerVars, VicRaise
<1>1. TypeOK'
  OBVIOUS
<1>2. LockOwner'
  BY DEF LockOwner
<1>3. DidIsVector'
  BY DEF DidIsVector
<1>4. VicHasTable'
  BY DEF VicHasTable
<1>5. TablesFollow'
  BY DEF TablesFollow, Indexed
<1>6. MasterHasVic'
  BY DEF MasterHasVic
<1>7. HandlersHeld'
  BY DEF HandlersHeld
<1>8. PresentedNamed'
  BY DEF PresentedNamed, TablesFollow, Indexed
<1> QED BY <1>1, <1>2, <1>3, <1>4, <1>5, <1>6, <1>7, <1>8

(* Every step preserves the invariant.                                     *)
LEMMA NextInv == IInv /\ [Next]_vars => IInv'
<1> SUFFICES ASSUME IInv, [Next]_vars PROVE IInv'
  OBVIOUS
<1>1. CASE Driver
  BY <1>1, RequestEnterInv, VicInitInv, FindInv, RequestIvtInv, RequestTableInv, RequestEnableInv, HookInv,
     FreeEnterInv, FreeDisableInv, FreeRestoreInv, FreeClearInv, UnhookInv, SynchronizeInv DEF Driver
<1>2. CASE Handler
  BY <1>2, HandlerEnterInv, HandlerLockInv, DispatchInv, CallInv, HandlerEndInv DEF Handler
<1>3. CASE \E v \in Vector : VicRaise(v)
  BY <1>3, VicRaiseInv
<1>4. CASE UNCHANGED vars
  BY <1>4 DEF vars, tableVars, vicVars, driverVars, handlerVars, IInv, TypeOK, LockOwner,
     DidIsVector, VicHasTable, TablesFollow, Indexed, MasterHasVic, HandlersHeld, PresentedNamed
<1> QED BY <1>1, <1>2, <1>3, <1>4 DEF Next

(* It holds throughout.                                                    *)
LEMMA Invariance == Spec => []IInv
BY InitInv, NextInv, PTL DEF Spec

-----------------------------------------------------------------------------
(* The request table keeps its types, for every set of vectors.            *)
THEOREM TypeCorrect == Spec => []TypeOK
BY Invariance, PTL DEF IInv

(* Table, IVT and enable mask agree between the driver's calls.            *)
THEOREM TablesCorrect == Spec => []TablesAgree
<1>1. IInv => TablesAgree
  BY DEF IInv, TablesFollow, Indexed, VicHasTable, TablesAgree
<1> QED BY <1>1, Invariance, PTL

(* VAR holds the index of the vector that the VIC presents.                *)
THEOREM PresentedCorrect == Spec => []PresentedNamed
BY Invariance, PTL DEF IInv

(* Only handlers of interrupts that are held are called.                   *)
THEOREM CallCorrect == Spec => []CallOnlyHeld
<1>1. IInv => CallOnlyHeld
  BY DEF IInv, LockOwner, InRequest, InFree, MasterHasVic, HandlersHeld, CallOnlyHeld
<1> QED BY <1>1, Invariance, PTL

(* The acknowledge finds spec->vic.                                        *)
THEOREM VicThereCorrect == Spec => []VicThere
<1>1. IInv => VicThere
  BY DEF IInv, LockOwner, InFree, MasterHasVic, VicThere
<1> QED BY <1>1, Invariance, PTL

(* Whatever the master handler does meanwhile, it finds what it needs.     *)
THEOREM HandlerCorrect == Spec => []HandlerSafe
BY CallCorrect, VicThereCorrect, PTL DEF HandlerSafe

-----------------------------------------------------------------------------
(* SpecLifecycle with one caller.  The inductive invariant follows the      *)
(* caller: its place tells which device there is and who may be loading.    *)

OneCaller == \E c : Caller = {c}

Absent == ~registered /\ fmc = NoDev /\ \A d \in Dev : mem[d] = "none"

Present(m) ==
  /\ fmc \in Dev
  /\ mem[fmc] = m
  /\ \A d \in Dev : d # fmc => mem[d] = "none"

Making == {"check", "i2c", "irq", "register", "gateware", "add", "outIrq", "outFree"}

\* The device there is, by the place of the caller.
DeviceOf(c) ==
  /\ pc[c] \in {"idle", "reconfigure"} =>
       (registered => Present("onBus")) /\ (~registered => Absent)
  /\ pc[c] \in {"unregister", "misc"} => registered /\ Present("onBus")
  /\ pc[c] \in {"irqExit", "forget"} => registered /\ Present("made")
  /\ pc[c] \in {"fetch", "golden", "create", "unmap"} => Absent
  /\ pc[c] \in Making => ~registered /\ Present("made") /\ mine[c] = fmc
  /\ pc[c] = "flag" => ~registered /\ Present("onBus") /\ mine[c] = fmc

\* The call it is in, and what is there for the next one.
CallOf(c) ==
  /\ pc[c] \in {"fetch", "golden", "create", "flag"} \cup Making =>
       job[c] \in {"probe", "write"}
  /\ pc[c] = "misc" => job[c] = "probe"
  /\ pc[c] = "unmap" => job[c] \in {"probe", "remove", "undo"}
  /\ pc[c] # "idle" => job[c] # "none" /\ bound
  /\ pc[c] # "idle" => (misc <=> job[c] = "write")
  /\ pc[c] = "idle" => (misc <=> bound)
  /\ pc[c] \in {"idle", "reconfigure"} /\ registered => bound
  /\ pc[c] = "idle" /\ job[c] \in {"probe", "write", "undo"} =>
       (registered <=> ret[c] = "ok")

\* Without a test the interrupts are set up only for a device.
IrqSetUp(c) ==
  ~testIrq /\ irqCfg =>
    \/ registered /\ pc[c] # "forget"
    \/ pc[c] \in {"register", "gateware", "add", "outIrq", "flag"}

\* Who loads the FPGA.
Loader(c) ==
  /\ load[c] # "none" <=> pc[c] \in {"golden", "gateware"}
  /\ \A d \in Dev : load[d] # "none" <=> drv[d] = "loading"
  /\ \A p \in Process : load[p] # "none" => img[p] \in Image

\* A device off the bus has no driver, and one that is not allocated no data.
DevicesClean ==
  /\ \A d \in Dev : mem[d] # "onBus" => drv[d] = "out"
  /\ \A d \in Dev : mem[d] = "none" =>
       d \notin golden /\ d \notin custom /\ sdb[d] = "none"

\* What a load has done to the FPGA.
LoadsKnown ==
  /\ fcl = "done" => fpga # "blank"
  /\ \A p \in Process :
       /\ load[p] = "words" => stream = "none" /\ fcl = "clear"
       /\ load[p] = "ok" => fcl = "done"
       /\ ~resetFails /\ load[p] = "wait" => stream = img[p]
       /\ ~resetFails /\ load[p] \in {"wait", "ok"} /\ fcl = "done" => fpga = img[p]
       /\ ~resetFails /\ load[p] = "wait" /\ fcl = "done" => stream = img[p]

\* Flag and tree are of a gateware that runs and of a device that nobody loads
\* anything for; from check_golden on the golden gateware is golden.
FlagsKnown ==
  /\ \A d \in Dev : d \in golden => fpga = "golden" \/ (resetFails /\ d \in custom)
  /\ \A d \in Dev : sdb[d] # "none" => sdb[d] = fpga
  /\ \A d \in Dev : d \in golden \/ sdb[d] # "none" =>
       fcl = "done" /\ \A p \in Process : load[p] = "none"
  /\ \A d \in Dev : drv[d] = "eeprom" => d \in golden
  /\ \A d \in Dev : byName[d] /\ drv[d] = "loading" => img[d] = goldenFile

\* What a successful load of the golden gateware and check_golden let the caller
\* rely on.
GoldenSeen(c) ==
  /\ pc[c] \in {"create", "check"} => fcl = "done"
  /\ pc[c] \in {"create", "check"} /\ ~resetFails => fpga = goldenFile
  /\ pc[c] = "golden" => img[c] = goldenFile
  /\ pc[c] = "i2c" => fpga = "golden" /\ fcl = "done"
  /\ ~resetFails /\ (\E d \in Dev : mem[d] = "onBus") => goldenFile = "golden"
  /\ ~resetFails /\ pc[c] \in {"i2c", "irq", "register", "gateware", "add"} =>
       goldenFile = "golden"

CardInv ==
  /\ CardTypeOK
  /\ DevicesClean
  /\ LoadsKnown
  /\ FlagsKnown
  /\ \A c \in Caller :
       DeviceOf(c) /\ CallOf(c) /\ IrqSetUp(c) /\ Loader(c) /\ GoldenSeen(c)

LEMMA LoadResetInv ==
  ASSUME NEW c \in Caller, Caller = {c}, NEW p \in Process, CardInv, LoadReset(p)
  PROVE  CardInv'
<1> USE LifecycleAssumption DEF CardInv, CardTypeOK, BoardTypeOK,
      DeviceTypeOK, CallTypeOK, Process, Image, LoadReset, params, card,
      devices, chip, callers, drivers
<1>1. BoardTypeOK' /\ DeviceTypeOK' /\ CallTypeOK'  OBVIOUS
<1>2. DevicesClean' /\ FlagsKnown' /\ DeviceOf(c)' /\ CallOf(c)' /\
      IrqSetUp(c)' /\ Loader(c)'
  BY DEF DevicesClean, FlagsKnown, DeviceOf, CallOf, IrqSetUp, Loader,
         Making, Absent, Present
<1>3. LoadsKnown'
  BY DEF LoadsKnown, Loader, DevicesClean, DeviceOf, Making, Absent,
         Present
<1>4. GoldenSeen(c)'
  BY DEF GoldenSeen, Loader, DevicesClean, DeviceOf, Making, Absent,
         Present
<1> QED BY <1>1, <1>2, <1>3, <1>4

LEMMA LoadWordsInv ==
  ASSUME NEW c \in Caller, Caller = {c}, NEW p \in Process, CardInv, LoadWords(p)
  PROVE  CardInv'
<1> USE LifecycleAssumption DEF CardInv, CardTypeOK, BoardTypeOK,
      DeviceTypeOK, CallTypeOK, Process, Image, LoadWords, params, card,
      devices, callers, drivers
<1>1. BoardTypeOK' /\ DeviceTypeOK' /\ CallTypeOK'  OBVIOUS
<1>2. DevicesClean' /\ FlagsKnown' /\ DeviceOf(c)' /\ CallOf(c)' /\
      IrqSetUp(c)' /\ Loader(c)' /\ GoldenSeen(c)'
  BY DEF DevicesClean, FlagsKnown, DeviceOf, CallOf, IrqSetUp, Loader,
         GoldenSeen, Making, Absent, Present
<1>3. LoadsKnown'
  BY DEF LoadsKnown, Loader, DevicesClean, DeviceOf, Making, Absent,
         Present
<1> QED BY <1>1, <1>2, <1>3

LEMMA LoadWaitInv ==
  ASSUME NEW c \in Caller, Caller = {c}, NEW p \in Process, CardInv, LoadWait(p)
  PROVE  CardInv'
<1> USE LifecycleAssumption DEF CardInv, CardTypeOK, BoardTypeOK,
      DeviceTypeOK, CallTypeOK, Process, Image, LoadWait, params, card, devices,
      chip, callers, drivers
<1>1. BoardTypeOK' /\ DeviceTypeOK' /\ CallTypeOK'  OBVIOUS
<1>2. DevicesClean' /\ LoadsKnown' /\ FlagsKnown' /\ DeviceOf(c)' /\
      CallOf(c)' /\ IrqSetUp(c)' /\ Loader(c)' /\ GoldenSeen(c)'
  BY DEF DevicesClean, LoadsKnown, FlagsKnown, DeviceOf, CallOf,
         IrqSetUp, Loader, GoldenSeen, Making, Absent, Present
<1> QED BY <1>1, <1>2

LEMMA HwConfigureInv ==
  ASSUME NEW c \in Caller, Caller = {c}, CardInv, HwConfigure
  PROVE  CardInv'
<1> USE LifecycleAssumption DEF CardInv, CardTypeOK, BoardTypeOK,
      DeviceTypeOK, CallTypeOK, Process, Image, HwConfigure, params, card,
      devices, loads, callers, drivers
<1>1. BoardTypeOK' /\ DeviceTypeOK' /\ CallTypeOK'  OBVIOUS
<1>2. DevicesClean' /\ LoadsKnown' /\ FlagsKnown' /\ DeviceOf(c)' /\
      CallOf(c)' /\ IrqSetUp(c)' /\ Loader(c)' /\ GoldenSeen(c)'
  BY DEF DevicesClean, LoadsKnown, FlagsKnown, DeviceOf, CallOf,
         IrqSetUp, Loader, GoldenSeen, Making, Absent, Present
<1> QED BY <1>1, <1>2

LEMMA ProbeInv ==
  ASSUME NEW c \in Caller, Caller = {c}, CardInv, Probe(c)
  PROVE  CardInv'
<1> USE LifecycleAssumption DEF CardInv, CardTypeOK, BoardTypeOK,
      DeviceTypeOK, CallTypeOK, Process, Image, Probe, Begin, Serial, Goto,
      params, devices, chip, loads, drivers
<1>1. BoardTypeOK' /\ DeviceTypeOK' /\ CallTypeOK'  OBVIOUS
<1>2. DevicesClean' /\ LoadsKnown' /\ FlagsKnown' /\ CallOf(c)' /\
      IrqSetUp(c)' /\ Loader(c)' /\ GoldenSeen(c)'
  BY DEF DevicesClean, LoadsKnown, FlagsKnown, CallOf, IrqSetUp,
         Loader, GoldenSeen, Making
<1>3. DeviceOf(c)'  BY DEF DeviceOf, CallOf, Making, Absent, Present
<1> QED BY <1>1, <1>2, <1>3

LEMMA WriteInv ==
  ASSUME NEW c \in Caller, Caller = {c}, CardInv, Write(c)
  PROVE  CardInv'
<1> USE LifecycleAssumption DEF CardInv, CardTypeOK, BoardTypeOK,
      DeviceTypeOK, CallTypeOK, Process, Image, Write, Begin, Goto, params,
      card, devices, chip, loads, drivers
<1>1. BoardTypeOK' /\ DeviceTypeOK' /\ CallTypeOK'  OBVIOUS
<1>2. DevicesClean' /\ LoadsKnown' /\ FlagsKnown' /\ DeviceOf(c)' /\
      CallOf(c)' /\ IrqSetUp(c)' /\ Loader(c)' /\ GoldenSeen(c)'
  BY DEF DevicesClean, LoadsKnown, FlagsKnown, DeviceOf, CallOf,
         IrqSetUp, Loader, GoldenSeen, Making, Absent, Present
<1> QED BY <1>1, <1>2

LEMMA RemoveInv ==
  ASSUME NEW c \in Caller, Caller = {c}, CardInv, Remove(c)
  PROVE  CardInv'
<1> USE LifecycleAssumption DEF CardInv, CardTypeOK, BoardTypeOK,
      DeviceTypeOK, CallTypeOK, Process, Image, Remove, Begin, Serial, Goto,
      params, devices, chip, loads, drivers
<1>0. misc' \in BOOLEAN
  BY Zenon DEF Remove
<1>1. BoardTypeOK' /\ DeviceTypeOK' /\ CallTypeOK'  BY <1>0
<1>2. DevicesClean' /\ LoadsKnown' /\ FlagsKnown' /\ DeviceOf(c)' /\
      CallOf(c)' /\ IrqSetUp(c)' /\ Loader(c)' /\ GoldenSeen(c)'
  BY DEF DevicesClean, LoadsKnown, FlagsKnown, DeviceOf, CallOf,
         IrqSetUp, Loader, GoldenSeen, Making, Absent, Present
<1> QED BY <1>1, <1>2

LEMMA DestroyEnterInv ==
  ASSUME NEW c \in Caller, Caller = {c}, CardInv, DestroyEnter(c)
  PROVE  CardInv'
<1> USE LifecycleAssumption DEF CardInv, CardTypeOK, BoardTypeOK,
      DeviceTypeOK, CallTypeOK, Process, Image, DestroyEnter, Goto,
      AfterDestroy, params, card, devices, chip, loads, drivers
<1>1. BoardTypeOK' /\ DeviceTypeOK' /\ CallTypeOK'  OBVIOUS
<1>2. DevicesClean' /\ LoadsKnown' /\ FlagsKnown' /\ DeviceOf(c)' /\
      CallOf(c)' /\ IrqSetUp(c)' /\ Loader(c)' /\ GoldenSeen(c)'
  BY DEF DevicesClean, LoadsKnown, FlagsKnown, DeviceOf, CallOf,
         IrqSetUp, Loader, GoldenSeen, Making, Absent, Present
<1> QED BY <1>1, <1>2

LEMMA UnregisterInv ==
  ASSUME NEW c \in Caller, Caller = {c}, CardInv, Unregister(c)
  PROVE  CardInv'
<1> USE LifecycleAssumption DEF CardInv, CardTypeOK, BoardTypeOK,
      DeviceTypeOK, CallTypeOK, Process, Image, Unregister, Goto, params, card,
      chip, loads
<1>1. BoardTypeOK' /\ DeviceTypeOK' /\ CallTypeOK'  OBVIOUS
<1>2. DevicesClean' /\ LoadsKnown' /\ FlagsKnown' /\ DeviceOf(c)' /\
      CallOf(c)' /\ IrqSetUp(c)' /\ Loader(c)' /\ GoldenSeen(c)'
  BY DEF DevicesClean, LoadsKnown, FlagsKnown, DeviceOf, CallOf,
         IrqSetUp, Loader, GoldenSeen, Making, Absent, Present
<1> QED BY <1>1, <1>2

LEMMA IrqExitInv ==
  ASSUME NEW c \in Caller, Caller = {c}, CardInv, IrqExit(c)
  PROVE  CardInv'
<1> USE LifecycleAssumption DEF CardInv, CardTypeOK, BoardTypeOK,
      DeviceTypeOK, CallTypeOK, Process, Image, IrqExit, Goto, params, devices,
      chip, loads, drivers
<1>0. irqCfg' \in BOOLEAN
  BY Zenon DEF IrqExit
<1>1. BoardTypeOK' /\ DeviceTypeOK' /\ CallTypeOK'  BY <1>0
<1>2. DevicesClean' /\ LoadsKnown' /\ FlagsKnown' /\ DeviceOf(c)' /\
      CallOf(c)' /\ IrqSetUp(c)' /\ Loader(c)' /\ GoldenSeen(c)'
  BY DEF DevicesClean, LoadsKnown, FlagsKnown, DeviceOf, CallOf,
         IrqSetUp, Loader, GoldenSeen, Making, Absent, Present
<1> QED BY <1>1, <1>2

LEMMA ForgetInv ==
  ASSUME NEW c \in Caller, Caller = {c}, CardInv, Forget(c)
  PROVE  CardInv'
<1> USE LifecycleAssumption DEF CardInv, CardTypeOK, BoardTypeOK,
      DeviceTypeOK, CallTypeOK, Process, Image, Forget, Goto, Discard,
      AfterDestroy, params, chip, loads, drivers
<1>0. registered' \in BOOLEAN
  BY Zenon DEF Forget
<1>1. BoardTypeOK' /\ DeviceTypeOK' /\ CallTypeOK'  BY <1>0
<1>2. LoadsKnown' /\ DeviceOf(c)' /\ CallOf(c)' /\ IrqSetUp(c)' /\
      Loader(c)' /\ GoldenSeen(c)'
  BY DEF LoadsKnown, DeviceOf, CallOf, IrqSetUp, Loader, GoldenSeen,
         Making, Absent, Present
<1>3. DevicesClean'  BY DEF DevicesClean, DeviceOf, Making, Absent, Present
<1>4. FlagsKnown'
  BY DEF FlagsKnown, DevicesClean, DeviceOf, Loader, Making, Absent,
         Present
<1> QED BY <1>1, <1>2, <1>3, <1>4

LEMMA FetchInv ==
  ASSUME NEW c \in Caller, Caller = {c}, CardInv, Fetch(c)
  PROVE  CardInv'
<1> USE LifecycleAssumption DEF CardInv, CardTypeOK, BoardTypeOK,
      DeviceTypeOK, CallTypeOK, Process, Image, Fetch, Goto, Fail, StartLoad,
      CallReturn, params, card, devices, chip, loads, drivers
<1>1. BoardTypeOK' /\ DeviceTypeOK' /\ CallTypeOK'  OBVIOUS
<1>2. DevicesClean' /\ LoadsKnown' /\ DeviceOf(c)' /\ IrqSetUp(c)' /\
      Loader(c)' /\ GoldenSeen(c)'
  BY DEF DevicesClean, LoadsKnown, DeviceOf, IrqSetUp, Loader,
         GoldenSeen, Making, Absent, Present
<1>3. FlagsKnown'
  BY DEF FlagsKnown, DevicesClean, DeviceOf, Loader, Making, Absent,
         Present
<1>4. CallOf(c)'  BY DEF CallOf, DeviceOf, Making, Absent, Present
<1> QED BY <1>1, <1>2, <1>3, <1>4

LEMMA GoldenLoadedInv ==
  ASSUME NEW c \in Caller, Caller = {c}, CardInv, GoldenLoaded(c)
  PROVE  CardInv'
<1> USE LifecycleAssumption DEF CardInv, CardTypeOK, BoardTypeOK,
      DeviceTypeOK, CallTypeOK, Process, Image, GoldenLoaded, Goto, Fail,
      EndLoad, CallReturn, params, card, devices, chip, drivers
<1>1. BoardTypeOK' /\ DeviceTypeOK' /\ CallTypeOK'  OBVIOUS
<1>2. DevicesClean' /\ LoadsKnown' /\ FlagsKnown' /\ DeviceOf(c)' /\
      IrqSetUp(c)' /\ Loader(c)'
  BY DEF DevicesClean, LoadsKnown, FlagsKnown, DeviceOf, IrqSetUp,
         Loader, Making, Absent, Present
<1>3. CallOf(c)'  BY DEF CallOf, DeviceOf, Making, Absent, Present
<1>4. GoldenSeen(c)'  BY DEF GoldenSeen, LoadsKnown
<1> QED BY <1>1, <1>2, <1>3, <1>4

LEMMA CreateInv ==
  ASSUME NEW c \in Caller, Caller = {c}, CardInv, Create(c)
  PROVE  CardInv'
<1> USE LifecycleAssumption DEF CardInv, CardTypeOK, BoardTypeOK,
      DeviceTypeOK, CallTypeOK, Process, Image, Create, Goto, Fail, CallReturn,
      params, chip, loads, drivers
<1>1. BoardTypeOK' /\ DeviceTypeOK' /\ CallTypeOK'  OBVIOUS
<1>2. DevicesClean' /\ LoadsKnown' /\ FlagsKnown' /\ DeviceOf(c)' /\
      IrqSetUp(c)' /\ Loader(c)' /\ GoldenSeen(c)'
  BY DEF DevicesClean, LoadsKnown, FlagsKnown, DeviceOf, IrqSetUp,
         Loader, GoldenSeen, Making, Absent, Present
<1>3. CallOf(c)'  BY DEF CallOf, DeviceOf, Making, Absent, Present
<1> QED BY <1>1, <1>2, <1>3

LEMMA CheckGoldenInv ==
  ASSUME NEW c \in Caller, Caller = {c}, CardInv, CheckGolden(c)
  PROVE  CardInv'
<1> USE LifecycleAssumption DEF CardInv, CardTypeOK, BoardTypeOK,
      DeviceTypeOK, CallTypeOK, Process, Image, CheckGolden, Goto, params, card,
      chip, loads, drivers
<1>1. BoardTypeOK' /\ DeviceTypeOK' /\ CallTypeOK'
  BY DEF DeviceOf, Making, Absent, Present
<1>2. LoadsKnown' /\ DeviceOf(c)' /\ CallOf(c)' /\ IrqSetUp(c)' /\
      Loader(c)' /\ GoldenSeen(c)'
  BY DEF LoadsKnown, DeviceOf, CallOf, IrqSetUp, Loader, GoldenSeen,
         Making, Absent, Present
<1>3. DevicesClean'  BY DEF DevicesClean, DeviceOf, Making, Absent, Present
<1>4. FlagsKnown'
  BY DEF FlagsKnown, DevicesClean, DeviceOf, Loader, GoldenSeen,
         Making, Absent, Present
<1> QED BY <1>1, <1>2, <1>3, <1>4

LEMMA I2cInitInv ==
  ASSUME NEW c \in Caller, Caller = {c}, CardInv, I2cInit(c)
  PROVE  CardInv'
<1> USE LifecycleAssumption DEF CardInv, CardTypeOK, BoardTypeOK,
      DeviceTypeOK, CallTypeOK, Process, Image, I2cInit, Goto, params, chip,
      loads, drivers
<1>0. fake' \in BOOLEAN
  BY Zenon DEF I2cInit
<1>1. BoardTypeOK' /\ DeviceTypeOK' /\ CallTypeOK'  BY <1>0
<1>2. DevicesClean' /\ LoadsKnown' /\ FlagsKnown' /\ DeviceOf(c)' /\
      CallOf(c)' /\ IrqSetUp(c)' /\ Loader(c)' /\ GoldenSeen(c)'
  BY DEF DevicesClean, LoadsKnown, FlagsKnown, DeviceOf, CallOf,
         IrqSetUp, Loader, GoldenSeen, Making, Absent, Present
<1> QED BY <1>1, <1>2

LEMMA IrqInitInv ==
  ASSUME NEW c \in Caller, Caller = {c}, CardInv, IrqInit(c)
  PROVE  CardInv'
<1> USE LifecycleAssumption DEF CardInv, CardTypeOK, BoardTypeOK,
      DeviceTypeOK, CallTypeOK, Process, Image, IrqInit, Goto, params, devices,
      chip, loads, drivers
<1>1. BoardTypeOK' /\ DeviceTypeOK' /\ CallTypeOK'  OBVIOUS
<1>2. DevicesClean' /\ LoadsKnown' /\ FlagsKnown' /\ DeviceOf(c)' /\
      CallOf(c)' /\ IrqSetUp(c)' /\ Loader(c)' /\ GoldenSeen(c)'
  BY DEF DevicesClean, LoadsKnown, FlagsKnown, DeviceOf, CallOf,
         IrqSetUp, Loader, GoldenSeen, Making, Absent, Present
<1> QED BY <1>1, <1>2

LEMMA RegisterInv ==
  ASSUME NEW c \in Caller, Caller = {c}, CardInv, Register(c)
  PROVE  CardInv'
<1> USE LifecycleAssumption DEF CardInv, CardTypeOK, BoardTypeOK,
      DeviceTypeOK, CallTypeOK, Process, Image, Register, Goto, RawStart,
      StartLoad, params, card, chip, loads, drivers
<1>1. BoardTypeOK' /\ DeviceTypeOK' /\ CallTypeOK'  OBVIOUS
<1>2. DevicesClean' /\ LoadsKnown' /\ DeviceOf(c)' /\ CallOf(c)' /\
      IrqSetUp(c)' /\ Loader(c)' /\ GoldenSeen(c)'
  BY DEF DevicesClean, LoadsKnown, DeviceOf, CallOf, IrqSetUp, Loader,
         GoldenSeen, Making, Absent, Present
<1>3. FlagsKnown'
  BY DEF FlagsKnown, DevicesClean, DeviceOf, Loader, Making, Absent,
         Present
<1> QED BY <1>1, <1>2, <1>3

LEMMA GatewareLoadedInv ==
  ASSUME NEW c \in Caller, Caller = {c}, CardInv, GatewareLoaded(c)
  PROVE  CardInv'
<1> USE LifecycleAssumption DEF CardInv, CardTypeOK, BoardTypeOK,
      DeviceTypeOK, CallTypeOK, Process, Image, GatewareLoaded, Goto, EndLoad,
      params, card, chip, drivers
<1>1. BoardTypeOK' /\ DeviceTypeOK' /\ CallTypeOK'
  BY DEF DeviceOf, Making, Absent, Present
<1>2. LoadsKnown' /\ FlagsKnown' /\ DeviceOf(c)' /\ CallOf(c)' /\
      IrqSetUp(c)' /\ Loader(c)' /\ GoldenSeen(c)'
  BY DEF LoadsKnown, FlagsKnown, DeviceOf, CallOf, IrqSetUp, Loader,
         GoldenSeen, Making, Absent, Present
<1>3. DevicesClean'  BY DEF DevicesClean, DeviceOf, Making, Absent, Present
<1> QED BY <1>1, <1>2, <1>3

LEMMA AddDeviceInv ==
  ASSUME NEW c \in Caller, Caller = {c}, CardInv, AddDevice(c)
  PROVE  CardInv'
<1> USE LifecycleAssumption DEF CardInv, CardTypeOK, BoardTypeOK,
      DeviceTypeOK, CallTypeOK, Process, Image, AddDevice, Goto, params, card,
      chip, loads, drivers
<1>1. BoardTypeOK' /\ DeviceTypeOK' /\ CallTypeOK'  OBVIOUS
<1>2. DevicesClean' /\ LoadsKnown' /\ FlagsKnown' /\ DeviceOf(c)' /\
      CallOf(c)' /\ IrqSetUp(c)' /\ Loader(c)' /\ GoldenSeen(c)'
  BY DEF DevicesClean, LoadsKnown, FlagsKnown, DeviceOf, CallOf,
         IrqSetUp, Loader, GoldenSeen, Making, Absent, Present
<1> QED BY <1>1, <1>2

LEMMA SetFlagInv ==
  ASSUME NEW c \in Caller, Caller = {c}, CardInv, SetFlag(c)
  PROVE  CardInv'
<1> USE LifecycleAssumption DEF CardInv, CardTypeOK, BoardTypeOK,
      DeviceTypeOK, CallTypeOK, Process, Image, SetFlag, Goto, CallReturn,
      params, devices, chip, loads, drivers
<1>1. BoardTypeOK' /\ DeviceTypeOK' /\ CallTypeOK'  OBVIOUS
<1>2. DevicesClean' /\ LoadsKnown' /\ FlagsKnown' /\ DeviceOf(c)' /\
      CallOf(c)' /\ IrqSetUp(c)' /\ Loader(c)' /\ GoldenSeen(c)'
  BY DEF DevicesClean, LoadsKnown, FlagsKnown, DeviceOf, CallOf,
         IrqSetUp, Loader, GoldenSeen, Making, Absent, Present
<1> QED BY <1>1, <1>2

LEMMA OutIrqInv ==
  ASSUME NEW c \in Caller, Caller = {c}, CardInv, OutIrq(c)
  PROVE  CardInv'
<1> USE LifecycleAssumption DEF CardInv, CardTypeOK, BoardTypeOK,
      DeviceTypeOK, CallTypeOK, Process, Image, OutIrq, Goto, params, devices,
      chip, loads, drivers
<1>0. irqCfg' \in BOOLEAN
  BY Zenon DEF OutIrq
<1>1. BoardTypeOK' /\ DeviceTypeOK' /\ CallTypeOK'  BY <1>0
<1>2. DevicesClean' /\ LoadsKnown' /\ FlagsKnown' /\ DeviceOf(c)' /\
      CallOf(c)' /\ IrqSetUp(c)' /\ Loader(c)' /\ GoldenSeen(c)'
  BY DEF DevicesClean, LoadsKnown, FlagsKnown, DeviceOf, CallOf,
         IrqSetUp, Loader, GoldenSeen, Making, Absent, Present
<1> QED BY <1>1, <1>2

LEMMA OutFreeInv ==
  ASSUME NEW c \in Caller, Caller = {c}, CardInv, OutFree(c)
  PROVE  CardInv'
<1> USE LifecycleAssumption DEF CardInv, CardTypeOK, BoardTypeOK,
      DeviceTypeOK, CallTypeOK, Process, Image, OutFree, Fail, Discard, Goto,
      CallReturn, params, chip, loads, drivers
<1>1. BoardTypeOK'  OBVIOUS
<1>2. DeviceTypeOK'  OBVIOUS
<1>3. CallTypeOK'  OBVIOUS
<1>4. LoadsKnown' /\ DeviceOf(c)' /\ IrqSetUp(c)' /\ Loader(c)' /\
      GoldenSeen(c)'
  BY DEF LoadsKnown, DeviceOf, IrqSetUp, Loader, GoldenSeen, Making,
         Absent, Present
<1>5. DevicesClean'  BY DEF DevicesClean, DeviceOf, Making, Absent, Present
<1>6. FlagsKnown'
  BY DEF FlagsKnown, DevicesClean, DeviceOf, Loader, Making, Absent,
         Present
<1>7. CallOf(c)'  BY DEF CallOf, DeviceOf, Making, Absent, Present
<1> QED BY <1>1, <1>2, <1>3, <1>4, <1>5, <1>6, <1>7

LEMMA MiscRegisterInv ==
  ASSUME NEW c \in Caller, Caller = {c}, CardInv, MiscRegister(c)
  PROVE  CardInv'
<1> USE LifecycleAssumption DEF CardInv, CardTypeOK, BoardTypeOK,
      DeviceTypeOK, CallTypeOK, Process, Image, MiscRegister, Goto, CallReturn,
      params, devices, chip, loads, drivers
<1>0. misc' \in BOOLEAN
  BY Zenon DEF MiscRegister
<1>1. BoardTypeOK' /\ DeviceTypeOK' /\ CallTypeOK'  BY <1>0
<1>2. DevicesClean' /\ LoadsKnown' /\ FlagsKnown' /\ DeviceOf(c)' /\
      IrqSetUp(c)' /\ Loader(c)' /\ GoldenSeen(c)'
  BY DEF DevicesClean, LoadsKnown, FlagsKnown, DeviceOf, IrqSetUp,
         Loader, GoldenSeen, Making, Absent, Present
<1>3. CallOf(c)'  BY DEF CallOf, DeviceOf, Making, Absent, Present
<1> QED BY <1>1, <1>2, <1>3

LEMMA UnmapInv ==
  ASSUME NEW c \in Caller, Caller = {c}, CardInv, Unmap(c)
  PROVE  CardInv'
<1> USE LifecycleAssumption DEF CardInv, CardTypeOK, BoardTypeOK,
      DeviceTypeOK, CallTypeOK, Process, Image, Unmap, CallReturn, Goto, params,
      devices, chip, loads, drivers
<1>0. bound' \in BOOLEAN /\ fake' \in BOOLEAN
  BY Zenon DEF Unmap
<1>1. BoardTypeOK' /\ DeviceTypeOK' /\ CallTypeOK'  BY <1>0
<1>2. DevicesClean' /\ LoadsKnown' /\ FlagsKnown' /\ DeviceOf(c)' /\
      IrqSetUp(c)' /\ Loader(c)' /\ GoldenSeen(c)'
  BY DEF DevicesClean, LoadsKnown, FlagsKnown, DeviceOf, IrqSetUp,
         Loader, GoldenSeen, Making, Absent, Present
<1>3. CallOf(c)'  BY DEF CallOf, DeviceOf, Making, Absent, Present
<1> QED BY <1>1, <1>2, <1>3

LEMMA DrvProbeInv ==
  ASSUME NEW c \in Caller, Caller = {c}, NEW d \in Dev, CardInv, DrvProbe(d)
  PROVE  CardInv'
<1> USE LifecycleAssumption DEF CardInv, CardTypeOK, BoardTypeOK,
      DeviceTypeOK, CallTypeOK, Process, Image, DrvProbe, DrvGoto, params, card,
      devices, chip, loads, callers
<1>1. BoardTypeOK' /\ DeviceTypeOK' /\ CallTypeOK'  OBVIOUS
<1>2. DevicesClean' /\ LoadsKnown' /\ FlagsKnown' /\ DeviceOf(c)' /\
      CallOf(c)' /\ IrqSetUp(c)' /\ Loader(c)' /\ GoldenSeen(c)'
  BY DEF DevicesClean, LoadsKnown, FlagsKnown, DeviceOf, CallOf,
         IrqSetUp, Loader, GoldenSeen, Making, Absent, Present
<1> QED BY <1>1, <1>2

LEMMA DrvAsIsInv ==
  ASSUME NEW c \in Caller, Caller = {c}, NEW d \in Dev, CardInv, DrvAsIs(d)
  PROVE  CardInv'
<1> USE LifecycleAssumption DEF CardInv, CardTypeOK, BoardTypeOK,
      DeviceTypeOK, CallTypeOK, Process, Image, DrvAsIs, DrvGoto, params, card,
      devices, chip, loads, callers
<1>1. BoardTypeOK' /\ DeviceTypeOK' /\ CallTypeOK'  OBVIOUS
<1>2. DevicesClean' /\ LoadsKnown' /\ FlagsKnown' /\ DeviceOf(c)' /\
      CallOf(c)' /\ IrqSetUp(c)' /\ Loader(c)' /\ GoldenSeen(c)'
  BY DEF DevicesClean, LoadsKnown, FlagsKnown, DeviceOf, CallOf,
         IrqSetUp, Loader, GoldenSeen, Making, Absent, Present
<1> QED BY <1>1, <1>2

LEMMA DrvReprogramInv ==
  ASSUME NEW c \in Caller, Caller = {c}, NEW d \in Dev, CardInv, DrvReprogram(d)
  PROVE  CardInv'
<1>0. byName' \in [Dev -> BOOLEAN]
  <2>1. byName \in [Dev -> BOOLEAN]
    BY DEF CardInv, CardTypeOK, DeviceTypeOK, BoardTypeOK, CallTypeOK
  <2>2. \/ byName' = [byName EXCEPT ![d] = TRUE]
        \/ byName' = [byName EXCEPT ![d] = FALSE]
    BY DEF DrvReprogram
  <2> QED BY <2>1, <2>2
<1> USE LifecycleAssumption DEF CardInv, CardTypeOK, BoardTypeOK,
      DeviceTypeOK, CallTypeOK, Process, Image, DrvReprogram, RawStart, DrvGoto,
      StartLoad, params, card, chip, callers
<1>1. BoardTypeOK' /\ DeviceTypeOK' /\ CallTypeOK'  BY <1>0
<1>2. DevicesClean' /\ LoadsKnown' /\ DeviceOf(c)' /\ CallOf(c)' /\
      IrqSetUp(c)' /\ Loader(c)' /\ GoldenSeen(c)'
  BY DEF DevicesClean, LoadsKnown, DeviceOf, CallOf, IrqSetUp, Loader,
         GoldenSeen, Making, Absent, Present
<1>3. FlagsKnown'
  BY DEF FlagsKnown, DevicesClean, DeviceOf, Loader, Making, Absent,
         Present
<1> QED BY <1>1, <1>2, <1>3

LEMMA DrvLoadedInv ==
  ASSUME NEW c \in Caller, Caller = {c}, NEW d \in Dev, CardInv, DrvLoaded(d)
  PROVE  CardInv'
<1> USE LifecycleAssumption DEF CardInv, CardTypeOK, BoardTypeOK,
      DeviceTypeOK, CallTypeOK, Process, Image, DrvLoaded, EndLoad, DrvGoto,
      params, card, chip, callers
<1>1. BoardTypeOK' /\ DeviceTypeOK' /\ CallTypeOK'  BY DEF LoadsKnown
<1>2. DevicesClean' /\ LoadsKnown' /\ DeviceOf(c)' /\ CallOf(c)' /\
      IrqSetUp(c)' /\ Loader(c)' /\ GoldenSeen(c)'
  BY DEF DevicesClean, LoadsKnown, DeviceOf, CallOf, IrqSetUp, Loader,
         GoldenSeen, Making, Absent, Present
<1>3. FlagsKnown'
  BY DEF FlagsKnown, DevicesClean, DeviceOf, Loader, LoadsKnown,
         GoldenSeen, Making, Absent, Present
<1> QED BY <1>1, <1>2, <1>3

LEMMA DrvNotLoadedInv ==
  ASSUME NEW c \in Caller, Caller = {c}, NEW d \in Dev, CardInv, DrvNotLoaded(d)
  PROVE  CardInv'
<1> USE LifecycleAssumption DEF CardInv, CardTypeOK, BoardTypeOK,
      DeviceTypeOK, CallTypeOK, Process, Image, DrvNotLoaded, EndLoad, DrvGoto,
      params, card, devices, chip, callers
<1>1. BoardTypeOK' /\ DeviceTypeOK' /\ CallTypeOK'  OBVIOUS
<1>2. DevicesClean' /\ LoadsKnown' /\ FlagsKnown' /\ DeviceOf(c)' /\
      CallOf(c)' /\ IrqSetUp(c)' /\ Loader(c)' /\ GoldenSeen(c)'
  BY DEF DevicesClean, LoadsKnown, FlagsKnown, DeviceOf, CallOf,
         IrqSetUp, Loader, GoldenSeen, Making, Absent, Present
<1> QED BY <1>1, <1>2

LEMMA DrvEepromInv ==
  ASSUME NEW c \in Caller, Caller = {c}, NEW d \in Dev, CardInv, DrvEeprom(d)
  PROVE  CardInv'
<1> USE LifecycleAssumption DEF CardInv, CardTypeOK, BoardTypeOK,
      DeviceTypeOK, CallTypeOK, Process, Image, DrvEeprom, DrvGoto, params,
      card, devices, chip, loads, callers
<1>1. BoardTypeOK' /\ DeviceTypeOK' /\ CallTypeOK'  OBVIOUS
<1>2. DevicesClean' /\ LoadsKnown' /\ FlagsKnown' /\ DeviceOf(c)' /\
      CallOf(c)' /\ IrqSetUp(c)' /\ Loader(c)' /\ GoldenSeen(c)'
  BY DEF DevicesClean, LoadsKnown, FlagsKnown, DeviceOf, CallOf,
         IrqSetUp, Loader, GoldenSeen, Making, Absent, Present
<1> QED BY <1>1, <1>2

LEMMA DrvEepromEndInv ==
  ASSUME NEW c \in Caller, Caller = {c}, NEW d \in Dev, CardInv, DrvEepromEnd(d)
  PROVE  CardInv'
<1> USE LifecycleAssumption DEF CardInv, CardTypeOK, BoardTypeOK,
      DeviceTypeOK, CallTypeOK, Process, Image, DrvEepromEnd, DrvGoto, params,
      card, devices, chip, loads, callers
<1>1. BoardTypeOK' /\ DeviceTypeOK' /\ CallTypeOK'  OBVIOUS
<1>2. DevicesClean' /\ LoadsKnown' /\ FlagsKnown' /\ DeviceOf(c)' /\
      CallOf(c)' /\ IrqSetUp(c)' /\ Loader(c)' /\ GoldenSeen(c)'
  BY DEF DevicesClean, LoadsKnown, FlagsKnown, DeviceOf, CallOf,
         IrqSetUp, Loader, GoldenSeen, Making, Absent, Present
<1> QED BY <1>1, <1>2

LEMMA DrvReleaseInv ==
  ASSUME NEW c \in Caller, Caller = {c}, NEW d \in Dev, CardInv, DrvRelease(d)
  PROVE  CardInv'
<1> USE LifecycleAssumption DEF CardInv, CardTypeOK, BoardTypeOK,
      DeviceTypeOK, CallTypeOK, Process, Image, DrvRelease, DrvGoto, params,
      card, chip, loads, callers
<1>1. BoardTypeOK' /\ DeviceTypeOK' /\ CallTypeOK'  OBVIOUS
<1>2. DevicesClean' /\ LoadsKnown' /\ FlagsKnown' /\ DeviceOf(c)' /\
      CallOf(c)' /\ IrqSetUp(c)' /\ Loader(c)' /\ GoldenSeen(c)'
  BY DEF DevicesClean, LoadsKnown, FlagsKnown, DeviceOf, CallOf,
         IrqSetUp, Loader, GoldenSeen, Making, Absent, Present
<1> QED BY <1>1, <1>2

-----------------------------------------------------------------------------
LEMMA CardInitInv == OneCaller /\ CardInit => CardInv
<1> SUFFICES ASSUME NEW c \in Caller, Caller = {c}, CardInit PROVE CardInv
  BY DEF OneCaller
<1> USE LifecycleAssumption DEF CardInit, Process, Image
<1>1. {bound, misc, registered, irqCfg, fake} \subseteq BOOLEAN
  BY Zenon
<1>2. BoardTypeOK  BY <1>1 DEF BoardTypeOK
<1>3. [d \in Dev |-> FALSE] \in [Dev -> BOOLEAN]
  BY Zenon
<1>4. DeviceTypeOK  BY <1>3 DEF DeviceTypeOK
<1>5. CallTypeOK  BY DEF CallTypeOK
<1>6. DevicesClean /\ LoadsKnown /\ FlagsKnown
  BY DEF DevicesClean, LoadsKnown, FlagsKnown
<1>7. DeviceOf(c) /\ CallOf(c) /\ IrqSetUp(c) /\ Loader(c) /\ GoldenSeen(c)
  BY DEF DeviceOf, CallOf, IrqSetUp, Loader, GoldenSeen, Making, Absent, Present
<1> QED BY <1>2, <1>4, <1>5, <1>6, <1>7 DEF CardInv, CardTypeOK

LEMMA CardNextInv ==
  ASSUME OneCaller, CardInv, [CardNext]_cardVars
  PROVE  CardInv'
<1>1. PICK c : Caller = {c}
  BY DEF OneCaller
<1>2. c \in Caller
  BY <1>1
<1>3. ASSUME NEW p \in Process, LoadStep(p) PROVE CardInv'
  BY <1>1, <1>2, <1>3, LoadResetInv, LoadWordsInv, LoadWaitInv DEF LoadStep
<1>4. ASSUME Probe(c) \/ Write(c) \/ Remove(c) \/ CallStep(c) PROVE CardInv'
  BY <1>1, <1>2, <1>4, ProbeInv, WriteInv, RemoveInv, DestroyEnterInv, UnregisterInv,
     IrqExitInv, ForgetInv, FetchInv, GoldenLoadedInv, CreateInv, CheckGoldenInv,
     I2cInitInv, IrqInitInv, RegisterInv, GatewareLoadedInv, AddDeviceInv, SetFlagInv,
     OutIrqInv, OutFreeInv, MiscRegisterInv, UnmapInv DEF CallStep
<1>5. ASSUME NEW d \in Dev, DrvProbe(d) \/ DrvEeprom(d) \/ DrvRelease(d) \/ DrvStep(d)
      PROVE CardInv'
  BY <1>1, <1>2, <1>5, DrvProbeInv, DrvAsIsInv, DrvReprogramInv, DrvLoadedInv,
     DrvNotLoadedInv, DrvEepromInv, DrvEepromEndInv, DrvReleaseInv DEF DrvStep
<1>6. CASE HwConfigure
  BY <1>1, <1>2, <1>6, HwConfigureInv
<1>7. CASE UNCHANGED cardVars
  BY <1>7 DEF cardVars, params, card, devices, chip, loads, callers, drivers, CardInv,
     CardTypeOK, BoardTypeOK, DeviceTypeOK, CallTypeOK, DevicesClean, LoadsKnown,
     FlagsKnown, DeviceOf, CallOf, IrqSetUp, Loader, GoldenSeen, Making, Absent, Present
<1> QED BY <1>1, <1>3, <1>4, <1>5, <1>6, <1>7 DEF CardNext

LEMMA CardSafe == OneCaller => (CardSpec => []CardInv)
<1> SUFFICES ASSUME OneCaller PROVE CardSpec => []CardInv
  OBVIOUS
<1>1. CardInit => CardInv
  BY CardInitInv
<1>2. CardInv /\ [CardNext]_cardVars => CardInv'
  BY CardNextInv
<1> QED BY <1>1, <1>2, PTL DEF CardSpec

\* With one caller the I2C lines are banged only under the golden gateware: for
\* every number of devices, any files, and drivers that come and go and load
\* what they like.
THEOREM GoldenCorrect == OneCaller => (CardSpec => []ActsUnderGolden)
<1> SUFFICES ASSUME OneCaller PROVE CardSpec => []ActsUnderGolden
  OBVIOUS
<1>1. CardInv => ActsUnderGolden
  BY DEF CardInv, ActsUnderGolden, GoldenSeen, FlagsKnown
<1> QED BY <1>1, CardSafe, PTL

\* With one caller what the carrier knows of the FPGA (the golden flag, the SDB
\* tree, the outcome of a load) is true of it.
THEOREM KnowledgeCorrect == OneCaller => (CardSpec => []KnowsFpga)
<1> SUFFICES ASSUME OneCaller PROVE CardSpec => []KnowsFpga
  OBVIOUS
<1>1. CardInv => GoldenFlagTrue
  BY DEF CardInv, FlagsKnown, GoldenFlagTrue, CardTypeOK, DeviceTypeOK
<1>2. CardInv => SdbDescribes
  BY DEF CardInv, FlagsKnown, SdbDescribes
<1>3. CardInv => LoadedAfterReset
  BY DEF CardInv, LoadsKnown, LoadedAfterReset, LoadedAsReported
<1> QED BY <1>1, <1>2, <1>3, CardSafe, PTL DEF KnowsFpga

\* With one caller no driver has its registers while spec_reconfigure loads the
\* FPGA.
THEOREM NoDriverCorrect == OneCaller => (CardSpec => []NoLoadUnderDriver)
<1> SUFFICES ASSUME OneCaller PROVE CardSpec => []NoLoadUnderDriver
  OBVIOUS
<1>1. CardInv => NoLoadUnderDriver
  BY DEF CardInv, NoLoadUnderDriver, Loader, DeviceOf, DevicesClean, Making, Absent,
     Present, CardTypeOK, DeviceTypeOK
<1> QED BY <1>1, CardSafe, PTL

\* With one caller the flag, spec->fmc, the bus and what the last call returned
\* tell one story between calls, whatever failed before.
THEOREM StoryCorrect == OneCaller => (CardSpec => []OneStory)
<1> SUFFICES ASSUME OneCaller PROVE CardSpec => []OneStory
  OBVIOUS
<1>1. CardInv => OneStory
  BY LifecycleAssumption DEF OneCaller, CardInv, OneStory, Serial, DeviceOf, CallOf,
     IrqSetUp, Absent, Present, CardTypeOK, BoardTypeOK, DeviceTypeOK, CallTypeOK
<1> QED BY <1>1, CardSafe, PTL

\* Type correctness of the card, with one caller.
THEOREM CardTypeCorrect == OneCaller => (CardSpec => []CardTypeOK)
<1> SUFFICES ASSUME OneCaller PROVE CardSpec => []CardTypeOK
  OBVIOUS
<1> QED BY CardSafe, PTL DEF CardInv
=============================================================================
