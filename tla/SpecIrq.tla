------------------------------ MODULE SpecIrq ------------------------------
(***************************************************************************)
(* Interrupt requests of the carrier through the VIC (spec-fmc.c,          *)
(* spec-vic.c): a mezzanine driver requests and frees interrupt ids, a     *)
(* master handler dispatches on another processor.  The first request      *)
(* looks up the VIC and installs the master, the last free removes both;   *)
(* irq_lock, taken on both sides, keeps spec->vic, the vector table and    *)
(* the VIC's registers together.                                           *)
(*                                                                         *)
(* The ids of the vectors are distinct.  An entry of the IVT holds the     *)
(* vector's id or, while it is requested, its index.  The VIC's line may   *)
(* be shared: the host calls an installed handler at any time.             *)
(*                                                                         *)
(* Left out: requests in shared mode, which use no VIC (IrqDelivery), and  *)
(* an interrupt on the very processor that holds irq_lock.                 *)
(***************************************************************************)
EXTENDS FiniteSets

CONSTANTS
  Vector,     \* VIC_MAX_VECTORS vectors, or those in use
  Unknown,    \* an id that no vector has
  None        \* no vector

ASSUME VectorAssumption == Unknown \notin Vector /\ None \notin Vector /\ Unknown # None

VARIABLES
  vic,        \* is spec->vic set?
  saved,      \* vectors[i].saved_id: what was in the IVT
  handler,    \* vectors with a handler
  ivt,        \* the IVT RAM of the VIC
  imr,        \* enabled vectors
  ctl,        \* is the VIC enabled?
  cur,        \* the vector the VIC presents until EOIR
  var,        \* its VAR register: an index, or None for anything above 31
  hooked,     \* is spec_vic_irq_handler installed (request_irq)?
  lock,       \* who holds irq_lock
  dpc,        \* the driver in spec_irq_request or spec_irq_free
  did,        \* the id it passes
  first,      \* its local first_time
  hpc,        \* spec_vic_irq_handler: where it is
  hv,         \* the vector whose handler it calls
  held        \* ids requested with success and not freed

tableVars == <<vic, saved, handler>>
vicVars == <<ivt, imr, ctl, cur, var>>
driverVars == <<dpc, did, first>>
handlerVars == <<hpc, hv>>
vars == <<tableVars, vicVars, hooked, lock, driverVars, handlerVars, held>>

Init ==
  /\ vic = FALSE
  /\ saved = [v \in Vector |-> "id"]
  /\ handler = {}
  /\ ivt = [v \in Vector |-> "id"]
  /\ imr = {}
  /\ ctl = FALSE
  /\ cur = None
  /\ var = None
  /\ hooked = FALSE
  /\ lock = "free"
  /\ dpc = "idle"
  /\ did = None
  /\ first = FALSE
  /\ hpc = "idle"
  /\ hv = None
  /\ held = {}

\* The driver's call returns, with irq_lock released.
Return ==
  /\ dpc' = "idle"
  /\ did' = None
  /\ first' = FALSE

-----------------------------------------------------------------------------
(* spec_irq_request, spec_vic_irq_request                                  *)

RequestEnter(id) ==
  /\ dpc = "idle"
  /\ id \notin held
  /\ lock = "free"
  /\ lock' = "driver"
  /\ did' = id
  /\ first' = ~vic
  /\ dpc' = IF vic THEN "find" ELSE "init"
  /\ UNCHANGED <<tableVars, vicVars, hooked, handlerVars, held>>

\* spec_vic_init, which fails without a VIC in the SDB tree or without memory.
VicInit ==
  /\ dpc = "init"
  /\ \/ /\ vic' = TRUE
        /\ imr' = {}
        /\ saved' = ivt
        /\ handler' = {}
        /\ ctl' = TRUE
        /\ dpc' = "find"
        /\ UNCHANGED <<lock, did, first>>
     \/ /\ lock' = "free"
        /\ Return
        /\ UNCHANGED <<tableVars, imr, ctl>>
  /\ UNCHANGED <<ivt, cur, var, hooked, handlerVars, held>>

\* -EINVAL when no vector has the id.
Find ==
  /\ dpc = "find"
  /\ \/ /\ did \in Vector
        /\ saved[did] = "id"
        /\ dpc' = "ivt"
        /\ UNCHANGED <<lock, did, first>>
     \/ /\ did \in Vector => saved[did] # "id"
        /\ lock' = "free"
        /\ Return
  /\ UNCHANGED <<tableVars, vicVars, hooked, handlerVars, held>>

RequestIvt ==
  /\ dpc = "ivt"
  /\ ivt' = [ivt EXCEPT ![did] = "index"]
  /\ dpc' = "table"
  /\ UNCHANGED <<tableVars, imr, ctl, cur, var, hooked, lock, did, first, handlerVars, held>>

RequestTable ==
  /\ dpc = "table"
  /\ handler' = handler \cup {did}
  /\ dpc' = "ier"
  /\ UNCHANGED <<vic, saved, vicVars, hooked, lock, did, first, handlerVars, held>>

\* The vector is enabled and irq_lock released; the first request goes on.
RequestEnable ==
  /\ dpc = "ier"
  /\ imr' = imr \cup {did}
  /\ lock' = "free"
  /\ \/ /\ first
        /\ dpc' = "hook"
        /\ UNCHANGED <<did, first, held>>
     \/ /\ ~first
        /\ held' = held \cup {did}
        /\ Return
  /\ UNCHANGED <<tableVars, ivt, ctl, cur, var, hooked, handlerVars>>

\* "on first IRQ, configure VIC master handler and GPIO too"; request_irq may fail.
Hook ==
  /\ dpc = "hook"
  /\ \/ /\ hooked' = TRUE
        /\ held' = held \cup {did}
     \/ UNCHANGED <<hooked, held>>
  /\ Return
  /\ UNCHANGED <<tableVars, vicVars, lock, handlerVars>>

-----------------------------------------------------------------------------
(* spec_irq_free, spec_vic_irq_free                                        *)

FreeEnter(id) ==
  /\ dpc = "idle"
  /\ id \in held
  /\ lock = "free"
  /\ lock' = "driver"
  /\ did' = id
  /\ dpc' = IF vic THEN "idr" ELSE "unhook"
  /\ UNCHANGED <<tableVars, vicVars, hooked, first, handlerVars, held>>

FreeDisable ==
  /\ dpc = "idr"
  /\ imr' = imr \ {did}
  /\ dpc' = "restore"
  /\ UNCHANGED <<tableVars, ivt, ctl, cur, var, hooked, lock, did, first, handlerVars, held>>

\* Mutant: the IVT is left with the index.
FreeRestoreNot ==
  /\ dpc = "restore"
  /\ dpc' = "clear"
  /\ UNCHANGED <<tableVars, vicVars, hooked, lock, did, first, handlerVars, held>>

FreeRestore ==
  /\ dpc = "restore"
  /\ ivt' = [ivt EXCEPT ![did] = "id"]
  /\ dpc' = "clear"
  /\ UNCHANGED <<tableVars, imr, ctl, cur, var, hooked, lock, did, first, handlerVars, held>>

\* When no handler is left, spec_vic_exit turns the VIC off.
FreeClear ==
  /\ dpc = "clear"
  /\ handler' = handler \ {did}
  /\ \/ /\ handler' # {}
        /\ lock' = "free"
        /\ held' = held \ {did}
        /\ Return
        /\ UNCHANGED <<vic, imr, ctl, cur>>
     \/ /\ handler' = {}
        /\ imr' = {}
        /\ ctl' = FALSE
        /\ cur' = None
        /\ vic' = FALSE
        /\ dpc' = "unhook"
        /\ UNCHANGED <<lock, did, first, held>>
  /\ UNCHANGED <<saved, ivt, var, hooked, handlerVars>>

\* free_irq takes the handler off the list ...
Unhook ==
  /\ dpc = "unhook"
  /\ hooked' = FALSE
  /\ dpc' = "sync"
  /\ UNCHANGED <<tableVars, vicVars, lock, did, first, handlerVars, held>>

\* ... and waits for it to end, still under irq_lock.
Synchronize ==
  /\ dpc = "sync"
  /\ hpc = "idle"
  /\ lock' = "free"
  /\ held' = held \ {did}
  /\ Return
  /\ UNCHANGED <<tableVars, vicVars, hooked, handlerVars>>

-----------------------------------------------------------------------------
(* spec_vic_irq_handler, spec_vic_irq_dispatch                             *)

HandlerEnter ==
  /\ hooked
  /\ hpc = "idle"
  /\ hpc' = "lock"
  /\ UNCHANGED <<tableVars, vicVars, hooked, lock, driverVars, hv, held>>

\* Mutant: the dispatch is not protected.
HandlerLockNot ==
  /\ hpc = "lock"
  /\ hpc' = "dispatch"
  /\ UNCHANGED <<tableVars, vicVars, hooked, lock, driverVars, hv, held>>

HandlerLock ==
  /\ hpc = "lock"
  /\ lock = "free"
  /\ lock' = "handler"
  /\ hpc' = "dispatch"
  /\ UNCHANGED <<tableVars, vicVars, hooked, driverVars, hv, held>>

\* VAR names the vector; an index out of range or without handler is reported.
Dispatch ==
  /\ hpc = "dispatch"
  /\ \/ /\ vic /\ var \in handler
        /\ hv' = var
        /\ hpc' = "call"
     \/ /\ ~(vic /\ var \in handler)
        /\ hpc' = "end"
        /\ UNCHANGED hv
  /\ UNCHANGED <<tableVars, vicVars, hooked, lock, driverVars, held>>

Call ==
  /\ hpc = "call"
  /\ hv' = None
  /\ hpc' = "end"
  /\ UNCHANGED <<tableVars, vicVars, hooked, lock, driverVars, held>>

\* The GN4124 is acknowledged, then the VIC, through spec->vic.
HandlerEnd ==
  /\ hpc = "end"
  /\ cur' = None
  /\ lock' = "free"
  /\ hpc' = "idle"
  /\ UNCHANGED <<tableVars, ivt, imr, ctl, var, hooked, driverVars, hv, held>>

-----------------------------------------------------------------------------
(* The VIC (external) presents an enabled vector.                          *)
VicRaise(v) ==
  /\ ctl
  /\ cur = None
  /\ v \in imr
  /\ cur' = v
  /\ var' = IF ivt[v] = "index" THEN v ELSE None
  /\ UNCHANGED <<tableVars, ivt, imr, ctl, hooked, lock, driverVars, handlerVars, held>>

-----------------------------------------------------------------------------
Driver ==
  \/ \E id \in Vector \cup {Unknown} : RequestEnter(id) \/ FreeEnter(id)
  \/ VicInit \/ Find \/ RequestIvt \/ RequestTable \/ RequestEnable \/ Hook
  \/ FreeDisable \/ FreeRestore \/ FreeClear \/ Unhook \/ Synchronize

Handler == HandlerEnter \/ HandlerLock \/ Dispatch \/ Call \/ HandlerEnd

Next == Driver \/ Handler \/ \E v \in Vector : VicRaise(v)

Spec == Init /\ [][Next]_vars

-----------------------------------------------------------------------------
(* Properties *)

(* Every variable has its type; no vector out of the table is ever used.   *)
TypeOK ==
  /\ {vic, ctl, hooked, first} \subseteq BOOLEAN
  /\ saved \in [Vector -> {"id", "index"}]
  /\ ivt \in [Vector -> {"id", "index"}]
  /\ handler \subseteq Vector
  /\ imr \subseteq Vector
  /\ {cur, var, hv} \subseteq Vector \cup {None}
  /\ lock \in {"free", "driver", "handler"}
  /\ dpc \in {"idle", "init", "find", "ivt", "table", "ier", "hook",
              "idr", "restore", "clear", "unhook", "sync"}
  /\ did \in Vector \cup {Unknown, None}
  /\ hpc \in {"idle", "lock", "dispatch", "call", "end"}
  /\ held \subseteq Vector

(* Between the driver's calls the VIC and the table agree: the vectors     *)
(* with a handler are those enabled and those whose IVT entry is their     *)
(* index, every other entry is the id again; without a VIC all of them     *)
(* are, which is where the next spec_vic_init looks for the ids.           *)
TablesAgree ==
  dpc \in {"idle", "init", "hook", "unhook", "sync"} =>
    /\ \A v \in Vector : ivt[v] = "index" <=> vic /\ v \in handler
    /\ imr = IF vic THEN handler ELSE {}
    /\ ctl = vic

(* As long as the VIC presents a vector, VAR holds its index: the IVT is   *)
(* written before the vector is enabled and restored after it is disabled. *)
PresentedNamed == cur # None => var = cur

(* A handler is called only for an id that its driver holds: never one     *)
(* that was freed, or whose request failed or has not returned yet.        *)
CallOnlyHeld == hpc = "call" => hv \in held

(* spec_vic_irq_ack goes through spec->vic, and finds it there.            *)
VicThere == hpc = "end" => vic

(* While drivers request and free interrupts, the master handler finds     *)
(* the VIC and the handlers it needs, and no others.                       *)
HandlerSafe == CallOnlyHeld /\ VicThere

(* "on first IRQ, configure VIC master handler and GPIO too": a driver     *)
(* that holds an interrupt can receive it.                                 *)
MasterInstalled == dpc = "idle" /\ held # {} => hooked

(* "A Mezzanine driver didn't release all its IRQ handlers" is the warning  *)
(* for a VIC that is left: a driver that holds nothing leaves none.        *)
NothingLeft == dpc = "idle" /\ held = {} => ~vic

(* "Lock to avoid to remove the VIC or the handler itself while it's       *)
(* running": when free_irq has taken the handler away, it is not running.  *)
NotRemovedWhileRunning == dpc = "sync" => hpc = "idle"
=============================================================================
