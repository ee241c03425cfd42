----------------------------- MODULE IrqDelivery -----------------------------
(***************************************************************************)
(* How an interrupt of the wr-nic gateware reaches its handler             *)
(* (wr-nic-eth.c, with the acknowledge of spec-fmc.c).  The cores drive    *)
(* level interrupts into the VIC; the VIC presents one of them at a time   *)
(* and waits for EOIR, after which it drops its output for a moment        *)
(* ("edge emulation"); the GN4124 bridge latches rising edges of that      *)
(* output and interrupts the host, by message or by the shared INTx line.  *)
(* Each of the three keeps state that only the handler's writes release,   *)
(* so a lost edge silences the board for good.                             *)
(***************************************************************************)
EXTENDS Integers, FiniteSets

CONSTANTS
  Sources,    \* the interrupt inputs of the VIC in use: TXTSU, NIC and DIO
  None,       \* "no source"
  MaxEvents   \* bound on the device events of a run, and on the interrupts of
              \* other boards, together

ASSUME NoneAssumption == None \notin Sources
ASSUME MaxEventsAssumption == MaxEvents \in Nat

VARIABLES
  bus,        \* how the board interrupts the host: by message (the module
              \* parameter spec_use_msi), by an INTx line of its own, or by one
              \* it shares with another board
  phase,      \* how far wrn_eth_init came
  budget,     \* events that may still happen
  work,       \* work[s]: events of s not served yet; its level is work[s] > 0
  cur,        \* the source the VIC presents in VAR and holds until EOIR
  line,       \* the VIC's output
  status,     \* GNGPIO_INT_STATUS: the edge latch of the GN4124
  msi,        \* an interrupt message the host has not acted upon
  hpc,        \* wrn_handler: where it is
  vector      \* its local vector, from VAR

devVars == <<budget, work>>
vicVars == <<cur, line>>
gnVars == <<status, msi>>
deliveryVars == <<bus, phase, budget, work, cur, line, status, msi, hpc, vector>>

DeliveryInit ==
  /\ bus \in {"msi", "intx", "shared"}
  /\ phase = "requested"
  /\ budget = MaxEvents
  /\ work = [s \in Sources |-> 0]
  /\ cur = None
  /\ line = FALSE
  /\ status = FALSE
  /\ msi = FALSE
  /\ hpc = "idle"
  /\ vector = None

-----------------------------------------------------------------------------
(* wrn_eth_init: the handler is registered first, then mezzanine_data is   *)
(* published, then wrn_vic_init fills the vectors and enables the VIC.     *)
(* wrn_probe waits 10 ms before it enables a first interrupt, so no early  *)
(* handler is still running when the VIC has something to present.         *)

Publish ==
  /\ phase = "requested"
  /\ phase' = "published"
  /\ UNCHANGED <<bus, devVars, vicVars, gnVars, hpc, vector>>

VicInit ==
  /\ phase = "published"
  /\ hpc # "early"
  /\ phase' = "running"
  /\ UNCHANGED <<bus, devVars, vicVars, gnVars, hpc, vector>>

-----------------------------------------------------------------------------
(* The gateware (external).                                                *)

DeviceEvent(s) ==
  /\ budget > 0
  /\ budget' = budget - 1
  /\ work' = [work EXCEPT ![s] = @ + 1]
  /\ UNCHANGED <<bus, phase, vicVars, gnVars, hpc, vector>>

\* The VIC picks a source and raises its output; a rising edge sets the latch
\* in the GN4124, and a latch that was clear sends a message.
VicRaise(s) ==
  /\ phase = "running"
  /\ cur = None
  /\ work[s] > 0
  /\ cur' = s
  /\ line' = TRUE
  /\ status' = (status \/ ~line)
  /\ msi' = (msi \/ (~line /\ ~status /\ bus = "msi"))
  /\ UNCHANGED <<bus, phase, devVars, hpc, vector>>

-----------------------------------------------------------------------------
(* wrn_handler.  It is registered IRQF_SHARED: the host also calls it for  *)
(* the interrupts of other boards on the line.                             *)

HostPending == IF bus = "msi" THEN msi ELSE status

HandlerEnter ==
  /\ hpc = "idle"
  /\ HostPending
  /\ msi' = FALSE
  /\ hpc' = "read"
  /\ UNCHANGED <<bus, phase, devVars, vicVars, status, vector>>

HandlerShared ==
  /\ hpc = "idle"
  /\ bus = "shared"
  /\ budget > 0
  /\ budget' = budget - 1
  /\ hpc' = "read"
  /\ UNCHANGED <<bus, phase, work, vicVars, gnVars, vector>>

\* Without mezzanine_data it is "too early"; otherwise VAR names the source.
HandlerRead ==
  /\ hpc = "read"
  /\ \/ /\ phase = "requested"
        /\ hpc' = "early"
        /\ UNCHANGED vector
     \/ /\ phase # "requested"
        /\ vector' = cur
        /\ hpc' = "serve"
  /\ UNCHANGED <<bus, phase, devVars, vicVars, gnVars>>

HandlerEarly ==
  /\ hpc = "early"
  /\ status' = FALSE
  /\ hpc' = "idle"
  /\ UNCHANGED <<bus, phase, devVars, vicVars, msi, vector>>

\* Mutant: the handler may serve again without a new look at VAR.
HandlerServeAgain ==
  /\ hpc = "serve"
  /\ IF vector \in Sources
       THEN \E left \in 0..(work[vector] - 1) : work' = [work EXCEPT ![vector] = left]
       ELSE UNCHANGED work
  /\ hpc' \in {"serve", "ack"}
  /\ UNCHANGED <<bus, phase, budget, vicVars, gnVars, vector>>

\* wrn_interrupt, wrn_tstamp_interrupt or wrn_dio_interrupt: each serves one
\* event of its source, perhaps more.
HandlerServe ==
  /\ hpc = "serve"
  /\ IF vector \in Sources
       THEN \E left \in 0..(work[vector] - 1) : work' = [work EXCEPT ![vector] = left]
       ELSE UNCHANGED work
  /\ hpc' = "ack"
  /\ UNCHANGED <<bus, phase, budget, vicVars, gnVars, vector>>

\* VIC_CTL_EMU_EDGE: after EOIR the output goes low, whatever is pending.
LineAfterEoirPlain == \E s \in Sources : work[s] > 0   \* Mutant: no edge emulation
LineAfterEoir == FALSE

\* Mutant: EOIR is written before the GN4124 is acknowledged.
HandlerEndSwapped ==
  /\ \/ /\ hpc = "ack"
        /\ cur' = None
        /\ line' = LineAfterEoir
        /\ hpc' = "eoir"
        /\ UNCHANGED status
     \/ /\ hpc = "eoir"
        /\ status' = FALSE
        /\ hpc' = "idle"
        /\ UNCHANGED vicVars
  /\ vector' = None
  /\ UNCHANGED <<bus, phase, devVars, msi>>

\* The GN4124 is acknowledged (reading the latch clears it), then EOIR is
\* written: the VIC lets go of its source.
HandlerEnd ==
  /\ \/ /\ hpc = "ack"
        /\ status' = FALSE
        /\ hpc' = "eoir"
        /\ UNCHANGED vicVars
     \/ /\ hpc = "eoir"
        /\ cur' = None
        /\ line' = LineAfterEoir
        /\ hpc' = "idle"
        /\ UNCHANGED status
  /\ vector' = None
  /\ UNCHANGED <<bus, phase, devVars, msi>>

-----------------------------------------------------------------------------
HandlerRest == HandlerRead \/ HandlerEarly \/ HandlerServe \/ HandlerEnd

DeliveryNext ==
  \/ Publish
  \/ VicInit
  \/ \E s \in Sources : DeviceEvent(s) \/ VicRaise(s)
  \/ HandlerEnter
  \/ HandlerShared
  \/ HandlerRest

DeliverySpec == DeliveryInit /\ [][DeliveryNext]_deliveryVars

(* wrn_eth_init goes on, the VIC presents what is pending, the host runs   *)
(* the handler for a pending interrupt and lets it finish.  Nothing forces *)
(* a device event, nor an interrupt of another board.                      *)
DeliveryFairness ==
  /\ WF_deliveryVars(Publish)
  /\ WF_deliveryVars(VicInit)
  /\ WF_deliveryVars(\E s \in Sources : VicRaise(s))
  /\ WF_deliveryVars(HandlerEnter)
  /\ WF_deliveryVars(HandlerRest)

FairDeliverySpec == DeliverySpec /\ DeliveryFairness

-----------------------------------------------------------------------------
(* Properties *)

(* Every variable has its type.                                            *)
DeliveryTypeOK ==
  /\ bus \in {"msi", "intx", "shared"}
  /\ phase \in {"requested", "published", "running"}
  /\ budget \in 0..MaxEvents
  /\ work \in [Sources -> Nat]
  /\ cur \in Sources \cup {None}
  /\ line \in BOOLEAN
  /\ status \in BOOLEAN
  /\ msi \in BOOLEAN
  /\ hpc \in {"idle", "read", "early", "serve", "ack", "eoir"}
  /\ vector \in Sources \cup {None}

(* The comment in spec_vic_irq_handler, for wrn_handler too: while the VIC *)
(* waits for EOIR the host is bound to come round to writing it.  If the   *)
(* edge met a latch that was still set and cleared right after, neither    *)
(* side would ever move again.                                             *)
VicNotForgotten ==
  cur # None => HostPending \/ hpc \in {"read", "serve", "ack", "eoir"}

(* The latch of the GN4124 and the message it sends stay together: with    *)
(* MSI, a latch found set with no handler on its way has its message.      *)
LatchHasMessage ==
  bus = "msi" /\ status => msi \/ hpc \in {"read", "early", "serve", "ack"}

(* No handler is inside "too early" once the VIC may present an interrupt, *)
(* because that path never writes EOIR.                                    *)
EarlyOnlyBeforeVic ==
  /\ cur # None => phase = "running"
  /\ hpc = "early" => phase # "running"

(* The vector a handler works on still has an event.  wrn_tstamp_interrupt *)
(* reads the TXTSU FIFO without looking whether it is empty, so a stale    *)
(* vector would make it deliver a time stamp that does not exist.          *)
VectorHasWork == hpc = "serve" /\ vector \in Sources => work[vector] > 0

(* Every device event is served, also those that arrive before the VIC is  *)
(* enabled, while another source is presented, or between the acknowledge  *)
(* and EOIR.  Not on a shared line: there a handler called for the other   *)
(* board may write the EOIR of a source presented after it read VAR, and   *)
(* with bad luck do so again each time it is called for that edge.         *)
EveryEventServed ==
  \A s \in Sources : bus # "shared" /\ work[s] > 0 ~> work[s] = 0
=============================================================================
