---------------------------- MODULE NicLifecycle ----------------------------
(***************************************************************************)
(* The life of the wr-nic driver on one card: wrn_fmc_probe and            *)
(* wrn_fmc_remove (wr-nic-core.c), the platform device they create         *)
(* (wr-nic-eth.c), the network interface its driver brings up and takes    *)
(* down (wr_nic/device.c, wr_nic/endpoint.c, wrn_mezzanine_init), while    *)
(* interrupts, the receive tasklet and applications use what is there.     *)
(*                                                                         *)
(* There are two orders.  On a card that is found while the module loads,  *)
(* wrn_fmc_probe runs before wrn_driver is registered: the VIC is enabled  *)
(* first and wrn_probe comes later.  On a card that comes later wrn_probe  *)
(* runs inside platform_device_register, before the VIC is enabled.        *)
(*                                                                         *)
(* The first access to memory or registers that are not there ends a       *)
(* behaviour (fault).  Probing, removing and loading the module are        *)
(* serialised by the kernel.  Left out: a card without a mezzanine, memory *)
(* that is only leaked, the SDB tree.                                      *)
(***************************************************************************)
EXTENDS Naturals

CONSTANT NTx      \* transmit descriptors (WRN_NR_TXDESC)

ASSUME NTxAssumption == NTx \in Nat /\ NTx > 1

Sources == {"nic", "txtsu", "dio"}

VARIABLES
  smp,        \* may the handler and the tasklet run beside other code?
  shared,     \* is the interrupt line shared with another board?
  mayUnload,  \* may the module be unloaded with the card in place?
  mod,        \* the module: "out", "half" (only wrn_fmc_drv is registered),
              \* "in", or "leaving" (only wrn_fmc_drv is left)
  plat,       \* is wrn_driver registered?
  cores,      \* does the gateware have the VIC and WR-DIO cores?
  lm32,       \* the CPU in the gateware: "running" or "held" in reset
  bound,      \* is wrn_fmc_drv bound to the card (from the start of probe)?
  gpio,       \* dd->gc is a registered GPIO chip
  irq,        \* wrn_handler is requested
  mem,        \* pdev, drvdata and wrn: "none", "live" or "freed"
  pdev,       \* fmc->mezzanine_data points to pdev
  ppBound,    \* is wrn_driver bound to pdev?
  maps,       \* wrn->bases: "null", "mapped" or "gone"
  net,        \* is the interface registered?
  dio,        \* drvdata->mezzanine_data: "none", "live" or "freed"
  head,       \* wrn->next_tx_head
  vic,        \* VIC_CTL_ENABLE
  ier,        \* sources whose interrupts are enabled in their core
  cr,         \* are RX_EN and TX_EN set?
  raised,     \* the source the VIC presents, or "none"
  pc,         \* where the kernel thread that probes or removes is
  job,        \* what it does: "none", "probe" or "remove"
  back,       \* where wrn_probe or wrn_remove returns to
  hpc,        \* wrn_handler: "idle", "read" or "serve"
  tlet,       \* is rx_tlet scheduled?
  upc,        \* an application: "idle" or inside wrn_mezzanine_ioctl
  fault       \* <<>>, or who found something missing and when

params == <<smp, shared, mayUnload>>
module == <<mod, plat>>
board == <<cores, lm32, vic, ier, cr>>
fmcVars == <<bound, gpio, irq, mem, pdev>>
netVars == <<ppBound, maps, net, dio, head>>
thread == <<pc, job, back>>
others == <<raised, hpc, tlet, upc>>
lifeVars == <<params, module, board, fmcVars, netVars, thread, others, fault>>

LifeInit ==
  /\ smp \in BOOLEAN /\ shared \in BOOLEAN /\ mayUnload \in BOOLEAN
  /\ mod = "out" /\ plat = FALSE
  /\ cores = FALSE /\ lm32 = "running" /\ vic = FALSE /\ ier = {} /\ cr = FALSE
  /\ bound = FALSE /\ gpio = FALSE /\ irq = FALSE /\ mem = "none" /\ pdev = FALSE
  /\ ppBound = FALSE /\ maps = "null" /\ net = FALSE /\ dio = "none" /\ head = 0
  /\ pc = "idle" /\ job = "none" /\ back = "idle"
  /\ raised = "none" /\ hpc = "idle" /\ tlet = FALSE /\ upc = "idle"
  /\ fault = <<>>

\* From platform_driver_unregister on, everything is part of the removal, and so
\* is what comes after it.
When == IF mod = "leaving" \/ ~bound THEN "remove"
        ELSE IF pc = "idle" THEN "up" ELSE job

Faulting(who) ==
  /\ fault' = <<who, When>>
  /\ UNCHANGED <<params, module, board, fmcVars, netVars, thread, others>>

\* Without SMP an interrupt and the tasklet it schedules run to their end
\* before anything else goes on.
Quiet == smp \/ (raised = "none" /\ hpc = "idle" /\ ~tlet)

\* The thread is at l, and may go on.
At(l) == pc = l /\ Quiet

Goto(l) == pc' = l /\ UNCHANGED <<job, back, fault>>

\* wrn_fmc_probe or wrn_fmc_remove returns.
Done(b) ==
  /\ bound' = b
  /\ pc' = "idle"
  /\ job' = "none"
  /\ UNCHANGED <<back, fault>>

Start(j, l, b) ==
  /\ pc' = l
  /\ job' = j
  /\ back' = b
  /\ UNCHANGED fault

\* wrn_probe or wrn_remove returns.
Leave ==
  /\ pc' = back
  /\ job' = IF back = "idle" THEN "none" ELSE job
  /\ back' = "idle"
  /\ UNCHANGED fault

-----------------------------------------------------------------------------
(* wrn_init, wrn_exit                                                      *)

InsmodFmc ==
  /\ At("idle")
  /\ mod = "out"
  /\ mod' = "half"
  /\ UNCHANGED <<params, plat, board, fmcVars, netVars, thread, others, fault>>

\* An error of platform_driver_register goes unseen.  A device that is there is
\* probed.
InsmodPlat ==
  /\ At("idle")
  /\ mod = "half"
  /\ mod' = "in"
  /\ plat' \in BOOLEAN
  /\ IF plat' /\ pdev
     THEN Start("probe", "map", "idle")
     ELSE UNCHANGED <<thread, fault>>
  /\ UNCHANGED <<params, board, fmcVars, netVars, others>>

RmmodPlat ==
  /\ At("idle")
  /\ mayUnload \/ ~bound
  /\ mod = "in"
  /\ mod' = "leaving"
  /\ plat' = FALSE
  /\ IF ppBound
     THEN Start("remove", "cr", "idle")
     ELSE UNCHANGED <<thread, fault>>
  /\ UNCHANGED <<params, board, fmcVars, netVars, others>>

RmmodFmc ==
  /\ At("idle")
  /\ mod = "leaving"
  /\ mod' = "out"
  /\ IF bound
     THEN Start("remove", "vicExit", "idle")
     ELSE UNCHANGED <<thread, fault>>
  /\ UNCHANGED <<params, plat, board, fmcVars, netVars, others>>

-----------------------------------------------------------------------------
(* wrn_fmc_probe                                                           *)

\* The gateware is loaded, which takes longer than a scheduled tasklet waits:
\* every core is as after a reset.  A probe that fails earlier leaves everything
\* as it is.
Probe ==
  /\ At("idle")
  /\ mod # "out"
  /\ ~bound
  /\ ~tlet
  /\ bound' = TRUE
  /\ cores' \in BOOLEAN
  /\ lm32' = "running"
  /\ vic' = FALSE
  /\ ier' = {}
  /\ cr' = FALSE
  /\ raised' = "none"
  /\ Start("probe", "wrc", "idle")
  /\ UNCHANGED <<params, module, gpio, irq, mem, pdev, netVars, hpc, tlet, upc>>

\* No need to load the LM32's program; no RAM or SYSCON core to load it with,
\* which ends the probe as a success; or the LM32 is reset.
Wrc ==
  /\ At("wrc")
  /\ \/ Goto("gpio") /\ UNCHANGED <<bound, lm32>>
     \/ Done(TRUE) /\ UNCHANGED lm32
     \/ Goto("lm32") /\ lm32' = "held" /\ UNCHANGED bound
  /\ UNCHANGED <<params, module, cores, vic, ier, cr, gpio, irq, mem, pdev, netVars,
                 others>>

\* Mutant: the LM32 is released only when its program was loaded.
LoadWrcHeld ==
  /\ At("lm32")
  /\ \/ Goto("gpio") /\ lm32' = "running" /\ UNCHANGED bound
     \/ Done(TRUE) /\ lm32' = "running"
     \/ Done(FALSE) /\ UNCHANGED lm32
  /\ UNCHANGED <<params, module, cores, vic, ier, cr, gpio, irq, mem, pdev, netVars,
                 others>>

\* wrn_load_wrc: loaded; "can't reset LM32", a success again; or failed.
LoadWrc ==
  /\ At("lm32")
  /\ lm32' = "running"
  /\ \/ Goto("gpio") /\ UNCHANGED bound
     \/ \E b \in BOOLEAN : Done(b)
  /\ UNCHANGED <<params, module, cores, vic, ier, cr, gpio, irq, mem, pdev, netVars,
                 others>>

\* When gpiochip_add fails the chip is freed here and once more by the devres
\* core.
GpioInit ==
  /\ At("gpio")
  /\ \/ Goto("irq") /\ gpio' = TRUE /\ UNCHANGED bound
     \/ Done(FALSE) /\ UNCHANGED gpio
     \/ Faulting("bus")
  /\ UNCHANGED <<params, module, board, irq, mem, pdev, netVars, others>>

-----------------------------------------------------------------------------
(* wrn_eth_init                                                            *)

IrqRequest ==
  /\ At("irq")
  /\ \/ Goto("alloc") /\ irq' = TRUE
     \/ Goto("gpioExit") /\ UNCHANGED irq
  /\ UNCHANGED <<params, module, board, bound, gpio, mem, pdev, netVars, others>>

\* The allocations, and the cores wrn_driver needs; else out_mem, where
\* irq_free waits for the handler.
Alloc ==
  /\ At("alloc")
  /\ \/ Goto("publish") /\ mem' = "live" /\ UNCHANGED irq
     \/ hpc = "idle" /\ Goto("gpioExit") /\ irq' = FALSE /\ UNCHANGED mem
  /\ UNCHANGED <<params, module, board, bound, gpio, pdev, netVars, others>>

Publish ==
  /\ At("publish")
  /\ pdev' = TRUE
  /\ Goto("register")
  /\ UNCHANGED <<params, module, board, bound, gpio, irq, mem, netVars, others>>

\* platform_device_register probes when wrn_driver is there; what comes of it
\* is not looked at.
Register ==
  /\ At("register")
  /\ IF plat THEN Start(job, "map", "vic") ELSE Goto("vic")
  /\ UNCHANGED <<params, module, board, fmcVars, netVars, others>>

VicInit ==
  /\ At("vic")
  /\ IF cores
     THEN vic' = TRUE /\ Done(TRUE)
     ELSE Faulting("bus")
  /\ UNCHANGED <<params, module, gpio, irq, mem, pdev, cores, lm32, ier, cr, netVars,
                 others>>

-----------------------------------------------------------------------------
(* wrn_probe                                                               *)

\* After a failure wrn_remove starts with the registers that were not mapped.
MapResources ==
  /\ At("map")
  /\ \/ Goto("reset") /\ maps' = "mapped"
     \/ Goto("cr") /\ UNCHANGED maps
  /\ UNCHANGED <<params, module, board, fmcVars, ppBound, net, dio, head, others>>

\* CR, and alloc_etherdev, whose result is used before it is checked.
Reset ==
  /\ At("reset")
  /\ \/ Goto("endpoint") /\ cr' = FALSE
     \/ Faulting("bus")
  /\ UNCHANGED <<params, module, cores, lm32, vic, ier, fmcVars, netVars, others>>

\* wrn_endpoint_probe.  Without an endpoint wrn_probe ends with what it has
\* mapped.
EndpointProbe ==
  /\ At("endpoint")
  /\ \/ Goto("mezzanine") /\ net' = TRUE
     \/ Goto("cr") /\ UNCHANGED net
     \/ Leave /\ UNCHANGED net
  /\ UNCHANGED <<params, module, board, fmcVars, ppBound, maps, dio, head, others>>

\* Mutant: interrupts are enabled whatever became of the allocation.
MezzanineAllocAnyway ==
  /\ At("mezzanine")
  /\ dio' \in {dio, "live"}
  /\ Goto("dioIer")
  /\ UNCHANGED <<params, module, board, fmcVars, ppBound, maps, net, head, others>>

\* wrn_mezzanine_init; its error is reported and no more.
MezzanineAlloc ==
  /\ At("mezzanine")
  /\ \/ Goto("dioIer") /\ dio' = "live"
     \/ Goto("rings") /\ UNCHANGED dio
  /\ UNCHANGED <<params, module, board, fmcVars, ppBound, maps, net, head, others>>

MezzanineEnable ==
  /\ At("dioIer")
  /\ \/ cores /\ ier' = ier \cup {"dio"} /\ Goto("rings")
     \/ ~cores /\ Faulting("bus")
  /\ UNCHANGED <<params, module, cores, lm32, vic, cr, fmcVars, netVars, others>>

\* The descriptors are cleared and the indexes set to 0.
Rings ==
  /\ At("rings")
  /\ head' = 0
  /\ Goto("enable")
  /\ UNCHANGED <<params, module, board, fmcVars, ppBound, maps, net, dio, others>>

\* CR, EIC_IER and wrn_tstamp_init.
Enable ==
  /\ At("enable")
  /\ cr' = TRUE
  /\ ier' = ier \cup {"nic", "txtsu"}
  /\ ppBound' = TRUE
  /\ Leave
  /\ UNCHANGED <<params, module, cores, lm32, vic, fmcVars, maps, net, dio, head,
                 others>>

-----------------------------------------------------------------------------
(* wrn_remove, called by the bus and by a failing wrn_probe                *)

StopNic ==
  /\ At("cr")
  /\ \/ maps = "mapped" /\ cr' = FALSE /\ Goto(IF net THEN "mezzExit" ELSE "unmap")
     \/ maps # "mapped" /\ Faulting("bus")
  /\ UNCHANGED <<params, module, cores, lm32, vic, ier, fmcVars, netVars, others>>

\* wrn_mezzanine_exit: the pointer stays.
MezzanineExit ==
  /\ At("mezzExit")
  /\ ier' = ier \ {"dio"}
  /\ dio' = IF dio = "live" THEN "freed" ELSE dio
  /\ Goto("netExit")
  /\ UNCHANGED <<params, module, cores, lm32, vic, cr, fmcVars, ppBound, maps, net,
                 head, others>>

\* unregister_netdev takes the rtnl lock, which an ioctl holds.
NetExit ==
  /\ At("netExit")
  /\ upc = "idle"
  /\ net' = FALSE
  /\ Goto("unmap")
  /\ UNCHANGED <<params, module, board, fmcVars, ppBound, maps, dio, head, others>>

Unmap ==
  /\ At("unmap")
  /\ maps' = "gone"
  /\ ppBound' = FALSE
  /\ Leave
  /\ UNCHANGED <<params, module, board, fmcVars, net, dio, head, others>>

-----------------------------------------------------------------------------
(* wrn_fmc_remove                                                          *)

Remove ==
  /\ At("idle")
  /\ bound
  /\ Start("remove", "vicExit", "idle")
  /\ UNCHANGED <<params, module, board, fmcVars, netVars, others>>

\* Mutant: the VIC is left to irq_free.
VicExitLater ==
  /\ At("vicExit")
  /\ \/ pdev /\ Goto("unregister")
     \/ ~pdev /\ Faulting("bus")
  /\ UNCHANGED <<params, module, board, fmcVars, netVars, others>>

\* wrn_vic_exit looks into mezzanine_data before anyone asks whether it is set.
VicExit ==
  /\ At("vicExit")
  /\ \/ pdev /\ vic' = FALSE /\ Goto("unregister")
     \/ ~pdev /\ Faulting("bus")
  /\ UNCHANGED <<params, module, cores, lm32, ier, cr, fmcVars, netVars, others>>

Unregister ==
  /\ At("unregister")
  /\ IF ppBound THEN Start(job, "cr", "free") ELSE Goto("free")
  /\ UNCHANGED <<params, module, board, fmcVars, netVars, others>>

\* drvdata and wrn go, and with them what they pointed to.
Free ==
  /\ At("free")
  /\ mem' = "freed"
  /\ maps' = "null"
  /\ dio' = "none"
  /\ head' = 0
  /\ Goto("clear")
  /\ UNCHANGED <<params, module, board, bound, gpio, irq, pdev, ppBound, net, others>>

Clear ==
  /\ At("clear")
  /\ pdev' = FALSE
  /\ mem' = "none"
  /\ Goto("irqFree")
  /\ UNCHANGED <<params, module, board, bound, gpio, irq, netVars, others>>

\* free_irq waits for a handler that runs.
IrqFree ==
  /\ At("irqFree")
  /\ hpc = "idle"
  /\ irq' = FALSE
  /\ Goto("gpioExit")
  /\ UNCHANGED <<params, module, board, bound, gpio, mem, pdev, netVars, others>>

\* The end of wrn_fmc_remove and of a wrn_fmc_probe that fails.
GpioExit ==
  /\ At("gpioExit")
  /\ \/ gpio /\ gpio' = FALSE /\ Done(FALSE)
     \/ ~gpio /\ Faulting("bus")
  /\ UNCHANGED <<params, module, board, irq, mem, pdev, netVars, others>>

-----------------------------------------------------------------------------
(* Interrupts                                                              *)

\* The gateware: a core with its interrupt enabled raises it, and the VIC holds
\* on to it until EOIR.  A frame under way may end after CR was cleared.
HwRaise(s) ==
  /\ vic
  /\ s \in ier
  /\ raised = "none"
  /\ hpc = "idle"
  /\ raised' = s
  /\ UNCHANGED <<params, module, board, fmcVars, netVars, thread, hpc, tlet, upc,
                 fault>>

\* Called for its own interrupt, also when the VIC was disabled meanwhile, or
\* for another board's.  Without mezzanine_data it is "too early".
HandlerEnter ==
  /\ irq
  /\ hpc = "idle"
  /\ raised # "none" \/ shared
  /\ hpc' = IF pdev THEN "read" ELSE "idle"
  /\ raised' = IF pdev THEN raised ELSE "none"
  /\ UNCHANGED <<params, module, board, fmcVars, netVars, thread, tlet, upc, fault>>

\* drvdata and its vic_base.
HandlerRead ==
  /\ hpc = "read"
  /\ \/ /\ mem = "live" /\ cores
        /\ hpc' = "serve"
        /\ UNCHANGED <<raised, tlet, upc, fault>>
     \/ ~(mem = "live" /\ cores) /\ Faulting("handler")
  /\ UNCHANGED <<params, module, board, fmcVars, netVars, thread>>

\* What the handler of a source needs; wrn_tstamp_interrupt can do without
\* registers that were never mapped.
Served(s) ==
  mem = "live" /\ CASE s = "nic" -> maps = "mapped"
                    [] s = "txtsu" -> maps # "gone"
                    [] s = "dio" -> pdev /\ dio = "live"
                    [] OTHER -> TRUE

\* wrn_interrupt may schedule the tasklet.
HandlerServe ==
  /\ hpc = "serve"
  /\ \/ /\ Served(raised)
        /\ hpc' = "idle"
        /\ raised' = "none"
        /\ tlet' \in {tlet, tlet \/ raised = "nic"}
        /\ UNCHANGED <<upc, fault>>
     \/ ~Served(raised) /\ Faulting("handler")
  /\ UNCHANGED <<params, module, board, fmcVars, netVars, thread>>

\* wrn_rx_interrupt gives the frames to the interface.
Tasklet ==
  /\ tlet
  /\ smp \/ hpc = "idle"
  /\ \/ /\ mem = "live" /\ maps = "mapped" /\ net
        /\ tlet' = FALSE
        /\ UNCHANGED <<raised, hpc, upc, fault>>
     \/ ~(mem = "live" /\ maps = "mapped" /\ net) /\ Faulting("tasklet")
  /\ UNCHANGED <<params, module, board, fmcVars, netVars, thread>>

-----------------------------------------------------------------------------
(* Applications: an interface can be used as soon as it is registered      *)

Xmit ==
  /\ Quiet
  /\ net
  /\ head' = (head + 1) % NTx
  /\ UNCHANGED <<params, module, board, fmcVars, ppBound, maps, net, dio, thread,
                 others, fault>>

\* An ioctl for the mezzanine, which may sleep until a stamp comes.
IoctlEnter ==
  /\ Quiet
  /\ net
  /\ upc = "idle"
  /\ upc' = "ioctl"
  /\ UNCHANGED <<params, module, board, fmcVars, netVars, thread, raised, hpc, tlet,
                 fault>>

IoctlUse ==
  /\ Quiet
  /\ upc = "ioctl"
  /\ \/ dio = "live" /\ upc' = "idle" /\ UNCHANGED <<raised, hpc, tlet, fault>>
     \/ dio # "live" /\ Faulting("ioctl")
  /\ UNCHANGED <<params, module, board, fmcVars, netVars, thread>>

-----------------------------------------------------------------------------
ModuleStep == InsmodFmc \/ InsmodPlat \/ RmmodPlat \/ RmmodFmc

ProbeStep ==
  \/ Probe \/ Wrc \/ LoadWrc \/ GpioInit \/ IrqRequest \/ Alloc \/ Publish
  \/ Register \/ VicInit \/ MapResources \/ Reset \/ EndpointProbe
  \/ MezzanineAlloc \/ MezzanineEnable \/ Rings \/ Enable

RemoveStep ==
  \/ StopNic \/ MezzanineExit \/ NetExit \/ Unmap \/ Remove \/ VicExit
  \/ Unregister \/ Free \/ Clear \/ IrqFree \/ GpioExit

IrqStep ==
  (\E s \in Sources : HwRaise(s)) \/ HandlerEnter \/ HandlerRead \/ HandlerServe
    \/ Tasklet

UserStep == Xmit \/ IoctlEnter \/ IoctlUse

\* Nothing is said of what follows a fault.
LifeNext ==
  \/ fault = <<>> /\ (ModuleStep \/ ProbeStep \/ RemoveStep \/ IrqStep \/ UserStep)
  \/ fault # <<>> /\ UNCHANGED lifeVars

LifeSpec == LifeInit /\ [][LifeNext]_lifeVars

-----------------------------------------------------------------------------
(* Properties                                                              *)

\* Types of the variables.
FlagTypeOK ==
  {smp, shared, mayUnload, plat, cores, vic, cr, bound, gpio, irq, pdev, ppBound, net,
   tlet} \subseteq BOOLEAN

StateTypeOK ==
  /\ mod \in {"out", "half", "in", "leaving"}
  /\ lm32 \in {"running", "held"}
  /\ mem \in {"none", "live", "freed"}
  /\ maps \in {"null", "mapped", "gone"}
  /\ dio \in {"none", "live", "freed"}
  /\ head \in 0 .. NTx - 1
  /\ ier \subseteq Sources
  /\ raised \in Sources \cup {"none"}
  /\ pc \in {"idle", "wrc", "lm32", "gpio", "irq", "alloc", "publish", "register",
             "vic", "map", "reset", "endpoint", "mezzanine", "dioIer", "rings",
             "enable", "cr", "mezzExit", "netExit", "unmap", "vicExit",
             "unregister", "free", "clear", "irqFree", "gpioExit"}
  /\ job \in {"none", "probe", "remove"}
  /\ back \in {"idle", "vic", "free"}
  /\ hpc \in {"idle", "read", "serve"}
  /\ upc \in {"idle", "ioctl"}
  /\ fault \in {<<>>} \cup ({"bus", "handler", "tasklet", "ioctl"}
                              \X {"probe", "up", "remove"})

LifeTypeOK == FlagTypeOK /\ StateTypeOK

\* Interrupts find what they need: always while the card is probed, in either
\* order of VIC and interface, and while it is in use (if the gateware has the
\* cores); while it is taken away when nothing runs beside the removal, the
\* line is not shared and the module stays.
InterruptsServed ==
  /\ fault \in {"handler", "tasklet"} \X {"probe", "up"} => ~cores
  /\ fault \in {"handler", "tasklet"} \X {"remove"} => smp \/ shared \/ mayUnload

\* The VIC is enabled only while there is a handler that knows the device, and
\* an interface that is there between two operations of the bus is wired up to
\* the last register.
WiredUp ==
  /\ vic => irq /\ pdev /\ mem = "live"
  /\ pc = "idle" /\ net =>
       /\ vic /\ ppBound /\ cr /\ maps = "mapped"
       /\ {"nic", "txtsu"} \subseteq ier
       /\ "dio" \in ier <=> dio = "live"

\* A probe that failed and a removal leave nothing behind, whatever failed: no
\* handler, GPIO chip, device, interface or scheduled tasklet, the VIC off and
\* the LM32 not held in reset.
NothingLeft ==
  pc = "idle" /\ ~bound =>
    /\ ~irq /\ ~gpio /\ ~pdev /\ mem = "none" /\ dio = "none"
    /\ ~net /\ ~vic /\ lm32 = "running" /\ (smp \/ ~tlet)

\* "make sure all head/tail are 0 -- not needed here" (wr_nic/device.c:212).
HeadsAlreadyZero == pc = "rings" => head = 0
=============================================================================
