--------------------------- MODULE SpecLifecycle ---------------------------
(***************************************************************************)
(* The life of a card: probe, a bitstream written to the misc device and   *)
(* removal (spec-pci.c), the FMC device they create and destroy            *)
(* (spec-fmc.c) and the mezzanine drivers that reprogram the FPGA under    *)
(* it.  Every load of the FPGA is a reset, the words, and a wait of two    *)
(* seconds at most for the DONE or the ERROR bit of FCL_IRQ.               *)
(*                                                                         *)
(* Callers run probe, write or remove.  The kernel serialises probe and    *)
(* remove; nothing serialises writes, so two callers may both be writing.  *)
(* The fmc bus is not part of the repository: it loads the gateware it is  *)
(* given, adds the device, probes a driver at any time, and lets a probe   *)
(* end before it unregisters the device.  A caller that follows a null     *)
(* spec->fmc, which takes two of them, stops there.                        *)
(*                                                                         *)
(* Left out: a write refused before it touches the card (no byte, no       *)
(* memory), removal under an open misc device, the GPIO chip.              *)
(***************************************************************************)
EXTENDS Naturals

CONSTANTS
  Caller,         \* threads that probe, write or remove
  Dev,            \* FMC devices that may exist at once
  NoDev,          \* a null pointer to one
  NFiles          \* spec_nr_eeprom: files named as fake EEPROMs

ASSUME LifecycleAssumption ==
  /\ NoDev \notin Dev
  /\ Caller \cap Dev = {}
  /\ NFiles \in Nat

Image == {"golden", "custom", "corrupt"}
Process == Caller \cup Dev    \* a driver runs under its device's name

VARIABLES
  goldenFile,   \* what the file named by spec_golden_name_get holds
  fwNamed,      \* is spec_fw_name set?
  testIrq,      \* spec_test_irq
  resetFails,   \* may FCL_CTRL not read back as written?
  bound,        \* from the start of probe to the end of remove
  misc,         \* is the misc device there?
  registered,   \* SPEC_FLAG_FMC_REGISTERED
  fmc,          \* spec->fmc
  irqCfg,       \* is GNINT_CFG set up?
  nextFile,     \* the static eeprom_index of spec_i2c_init
  fake,         \* SPEC_FLAG_FAKE_EEPROM
  mem,          \* per device: "none", "made" or "onBus"
  golden,       \* devices with FMC_DEVICE_HAS_GOLDEN
  custom,       \* devices with FMC_DEVICE_HAS_CUSTOM
  eeprom,       \* per device: what its copy of the EEPROM holds
  sdb,          \* per device: the image its SDB tree was read from
  fpga,         \* the image that runs in the FPGA
  fcl,          \* FCL_IRQ: "clear", "done" or "error"
  stream,       \* what the FPGA was sent since the reset
  load,         \* per process: where in spec_load_fpga
  img,          \* per process: the image it loads
  pc,           \* per caller: where it is
  job,          \* per caller: its (last) call
  gw,           \* per caller: the bitstream written, or "none"
  mine,         \* per caller: its local fmc
  ret,          \* per caller: what its last call returned
  drv,          \* per device: where its driver is
  byName        \* per device: does the driver load spec_fw_name?

params == <<goldenFile, fwNamed, testIrq, resetFails>>
card == <<bound, misc, registered, fmc, irqCfg, fake, nextFile>>
devices == <<mem, golden, custom, sdb, eeprom>>
chip == <<fpga, fcl, stream>>
loads == <<load, img>>
callers == <<pc, job, gw, mine, ret>>
drivers == <<drv, byName>>
cardVars == <<params, card, devices, chip, loads, callers, drivers>>

CardInit ==
  /\ goldenFile \in Image
  /\ fwNamed \in BOOLEAN
  /\ testIrq \in BOOLEAN
  /\ resetFails \in BOOLEAN
  /\ bound = FALSE
  /\ misc = FALSE
  /\ registered = FALSE
  /\ fmc = NoDev
  /\ irqCfg = FALSE
  /\ nextFile = 0
  /\ fake = FALSE
  /\ mem = [d \in Dev |-> "none"]
  /\ golden = {}
  /\ custom = {}
  /\ eeprom = [d \in Dev |-> "none"]
  /\ sdb = [d \in Dev |-> "none"]
  /\ fpga \in {"blank", "golden", "custom"}
  /\ fcl \in {"clear", "done"}
  /\ fcl = "done" => fpga # "blank"
  /\ stream = "none"
  /\ load = [p \in Process |-> "none"]
  /\ img = [p \in Process |-> "none"]
  /\ pc = [c \in Caller |-> "idle"]
  /\ job = [c \in Caller |-> "none"]
  /\ gw = [c \in Caller |-> "none"]
  /\ mine = [c \in Caller |-> NoDev]
  /\ ret = [c \in Caller |-> "none"]
  /\ drv = [d \in Dev |-> "out"]
  /\ byName = [d \in Dev |-> FALSE]

-----------------------------------------------------------------------------
(* spec_load_fpga, loader_low_level                                        *)

StartLoad(p, i) ==
  /\ load' = [load EXCEPT ![p] = "reset"]
  /\ img' = [img EXCEPT ![p] = i]

EndLoad(p) ==
  /\ load' = [load EXCEPT ![p] = "none"]
  /\ img' = [img EXCEPT ![p] = "none"]

\* The reset empties the FPGA and clears FCL_IRQ.  A reset that does not read
\* back ends loader_low_level; its caller waits for DONE all the same.
LoadReset(p) ==
  /\ load[p] = "reset"
  /\ \/ /\ load' = [load EXCEPT ![p] = "words"]
        /\ fpga' = "blank"
        /\ fcl' = "clear"
        /\ stream' = "none"
     \/ /\ resetFails
        /\ load' = [load EXCEPT ![p] = "wait"]
        /\ UNCHANGED chip
  /\ UNCHANGED <<params, card, devices, img, callers, drivers>>

\* All the words, or those before the error bit.
LoadWords(p) ==
  /\ load[p] = "words"
  /\ load' = [load EXCEPT ![p] = "wait"]
  /\ stream' = IF stream = "none" THEN img[p] ELSE "mixed"
  /\ UNCHANGED <<params, card, devices, fpga, fcl, img, callers, drivers>>

\* Mutant: no limit to the wait.
LoadWaitForever(p) ==
  /\ load[p] = "wait"
  /\ load' = IF fcl = "clear" THEN load
             ELSE [load EXCEPT ![p] = IF fcl = "done" THEN "ok" ELSE "failed"]
  /\ UNCHANGED <<params, card, devices, chip, img, callers, drivers>>

\* DONE wins over ERROR; with neither, the time runs out.
LoadWait(p) ==
  /\ load[p] = "wait"
  /\ load' = [load EXCEPT ![p] = IF fcl = "done" THEN "ok" ELSE "failed"]
  /\ UNCHANGED <<params, card, devices, chip, img, callers, drivers>>

\* The FPGA may configure late, after the loader gave up, or never.
HwConfigure ==
  /\ fcl = "clear"
  /\ \/ /\ stream \in {"golden", "custom"}
        /\ fcl' = "done"
        /\ fpga' = stream
     \/ /\ stream \in {"corrupt", "mixed"}
        /\ fcl' = "error"
        /\ UNCHANGED fpga
  /\ UNCHANGED <<params, card, devices, stream, loads, callers, drivers>>

-----------------------------------------------------------------------------
(* Calls of the carrier: probe, write, remove                              *)

Goto(c, l) == pc' = [pc EXCEPT ![c] = l]

Begin(c, j, g, l) ==
  /\ job' = [job EXCEPT ![c] = j]
  /\ gw' = [gw EXCEPT ![c] = g]
  /\ ret' = [ret EXCEPT ![c] = "none"]
  /\ Goto(c, l)
  /\ UNCHANGED mine

CallReturn(c, r) ==
  /\ ret' = [ret EXCEPT ![c] = r]
  /\ gw' = [gw EXCEPT ![c] = "none"]
  /\ mine' = [mine EXCEPT ![c] = NoDev]
  /\ Goto(c, "idle")
  /\ UNCHANGED job

\* spec_reconfigure failed: write returns it, probe undoes what it did.
Fail(c) ==
  IF job[c] = "write"
  THEN CallReturn(c, "error")
  ELSE Goto(c, "unmap") /\ UNCHANGED <<job, gw, mine, ret>>

Serial == \A c \in Caller : pc[c] = "idle"

\* No memory or no mapping of the BARs: straight to out_unmap.
Probe(c) ==
  /\ Serial
  /\ ~bound
  /\ bound' = TRUE
  /\ \E l \in {"reconfigure", "unmap"} : Begin(c, "probe", "none", l)
  /\ UNCHANGED <<params, misc, registered, fmc, irqCfg, nextFile, fake, devices,
                 chip, loads, drivers>>

Write(c) ==
  /\ pc[c] = "idle"
  /\ misc
  /\ \E i \in Image : Begin(c, "write", i, "reconfigure")
  /\ UNCHANGED <<params, card, devices, chip, loads, drivers>>

Remove(c) ==
  /\ Serial
  /\ bound
  /\ misc' = FALSE
  /\ Begin(c, "remove", "none", "reconfigure")
  /\ UNCHANGED <<params, bound, registered, fmc, irqCfg, nextFile, fake, devices,
                 chip, loads, drivers>>

\* What follows spec_fmc_destroy.
AfterDestroy(c) == IF job[c] \in {"probe", "write"} THEN "fetch" ELSE "unmap"

\* SPEC_FLAG_FMC_REGISTERED, tested by spec_reconfigure and spec_fmc_destroy.
DestroyEnter(c) ==
  /\ pc[c] = "reconfigure"
  /\ Goto(c, IF registered THEN "unregister" ELSE AfterDestroy(c))
  /\ UNCHANGED <<params, card, devices, chip, loads, job, gw, mine, ret, drivers>>

\* fmc_device_unregister: the driver's remove frees the SDB tree.
Unregister(c) ==
  /\ pc[c] = "unregister"
  /\ fmc # NoDev
  /\ drv[fmc] \in {"out", "bound"}
  /\ drv' = [drv EXCEPT ![fmc] = "out"]
  /\ sdb' = [sdb EXCEPT ![fmc] = "none"]
  /\ mem' = [mem EXCEPT ![fmc] = "made"]
  /\ Goto(c, "irqExit")
  /\ UNCHANGED <<params, card, golden, custom, eeprom, chip, loads, job, gw, mine,
                 ret, byName>>

IrqExit(c) ==
  /\ pc[c] = "irqExit"
  /\ irqCfg' = FALSE
  /\ Goto(c, "forget")
  /\ UNCHANGED <<params, bound, misc, registered, fmc, nextFile, fake, devices,
                 chip, loads, job, gw, mine, ret, drivers>>

\* A device goes back to the allocator.
Discard(d) ==
  /\ mem' = [mem EXCEPT ![d] = "none"]
  /\ golden' = golden \ {d}
  /\ custom' = custom \ {d}
  /\ sdb' = [sdb EXCEPT ![d] = "none"]
  /\ eeprom' = [eeprom EXCEPT ![d] = "none"]

\* put_device, and spec forgets the device.
Forget(c) ==
  /\ pc[c] = "forget"
  /\ fmc # NoDev
  /\ Discard(fmc)
  /\ fmc' = NoDev
  /\ registered' = FALSE
  /\ Goto(c, AfterDestroy(c))
  /\ UNCHANGED <<params, bound, misc, irqCfg, nextFile, fake, chip, loads, job,
                 gw, mine, ret, drivers>>

\* request_firmware, and the load of the golden gateware.
Fetch(c) ==
  /\ pc[c] = "fetch"
  /\ \/ StartLoad(c, goldenFile) /\ Goto(c, "golden") /\ UNCHANGED <<job, gw, mine, ret>>
     \/ Fail(c) /\ UNCHANGED loads
  /\ UNCHANGED <<params, card, devices, chip, drivers>>

GoldenLoaded(c) ==
  /\ pc[c] = "golden"
  /\ \/ load[c] = "ok" /\ Goto(c, "create") /\ UNCHANGED <<job, gw, mine, ret>>
     \/ load[c] = "failed" /\ Fail(c)
  /\ EndLoad(c)
  /\ UNCHANGED <<params, card, devices, chip, drivers>>

-----------------------------------------------------------------------------
(* spec_fmc_create                                                         *)

Create(c) ==
  /\ pc[c] = "create"
  /\ \/ \E d \in Dev :
          /\ mem[d] = "none"
          /\ mem' = [mem EXCEPT ![d] = "made"]
          /\ mine' = [mine EXCEPT ![c] = d]
          /\ fmc' = d
          /\ Goto(c, "check")
          /\ UNCHANGED <<job, gw, ret>>
     \/ Fail(c) /\ UNCHANGED <<mem, fmc>>
  /\ UNCHANGED <<params, bound, misc, registered, irqCfg, nextFile, fake, golden,
                 custom, sdb, eeprom, chip, loads, drivers>>

\* check_golden: SDB magic, tree, vendor and device id.
CheckGolden(c) ==
  /\ pc[c] = "check"
  /\ IF fpga = "golden"
     THEN /\ golden' = golden \cup {mine[c]}
          /\ sdb' = [sdb EXCEPT ![mine[c]] = fpga]
          /\ Goto(c, "i2c")
     ELSE /\ Goto(c, "outFree")
          /\ UNCHANGED <<golden, sdb>>
  /\ UNCHANGED <<params, card, mem, custom, eeprom, chip, loads, job, gw, mine,
                 ret, drivers>>

\* spec_i2c_init.  Without an answer on the bus there is no mezzanine.  A call
\* takes the next file, if there is one; from the first file found on, what a
\* call finds in its buffer stands for what spec_eeprom_read would read.
I2cInit(c) ==
  LET wanted == nextFile < NFiles
      file == IF nextFile = 0 THEN "first" ELSE "later"
      Holds(e) == eeprom' = [eeprom EXCEPT ![mine[c]] = e] /\ Goto(c, "irq")
  IN
  /\ pc[c] = "i2c"
  /\ \/ Holds("none") /\ UNCHANGED <<nextFile, fake>>
     \/ Goto(c, "outFree") /\ UNCHANGED <<nextFile, fake, eeprom>>
     \/ /\ nextFile' = IF wanted THEN nextFile + 1 ELSE nextFile
        /\ \/ wanted /\ fake' = TRUE /\ Holds(file)
           \/ fake /\ fake' = fake /\ Holds("zeros")
           \/ ~fake /\ fake' = fake /\ Holds("real")
           \/ ~fake /\ fake' = fake /\ Goto(c, "outFree") /\ UNCHANGED eeprom
  /\ UNCHANGED <<params, bound, misc, registered, fmc, irqCfg, mem, golden, custom,
                 sdb, chip, loads, job, gw, mine, ret, drivers>>

\* spec_irq_init: only the test can fail, and leaves GNINT_CFG as it is.
IrqInit(c) ==
  /\ pc[c] = "irq"
  /\ irqCfg' = TRUE
  /\ \E l \in {"register"} \cup (IF testIrq THEN {"outFree"} ELSE {}) : Goto(c, l)
  /\ UNCHANGED <<params, bound, misc, registered, fmc, nextFile, fake, devices,
                 chip, loads, job, gw, mine, ret, drivers>>

\* Mutant: the golden flag stays.
RawStartKeepFlag(p, d, i) ==
  /\ sdb' = [sdb EXCEPT ![d] = "none"]
  /\ StartLoad(p, i)
  /\ UNCHANGED golden

\* Mutant: the SDB tree stays.
RawStartKeepTree(p, d, i) ==
  /\ golden' = golden \ {d}
  /\ StartLoad(p, i)
  /\ UNCHANGED sdb

\* spec_reprogram_raw, up to the load.
RawStart(p, d, i) ==
  /\ golden' = golden \ {d}
  /\ sdb' = [sdb EXCEPT ![d] = "none"]
  /\ StartLoad(p, i)

\* fmc_device_register_gw loads the gateware it is given, then adds the device.
Register(c) ==
  /\ pc[c] = "register"
  /\ IF gw[c] = "none"
     THEN Goto(c, "add") /\ UNCHANGED <<golden, sdb, loads>>
     ELSE Goto(c, "gateware") /\ RawStart(c, mine[c], gw[c])
  /\ UNCHANGED <<params, card, mem, custom, eeprom, chip, job, gw, mine, ret,
                 drivers>>

GatewareLoaded(c) ==
  /\ pc[c] = "gateware"
  /\ \/ /\ load[c] = "ok"
        /\ custom' = custom \cup {mine[c]}
        /\ Goto(c, "add")
     \/ /\ load[c] = "failed"
        /\ Goto(c, "outIrq")
        /\ UNCHANGED custom
  /\ EndLoad(c)
  /\ UNCHANGED <<params, card, mem, golden, sdb, eeprom, chip, job, gw, mine, ret,
                 drivers>>

\* Mutant: a failure leaves the interrupts configured.
AddDeviceNoExit(c) ==
  /\ pc[c] = "add"
  /\ \/ mem' = [mem EXCEPT ![mine[c]] = "onBus"] /\ Goto(c, "flag")
     \/ Goto(c, "outFree") /\ UNCHANGED mem
  /\ UNCHANGED <<params, card, golden, custom, sdb, eeprom, chip, loads, job, gw,
                 mine, ret, drivers>>

AddDevice(c) ==
  /\ pc[c] = "add"
  /\ \/ mem' = [mem EXCEPT ![mine[c]] = "onBus"] /\ Goto(c, "flag")
     \/ Goto(c, "outIrq") /\ UNCHANGED mem
  /\ UNCHANGED <<params, card, golden, custom, sdb, eeprom, chip, loads, job, gw,
                 mine, ret, drivers>>

\* Mutant: the flag is probe's business.
SetFlagProbe(c) ==
  /\ pc[c] = "flag"
  /\ registered' = (job[c] = "probe")
  /\ IF job[c] = "write"
     THEN CallReturn(c, "ok")
     ELSE Goto(c, "misc") /\ UNCHANGED <<job, gw, mine, ret>>
  /\ UNCHANGED <<params, bound, misc, fmc, irqCfg, nextFile, fake, devices, chip,
                 loads, drivers>>

\* SPEC_FLAG_FMC_REGISTERED; write returns, probe goes on to the misc device.
SetFlag(c) ==
  /\ pc[c] = "flag"
  /\ registered' = TRUE
  /\ IF job[c] = "write"
     THEN CallReturn(c, "ok")
     ELSE Goto(c, "misc") /\ UNCHANGED <<job, gw, mine, ret>>
  /\ UNCHANGED <<params, bound, misc, fmc, irqCfg, nextFile, fake, devices, chip,
                 loads, drivers>>

OutIrq(c) ==
  /\ pc[c] = "outIrq"
  /\ irqCfg' = FALSE
  /\ Goto(c, "outFree")
  /\ UNCHANGED <<params, bound, misc, registered, fmc, nextFile, fake, devices,
                 chip, loads, job, gw, mine, ret, drivers>>

OutFree(c) ==
  /\ pc[c] = "outFree"
  /\ fmc' = NoDev
  /\ Discard(mine[c])
  /\ Fail(c)
  /\ UNCHANGED <<params, bound, misc, registered, irqCfg, nextFile, fake, chip,
                 loads, drivers>>

-----------------------------------------------------------------------------
(* The end of probe and remove                                             *)

\* When misc_register fails, failed_misc destroys the device.
MiscRegister(c) ==
  /\ pc[c] = "misc"
  /\ \/ /\ misc' = TRUE
        /\ CallReturn(c, "ok")
     \/ /\ job' = [job EXCEPT ![c] = "undo"]
        /\ Goto(c, "reconfigure")
        /\ UNCHANGED <<misc, nextFile, fake, gw, mine, ret>>
  /\ UNCHANGED <<params, bound, registered, fmc, irqCfg, nextFile, fake, devices,
                 chip, loads, drivers>>

Unmap(c) ==
  /\ pc[c] = "unmap"
  /\ bound' = FALSE
  /\ fake' = FALSE
  /\ CallReturn(c, IF job[c] = "remove" THEN "ok" ELSE "error")
  /\ UNCHANGED <<params, misc, registered, fmc, irqCfg, nextFile, devices, chip,
                 loads, drivers>>

-----------------------------------------------------------------------------
(* A mezzanine driver, called by the bus for a device                      *)

DrvGoto(d, l) == drv' = [drv EXCEPT ![d] = l]

DrvProbe(d) ==
  /\ mem[d] = "onBus"
  /\ drv[d] = "out"
  /\ DrvGoto(d, "probing")
  /\ UNCHANGED <<params, card, devices, chip, loads, callers, byName>>

\* A driver that keeps the gateware there is; validate or spec_reprogram
\* refusing before anything was changed.
DrvAsIs(d) ==
  /\ drv[d] = "probing"
  /\ \E l \in {"bound", "out"} : DrvGoto(d, l)
  /\ UNCHANGED <<params, card, devices, chip, loads, callers, byName>>

\* spec_reprogram: with a name of the driver's, or with spec_fw_name.
DrvReprogram(d) ==
  /\ drv[d] = "probing"
  /\ \/ /\ fwNamed
        /\ byName' = [byName EXCEPT ![d] = TRUE]
        /\ RawStart(d, d, goldenFile)
     \/ /\ byName' = [byName EXCEPT ![d] = FALSE]
        /\ \E i \in Image : RawStart(d, d, i)
  /\ DrvGoto(d, "loading")
  /\ UNCHANGED <<params, card, mem, custom, eeprom, chip, callers>>

\* fmc_reprogram reads the SDB tree of what was loaded.
DrvLoaded(d) ==
  /\ drv[d] = "loading"
  /\ load[d] = "ok"
  /\ custom' = custom \cup {d}
  /\ golden' = IF byName[d] THEN golden \cup {d} ELSE golden
  /\ \/ sdb' = [sdb EXCEPT ![d] = fpga] /\ DrvGoto(d, "bound")
     \/ DrvGoto(d, "out") /\ UNCHANGED sdb
  /\ EndLoad(d)
  /\ UNCHANGED <<params, card, mem, eeprom, chip, callers, byName>>

DrvNotLoaded(d) ==
  /\ drv[d] = "loading"
  /\ load[d] = "failed"
  /\ DrvGoto(d, "out")
  /\ EndLoad(d)
  /\ UNCHANGED <<params, card, devices, chip, callers, byName>>

\* spec_read_ee, spec_write_ee: refused (no change) without the golden flag.
DrvEeprom(d) ==
  /\ drv[d] = "bound"
  /\ d \in golden
  /\ DrvGoto(d, "eeprom")
  /\ UNCHANGED <<params, card, devices, chip, loads, callers, byName>>

DrvEepromEnd(d) ==
  /\ drv[d] = "eeprom"
  /\ DrvGoto(d, "bound")
  /\ UNCHANGED <<params, card, devices, chip, loads, callers, byName>>

\* The driver is unbound: wrn_fmc_remove frees the SDB tree.
DrvRelease(d) ==
  /\ drv[d] = "bound"
  /\ DrvGoto(d, "out")
  /\ sdb' = [sdb EXCEPT ![d] = "none"]
  /\ UNCHANGED <<params, card, mem, golden, custom, eeprom, chip, loads, callers,
                 byName>>

-----------------------------------------------------------------------------
LoadStep(p) == LoadReset(p) \/ LoadWords(p) \/ LoadWait(p)

CallStep(c) ==
  \/ DestroyEnter(c) \/ Unregister(c) \/ IrqExit(c) \/ Forget(c)
  \/ Fetch(c) \/ GoldenLoaded(c)
  \/ Create(c) \/ CheckGolden(c) \/ I2cInit(c) \/ IrqInit(c)
  \/ Register(c) \/ GatewareLoaded(c) \/ AddDevice(c) \/ SetFlag(c)
  \/ OutIrq(c) \/ OutFree(c) \/ MiscRegister(c) \/ Unmap(c)

DrvStep(d) ==
  \/ DrvAsIs(d) \/ DrvReprogram(d) \/ DrvLoaded(d) \/ DrvNotLoaded(d)
  \/ DrvEepromEnd(d)

CardNext ==
  \/ \E p \in Process : LoadStep(p)
  \/ \E c \in Caller : Probe(c) \/ Write(c) \/ Remove(c) \/ CallStep(c)
  \/ \E d \in Dev : DrvProbe(d) \/ DrvEeprom(d) \/ DrvRelease(d) \/ DrvStep(d)
  \/ HwConfigure

\* Threads that were started run on, and the device lock that unregistering and
\* probing take is a mutex, which starves nobody; nothing is assumed of the
\* FPGA, of who calls, and of drivers that come and go.
Fairness ==
  /\ \A p \in Process : WF_cardVars(LoadStep(p))
  /\ \A c \in Caller : WF_cardVars(CallStep(c)) /\ SF_cardVars(Unregister(c))
  /\ \A d \in Dev : WF_cardVars(DrvStep(d))

CardSpec == CardInit /\ [][CardNext]_cardVars /\ Fairness

-----------------------------------------------------------------------------
(* Properties                                                              *)

\* Types of the variables.
BoardTypeOK ==
  /\ goldenFile \in Image
  /\ fwNamed \in BOOLEAN
  /\ testIrq \in BOOLEAN
  /\ resetFails \in BOOLEAN
  /\ bound \in BOOLEAN
  /\ misc \in BOOLEAN
  /\ registered \in BOOLEAN
  /\ fmc \in Dev \cup {NoDev}
  /\ irqCfg \in BOOLEAN
  /\ nextFile \in 0 .. NFiles
  /\ fake \in BOOLEAN
  /\ fpga \in {"blank", "golden", "custom"}
  /\ fcl \in {"clear", "done", "error"}
  /\ stream \in Image \cup {"none", "mixed"}

DeviceTypeOK ==
  /\ mem \in [Dev -> {"none", "made", "onBus"}]
  /\ golden \subseteq Dev
  /\ custom \subseteq Dev
  /\ eeprom \in [Dev -> {"none", "real", "zeros", "first", "later"}]
  /\ sdb \in [Dev -> Image \cup {"none"}]
  /\ drv \in [Dev -> {"out", "probing", "loading", "bound", "eeprom"}]
  /\ byName \in [Dev -> BOOLEAN]

CallTypeOK ==
  /\ load \in [Process -> {"none", "reset", "words", "wait", "ok", "failed"}]
  /\ img \in [Process -> Image \cup {"none"}]
  /\ pc \in [Caller -> {"idle", "reconfigure", "unregister", "irqExit",
                        "forget", "fetch", "golden", "create", "check", "i2c",
                        "irq", "register", "gateware", "add", "flag", "outIrq",
                        "outFree", "misc", "unmap"}]
  /\ job \in [Caller -> {"none", "probe", "write", "remove", "undo"}]
  /\ gw \in [Caller -> Image \cup {"none"}]
  /\ mine \in [Caller -> Dev \cup {NoDev}]
  /\ ret \in [Caller -> {"none", "ok", "error"}]

CardTypeOK == BoardTypeOK /\ DeviceTypeOK /\ CallTypeOK

\* "The carrier refuses to act on registers after the golden gateware is
\* replaced" (doc/spec-sw.in:178): whenever the carrier bangs the I2C lines, in
\* spec_i2c_init or in an EEPROM access, the golden gateware runs (a refused
\* reset and spec_fw_name apart, see GoldenFlagTrue).
ActsUnderGolden ==
  /\ \A c \in Caller : pc[c] = "i2c" => fpga = "golden"
  /\ \A d \in Dev : drv[d] = "eeprom" => fpga = "golden" \/ (resetFails /\ d \in custom)

\* The flag that guards the EEPROM is true of the FPGA, also when a load fails,
\* times out or ends late; check_golden keeps it true when resets are refused,
\* but not after a driver has loaded spec_fw_name.
GoldenFlagTrue ==
  \A d \in golden : fpga = "golden" \/ (resetFails /\ d \in custom)

\* A load that spec_load_fpga reports as done ("FPGA programming successful",
\* spec-pci.c:74) left its image in the FPGA.
LoadedAsReported ==
  \A p \in Process : load[p] = "ok" => fpga = img[p]

\* The same, as long as FCL_CTRL reads back: not an earlier, late or failed
\* load's DONE is taken for this one's.
LoadedAfterReset == ~resetFails => LoadedAsReported

\* The SDB tree a driver looks its cores up in is the tree of the gateware
\* that runs.
SdbDescribes == \A d \in Dev : sdb[d] \in {"none", fpga}

\* What the carrier knows of the FPGA, by the flag, the tree and the outcome of
\* a load, is true of it.
KnowsFpga == GoldenFlagTrue /\ SdbDescribes /\ LoadedAfterReset

\* spec_reconfigure takes the device away before it replaces the gateware: no
\* driver has its registers while a caller loads the FPGA.
NoLoadUnderDriver ==
  \A c \in Caller : load[c] # "none" => \A d \in Dev : drv[d] = "out"

\* Between calls, whatever failed in the last one: the flag, spec->fmc and the
\* bus agree on the one device there is, and no other is left allocated; what
\* probe or write returned tells whether there is one; without a driver the card
\* is silent, unless a failing test_irq left GNINT_CFG set up.
OneStory ==
  Serial =>
    /\ registered <=> fmc # NoDev
    /\ \A d \in Dev : mem[d] = IF d = fmc THEN "onBus" ELSE "none"
    /\ bound <=> misc
    /\ \A c \in Caller :
         job[c] \in {"probe", "write", "undo"} => (registered <=> ret[c] = "ok")
    /\ ~bound /\ ~testIrq => ~irqCfg

\* "Fake EEPROM images for the various cards in their probe order"
\* (doc/spec-sw.in:232): on the only card, that is the first file.
FakeInProbeOrder ==
  \A d \in Dev : mem[d] = "onBus" => eeprom[d] \notin {"zeros", "later"}

\* No caller waits forever: neither for a DONE that never comes nor for a
\* driver's probe to end.
EveryCallReturns == \A c \in Caller : pc[c] # "idle" ~> pc[c] = "idle"
=============================================================================
