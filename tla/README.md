# TLA+ models of spec-sw

Models, checks and proofs for the driver of the SPEC card and of the White
Rabbit network interface (wr-nic) that runs on it.  The card carries an FPGA
behind a GN4124 PCI bridge; the kernel modules load a gateware into it, give a
mezzanine driver its interrupts, and drive the gateware: an Ethernet NIC with
hardware time stamps, a PPS clock and a five-channel digital I/O mezzanine.
Paths below are relative to `src/`.

Every module translates the C code; the gateware, of which the repository holds
only register maps, is modelled from how the drivers use it and marked external
in `PROJECT.json`.

## 1. The system

| Component | Source | State it keeps | Operations | Talks to |
|---|---|---|---|---|
| NIC receive path | `kernel/wr_nic/nic-core.c`, ring from `device.c` | `next_rx`, RX descriptors (EMPTY bit, buffer), RCOMP and its mask, tasklet scheduled | `wrn_interrupt` (RCOMP), `wrn_rx_interrupt`, `__wrn_rx_descriptor` | NIC (ring, RCOMP), network core |
| NIC transmit path, TX stamps | `nic-core.c`, `timestamp.c` | head and tail, `skb_desc[]`, READY bits, `wrn->id`, TCOMP, stamp FIFO | `wrn_start_xmit`, `wrn_tx_interrupt`, `wrn_tstamp_interrupt`, `record_tstamp` | NIC, network core |
| Interrupt delivery | `kernel/wr-nic-eth.c`, `spec-fmc.c` | VIC: presented vector; GN4124: edge latch; host: message | `wrn_handler`, `wrn_vic_init`, start of `wrn_eth_init` | VIC, GN4124, the three cores |
| PPS time | `wr_nic/pps.c`, use in `timestamp.c`, `nic-core.c` | two counters, read one after the other | `wrn_ppsg_read_time`, completion of stamps | PPS generator |
| DIO mezzanine | `kernel/wr-nic-dio.c`, `wr-dio.h` | per channel: stamp ring, count, set point, period, trigger and mode registers | `wrn_dio_interrupt`, `wrn_dio_cmd_stamp`, `_pulse`, `_inout`, `_dac` | DIO gateware, ioctl callers |
| Carrier interrupt requests | `spec-fmc.c`, `spec-vic.c` | `spec->vic`, vector table, IVT and enable bits, master handler | `spec_irq_request`, `spec_irq_free`, `spec_vic_irq_handler` | VIC, mezzanine drivers, host |
| FMC device of the carrier | `spec-fmc.c` | FMC device registered or not, flags | create, destroy, reprogram, golden check | fmc-bus, loader |
| PCI driver, misc device | `spec-pci.c` | device list, buffers of the misc device | probe, remove, open, write, close | FMC device, loader |
| FPGA loader | `loader-ll.c`, `spec-pci.c`, `tools/speclib.c` | registers and FIFO of the loader | `loader_low_level`, wait for DONE, by the driver and by `spec-fwloader` | GN4124, FPGA |
| EEPROM | `spec-i2c.c` | bit-banged bus, EEPROM, its copy `fmc->eeprom` | scan, read, write, fake image | GN4124 pins |
| NIC life cycle | `wr-nic-core.c`, `wr-nic-eth.c`, `device.c`, `endpoint.c` | LM32, interrupt, platform device, net device, mappings, `mezzanine_data` | load, unload, probe, remove, open, stop | everything above |
| Card tools | `tools/speclib.c`, `spec-cl.c`, `spec-fwloader.c`, `spec-vuart.c`, `specmem.c` | per run: position in the file, keys and bytes of the terminal | load, verify, release the LM32; terminal; poke | mapped BARs, LM32, UART |
| DIO tools | `tools/wr-dio-ruler.c`, `wr-dio-agent.c`, `wr-dio-cmd.c`, `wr-dio-pps.c` | the ruler's actions and the stamp it works on | wait for an edge, pulse here, send to the agent; modes, pulses | ioctls, raw frames |
| stamp-frame | `tools/stamp-frame.c`, `wrn_tstamp_ioctl` | frame with four times, stamp read last | frame and follow-up in each direction, report | sockets, error queue, NIC |
| GPIO chips, ethtool, register headers | `wr-nic-gpio.c`, `ethtool.c`, `wbgen-regs/` | a registered chip | register, remove; stubs | gpiolib |

What makes these hard, and what makes them correct:

* **Receive.** NIC, hard interrupt and tasklet share the ring and the interrupt
  mask with no lock.  Correct: frames leave in order, once; a stored frame always
  has somebody bound to look for it; the mask is always lifted.
* **Transmit.** The locks in `wrn_start_xmit` are commented out; the TX
  interrupt and the stamp interrupt run between any two of its stores.  Correct:
  accepted frames go out in order, a frame is refused only when the ring is full,
  an skb is released once and after its data was copied, a stamp reaches its frame.
* **Delivery.** VIC, GN4124 and host each hold one edge.  Correct: the vector
  names a source with work, and no order of acknowledges silences the card.
* **Time.** Two registers that cannot be read together; stamps without seconds.
* **DIO.** The ioctl and the interrupt share ring indexes, count and registers
  with no lock.  Correct: stamps come out in order and are real; trains have the
  pulses asked for; sleepers are woken.
* **Interrupt requests.** A handler runs while its vector is being requested,
  freed, or the whole VIC removed; requests may fail half-way.
* **Life of a card.** A write to the misc device takes the FMC device away, loads
  the golden gateware, checks it, makes a new device and loads what was written;
  every step may fail, drivers come and go beside it, the FPGA may answer late or
  never.  Correct: flag, `spec->fmc`, bus, SDB tree and FPGA tell one story; the
  EEPROM is accessed under the golden gateware only; every call returns.
* **Load and EEPROM.**  A bitstream goes through a FIFO that the FPGA empties at
  its own pace; the FCL may refuse a reset and keep an old DONE.  The I2C bus is
  two lines set one after the other, and the chip answers on one of them.
  Correct: words arrive once and in order, success means a configured FPGA; the
  copy of the EEPROM is its contents.
* **Tools on the card.** `spec-cl`, `spec-vuart` and `specmem` use the same BARs
  and know nothing of each other.  Correct: the processor never runs a mixture of
  two programs; the serial line loses nothing.
* **Tools on the network.** `stamp-frame` pairs frames, follow-ups and stamps
  that may each be missing, late or somebody else's; the ruler programs pulses in
  the future on two boards.  Correct: the four times reported are of one exchange;
  no pulse comes out that is not a replica of an edge, and none is missing when the
  software keeps up.
* **NIC life cycle.** Two drivers, registered one after the other, so that the VIC
  is enabled before the interface is up or after it; failures at every step; a
  teardown that takes memory away before the interrupt is freed.  Correct:
  interrupts find what they need, an interface is wired up to the last register,
  nothing is left behind.

`PROJECT.json` lists every component with its status, and under `hazards` each
hard spot at its line with the properties that watch it.

## 2. Modules

| Module | Models | Uses |
|---|---|---|
| `Ring` | the descriptor ring's arithmetic (`__wrn_next_desc`) | |
| `RxFifo` | abstract: what the receive path promises | |
| `NicRx` | receive path, NIC, interrupt handler and tasklet | `Ring`, implements `RxFifo` |
| `TxFifo` | abstract: what the transmit path promises | |
| `NicTx` | transmit path, TX and stamp interrupts, NIC | `Ring`, implements `TxFifo` |
| `IrqDelivery` | `wrn_handler` with VIC, GN4124 and host | |
| `PpsTime` | clock reads and completion of stamps | |
| `DioStamp` | stamp rings, readers and interrupt | |
| `DioPulse` | pulse trains, ioctl, interrupt and trigger | |
| `SpecIrq` | requests and releases of VIC vectors, master handler | |
| `SpecLifecycle` | probe, write, remove, FMC device, loads of the FPGA, drivers that reprogram | |
| `StampFrame` | senders and listeners of stamp-frame with sockets, queues, stamps and faults | |
| `Timespec` | arithmetic on times in tools and DIO driver | |
| `DioModes` | modes of the channels: command, ioctl, registers, and what a pulse does to them | |
| `DioRuler` | ruler, agent, input and triggers of two boards, the user's commands | `DioModes`, `Timespec`; `MCDioRuler` has the command lines |
| `FpgaLoader` | a load word by word, by driver or tool, with FCL and FPGA | |
| `FmcEeprom` | spec-i2c.c line operation by line operation, with the chip | |
| `Lm32Tools` | spec-cl, spec-vuart and specmem with LM32 and UART | |
| `CardAccess` | the composition: a load, then EEPROM or tools, then the next load | `FpgaLoader`, `FmcEeprom`, `Lm32Tools` |
| `NicLifecycle` | module, probe and removal of wr-nic, its interface, beside interrupts and applications | |
| `RingLemmas`, `*Proof` | lemmas and theorems | |

### How actions correspond to code

A step is what the code does between two points where another party can
interfere: one register access or one access to shared memory where somebody
runs concurrently, a whole critical section where a lock really excludes the
others.  Program counters (`ipc`, `tpc`, `xpc`, `upc`, `rpc`, `hpc`, `dpc`) name
the point in the function; the other variables keep the names of the C fields.

* `NicRx`.  Interrupt: `IrqEnter` (ISR read), `IrqAck`, `IrqDisable`,
  `IrqSchedule`.  Tasklet: `TaskletStart`, `RxCheck` (EMPTY?), `RxCopy`, `RxFree`
  (descriptor back to the NIC), `RxFinish` (to the stack, or error count, and
  `next_rx`), `RxEnable`.  NIC: `HwStore`.
* `NicTx`.  `wrn_start_xmit`: `XmitTooLong`, `XmitAlloc` (id and descriptor, or
  refusal), `XmitStoreSkb`, `XmitStoreId`, `XmitCopy`, `XmitFire` (READY).
  Interrupt: `TxIrqEnter`, `TxIrqCheck`, `TxIrqReap`, `TxIrqAck`; `TsIrqFind`,
  `TsIrqDeliver`.  NIC: `HwDone`, `HwStamp`.  A frame's number stands for its
  skb and its data.
* `IrqDelivery`.  Driver start `Publish`, `VicInit`; gateware `DeviceEvent`,
  `VicRaise`; host `HandlerEnter` (or `HandlerShared`, another board on the
  line), `HandlerRead` (VAR), `HandlerServe`, `HandlerEnd` (GN4124, then EOIR) and
  the early return `HandlerEarly`.
* `PpsTime`.  `Tick` between any two of the reads `ReadUtc1`, `ReadCnt`,
  `ReadUtc2`, `ReadCntAgain`; `Stamp` is the hardware's, `Complete` deduces its
  second.
* `DioStamp`.  Interrupt: `IrqTake` (slot taken by advancing `bhead`),
  `IrqCompare`, `IrqDrop` (overflow), `IrqFill`, `IrqNext` (acknowledge, wake).
  Ioctl: `Call`, `CheckMore`, `Copy`, `Load`, `Store` (`btail` read and written
  back), `CheckNone`, `Wait`, `Again`, `Signal`, `ReturnStamps`.
* `DioPulse`.  Ioctl: `Call`, `Now`, `SetCount`, `SetPrevts`, `SetDelay`,
  `FirstCycle`, `FirstSeconds`.  Interrupt: `IrqPull`, `IrqCheck`, `IrqNext`,
  `IrqCycle`, `IrqSeconds`, `IrqRead`, `IrqDec`.  Gateware: `Pulse`.
* `SpecIrq`.  Driver: `RequestEnter` to `Hook`, `FreeEnter` to `Synchronize`.
  Handler: `HandlerEnter`, `HandlerLock`, `Dispatch`, `Call`, `HandlerEnd`.
  VIC: `VicRaise`.
* `SpecLifecycle`.  Calls: `Probe`, `Write`, `Remove`, all through `DestroyEnter`
  (the flag) and `Unregister`, `IrqExit`, `Forget`; then `Fetch`, `GoldenLoaded`,
  `Create`, `CheckGolden`, `I2cInit`, `IrqInit`, `Register`, `GatewareLoaded`,
  `AddDevice`, `SetFlag`, with `OutIrq`, `OutFree` for the failures; `MiscRegister`
  and `Unmap` end probe and remove.  A load, by whomever: `LoadReset`, `LoadWords`,
  `LoadWait`, and the FPGA's `HwConfigure`.  Drivers: `DrvProbe`, `DrvAsIs`,
  `DrvReprogram`, `DrvLoaded`, `DrvNotLoaded`, `DrvEeprom`, `DrvEepromEnd`,
  `DrvRelease`.
* `NicLifecycle`.  Module: `InsmodFmc`, `InsmodPlat`, `RmmodPlat`, `RmmodFmc`.
  `wrn_fmc_probe`: `Probe` (gateware), `Wrc`, `LoadWrc`, `GpioInit`, then
  `wrn_eth_init`: `IrqRequest`, `Alloc`, `Publish`, `Register`, `VicInit`.
  `wrn_probe`, from `Register` or from `InsmodPlat`: `MapResources`, `Reset`,
  `EndpointProbe`, `MezzanineAlloc`, `MezzanineEnable`, `Rings`, `Enable`.
  `wrn_remove`, also from a failing `wrn_probe`: `StopNic`, `MezzanineExit`,
  `NetExit`, `Unmap`.  `wrn_fmc_remove`: `Remove`, `VicExit`, `Unregister`, `Free`,
  `Clear`, `IrqFree`, `GpioExit`.  Beside them `HwRaise`, `HandlerEnter`,
  `HandlerRead`, `HandlerServe`, `Tasklet`; `Xmit`, `IoctlEnter`, `IoctlUse`.
* `StampFrame`.  Program: `Start`, `StartFails`, `Kill`; `Send0`, `Send0Fails`,
  `Stamp0`, `Stamp0Timeout`, `Send1`, `Stamp1` (`send_one_with_followup`, with the
  hundred trials for a stamp), `Recv0`, `Recv1` (`recv_one_with_followup`), `Report`.
  Network: `Depart` (the NIC sends, stamps, delivers), `Intrude` (a foreign frame).
* `DioModes`.  `Mode`, `ModeRefused` (`wr-dio-cmd mode` with its ioctl),
  `SelectDio` (the part of a pulse that selects the core).
* `DioRuler`.  Ruler: `WaitEvent` (ioctl), `RunLocal`, `RunRemote`, `RulerExit`.
  Agent: `AgentPulse`, `AgentSkip`, `AgentExit`.  User: `ModeCommand`,
  `PulseCommand`.  World: `Edge`, `Tick`, `Foreign`, `Lose`.
* `FpgaLoader`.  `LoadEnter`, `LoadNoFile`, `FclReset`, `FclRefuses`, `CheckIrq`,
  `WaitHalf`, `WriteWord`, `BurstEnd` (`loader_low_level`), `WaitDone`, `WaitFails`,
  `GpioFix`, `ResetAssert`, `ResetRelease` (callers); FPGA: `FpgaTake`, `FpgaDone`.
* `FmcEeprom`.  A routine leaves the calls of start, stop, put_byte and get_byte it
  makes in `todo`; `LineOp` does one line operation of them (`call`, `bit` and `ph`
  say which), and the routine goes on when all are done: `Scan`, `NoMezzanine`, `NoMemory`, `FakeIt`, `ReadAll`
  (`spec_i2c_init`), `ReadEe`, `ReadAcked`, `ReadNacked`, `ReadDone`, `WriteEe`,
  `WriteFake`, `WriteByte`, `WriteAcked`, `WriteNacked`, `Poll`, `Polled`,
  `WriteReturns`.  Chip: its part of `LineOp`, and `ChipWritten`.
* `Lm32Tools`.  spec-cl: `LmHold`, `LmIsHeld`, `LmWrite`, `LmWritten`, `LmVerify`,
  `LmRelease`, `LmKill`.  specmem: `Poke`.  spec-vuart: `TermStart`, `TermKey`,
  `TermTimeout`, `TxReady`, `TxWrite`, `Drain`.  User and processor: `Type`, `LmObey`,
  `LmHears`, `LmSays`.

### Abstractions

* Data are numbers: a frame is the number of its arrival or submission, a DIO
  stamp the number of its edge, a time a number of 8 ns cycles.
* One channel or one ring at a time where channels share nothing (`DioPulse`);
  two where the order of channels matters (`DioStamp`).
* `OneCpu` in the DIO modules says whether the interrupt preempts the ioctl and
  runs to its end (one processor) or interleaves with it access by access.  The
  channel code takes no lock, so both are real; most of what it gets right, it
  gets right on one processor only.
* `DioStamp` collapses `wait_event_interruptible` to "look, or sleep until
  woken": the kernel queues the process before it looks.  The rate limit of the
  interrupt may disable it at any pass.
* The gateware's DIO FIFO (256 entries) is not full in the runs.
* In `StampFrame` a stamp is the event it was taken of, so that a property can say
  which frame a reported time belongs to.  What may go wrong is a set of faults
  chosen at the start; a program and its sockets end together.
* `DioRuler` has one clock for both boards, which White Rabbit keeps in step, and
  one tick for a cycle of the DIO core; trains are in `DioPulse`, overflowing
  stamp rings in `DioStamp`.
* In `FpgaLoader` a word is its number; the driver's two seconds may be over at
  any moment before DONE.
* In `FmcEeprom` a byte has `Bits` bits and the chip's address is 1: put and get
  shift bit by bit, so a shorter byte meets the same code.
* `CardAccess` runs load, EEPROM and tools one after the other, and forgets
  between stages what the software forgets; what one writer of the misc device does
  to the EEPROM access of another is in `SpecLifecycle`.
* `SpecIrq` places the master handler on another processor than the driver, and
  lets the host call an installed handler at any time (shared line).
* A gateware is golden, custom or corrupt; the golden file holds one of them for
  good, since nobody replaces files while cards are probed.  An EEPROM's content
  is the real one, the first fake image, a later one, or zeros.
* `SpecLifecycle` keeps the order of the carrier's steps and lets the driver, the
  FPGA and other callers run between any two; destroying is three steps because a
  driver's probe holds the device lock.  The fmc bus is external: it loads the
  gateware it is handed, then adds the device, or fails at either.
* `NicLifecycle` keeps of each resource whether it is there, and ends a behaviour
  at the first access to one that is not: what follows is undefined.  Which
  machine it is, with one processor or more, a shared line, a module that may be
  unloaded under a card, is chosen at the start and never changes.  With one
  processor an interrupt runs to its end, with the tasklet it schedules, before
  anything else goes on.  Bus and module operations exclude each other.

## 3. Runs

`tlc -config <run>.cfg <module>`; the bounds are named in each `.cfg`.

| Run | Question | Bounds, and why they are enough |
|---|---|---|
| `NicRx` | Do NIC and driver agree about the ring, is no frame lost, doubled or forgotten, is the path an in-order FIFO? | 3 descriptors, 5 frames: the ring fills, wraps and is refilled during a delivery; every subset of frames flagged as bad |
| `NicTx` | Ring agreement, skb ownership, ids, FIFO and that accepted frames are sent | 2 descriptors, 4 frames, 3 ids: full, refused, wrapped; ids wrap; every frame with or without a stamp |
| `IrqDelivery` | Does the vector always name work, is the VIC ever left waiting for nobody, is every event served? | 3 sources, 4 events; messages, an INTx line of its own, and one shared with another board |
| `PpsTime` | Is the time read a time that was; does a stamp get its second? | 3 cycles, 4 seconds: every read on either side of a roll-over |
| `DioStamp` | What is in the ring, in which order does it come out, are sleepers woken, does a read with a mask until -EAGAIN flush all channels? | two channels with rings of 2 slots, 3 edges, replies of 1, one reader: a ring overflows while the reader, alone or with a mask, is between two accesses.  `DioStampTwo.cfg` has one ring of 3 slots, 5 edges, replies of 2 and two readers |
| `DioPulse` | Are trains exact, do they end? | 3 requests of any kind, counts up to 3, 6 pulses: a request at any point of an earlier train |
| `SpecIrq` | Do driver and VIC agree, whom does the handler call? | 3 vectors and an unknown id; no bound on calls |
| `SpecLifecycle` | Whatever fails, do flag, pointer, bus, SDB tree, EEPROM guard and FPGA agree, and does every call return? | one caller at a time, one device, one fake EEPROM file; any number of calls, any file content, resets that work or may be refused |
| `NicLifecycle` | Do interrupts find what they need in either order of start and in a removal, is an interface wired up, is anything left behind? | none but a ring of 2: any number of operations on one card, every step failing |
| `StampFrame` | To which frames do the four times of a report belong, how many reports does a killed program spoil, does a program end? | two hosts, three starts and six frames each: a program killed twice and started once more; lost stamps together with each other fault |
| `DioRuler` (`MCDioRuler`) | Do exactly the pulses come out that were asked for, on both boards and over the end of a second; do modes hold? | one local and one remote action, two edges in the six ticks round the end of a second of 100, a stamp queue of 1, software late by any time, one foreign or lost frame, one command of the user of any of eight |
| `CardAccess` | Does a file arrive whole, is the copy of the EEPROM its contents, does the LM32 run one program, does the serial line lose nothing? | files of 1 to 6 words through a FIFO of 4 in bursts of 2, sound or not, two loads; an EEPROM of two bytes of two bits, any contents, two accesses of any offset and length; two programs in a memory of two words, two keys, one poke |

The other `.cfg` files each check one or more further properties that the code
does not keep, see below, and are not among the runs of `PROJECT.json`.  Two
more pass: `DioStampTwo`, and `DioStampSmp`, where interrupt and two readers run on
several processors and nobody sleeps over a stamp (`NoSleepOverStamp`, proved for
any number of them in §4).  Where a file names several properties, keep one, or
run with `-continue`: each of them is violated.

Every property of a passing run has a mutant in `PROJECT.json`: a plausible bug
in a mapped definition (`...NoWrap`, `...NoDrop`, `...Swapped`) that makes TLC
report the property.  The mutants are operators next to the definitions they
change and are used by no specification.

Deadlock checking is off where the system may stop by its bounds (no more
frames, edges or requests), and in `SpecIrq`, where it stops for good in one
case, the subject of `NotRemovedWhileRunning`.

### Fairness

Liveness is checked under weak fairness of the steps of a handler, tasklet or
system call that has begun (the kernel lets them go on), of taking an enabled
interrupt, and of the hardware doing what it has been told (sending a READY
frame, presenting a pending vector).  Nothing forces traffic, edges or calls,
and no lock that others may keep taking is assumed to become free for a given
process, with one exception: `Unregister` is strongly fair, because the device
lock that it and the bus's probes take is a mutex with a queue.  In `StampFrame`
nobody has to start a program, a program that can go on does, and the NIC sends
what it was given.  In `CardAccess` the routines, the chip and the FPGA go on, and no call has to be made.  `SpecLifecycle`
assumes nothing of the FPGA: the two seconds end every wait.  It does assume that
the loader's FIFO drains and that an EEPROM ends its write; both waits have no
bound in the code.  `EveryEventServed` is not claimed for a line shared with another
board: a handler called for that board may read VAR while nothing is presented
and write the EOIR of a source presented a moment later; its edge then calls the
handler again, and nothing but timing keeps the same from happening each time.

### What the code does not keep

Sentences of comments and documents that do not hold, and the configuration in
which TLC refutes the property that states them:

* `NicTxKnown`: a descriptor that is being filled looks sent to the TX
  interrupt, which releases the skb that is still being copied
  (`FreedOnlyAfterCopied`; nic-core.c:143 "This is called with the lock taken"; it
  is not).  A completely full ring looks empty to the TX interrupt, and its slots
  are overwritten (`OnlyUncollectedDiscarded`).  A stamp served first stops the TX
  loop at an empty slot (`LoopsUntilOneNotSent`).  Skb and id of a slot are not
  stored together, and the old id gets the new frame (`StampGoesToItsFrame`).
  `NicTxLateAck`: the acknowledge of TCOMP after the loop loses a completion.
* `DioStampKnown`: on two processors `bhead` is advanced before the slot is filled
  (`StampsValid`); and the check against a wait on several channels tests another
  flag (`NoWaitOnMask`; wr-nic-dio.c:224 "wait on several channels not supported").
* `DioPulseKnown`: a count of 0 still fires once (`ZeroIsNone`), a new train loses
  pulses to the stamp of an old one (`AllInstances`), and stopping a train on
  another processor can make it eternal (`ForeverOnlyIfAsked`).
* `DioPulsedInput`: a pulse sets one bit of IOMODE and leaves the direction: on an
  input the trigger fires into nothing (wr-nic-dio.c:170 "First, configure this
  bit as DIO output").
* `SpecIrqKnown`: a failed request leaves its vector behind (`NothingLeft`); a
  first request that fails leaves the VIC without master handler for the next
  (`MasterInstalled`; spec-fmc.c:204 "on first IRQ, configure VIC "master" handler
  and GPIO too"); `free_irq` waits, under the lock, for a handler that waits for it
  (`NotRemovedWhileRunning`; spec-fmc.c:149 "Lock to avoid to remove the VIC or the
  handler itself while it's running").
* `SpecTwoWriters`: nothing serialises writes to the misc device, and one writer
  resets the FPGA while another reads the EEPROM through it (spec-sw.in:178 "The
  carrier refuses to act on registers after the golden gateware is replaced").
* `SpecKnown`: a reset of the loader that is refused leaves DONE set, and the
  load counts as done (`LoadedAsReported`; spec-pci.c:74 "FPGA programming
  successful").  Fake EEPROM images are dealt out per creation of an FMC device,
  not per card, so that a card written to gets another one (`FakeInProbeOrder`;
  spec-sw.in:232 "for the various cards in their probe order").
* `NicEarlyXmit`: the interface is registered before `wrn_probe` sets the ring
  indexes to 0, and a frame sent in between is forgotten (device.c:212 "make sure
  all head/tail are 0 -- not needed here").
* `StampFrameLate`: a stamp that comes after the hundred trials is taken for that
  of the next frame.  `StampFrameTwo`: with two senders the frame of one is taken
  for the follow-up of the other (`AlwaysOneExchange` in both).
* `CardToolHangs`: `spec-fwloader` waits for DONE without a limit, also of a file
  that is no bitstream (`ToolLoadEnds`).  `CardTwoLoaders`: two `spec-cl` mix their
  programs.  `CardTwoTerms`: two `spec-vuart` look at the same empty register and
  one key is overwritten (`NoKeyLost`).  `CardQuit`: with the processor in reset
  C-a is not read (`QuitQuits`).
* `CardAccess` with `MinRead = 0`: a read of no bytes, which `read_ee` accepts,
  leaves the chip sending, and no STOP can be made; `CacheIsChip` fails then.

What the repository says that these properties restrict themselves to is in
their comments: `OneExchange` allows one kind of fault besides lost stamps,
`EveryEdgeReplicated` asks of the software that it keeps up and of the edges to be
as far apart as the manual says.

`InterruptsServed` holds with the conditions it states.  Without them a removal
takes away what a handler on another processor, a shared line's or the tasklet
still uses; and unloading the module takes the interface down with the VIC
enabled.  The faults of the bus thread itself (a null pointer after some failure)
are listed with the hazards.

On one processor, after an overflow in the middle of a read, `DioStamp` also
shows stamps returned twice and a ring emptied by the stale `btail` that is
stored; no sentence of the repository promises otherwise, so it is no finding.
`RingIsSuffix` says what remains true.

## 4. Proofs

`tlapm <module>`.  TLC checks the small instance; the theorems hold for every
value of the constants, that is for any ring size, number of frames, ids,
sources, vectors, cycles in a second, length of trains.  They rest on the named
assumptions on the constants only (sizes are positive naturals, the values that
stand for "none" are no others; for `DioRuler` also `DecimalsAssumption`, that the
decimals of the command lines are read as they are meant: a recursive function
computes them, so TLC evaluates this for the command lines of the run; for
`FmcEeprom` also `DigitsAssumption`, that a number is the value of its digits: true
for every width of a byte, but an induction over the digits that is out of the
provers' reach, so TLC evaluates it for the width of the run).

| Module | Theorems | Argument |
|---|---|---|
| `RingLemmas` | distances round a ring | arithmetic modulo `NDesc`, done once |
| `NicRxProof` | `TypeOK`, `RingInv`, `HandInv`, `NoLostWakeup`, `NeverStuckMasked`, implements `RxFifo` | `IInv` is types, ring and frame in hand together: the frame in hand is the oldest one only because the ring holds the pending frames in order.  Wake-up follows from the tasklet's last look: EMPTY at `next_rx` means that nothing is pending |
| same, `PpsTime` | `PpsTypeOK`, `ReadBetween`, `StampSecond` of `PpsSpec` | what each local is worth against the clock at each read |
| same, `IrqDelivery` | `DeliveryTypeOK`, `VicNotForgotten`, `LatchHasMessage`, `EarlyOnlyBeforeVic`, `VectorHasWork` of `DeliverySpec` | each edge that is held has its next holder on the way; the early return clears the latch, so it must come before the VIC runs |
| `NicTxProof` | `TypeOK`, `RingInv`, `SkbOwnership`, `IdNeverZero`, implements `TxFifo` | `SkbOwnership` alone is not inductive: the handler's local may hold an skb that a slot holds too, but only the slot it is about to clear (`SkbInHandler`), and no slot holds a frame before its store (`SkbNew`) |
| same, `NicLifecycle` | `LifeTypeOK`, `InterruptsServed`, `WiredUp`, `NothingLeft` of `LifeSpec` | `LifeInv` says of every point of probe and removal which resources are there (`ThreadPlaced`), what the two drivers hold between operations of the bus (`BusPlaced`, `NetPlaced`), and that an enabled interrupt, a running handler and a scheduled tasklet find memory, mappings and net device (`IrqPlaced`).  `WiredUp` and `NothingLeft` are read off it where nobody is inside an operation |
| `SpecIrqProof` | `TypeOK`, `TablesAgree`, `PresentedNamed`, `HandlerSafe` | the lock says who is where (`LockOwner`), the place says how far table and registers are (`TablesFollow`), the master is never there for a first request (`MasterHasVic`) |
| same, `SpecLifecycle` | `CardTypeOK`, `KnowsFpga`, `ActsUnderGolden`, `NoLoadUnderDriver`, `OneStory` of `CardSpec`, with one caller | `CardInv`: what flag, pointer, bus and device are at each point of a call (`CallOf`, `DeviceOf`), what a load that is under way has set (`Loader`, `LoadsKnown`), and that a call which goes on after the golden check saw the golden gateware (`GoldenSeen`).  None of these is inductive without the others: what the FPGA holds is known only from who loads, and who may load only from the place of the call |
| `DioPulseProof` | `TypeOK`, `TrainExact`, `CountObeyed` | on a channel that was at rest there is one thing at a time, a pulse latched, stamped or worked on (`OneThing`), and set point and count follow the pulses programmed; this needs no lock and no single processor.  A stop is a budget of two pulses (`ZeroBudget`) |
| `DioRulerProof` | `SubExact`, `RoundTripIsSum`, `DelayExact`, `DeadlineProgrammed`, `ModeHolds`, `PulsesAsAsked`; `EveryEdgeReplicated` with `Feasible` command lines | arithmetic: case split on carry and borrow, for any length of a second; a deadline that the ruler leaves with a full second of nanoseconds is still programmed right.  Modes: each letter against the manual, then `ModeInv`, which also says where a pulse took the channel.  Pulses: `PulseInv` follows a time from edge to stamp, ruler, frame and trigger: each is an edge or a replica of one that is asked for.  Nothing missing: software that keeps up works for an edge of this very cycle (`KeepsUp`), and each replica is planned, on the wire, in its trigger or out (`NoneMissing`); a trigger is programmed again only after its last replica came, because no delay is longer than the interval (`OldDone`) |
| same, `DioStamp` | `RingIsSuffix`, `InOrderUntilOverflow`, `FlushedAtEagain` (an action property) of `StampSpec`, on one processor | `StampInv`.  The filled part of a ring ends at `Top`, which is behind `bhead` while the interrupt fills its slot; every slot from there back to `btail` holds the stamp its distance says (`RingHolds`).  A reader's loaded `btail` may be an old one, but only after an overflow, and the ring is full then (`MidRead`): so wherever it is stored, a newest part is left.  Without overflow returned, replied and ringed stamps add up to what was pulled (`InOrder`).  The channels a call has passed hold less than came since it began (`Visited`) |
| same, any number of processors | `TypeOK`, `NoSleepOverStamp` of `StampSpec` | `SmpInv`.  A reader between its check and its store is at a ring that is filled, or that the interrupt has just filled up and is about to make room in (`Filled`): nobody else empties it, since readers exclude each other and the interrupt leaves the slot it takes.  So a `btail` that is stored never turns an empty ring, which somebody may sleep on, into one with a stamp |
| `StampFrameProof` | `OneExchange`, `OneSpoiltPerKill`, with one sender and one listener | `FrameInv`.  First frames and follow-ups alternate on the way to a host, from its socket through the other NIC (`Chain`, `Paired`), and the one frame that has no follow-up yet is the one the other program is at (`AsSent`); what a program takes for the stamp of its frame is that stamp, because neither its error queue nor the NIC holds another one of this start (`Stamps`).  With no sender killed the two programs are in step, which bounds the frames that are due to each, so that a lost frame leaves no follow-up without its first frame (`InStep`); a killed sender leaves its frames, but then the listener alone sends to the next one (`AsSent`).  For the count of spoilt reports `KillInv` keeps one kill in reserve whenever the listener is out of step (`Misstep`): a first frame waits for a follow-up that nobody will send, or a program that was started at rest runs while something on the way belongs to another exchange (`~Good`).  Only a kill makes such a state; reporting out of it uses the reserve up, and then no first frame is left waiting (`Followed`) |
| `CardAccessProof` | `FileArrives`; `NoMixture` with at most one `spec-cl`; `SerialLine` with at most one `spec-vuart` | `LoaderInv`: a burst finds half of the FIFO free, words in and behind the FIFO are those written, DONE past the reset is of this load.  `LmInv`: whenever the processor may run the memory is one whole program (`RunsOne`); a loader has written, or found right, what is before the place it is at (`LoaderAt`); and a file of one word too many, which wraps, fails at its first word (`Wrapped`).  `LineInv`: each key in the register, in a terminal or still to be read by it is the one after those ahead of it (`KeysAt`) |
| same, `FmcEeprom` | `CacheIsChip` with `MinRead >= 1` | `EepromInv`, between any two line operations.  `WireInv` is local to a call: where in start, stop, put_byte or get_byte the driver is says how the lines are, which bits the chip has collected or given and who holds SDA.  `Program` is local to a routine: what the chip does follows from the calls it has seen (`Seen`), so each byte put arrives as the address, offset or data it was meant to be.  Then the copy is the chip's contents except for the byte under way (`CopyKept`, which follows the write cycle) and the bytes got are the chip's, in order (`BytesGot`).  Without a mezzanine or after a failure nothing is claimed (`CopyInv`) |

The hypotheses are on the constants.  Most have a configuration that shows what
happens without them: one caller at a time (`SpecTwoWriters`), one `spec-cl`
(`CardTwoLoaders`), one `spec-vuart` (`CardTwoTerms`), one processor for the stamp
rings (`DioStampKnown`), one sender of stamp-frame (`StampFrameTwo`), reads of at
least one byte (`CardAccess` with `MinRead = 0`).  `Feasible` says of the ruler's command line that its
channels exist, that no output is named twice (the second action would take the
trigger of the first) and that every delay is a cycle or more (the trigger would
be programmed for the past); the command line of the run is one.  All other
theorems have none.

Only model-checked: liveness (`EveryFrameHandled`, `EveryAcceptedSent`,
`EveryEventServed`, `SleeperWoken`, `EveryCallReturns`, `EveryExchangeEnds`,
`EepromCallEnds`), which is out of the prover's reach.  Every invariant that a run
checks is stated by a theorem.

## 5. Not modelled

* Register maps (`wbgen-regs/`, `hw/`): generated.  `ethtool.c`: constant
  answers.  `spec-gpio.c` and the operations of `wr-nic-gpio.c`: stubs.
* In `tools/`: command lines, the search for a card in sysfs, the mapping of its
  BARs, printing.
* In the DIO driver: `wrn_dio_cmd_dac`, which returns -ENOTSUPP, copies to user
  space that fail, channel numbers above 4, pulse widths, the rate limit's
  arithmetic, `PRIV_MEZZANINE_ID`.
* In the NIC: DMA and byte order of the data, statistics other than `rx_errors`,
  `wrn_open`, `wrn_close` and MII accesses (the link timer is compiled out).
* In `SpecIrq`: `vic_is_managed`.  In `SpecLifecycle`: removal under an open misc
  device, MSI vectors, memory that failing paths leak (the EEPROM's copy).
* In `NicLifecycle`: a card without a mezzanine, memory that is only leaked (the
  net device and mappings when there is no endpoint).
* In `FpgaLoader`: the bits of a word and the strobes of the last one.  In
  `FmcEeprom`: `mi2c_init`, which nobody calls, and bus timing.

## 6. Plan

1. An abstract specification of a DIO channel (a bounded queue that drops the
   oldest) and `DioStamp` refining it as long as nothing overflows.
