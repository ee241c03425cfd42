----------------------------- MODULE FpgaLoader -----------------------------
(***************************************************************************)
(* Loading a bitstream through the FCL of the GN4124 (loader-ll.c), as the *)
(* driver does it (spec_load_fpga in spec-pci.c) and as spec-fwloader does *)
(* (speclib.c).  The two differ in how they wait for the end: the driver   *)
(* gives up on an error or after two seconds, the tool waits for DONE.     *)
(*                                                                         *)
(* The FCL has a FIFO that the software fills in bursts and the FPGA       *)
(* empties at its own pace.  A word is its number in the file.  Left out:  *)
(* the bits of a word, the strobes of the last one, the FCL's timers.      *)
(***************************************************************************)
EXTENDS Integers, Sequences

CONSTANTS
  Burst,     \* words written at a time (32)
  Depth,     \* depth of the FIFO
  MaxWords,  \* bound on the words of a file
  MaxLoads,  \* bound on the loads of a run
  MayRefuse  \* may the FCL refuse to be reset?

ASSUME LoaderAssumption == {Burst, Depth, MaxWords, MaxLoads} \subseteq Nat /\ Burst > 0
\* "At least 1/2 of the fifo is empty" leaves room for a burst.
ASSUME FifoAssumption == Depth >= 2 * Burst
ASSUME RefuseAssumption == MayRefuse \in BOOLEAN

VARIABLES
  lpc,       \* where the loader is
  caller,    \* "driver" or "tool"
  size32,    \* words still to write
  wrote,     \* words written
  burst,     \* words written in this burst
  done,      \* DONE was seen on the way
  lowRet,    \* did loader_low_level return without error?
  result,    \* how the load ended: "none", "ok" or "failed"
  loads,     \* loads so far
  fifo,      \* words in the FIFO
  bootsel,   \* who drives the configuration pins: "fcl" or "flash"
  irq,       \* bits DONE and ERROR of FCL_IRQ
  fpga,      \* "blank", "loading", "configured" or "error"
  inReset,   \* is the gateware held in reset?
  got,       \* words that arrived at the FPGA
  file       \* of this load: its words, those the FPGA needs, is it sound?

softVars == <<lpc, caller, size32, wrote, burst, done, lowRet, result, loads>>
fclVars == <<fifo, bootsel, irq, fpga, inReset, got>>
loaderVars == <<softVars, fclVars, file>>

NoFile == [words |-> 0, need |-> 0, sound |-> FALSE]
Files == {f \in [words : 1..MaxWords, need : 1..MaxWords, sound : BOOLEAN] : f.need <= f.words}

LoaderInit ==
  /\ lpc = "idle"
  /\ caller = "driver"
  /\ size32 = 0
  /\ wrote = 0
  /\ burst = 0
  /\ done = FALSE
  /\ lowRet = TRUE
  /\ result = "none"
  /\ loads = 0
  /\ fifo = << >>
  /\ bootsel = "flash"
  /\ irq = {}
  /\ fpga = "blank"
  /\ inReset = FALSE
  /\ got = 0
  /\ file = NoFile

-----------------------------------------------------------------------------
(* loader_low_level                                                        *)

\* The file was read; the GPIO pins select the FCL, which is reset.
LoadEnter(who) ==
  /\ lpc = "idle"
  /\ loads < MaxLoads
  /\ loads' = loads + 1
  /\ caller' = who
  /\ file' \in Files
  /\ size32' = file'.words
  /\ wrote' = 0
  /\ burst' = 0
  /\ done' = FALSE
  /\ lowRet' = TRUE
  /\ result' = "none"
  /\ bootsel' = "fcl"
  /\ lpc' = "reset"
  /\ UNCHANGED <<fifo, irq, fpga, inReset, got>>

\* load_binary_file or request_firmware fails: nothing was touched.
LoadNoFile(who) ==
  /\ lpc = "idle"
  /\ loads < MaxLoads
  /\ loads' = loads + 1
  /\ caller' = who
  /\ result' = "failed"
  /\ UNCHANGED <<lpc, size32, wrote, burst, done, lowRet, fclVars, file>>

\* Reset, clear the pending bits, start the FSM.
FclReset ==
  /\ lpc = "reset"
  /\ fifo' = << >>
  /\ irq' = {}
  /\ fpga' = "loading"
  /\ got' = 0
  /\ lpc' = "check"
  /\ UNCHANGED <<caller, size32, wrote, burst, done, lowRet, result, loads, bootsel, inReset, file>>

FclRefuses ==
  /\ MayRefuse
  /\ lpc = "reset"
  /\ lowRet' = FALSE
  /\ lpc' = "wait"
  /\ UNCHANGED <<caller, size32, wrote, burst, done, result, loads, fclVars, file>>

\* Top of the loop: DONE may come before the last words, ERROR ends it.
CheckIrq ==
  /\ lpc = "check"
  /\ size32 > 0
  /\ IF "DONE" \in irq /\ wrote > 0 THEN
          done' = TRUE /\ lpc' = "half" /\ UNCHANGED lowRet
     ELSE IF "ERROR" \in irq /\ ~done THEN
          lowRet' = FALSE /\ lpc' = "wait" /\ UNCHANGED done
     ELSE lpc' = "half" /\ UNCHANGED <<done, lowRet>>
  /\ UNCHANGED <<caller, size32, wrote, burst, result, loads, fclVars, file>>

\* Mutant: the FIFO is taken for half empty when it is not full.
WaitNotFull ==
  /\ lpc = "half"
  /\ Len(fifo) < Depth
  /\ burst' = 0
  /\ lpc' = "burst"
  /\ UNCHANGED <<caller, size32, wrote, done, lowRet, result, loads, fclVars, file>>

\* "Wait until at least 1/2 of the fifo is empty"
WaitHalf ==
  /\ lpc = "half"
  /\ 2 * Len(fifo) <= Depth
  /\ burst' = 0
  /\ lpc' = "burst"
  /\ UNCHANGED <<caller, size32, wrote, done, lowRet, result, loads, fclVars, file>>

\* A word; the FIFO drops what does not fit.
WriteWord ==
  /\ lpc = "burst"
  /\ size32 > 0
  /\ burst < Burst
  /\ wrote' = wrote + 1
  /\ size32' = size32 - 1
  /\ burst' = burst + 1
  /\ fifo' = IF Len(fifo) < Depth THEN Append(fifo, wrote') ELSE fifo
  /\ UNCHANGED <<lpc, caller, done, lowRet, result, loads, bootsel, irq, fpga, inReset, got, file>>

BurstEnd ==
  /\ lpc = "burst"
  /\ size32 = 0 \/ burst = Burst
  /\ lpc' = IF size32 > 0 THEN "check" ELSE "wait"
  /\ UNCHANGED <<caller, size32, wrote, burst, done, lowRet, result, loads, fclVars, file>>

-----------------------------------------------------------------------------
(* The callers                                                             *)

\* DONE ends the wait of both, also when loader_low_level had failed.
WaitDone ==
  /\ lpc = "wait"
  /\ "DONE" \in irq
  /\ lpc' = "fix"
  /\ UNCHANGED <<caller, size32, wrote, burst, done, lowRet, result, loads, fclVars, file>>

\* The driver only: ERROR, or two seconds are over.  The pins stay as they are.
WaitFails ==
  /\ lpc = "wait"
  /\ caller = "driver"
  /\ "DONE" \notin irq
  /\ result' = "failed"
  /\ lpc' = "idle"
  /\ UNCHANGED <<caller, size32, wrote, burst, done, lowRet, loads, fclVars, file>>

\* gpiofix_low_level: "so pci can access the flash".
GpioFix ==
  /\ lpc = "fix"
  /\ bootsel' = "flash"
  /\ lpc' = "assert"
  /\ UNCHANGED <<caller, size32, wrote, burst, done, lowRet, result, loads, fifo, irq, fpga, inReset, got, file>>

\* loader_reset_fpga: the reset bit goes low ...
ResetAssert ==
  /\ lpc = "assert"
  /\ inReset' = TRUE
  /\ lpc' = "release"
  /\ UNCHANGED <<caller, size32, wrote, burst, done, lowRet, result, loads, fifo, bootsel, irq, fpga, got, file>>

\* ... and high.  The driver returns 0 whatever loader_low_level returned.
ResetRelease ==
  /\ lpc = "release"
  /\ inReset' = FALSE
  /\ result' = IF caller = "tool" /\ ~lowRet THEN "failed" ELSE "ok"
  /\ lpc' = "idle"
  /\ UNCHANGED <<caller, size32, wrote, burst, done, lowRet, loads, fifo, bootsel, irq, fpga, got, file>>

-----------------------------------------------------------------------------
(* FCL and FPGA (external): a word is clocked out; the FPGA configures     *)
(* itself once it has got, in order, all the words it needs of a sound     *)
(* file.  It may find an error at any word; a file that is not sound may   *)
(* also just never be done.  The FIFO is clocked out in any case.          *)

FpgaTake ==
  /\ fifo # << >>
  /\ fifo' = Tail(fifo)
  /\ got' = IF Head(fifo) = got + 1 THEN got + 1 ELSE got
  /\ \/ UNCHANGED <<irq, fpga>>
     \/ /\ fpga = "loading"
        /\ Head(fifo) # got + 1 \/ ~file.sound
        /\ fpga' = "error"
        /\ irq' = irq \cup {"ERROR"}
  /\ UNCHANGED <<softVars, bootsel, inReset, file>>

FpgaDone ==
  /\ fpga = "loading"
  /\ file.sound
  /\ got >= file.need
  /\ fpga' = "configured"
  /\ irq' = irq \cup {"DONE"}
  /\ UNCHANGED <<softVars, fifo, bootsel, inReset, got, file>>

-----------------------------------------------------------------------------
LowLevel == FclReset \/ FclRefuses \/ CheckIrq \/ WaitHalf \/ WriteWord \/ BurstEnd
Caller == WaitDone \/ WaitFails \/ GpioFix \/ ResetAssert \/ ResetRelease
LoaderStep == LowLevel \/ Caller
Fpga == FpgaTake \/ FpgaDone

-----------------------------------------------------------------------------
(* Properties *)

(* No word is lost in the FIFO: what it holds are the words after those    *)
(* that arrived, up to the last one written.                               *)
NoWordLost ==
  lpc # "idle" /\ lpc # "reset" /\ lowRet =>
    /\ wrote + size32 = file.words
    /\ Len(fifo) = wrote - got
    /\ \A k \in 1..Len(fifo) : fifo[k] = got + k

(* A load that is reported as successful left the FPGA configured from     *)
(* this file, out of reset, and the flash accessible again, unless the FCL *)
(* had refused its reset (SpecKnown.cfg).                                  *)
SuccessIsConfigured ==
  result = "ok" /\ lowRet =>
    /\ fpga = "configured"
    /\ file.sound /\ got >= file.need
    /\ ~inReset
    /\ bootsel = "flash"

(* What a load that is reported as successful left is the file.            *)
FileArrives == NoWordLost /\ SuccessIsConfigured

(* A load by the driver ends, with success, an error or the timeout.       *)
DriverLoadEnds == lpc # "idle" /\ caller = "driver" ~> lpc = "idle"

(* spec-fwloader prints "Loader failure." for a load that fails: it ends.  *)
ToolLoadEnds == lpc # "idle" /\ caller = "tool" ~> lpc = "idle"
=============================================================================
