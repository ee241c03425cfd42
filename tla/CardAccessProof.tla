--------------------------- MODULE CardAccessProof --------------------------
(***************************************************************************)
(* Proofs about the life of a card under spec-fwloader, spec-cl and        *)
(* spec-vuart, for files, FIFOs and memories of every size and any number  *)
(* of loads, programs and keys: a file that is loaded arrives, the         *)
(* processor runs no mixture of programs, the serial line keeps its order; *)
(* and about the EEPROM of its mezzanine, of any size and bits per byte.   *)
(***************************************************************************)
EXTENDS CardAccess, SequenceTheorems, TLAPS

-----------------------------------------------------------------------------
(* The loader.  Its inductive invariant says at each place of the loader   *)
(* what the FIFO holds and what a DONE means.                              *)

LoaderTypeOK ==
  /\ lpc \in {"idle", "reset", "check", "half", "burst", "wait", "fix", "assert", "release"}
  /\ caller \in {"driver", "tool"}
  /\ size32 \in Nat /\ wrote \in Nat /\ burst \in Nat /\ got \in Nat /\ loads \in Nat
  /\ done \in BOOLEAN /\ lowRet \in BOOLEAN /\ inReset \in BOOLEAN
  /\ result \in {"none", "ok", "failed"}
  /\ fifo \in Seq(Nat)
  /\ bootsel \in {"fcl", "flash"}
  /\ irq \subseteq {"DONE", "ERROR"}
  /\ fpga \in {"blank", "loading", "configured", "error"}
  /\ file \in Files \cup {NoFile}

\* Nothing was written yet when the FCL is reset.
NothingWritten == lpc = "reset" => wrote = 0 /\ size32 = file.words

\* Half of the FIFO, which was empty when the burst began, takes a burst.
RoomInFifo == lpc = "burst" => burst <= Burst /\ 2 * Len(fifo) <= Depth + 2 * burst

\* Past the reset DONE is of this load.
Loading == lpc \notin {"idle", "reset"} /\ lowRet
Configured == fpga = "configured" /\ file.sound /\ got >= file.need
DoneIsConfigured == Loading /\ "DONE" \in irq => Configured

\* What the calls after the wait have done.
AfterWait ==
  /\ lpc \in {"fix", "assert", "release"} => "DONE" \in irq
  /\ lpc \in {"assert", "release"} => bootsel = "flash"
  /\ inReset => lpc = "release"
  /\ result = "ok" => lpc = "idle"

LoaderInv ==
  /\ LoaderTypeOK
  /\ NothingWritten
  /\ RoomInFifo
  /\ NoWordLost
  /\ DoneIsConfigured
  /\ AfterWait
  /\ SuccessIsConfigured

(* The loader at rest, the FPGA blank: the initial states satisfy it.      *)
LEMMA LoaderInitInv == LoaderInit => LoaderInv
<1> SUFFICES ASSUME LoaderInit PROVE LoaderInv
  OBVIOUS
<1>0. fifo \in Seq(Nat)
  BY DEF LoaderInit
<1>1. LoaderTypeOK
  BY <1>0 DEF LoaderInit, LoaderTypeOK
<1> QED
  BY <1>1 DEF LoaderInit, LoaderInv, NothingWritten, RoomInFifo, NoWordLost,
     DoneIsConfigured, Loading, AfterWait, SuccessIsConfigured

(* The file of a load has words.                                           *)
LEMMA FileFacts ==
  ASSUME NEW f \in Files
  PROVE  f.words \in Nat /\ f.need \in Nat
  BY LoaderAssumption DEF Files

(* A word written to a FIFO with room is its last; one that is clocked out *)
(* was its first.                                                          *)
LEMMA FifoFacts ==
  ASSUME NEW s \in Seq(Nat), NEW w \in Nat
  PROVE  /\ Append(s, w) \in Seq(Nat)
         /\ Len(s) \in Nat
         /\ Len(Append(s, w)) = Len(s) + 1
         /\ \A k \in 1..Len(s) + 1 : Append(s, w)[k] = IF k <= Len(s) THEN s[k] ELSE w
         /\ s # << >> =>
              /\ Tail(s) \in Seq(Nat)
              /\ Len(s) > 0
              /\ Head(s) = s[1] /\ Head(s) \in Nat
              /\ Len(Tail(s)) = Len(s) - 1
              /\ \A k \in 1..Len(s) - 1 : Tail(s)[k] = s[k + 1]
  OBVIOUS

(* A load that begins, or cannot, preserves it.                            *)
LEMMA EnterInv ==
  ASSUME LoaderInv, NEW who \in {"driver", "tool"}, LoadEnter(who) \/ LoadNoFile(who)
  PROVE  LoaderInv'
<1> USE DEF LoaderInv, NothingWritten, RoomInFifo, NoWordLost, DoneIsConfigured, Loading,
            AfterWait, SuccessIsConfigured
<1>1. CASE LoadEnter(who)
  <2>1. file'.words \in Nat
    BY <1>1, FileFacts DEF LoadEnter
  <2>2. LoaderTypeOK'
    <3>1. lowRet' \in BOOLEAN /\ done' \in BOOLEAN /\ file' \in Files
      BY <1>1 DEF LoadEnter
    <3>2. fifo' \in Seq(Nat) /\ irq' \subseteq {"DONE", "ERROR"}
      BY <1>1 DEF LoadEnter, LoaderTypeOK
    <3> QED BY <1>1, <2>1, <3>1, <3>2 DEF LoadEnter, LoaderTypeOK
  <2> QED BY <1>1, <2>2 DEF LoadEnter, LoaderTypeOK
<1>2. CASE LoadNoFile(who)
  BY <1>2 DEF LoadNoFile, fclVars, LoaderTypeOK
<1> QED BY <1>1, <1>2

(* A word is written only with room in the FIFO, and is the next one.      *)
LEMMA WriteWordInv == LoaderInv /\ WriteWord => LoaderInv'
<1> SUFFICES ASSUME LoaderInv, WriteWord PROVE LoaderInv'
  OBVIOUS
<1> USE DEF LoaderInv
<1>1. /\ wrote \in Nat /\ size32 \in Nat /\ burst \in Nat /\ fifo \in Seq(Nat)
      /\ size32 > 0 /\ got \in Nat
      /\ wrote' = wrote + 1 /\ size32' = size32 - 1 /\ burst' = burst + 1 /\ got' = got
      /\ lpc = "burst" /\ lpc' = lpc /\ lowRet' = lowRet
  BY DEF LoaderTypeOK, WriteWord
<1>2. Len(fifo) < Depth
  BY <1>1, FifoFacts, LoaderAssumption, FifoAssumption DEF RoomInFifo, WriteWord
<1>3. fifo' = Append(fifo, wrote')
  BY <1>2 DEF WriteWord
<1>4. /\ fifo' \in Seq(Nat)
      /\ Len(fifo') = Len(fifo) + 1
      /\ Len(fifo) \in Nat
      /\ \A k \in 1..Len(fifo) + 1 : fifo'[k] = IF k <= Len(fifo) THEN fifo[k] ELSE wrote + 1
  <2>1. wrote + 1 \in Nat
    BY <1>1
  <2> QED BY <1>1, <1>3, <2>1, FifoFacts
<1>5. LoaderTypeOK'
  BY <1>1, <1>4 DEF LoaderTypeOK, WriteWord
<1>6. RoomInFifo'
  BY <1>1, <1>4, LoaderAssumption DEF RoomInFifo, WriteWord
<1>7. NoWordLost'
  BY <1>1, <1>4 DEF NoWordLost, WriteWord
<1> QED
  BY <1>1, <1>5, <1>6, <1>7 DEF NothingWritten, DoneIsConfigured, Loading, Configured, AfterWait,
     SuccessIsConfigured, WriteWord

(* The other steps of loader_low_level.                                    *)
LEMMA LowLevelInv == LoaderInv /\ LowLevel => LoaderInv'
<1> SUFFICES ASSUME LoaderInv, LowLevel PROVE LoaderInv'
  OBVIOUS
<1> USE DEF LoaderInv, LoaderTypeOK, NothingWritten, RoomInFifo, NoWordLost,
            DoneIsConfigured, Loading, Configured, AfterWait, SuccessIsConfigured, fclVars
<1>1. CASE FclReset
  BY <1>1, LoaderAssumption DEF FclReset
<1>2. CASE FclRefuses
  BY <1>2 DEF FclRefuses
<1>3. CASE CheckIrq
  BY <1>3 DEF CheckIrq
<1>4. CASE WaitHalf
  BY <1>4, LoaderAssumption DEF WaitHalf
<1>5. CASE WriteWord
  BY <1>5, WriteWordInv
<1>6. CASE BurstEnd
  BY <1>6 DEF BurstEnd
<1> QED BY <1>1, <1>2, <1>3, <1>4, <1>5, <1>6 DEF LowLevel

(* The end of a load, in the driver and in the tool.                       *)
LEMMA CallerInv == LoaderInv /\ Caller => LoaderInv'
<1> SUFFICES ASSUME LoaderInv, Caller PROVE LoaderInv'
  OBVIOUS
<1> USE DEF LoaderInv, LoaderTypeOK, NothingWritten, RoomInFifo, NoWordLost,
            DoneIsConfigured, Loading, Configured, AfterWait, SuccessIsConfigured, fclVars
<1>1. CASE WaitDone
  BY <1>1 DEF WaitDone
<1>2. CASE WaitFails
  BY <1>2 DEF WaitFails
<1>3. CASE GpioFix
  BY <1>3 DEF GpioFix
<1>4. CASE ResetAssert
  BY <1>4 DEF ResetAssert
<1>5. CASE ResetRelease
  BY <1>5 DEF ResetRelease
<1> QED BY <1>1, <1>2, <1>3, <1>4, <1>5 DEF Caller

(* The FPGA takes words and configures itself at its own pace.             *)
LEMMA FpgaTakeInv == LoaderInv /\ FpgaTake => LoaderInv'
<1> SUFFICES ASSUME LoaderInv, FpgaTake PROVE LoaderInv'
  OBVIOUS
<1> USE DEF LoaderInv
<1>1. /\ fifo # << >> /\ fifo \in Seq(Nat) /\ got \in Nat
      /\ fifo' = Tail(fifo)
      /\ UNCHANGED <<softVars, bootsel, inReset, file>>
  BY DEF LoaderTypeOK, FpgaTake
<1>2. /\ fifo' \in Seq(Nat) /\ Len(fifo) \in Nat
      /\ Len(fifo) > 0 /\ Len(fifo') = Len(fifo) - 1
      /\ Head(fifo) = fifo[1]
      /\ \A k \in 1..Len(fifo) - 1 : fifo'[k] = fifo[k + 1]
  BY <1>1, FifoFacts
<1>3. /\ got' \in Nat /\ got' >= got
      /\ Head(fifo) = got + 1 => got' = got + 1
  BY <1>1 DEF FpgaTake
<1>4. LoaderTypeOK'
  BY <1>1, <1>2, <1>3 DEF LoaderTypeOK, FpgaTake, softVars
<1>5. NothingWritten' /\ AfterWait'
  BY <1>1 DEF NothingWritten, AfterWait, FpgaTake, softVars
<1>6. RoomInFifo'
  BY <1>1, <1>2, LoaderAssumption DEF RoomInFifo, LoaderTypeOK, softVars
<1>7. NoWordLost'
  <2> SUFFICES ASSUME lpc # "idle", lpc # "reset", lowRet
               PROVE  /\ wrote + size32 = file.words
                      /\ Len(fifo') = wrote - got'
                      /\ \A k \in 1..Len(fifo') : fifo'[k] = got' + k
    BY <1>1 DEF NoWordLost, softVars
  <2>1. got' = got + 1
    BY <1>2, <1>3 DEF NoWordLost
  <2> QED BY <1>1, <1>2, <2>1 DEF NoWordLost, LoaderTypeOK
<1>8. fpga = "configured" => fpga' = "configured"
  BY DEF FpgaTake
<1>9. Configured => Configured'
  <2>1. file.need \in Nat
    BY FileFacts DEF LoaderTypeOK, NoFile
  <2> QED BY <1>1, <1>3, <1>8, <2>1 DEF Configured
<1>10. "DONE" \in irq' => "DONE" \in irq
  BY DEF FpgaTake
<1>11. DoneIsConfigured'
  BY <1>1, <1>9, <1>10 DEF DoneIsConfigured, Loading, softVars
<1>12. SuccessIsConfigured'
  BY <1>1, <1>9 DEF SuccessIsConfigured, Configured, softVars
<1> QED BY <1>4, <1>5, <1>6, <1>7, <1>11, <1>12

LEMMA FpgaDoneInv == LoaderInv /\ FpgaDone => LoaderInv'
  BY DEF FpgaDone, LoaderInv, LoaderTypeOK, NothingWritten, RoomInFifo, NoWordLost,
         DoneIsConfigured, Loading, Configured, AfterWait, SuccessIsConfigured, softVars

(* What the software knew is forgotten between a load and the use of what  *)
(* was loaded.                                                             *)
LEMMA ForgetInv ==
  ASSUME LoaderInv, lpc = "idle", caller' = "driver", size32' = 0, wrote' = 0, burst' = 0,
         done' = FALSE, lowRet' = TRUE, result' = "none", fifo' = << >>, got' = 0,
         file' = NoFile, UNCHANGED <<lpc, loads, bootsel, irq, fpga, inReset>>
  PROVE  LoaderInv'
<1>0. fifo' \in Seq(Nat)
  OBVIOUS
<1>1. LoaderTypeOK'
  BY <1>0 DEF LoaderInv, LoaderTypeOK
<1> QED
  BY <1>1 DEF LoaderInv, NothingWritten, RoomInFifo, NoWordLost, DoneIsConfigured, Loading,
     AfterWait, SuccessIsConfigured

(* Every step of the card preserves it.                                    *)
LEMMA LoaderNextInv == LoaderInv /\ [Next]_vars => LoaderInv'
<1> SUFFICES ASSUME LoaderInv, [Next]_vars PROVE LoaderInv'
  OBVIOUS
<1>1. CASE Load
  BY <1>1, EnterInv, LowLevelInv, CallerInv, FpgaTakeInv, FpgaDoneInv
     DEF Load, LoaderStep, Fpga
<1>2. CASE ToEeprom \/ ToTools
  BY <1>2, ForgetInv DEF ToEeprom, ToTools, Forget
<1>3. CASE UNCHANGED loaderVars
  BY <1>3 DEF loaderVars, softVars, fclVars, LoaderInv, LoaderTypeOK, NothingWritten,
     RoomInFifo, NoWordLost, DoneIsConfigured, Loading, Configured, AfterWait,
     SuccessIsConfigured
<1> QED BY <1>1, <1>2, <1>3 DEF Next, Eeprom, Tools, Reload, vars

(* A file that is loaded arrives: no word is lost in the FIFO, however     *)
(* bursts and the FPGA interleave, and a load that is reported as          *)
(* successful left the FPGA configured from the file, out of reset.        *)
THEOREM FileCorrect == Spec => []FileArrives
<1>1. Init => LoaderInv
  BY LoaderInitInv DEF Init
<1>2. LoaderInv => FileArrives
  BY DEF LoaderInv, FileArrives
<1> QED BY <1>1, <1>2, LoaderNextInv, PTL DEF Spec

-----------------------------------------------------------------------------
(* The memory of the processor, with at most one spec-cl at a time.  What  *)
(* was loaded is whole when the reset is taken back, and the memory does   *)
(* not change before the next program holds it.                            *)

AtMostOne(S) == \A x, y \in S : x = y

MemTypeOK ==
  /\ lmem \in [1..MemWords -> Int \X Int]
  /\ askHeld \in BOOLEAN /\ held \in BOOLEAN
  /\ clpc \in [Loaders -> {"idle", "held?", "write", "verify"}]
  /\ prog \in [Loaders -> Nat] /\ len \in [Loaders -> Nat] /\ at \in [Loaders -> Nat]
  /\ progs \in Nat
  /\ \A l \in Loaders : prog[l] <= progs
  /\ \A i \in 1..MemWords : lmem[i][1] <= progs

\* A program that is loaded is new, and its length that of spec-cl's file.
Fits(p, n) ==
  /\ Whole(p, n)
  /\ \A i \in n + 1..MemWords : lmem[i][1] # p
  /\ \A l \in Loaders : prog[l] = p /\ p # 0 => n = len[l]
OneProgram == \E p \in 0..progs : \E n \in 1..MemWords : Fits(p, n)

\* Unless the reset is asked for and in effect, nobody writes.
RunsOne == (~held \/ ~askHeld) /\ poked = {} => OneProgram

\* Where spec-cl is, against the reset and the memory.
LoaderAt(l) ==
  /\ clpc[l] # "idle" =>
       /\ askHeld
       /\ prog[l] > 0
       /\ at[l] >= 1 /\ len[l] >= 1 /\ len[l] <= MemWords + 1 /\ at[l] <= len[l] + 1
       /\ \A i \in 1..MemWords : i > len[l] => lmem[i][1] # prog[l]
  /\ clpc[l] = "held?" => at[l] = 1
  /\ clpc[l] \in {"write", "verify"} => held
  /\ clpc[l] = "verify" => \A i \in 1..MemWords : i < at[l] /\ i \notin poked => lmem[i] = <<prog[l], i>>

\* The last word of a program that is too long took the place of the first.
Wrapped(l) ==
  len[l] = MemWords + 1 =>
    /\ clpc[l] = "write" /\ at[l] > len[l] => lmem[1] # <<prog[l], 1>>
    /\ clpc[l] = "verify" => at[l] = 1 /\ lmem[1] # <<prog[l], 1>>

LmInv == MemTypeOK /\ RunsOne /\ \A l \in Loaders : LoaderAt(l) /\ Wrapped(l)

(* The memory at reset: the program the gateware came with.                *)
LEMMA BootFacts ==
  ASSUME NEW i \in 1..MemWords
  PROVE  Boot[i] = <<0, i>> /\ Boot[i][1] = 0 /\ Boot \in [1..MemWords -> Int \X Int]
<1>1. \A k \in 1..MemWords : <<0, k>> \in Int \X Int
  OBVIOUS
<1>2. Boot \in [1..MemWords -> Int \X Int]
  BY <1>1 DEF Boot
<1> QED BY <1>2 DEF Boot

MemBoot ==
  /\ lmem = Boot /\ askHeld = FALSE /\ held = FALSE /\ poked = {} /\ progs = 0
  /\ clpc = [l \in Loaders |-> "idle"]
  /\ prog = [l \in Loaders |-> 0] /\ len = [l \in Loaders |-> 0]
  /\ at \in [Loaders -> Nat]

LEMMA MemBootInv == MemBoot => LmInv
<1> SUFFICES ASSUME MemBoot PROVE LmInv
  OBVIOUS
<1> USE DEF MemBoot
<1>1. \A i \in 1..MemWords : lmem[i] = <<0, i>> /\ lmem[i][1] = 0
  BY BootFacts
<1>2. lmem \in [1..MemWords -> Int \X Int]
  <2>1. 1 \in 1..MemWords
    BY LmAssumption
  <2> QED BY <2>1, BootFacts
<1>3. MemTypeOK
  <2>1. /\ clpc \in [Loaders -> {"idle", "held?", "write", "verify"}]
        /\ prog \in [Loaders -> Nat] /\ len \in [Loaders -> Nat]
    OBVIOUS
  <2>2. \A l \in Loaders : prog[l] <= progs
    OBVIOUS
  <2>3. \A i \in 1..MemWords : lmem[i][1] <= progs
    BY <1>1
  <2> QED BY <1>2, <2>1, <2>2, <2>3 DEF MemTypeOK
<1>4. Fits(0, MemWords)
  BY <1>1, LmAssumption DEF Fits, Whole
<1>5. OneProgram
  BY <1>4, LmAssumption DEF OneProgram
<1>6. \A l \in Loaders : LoaderAt(l) /\ Wrapped(l)
  BY LmAssumption DEF LoaderAt, Wrapped
<1> QED BY <1>3, <1>5, <1>6 DEF LmInv, RunsOne

(* The words of a file go to the words of the memory, the one past its end *)
(* to the first.                                                           *)
LEMMA CellFacts ==
  ASSUME NEW i \in 1..MemWords + 1
  PROVE  Cell(i) = IF i = MemWords + 1 THEN 1 ELSE i
<1> USE LmAssumption
<1>1. CASE i = MemWords + 1
  <2>1. MemWords % MemWords = 0
    OBVIOUS
  <2> QED BY <1>1, <2>1 DEF Cell
<1>2. CASE i # MemWords + 1
  <2>1. i - 1 \in 0..MemWords - 1
    BY <1>2
  <2>2. (i - 1) % MemWords = i - 1
    BY <2>1
  <2> QED BY <1>2, <2>2 DEF Cell
<1> QED BY <1>1, <1>2

(* A program that is begun is new.                                         *)
LEMMA HoldInv ==
  ASSUME LmInv, AtMostOne(Loaders), NEW l \in Loaders, NEW n \in 1..MemWords + 1, LmHold(l, n)
  PROVE  LmInv'
<1> USE LmAssumption
<1>1. /\ prog' = [prog EXCEPT ![l] = progs + 1] /\ len' = [len EXCEPT ![l] = n]
      /\ at' = [at EXCEPT ![l] = 1] /\ clpc' = [clpc EXCEPT ![l] = "held?"]
      /\ progs' = progs + 1 /\ askHeld' = TRUE
      /\ UNCHANGED <<lmem, held, poked>>
  BY DEF LmHold, Goto
<1>2. MemTypeOK
  BY DEF LmInv
<1>3. \A m \in Loaders : m = l
  BY DEF AtMostOne
<1>4. /\ prog'[l] = progs + 1 /\ len'[l] = n /\ at'[l] = 1 /\ clpc'[l] = "held?"
      /\ \A i \in 1..MemWords : lmem[i][1] \in Int /\ lmem[i][1] # progs + 1
  BY <1>1, <1>2 DEF MemTypeOK
<1>5. MemTypeOK'
  BY <1>1, <1>2, <1>3, <1>4 DEF MemTypeOK
<1>6. \A m \in Loaders : LoaderAt(m)' /\ Wrapped(m)'
  BY <1>1, <1>2, <1>3, <1>4 DEF LoaderAt, Wrapped, MemTypeOK
<1>7. RunsOne'
  <2> SUFFICES ASSUME ~held, poked = {} PROVE OneProgram'
    BY <1>1 DEF RunsOne
  <2>1. PICK p \in 0..progs : \E k \in 1..MemWords : Fits(p, k)
    BY DEF LmInv, RunsOne, OneProgram
  <2>2. PICK k \in 1..MemWords : Fits(p, k)
    BY <2>1
  <2>3. Fits(p, k)'
    <3>1. Whole(p, k)' /\ \A i \in k + 1..MemWords : lmem'[i][1] # p
      BY <1>1, <2>2 DEF Fits, Whole
    <3>2. \A m \in Loaders : prog'[m] = progs + 1
      BY <1>3, <1>4
    <3>3. progs + 1 # p
      BY <1>2 DEF MemTypeOK
    <3> QED BY <3>1, <3>2, <3>3 DEF Fits
  <2>4. p \in 0..progs'
    BY <1>1, <1>2 DEF MemTypeOK
  <2> QED BY <2>3, <2>4 DEF OneProgram
<1> QED BY <1>5, <1>6, <1>7 DEF LmInv

(* While words are written the processor is held.                          *)
LEMMA WriteInv ==
  ASSUME LmInv, AtMostOne(Loaders), NEW l \in Loaders, LmWrite(l)
  PROVE  LmInv'
<1> USE LmAssumption
<1> DEFINE c == Cell(at[l])
<1>1. /\ clpc[l] = "write" /\ at[l] <= len[l]
      /\ lmem' = [lmem EXCEPT ![c] = <<prog[l], at[l]>>]
      /\ at' = [at EXCEPT ![l] = @ + 1]
      /\ UNCHANGED <<clpc, prog, len, progs, askHeld, held>>
  BY DEF LmWrite
<1>2. MemTypeOK /\ LoaderAt(l)
  BY DEF LmInv
<1>3. \A m \in Loaders : m = l
  BY DEF AtMostOne
<1>4. /\ at[l] \in Nat /\ len[l] \in Nat /\ prog[l] \in Nat /\ prog[l] <= progs
      /\ at[l] >= 1 /\ len[l] <= MemWords + 1 /\ prog[l] > 0 /\ held /\ askHeld
  BY <1>1, <1>2 DEF MemTypeOK, LoaderAt
<1>5. c = (IF at[l] = MemWords + 1 THEN 1 ELSE at[l]) /\ c \in 1..MemWords
  BY <1>1, <1>4, CellFacts
<1> HIDE DEF c
<1>6. \A i \in 1..MemWords : lmem'[i] = IF i = c THEN <<prog[l], at[l]>> ELSE lmem[i]
  BY <1>1, <1>2, <1>5 DEF MemTypeOK
<1>7. MemTypeOK'
  <2>1. lmem' \in [1..MemWords -> Int \X Int]
    <3>1. <<prog[l], at[l]>> \in Int \X Int
      BY <1>4
    <3> QED BY <1>1, <1>2, <3>1 DEF MemTypeOK
  <2>2. ASSUME NEW i \in 1..MemWords PROVE lmem'[i][1] <= progs
    <3>1. <<prog[l], at[l]>>[1] <= progs
      BY <1>4
    <3> QED BY <1>2, <1>6, <3>1 DEF MemTypeOK
  <2> QED BY <1>1, <1>2, <1>4, <2>1, <2>2 DEF MemTypeOK
<1>8. /\ at'[l] = at[l] + 1 /\ clpc'[l] = "write" /\ len'[l] = len[l] /\ prog'[l] = prog[l]
  BY <1>1, <1>2 DEF MemTypeOK
<1>9. LoaderAt(l)'
  <2>1. \A i \in 1..MemWords : i > len[l] => lmem'[i][1] # prog[l]
    BY <1>1, <1>2, <1>4, <1>5, <1>6 DEF LoaderAt
  <2> QED BY <1>1, <1>2, <1>4, <1>8, <2>1 DEF LoaderAt
<1>10. Wrapped(l)'
  <2> SUFFICES ASSUME len[l] = MemWords + 1, at[l] + 1 > len[l] PROVE lmem'[1] # <<prog[l], 1>>
    BY <1>8 DEF Wrapped
  <2>1. at[l] = MemWords + 1
    BY <1>1, <1>4
  <2> QED BY <1>4, <1>5, <1>6, <2>1
<1>11. RunsOne'
  BY <1>1, <1>4 DEF RunsOne
<1> QED BY <1>3, <1>7, <1>9, <1>10, <1>11 DEF LmInv

(* A program that passed the verification is whole when the reset is taken *)
(* back.                                                                   *)
LEMMA ReleaseInv ==
  ASSUME LmInv, AtMostOne(Loaders), NEW l \in Loaders, LmRelease(l)
  PROVE  LmInv'
<1> USE LmAssumption
<1>1. /\ clpc[l] = "verify" /\ at[l] > len[l] /\ askHeld' = FALSE
      /\ at' = [at EXCEPT ![l] = 1] /\ clpc' = [clpc EXCEPT ![l] = "idle"]
      /\ UNCHANGED <<prog, len, progs, lmem, held, poked>>
  BY DEF LmRelease, Goto
<1>2. MemTypeOK /\ LoaderAt(l) /\ Wrapped(l)
  BY DEF LmInv
<1>3. \A m \in Loaders : m = l
  BY DEF AtMostOne
<1>4. MemTypeOK'
  BY <1>1, <1>2 DEF MemTypeOK
<1>5. LoaderAt(l)' /\ Wrapped(l)'
  BY <1>1, <1>2 DEF LoaderAt, Wrapped, MemTypeOK
<1>6. RunsOne'
  <2> SUFFICES ASSUME poked = {} PROVE OneProgram'
    BY <1>1 DEF RunsOne
  <2>1. /\ len[l] \in 1..MemWords /\ prog[l] \in 0..progs /\ at[l] \in Nat
    BY <1>1, <1>2 DEF LoaderAt, Wrapped, MemTypeOK
  <2>2. Whole(prog[l], len[l])
    BY <1>1, <1>2, <2>1 DEF LoaderAt, Whole
  <2>3. Fits(prog[l], len[l])
    BY <1>1, <1>2, <1>3, <2>1, <2>2 DEF Fits, LoaderAt
  <2>4. Fits(prog[l], len[l])'
    BY <1>1, <2>3 DEF Fits, Whole
  <2> QED BY <1>1, <2>1, <2>4 DEF OneProgram
<1> QED BY <1>3, <1>4, <1>5, <1>6 DEF LmInv

(* The other steps of spec-cl leave memory and reset as they are.          *)
LEMMA LoadQuietInv ==
  ASSUME LmInv, AtMostOne(Loaders), NEW l \in Loaders,
         LmIsHeld(l) \/ LmWritten(l) \/ LmVerify(l) \/ LmKill(l)
  PROVE  LmInv'
<1> USE LmAssumption
<1>1. UNCHANGED <<prog, len, progs, lmem, askHeld, held, poked>>
  BY DEF LmIsHeld, LmWritten, LmVerify, LmKill, memVars
<1>2. MemTypeOK /\ LoaderAt(l) /\ Wrapped(l)
  BY DEF LmInv
<1>3. \A m \in Loaders : m = l
  BY DEF AtMostOne
<1>4. MemTypeOK'
  <2>1. clpc' \in [Loaders -> {"idle", "held?", "write", "verify"}]
    BY <1>2 DEF MemTypeOK, LmIsHeld, LmWritten, LmVerify, LmKill, Goto
  <2>2. at' \in [Loaders -> Nat]
    BY <1>2 DEF MemTypeOK, LmIsHeld, LmWritten, LmVerify, LmKill, Goto
  <2> QED BY <1>1, <1>2, <2>1, <2>2 DEF MemTypeOK
<1>5. RunsOne'
  <2>1. OneProgram => OneProgram'
    BY <1>1 DEF OneProgram, Fits, Whole
  <2> QED BY <1>1, <2>1 DEF LmInv, RunsOne
<1>6. CASE LmIsHeld(l)
  <2>1. held /\ clpc[l] = "held?" /\ clpc'[l] = "write" /\ at'[l] = at[l]
    BY <1>2, <1>6 DEF LmIsHeld, Goto, MemTypeOK
  <2>2. at[l] = 1
    BY <1>2, <2>1 DEF LoaderAt
  <2>3. LoaderAt(l)' /\ Wrapped(l)'
    BY <1>1, <1>2, <2>1, <2>2, LmAssumption DEF LoaderAt, Wrapped
  <2> QED BY <1>3, <1>4, <1>5, <2>3 DEF LmInv
<1>7. CASE LmWritten(l)
  BY <1>1, <1>2, <1>3, <1>4, <1>5, <1>7
     DEF LmInv, LmWritten, Goto, LoaderAt, Wrapped, MemTypeOK
<1>8. CASE LmVerify(l)
  <2>1. /\ clpc[l] = "verify" /\ at[l] <= len[l] /\ at[l] \in Nat /\ len[l] \in Nat
        /\ at[l] >= 1 /\ len[l] <= MemWords + 1
    BY <1>2, <1>8 DEF LmVerify, LoaderAt, MemTypeOK
  <2>2. CASE lmem[Cell(at[l])] = <<prog[l], at[l]>>
    <3>1. at' = [at EXCEPT ![l] = @ + 1] /\ clpc' = clpc
      BY <1>8, <2>2 DEF LmVerify
    <3>2. at[l] <= MemWords
      <4> SUFFICES ASSUME at[l] = MemWords + 1 PROVE FALSE
        BY <2>1
      <4> QED BY <1>2, <2>1 DEF Wrapped
    <3>3. Cell(at[l]) = at[l]
      BY <2>1, <3>2, CellFacts
    <3>4. at'[l] = at[l] + 1
      BY <1>2, <3>1 DEF MemTypeOK
    <3>5. LoaderAt(l)'
      BY <1>1, <1>2, <2>1, <2>2, <3>1, <3>2, <3>3, <3>4 DEF LoaderAt
    <3>6. Wrapped(l)'
      <4>1. len[l] # MemWords + 1
        <5> SUFFICES ASSUME len[l] = MemWords + 1 PROVE FALSE
          OBVIOUS
        <5>1. at[l] = 1 /\ lmem[1] # <<prog[l], 1>>
          BY <1>2, <2>1 DEF Wrapped
        <5> QED BY <2>2, <3>3, <5>1
      <4> QED BY <1>1, <4>1 DEF Wrapped
    <3> QED BY <1>3, <1>4, <1>5, <3>5, <3>6 DEF LmInv
  <2>3. CASE lmem[Cell(at[l])] # <<prog[l], at[l]>>
    BY <1>1, <1>2, <1>3, <1>4, <1>5, <1>8, <2>3
       DEF LmInv, LmVerify, Goto, LoaderAt, Wrapped, MemTypeOK
  <2> QED BY <2>2, <2>3
<1>9. CASE LmKill(l)
  BY <1>1, <1>2, <1>3, <1>4, <1>5, <1>9
     DEF LmInv, LmKill, Goto, LoaderAt, Wrapped, MemTypeOK
<1> QED BY <1>6, <1>7, <1>8, <1>9

(* A word that specmem changes behind spec-cl is remembered as such.       *)
LEMMA PokeInv ==
  ASSUME LmInv, AtMostOne(Loaders), NEW j \in 1..MemWords, Poke(j)
  PROVE  LmInv'
<1> USE LmAssumption
<1> DEFINE busy == \E l \in Loaders : clpc[l] = "write" \/ (clpc[l] = "verify" /\ at[l] <= j)
<1>1. /\ lmem' = [lmem EXCEPT ![j] = <<-1, j>>]
      /\ poked' = IF busy THEN poked ELSE poked \cup {j}
      /\ UNCHANGED <<clpc, prog, len, at, progs, askHeld, held>>
  BY DEF Poke, clVars
<1> HIDE DEF busy
<1>2. MemTypeOK
  BY DEF LmInv
<1>3. \A i \in 1..MemWords : lmem'[i] = IF i = j THEN <<-1, j>> ELSE lmem[i]
  BY <1>1, <1>2 DEF MemTypeOK
<1>4. MemTypeOK'
  <2>1. lmem' \in [1..MemWords -> Int \X Int]
    <3>1. <<-1, j>> \in Int \X Int
      OBVIOUS
    <3> QED BY <1>1, <1>2, <3>1 DEF MemTypeOK
  <2>2. ASSUME NEW i \in 1..MemWords PROVE lmem'[i][1] <= progs
    <3>1. <<-1, j>>[1] <= progs
      BY <1>2 DEF MemTypeOK
    <3> QED BY <1>2, <1>3, <3>1 DEF MemTypeOK
  <2> QED BY <1>1, <1>2, <2>1, <2>2 DEF MemTypeOK
<1>5. ASSUME NEW l \in Loaders
      PROVE  LoaderAt(l)' /\ Wrapped(l)'
  <2>1. LoaderAt(l) /\ Wrapped(l)
    BY DEF LmInv
  <2>2. prog[l] \in Nat /\ at[l] \in Nat
    BY <1>2 DEF MemTypeOK
  <2>3. clpc[l] = "verify" /\ j < at[l] => j \in poked'
    BY <1>1, <2>2 DEF busy, AtMostOne
  <2>4. poked \subseteq poked'
    BY <1>1
  <2>5. clpc[l] = "verify" =>
          \A i \in 1..MemWords : i < at[l] /\ i \notin poked' => lmem'[i] = <<prog[l], i>>
    BY <1>3, <2>1, <2>3, <2>4 DEF LoaderAt
  <2>6. LoaderAt(l)'
    BY <1>1, <1>3, <2>1, <2>2, <2>5 DEF LoaderAt
  <2>7. Wrapped(l)'
    BY <1>1, <1>3, <2>1, <2>2 DEF Wrapped
  <2> QED BY <2>6, <2>7
<1>6. RunsOne'
  <2>1. CASE busy
    BY <1>1, <2>1 DEF busy, LmInv, LoaderAt, RunsOne
  <2>2. CASE ~busy
    BY <1>1, <2>2 DEF RunsOne
  <2> QED BY <2>1, <2>2
<1> QED BY <1>4, <1>5, <1>6 DEF LmInv

(* The processor enters and leaves its reset.                              *)
LEMMA ObeyInv == LmInv /\ LmObey => LmInv'
<1> SUFFICES ASSUME LmInv, LmObey PROVE LmInv'
  OBVIOUS
<1>1. held # askHeld /\ held' = askHeld /\ UNCHANGED <<clpc, prog, len, at, progs, lmem, askHeld, poked>>
  BY DEF LmObey, clVars
<1>2. MemTypeOK'
  BY <1>1 DEF LmInv, MemTypeOK
<1>3. RunsOne'
  <2>1. OneProgram => OneProgram'
    BY <1>1 DEF OneProgram, Fits, Whole
  <2> QED BY <1>1, <2>1 DEF LmInv, RunsOne, MemTypeOK
<1>4. \A l \in Loaders : LoaderAt(l)' /\ Wrapped(l)'
  BY <1>1 DEF LmInv, LoaderAt, Wrapped
<1> QED BY <1>2, <1>3, <1>4 DEF LmInv

(* Every step of the card preserves it; a load of the FPGA boots the       *)
(* processor again.                                                        *)
LEMMA MemNextInv == AtMostOne(Loaders) /\ LmInv /\ [Next]_vars => LmInv'
<1> SUFFICES ASSUME AtMostOne(Loaders), LmInv, [Next]_vars PROVE LmInv'
  OBVIOUS
<1>1. CASE UNCHANGED <<clVars, memVars>>
  <2> USE <1>1 DEF clVars, memVars, LmInv
  <2>1. MemTypeOK'
    BY DEF MemTypeOK
  <2>2. RunsOne'
    BY DEF RunsOne, OneProgram, Fits, Whole
  <2>3. \A l \in Loaders : LoaderAt(l)' /\ Wrapped(l)'
    BY DEF LoaderAt, Wrapped
  <2> QED BY <2>1, <2>2, <2>3
<1>2. CASE LmUser
  BY <1>1, <1>2, HoldInv, LoadQuietInv, PokeInv DEF LmUser, Type, TermStart
<1>3. CASE LmTools
  <2>1. ASSUME NEW t \in Terms, Term(t) PROVE UNCHANGED <<clVars, memVars>>
    BY <2>1 DEF Term, TermKey, TermTimeout, TxReady, TxWrite, Drain
  <2> QED BY <1>1, <1>3, <2>1, LoadQuietInv, WriteInv, ReleaseInv DEF LmTools, LmLoad
<1>4. CASE LmHardware
  BY <1>1, <1>4, ObeyInv DEF LmHardware, LmHears, LmSays
<1>5. CASE Reload
  <2>1. clpc' = [l \in Loaders |-> "idle"] /\ at' \in [Loaders -> Nat]
    BY <1>5 DEF Reload, LmInv, MemTypeOK
  <2>2. MemBoot'
    BY <1>5, <2>1 DEF Reload, MemBoot, Boot
  <2>3. MemBoot' => LmInv'
    BY MemBootInv, PTL
  <2> QED BY <2>2, <2>3
<1> QED
  BY <1>1, <1>2, <1>3, <1>4, <1>5
     DEF Next, Load, ToEeprom, ToTools, Eeprom, Tools, lmVars, vars

(* The processor never runs a mixture of two programs, whatever load       *)
(* failed, was too long for the memory, was interrupted or found its words *)
(* changed before, with one spec-cl at a time.                             *)
THEOREM MemoryCorrect == AtMostOne(Loaders) => (Spec => []NoMixture)
<1> SUFFICES ASSUME AtMostOne(Loaders) PROVE Spec => []NoMixture
  OBVIOUS
<1>1. Init => LmInv
  <2> SUFFICES ASSUME LmInit PROVE MemBoot
    BY MemBootInv DEF Init
  <2>1. at \in [Loaders -> Nat]
    BY DEF LmInit
  <2> QED BY <2>1 DEF LmInit, MemBoot
<1>2. LmInv /\ [Next]_vars => LmInv'
  BY MemNextInv
<1>3. LmInv => NoMixture
  BY DEF LmInv, RunsOne, OneProgram, Fits, NoMixture
<1> QED BY <1>1, <1>2, <1>3, PTL DEF Spec

-----------------------------------------------------------------------------
(* The serial line, with at most one spec-vuart at a time: each key on its *)
(* way is the one after those that are ahead of it.                        *)

TermTypeOK ==
  /\ tpc \in [Terms -> {"off", "select", "tx", "txw", "drain"}]
  /\ key \in [Terms -> Nat] /\ stdin \in [Terms -> Seq(Nat)]
  /\ tdr \in Nat /\ rdr \in Nat /\ typed \in Nat /\ said \in Nat
  /\ heard \in Seq(Nat) /\ seen \in Seq(Nat)

\* A sequence of the first numbers.
Counts(s) == \A i \in 1..Len(s) : s[i] = i

\* The keys in s are those that follow key a, up to key n.
EndsQuit(s) == s # << >> /\ s[Len(s)] = Quit
InLine(s, a, n) ==
  /\ \A k \in 1..Len(s) : (s[k] = Quit => k = Len(s)) /\ (s[k] # Quit => s[k] = a + k)
  /\ EndsQuit(s) => n = a + Len(s) - 1
  /\ ~EndsQuit(s) => n = a + Len(s)

Full(r) == IF r = 0 THEN 0 ELSE 1
Ahead(t) == Len(heard) + Full(tdr) + Full(key[t])

\* Keys past the register are in the terminal, or still to be read by it.
KeysAt(t) ==
  /\ key[t] # 0 <=> tpc[t] \in {"tx", "txw"}
  /\ tpc[t] = "txw" => tdr = 0
  /\ key[t] # 0 => key[t] = Len(heard) + Full(tdr) + 1
  /\ InLine(stdin[t], Ahead(t), typed)

LineInv ==
  /\ TermTypeOK
  /\ Counts(heard)
  /\ tdr # 0 => tdr = Len(heard) + 1
  /\ Counts(seen)
  /\ rdr # 0 => rdr = Len(seen) + 1
  /\ said = Len(seen) + Full(rdr)
  /\ \A t \in Terms : KeysAt(t)

\* The line as the gateware and a card without terminals leave it.
LineBoot ==
  /\ tdr = 0 /\ rdr = 0 /\ typed = 0 /\ said = 0 /\ heard = << >> /\ seen = << >>
  /\ tpc = [t \in Terms |-> "off"] /\ key = [t \in Terms |-> 0]
  /\ stdin = [t \in Terms |-> << >>]

LEMMA LineBootInv == LineBoot => LineInv
<1> SUFFICES ASSUME LineBoot PROVE LineInv
  OBVIOUS
<1> USE DEF LineBoot
<1>1. heard \in Seq(Nat) /\ Len(heard) = 0 /\ seen \in Seq(Nat) /\ Len(seen) = 0
  OBVIOUS
<1>2. \A t \in Terms : stdin[t] = << >> /\ Len(stdin[t]) = 0 /\ key[t] = 0 /\ tpc[t] = "off"
  OBVIOUS
<1>3. stdin \in [Terms -> Seq(Nat)] /\ key \in [Terms -> Nat]
  OBVIOUS
<1>4. TermTypeOK
  BY <1>1, <1>3 DEF TermTypeOK
<1>5. \A t \in Terms : KeysAt(t)
  BY <1>1, <1>2 DEF KeysAt, InLine, EndsQuit, Ahead, Full
<1> QED BY <1>1, <1>4, <1>5 DEF LineInv, Counts, Full

LEMMA AheadNat ==
  ASSUME TermTypeOK, NEW t \in Terms
  PROVE  Ahead(t) \in Nat /\ Len(heard) \in Nat /\ Full(tdr) \in Nat
<1>1. Len(heard) \in Nat
  BY DEF TermTypeOK
<1>2. Full(tdr) \in Nat /\ Full(key[t]) \in Nat
  BY DEF Full
<1> QED BY <1>1, <1>2 DEF Ahead

(* The line with one more key, or with C-a, and without its first.         *)
LEMMA InLineAppend ==
  ASSUME NEW s, NEW r, NEW a \in Nat, NEW n \in Nat, NEW w \in Nat, InLine(s, a, n),
         Len(s) \in Nat, Len(r) = Len(s) + 1, s # << >> => Len(s) > 0, r # << >>,
         \A k \in 1..Len(s) : s[k] # Quit,
         \A k \in 1..Len(s) + 1 : r[k] = IF k <= Len(s) THEN s[k] ELSE w
  PROVE  /\ w = Quit => InLine(r, a, n)
         /\ w = n + 1 => InLine(r, a, n + 1)
<1>1. n = a + Len(s)
  BY DEF InLine, EndsQuit
<1>2. /\ \A k \in 1..Len(s) : s[k] = a + k /\ r[k] = a + k /\ r[k] # Quit
      /\ r[Len(r)] = w
  BY DEF InLine, EndsQuit
<1>3. w = Quit => InLine(r, a, n)
  BY <1>1, <1>2 DEF InLine, EndsQuit
<1>4. ASSUME w = n + 1 PROVE InLine(r, a, n + 1)
  <2>1. \A k \in 1..Len(r) : r[k] = a + k /\ r[k] # Quit
    BY <1>1, <1>2, <1>4 DEF Quit
  <2>2. r[Len(r)] # Quit
    BY <1>2, <1>4 DEF Quit
  <2> QED BY <1>1, <2>1, <2>2 DEF InLine, EndsQuit
<1> QED BY <1>3, <1>4

LEMMA InLineTail ==
  ASSUME NEW s, NEW r, NEW a \in Nat, NEW n \in Nat, InLine(s, a, n),
         Len(s) \in Nat, Len(s) > 0, s # << >>, Len(r) = Len(s) - 1, r = << >> <=> Len(r) = 0,
         \A k \in 1..Len(s) - 1 : r[k] = s[k + 1]
  PROVE  /\ s[1] = Quit => r = << >> /\ InLine(r, a, n)
         /\ s[1] # Quit => s[1] = a + 1 /\ InLine(r, a + 1, n)
<1>1. \A k \in 1..Len(s) : (s[k] = Quit => k = Len(s)) /\ (s[k] # Quit => s[k] = a + k)
  BY DEF InLine
<1>2. /\ s[Len(s)] = Quit => n = a + Len(s) - 1
      /\ s[Len(s)] # Quit => n = a + Len(s)
  BY DEF InLine, EndsQuit
<1>3. CASE s[1] = Quit
  <2>1. Len(s) = 1
    BY <1>1, <1>3
  <2> QED BY <1>2, <1>3, <2>1 DEF InLine, EndsQuit
<1>4. CASE s[1] # Quit
  <2>1. s[1] = a + 1
    BY <1>1, <1>4
  <2>2. ASSUME NEW k \in 1..Len(r)
        PROVE  (r[k] = Quit => k = Len(r)) /\ (r[k] # Quit => r[k] = a + 1 + k)
    BY <1>1
  <2>3. /\ EndsQuit(r) => n = a + 1 + Len(r) - 1
        /\ ~EndsQuit(r) => n = a + 1 + Len(r)
    <3>1. CASE Len(s) = 1
      BY <1>2, <1>4, <3>1 DEF EndsQuit
    <3>2. CASE Len(s) > 1
      <4>1. r[Len(r)] = s[Len(s)] /\ r # << >>
        BY <3>2
      <4>2. a + 1 + Len(r) = a + Len(s)
        OBVIOUS
      <4>3. CASE s[Len(s)] = Quit
        <5>1. n = a + Len(s) - 1
          BY <1>2, <4>3
        <5>2. n = a + 1 + Len(r) - 1
          BY <5>1
        <5> QED BY <4>1, <4>3, <5>2 DEF EndsQuit
      <4>4. CASE s[Len(s)] # Quit
        <5>1. n = a + 1 + Len(r)
          BY <1>2, <4>2, <4>4
        <5> QED BY <4>1, <4>4, <5>1 DEF EndsQuit
      <4> QED BY <4>3, <4>4
    <3> QED BY <3>1, <3>2
  <2> QED BY <1>4, <2>1, <2>2, <2>3 DEF InLine
<1> QED BY <1>3, <1>4

(* A key is appended to those the terminal still has to read.              *)
LEMMA TypeInv ==
  ASSUME LineInv, AtMostOne(Terms), NEW t \in Terms, NEW quit \in BOOLEAN, Type(t, quit)
  PROVE  LineInv'
<1> DEFINE s == stdin[t]
           w == IF quit THEN Quit ELSE typed + 1
<1>1. TermTypeOK /\ KeysAt(t) /\ (\A u \in Terms : u = t)
  BY DEF LineInv, AtMostOne
<1>2. /\ \A k \in 1..Len(s) : s[k] # Quit
      /\ typed' = IF quit THEN typed ELSE typed + 1
      /\ stdin' = [stdin EXCEPT ![t] = Append(s, w)]
      /\ UNCHANGED <<tpc, key, seen, tdr, rdr, heard, said>>
  BY <1>1 DEF Type, uartVars, TermTypeOK
<1>3. s \in Seq(Nat) /\ typed \in Nat /\ w \in Nat /\ typed' \in Nat
  BY <1>1, <1>2 DEF TermTypeOK, Quit
<1>4. InLine(s, Ahead(t), typed)
  BY <1>1 DEF KeysAt
<1> HIDE DEF s
<1>5. Append(s, w) \in Seq(Nat)
  BY <1>3, FifoFacts
<1>6. stdin'[t] = Append(s, w) /\ stdin' \in [Terms -> Seq(Nat)]
  BY <1>1, <1>2, <1>5 DEF TermTypeOK
<1>7. InLine(Append(s, w), Ahead(t), typed')
  <2> DEFINE r == Append(s, w)
  <2>1. /\ Len(s) \in Nat /\ Len(r) = Len(s) + 1 /\ (s # << >> => Len(s) > 0) /\ r # << >>
        /\ \A k \in 1..Len(s) + 1 : r[k] = IF k <= Len(s) THEN s[k] ELSE w
    BY <1>3, FifoFacts
  <2>2. Ahead(t) \in Nat
    BY <1>1, AheadNat
  <2> HIDE DEF r
  <2>3. /\ w = Quit => InLine(r, Ahead(t), typed)
        /\ w = typed + 1 => InLine(r, Ahead(t), typed + 1)
    BY <1>2, <1>3, <1>4, <2>1, <2>2, InLineAppend
  <2>4. InLine(r, Ahead(t), typed')
    BY <1>2, <2>3
  <2> QED BY <2>4 DEF r
<1>8. TermTypeOK'
  BY <1>1, <1>2, <1>3, <1>6 DEF TermTypeOK
<1>9. Ahead(t)' = Ahead(t)
  BY <1>2 DEF Ahead
<1>10. KeysAt(t)'
  BY <1>1, <1>2, <1>6, <1>7, <1>9 DEF KeysAt
<1> QED BY <1>1, <1>2, <1>8, <1>10 DEF LineInv, Counts, Full

(* A key that is read is the next one, and goes to the register behind     *)
(* those before it; C-a is the last.                                       *)
LEMMA TermKeyInv ==
  ASSUME LineInv, AtMostOne(Terms), NEW t \in Terms, TermKey(t)
  PROVE  LineInv'
<1> DEFINE s == stdin[t]
<1>1. TermTypeOK /\ KeysAt(t) /\ (\A u \in Terms : u = t)
  BY DEF LineInv, AtMostOne
<1>2. /\ tpc[t] = "select" /\ s # << >>
      /\ stdin' = [stdin EXCEPT ![t] = Tail(s)]
      /\ UNCHANGED <<typed, seen, tdr, rdr, heard, said>>
  BY <1>1 DEF TermKey, uartVars, TermTypeOK
<1>3. s \in Seq(Nat) /\ typed \in Nat /\ key[t] = 0 /\ InLine(s, Ahead(t), typed)
  BY <1>1, <1>2 DEF TermTypeOK, KeysAt
<1>4. IF Head(s) = Quit
      THEN key' = key /\ tpc' = [tpc EXCEPT ![t] = "drain"]
      ELSE key' = [key EXCEPT ![t] = Head(s)] /\ tpc' = [tpc EXCEPT ![t] = "tx"]
  BY DEF TermKey, Step
<1> HIDE DEF s
<1>5. Tail(s) \in Seq(Nat) /\ Head(s) \in Nat
  BY <1>2, <1>3, FifoFacts
<1>6. stdin'[t] = Tail(s) /\ stdin' \in [Terms -> Seq(Nat)]
  BY <1>1, <1>2, <1>5 DEF TermTypeOK
<1>7. Ahead(t) \in Nat /\ Ahead(t) = Len(heard) + Full(tdr)
  BY <1>1, <1>3, AheadNat DEF Ahead, Full
<1>8. /\ Head(s) = Quit => Tail(s) = << >> /\ InLine(Tail(s), Ahead(t), typed)
      /\ Head(s) # Quit => Head(s) = Ahead(t) + 1 /\ InLine(Tail(s), Ahead(t) + 1, typed)
  <2> DEFINE r == Tail(s)
  <2>1. /\ Len(s) \in Nat /\ Len(s) > 0 /\ Len(r) = Len(s) - 1 /\ Head(s) = s[1]
        /\ \A k \in 1..Len(s) - 1 : r[k] = s[k + 1]
    BY <1>2, <1>3, FifoFacts
  <2>2. r = << >> <=> Len(r) = 0
    <3>1. r # << >> => Len(r) > 0
      BY <1>5, FifoFacts
    <3> HIDE DEF r
    <3> QED BY <3>1
  <2> HIDE DEF r
  <2>3. /\ s[1] = Quit => r = << >> /\ InLine(r, Ahead(t), typed)
        /\ s[1] # Quit => s[1] = Ahead(t) + 1 /\ InLine(r, Ahead(t) + 1, typed)
    BY <1>2, <1>3, <1>7, <2>1, <2>2, InLineTail
  <2> QED BY <2>1, <2>3 DEF r
<1>9. TermTypeOK'
  BY <1>1, <1>2, <1>4, <1>5, <1>6 DEF TermTypeOK
<1>10. CASE Head(s) = Quit
  <2>1. tpc'[t] = "drain" /\ key'[t] = 0 /\ Ahead(t)' = Ahead(t)
    BY <1>1, <1>2, <1>3, <1>4, <1>10 DEF TermTypeOK, Ahead
  <2>2. KeysAt(t)'
    BY <1>2, <1>6, <1>8, <1>10, <2>1 DEF KeysAt
  <2> QED BY <1>1, <1>2, <1>9, <2>2 DEF LineInv, Counts, Full
<1>11. CASE Head(s) # Quit
  <2>1. tpc'[t] = "tx" /\ key'[t] = Ahead(t) + 1
    BY <1>1, <1>4, <1>8, <1>11 DEF TermTypeOK
  <2>2. Full(key'[t]) = 1
    BY <1>7, <2>1 DEF Full
  <2>3. Ahead(t)' = Ahead(t) + 1
    BY <1>2, <1>7, <2>2 DEF Ahead, Full
  <2>4. KeysAt(t)'
    BY <1>2, <1>6, <1>7, <1>8, <1>11, <2>1, <2>3 DEF KeysAt
  <2> QED BY <1>1, <1>2, <1>9, <2>4 DEF LineInv, Counts, Full
<1> QED BY <1>10, <1>11

(* The byte that is written follows those the processor has: the register  *)
(* is empty, as it was looked at before.                                   *)
LEMMA TxWriteInv ==
  ASSUME LineInv, AtMostOne(Terms), NEW t \in Terms, TxWrite(t)
  PROVE  LineInv'
<1>1. TermTypeOK /\ KeysAt(t) /\ (\A u \in Terms : u = t)
  BY DEF LineInv, AtMostOne
<1>2. /\ tpc[t] = "txw" /\ tdr' = key[t] /\ key' = [key EXCEPT ![t] = 0]
      /\ tpc' = [tpc EXCEPT ![t] = "drain"]
      /\ UNCHANGED <<stdin, typed, seen, rdr, heard, said>>
  BY DEF TxWrite, Step
<1>3. /\ tdr = 0 /\ key[t] # 0 /\ key[t] = Len(heard) + 1
      /\ key[t] \in Nat /\ Len(heard) \in Nat
  BY <1>1, <1>2 DEF KeysAt, Full, TermTypeOK
<1>4. TermTypeOK' /\ tpc'[t] = "drain" /\ key'[t] = 0
  BY <1>1, <1>2, <1>3 DEF TermTypeOK
<1>5. Ahead(t)' = Ahead(t)
  BY <1>2, <1>3, <1>4 DEF Ahead, Full
<1>6. KeysAt(t)'
  BY <1>1, <1>2, <1>3, <1>4, <1>5 DEF KeysAt
<1> QED BY <1>1, <1>2, <1>3, <1>4, <1>6 DEF LineInv, Counts, Full

(* The program on the processor takes a byte, and sends one.               *)
LEMMA LmHearsInv == LineInv /\ LmHears => LineInv'
<1> SUFFICES ASSUME LineInv, LmHears PROVE LineInv'
  OBVIOUS
<1>1. TermTypeOK /\ Counts(heard) /\ tdr # 0 /\ tdr = Len(heard) + 1
  BY DEF LineInv, LmHears
<1>2. /\ heard' = Append(heard, tdr) /\ tdr' = 0
      /\ UNCHANGED <<tpc, key, stdin, typed, seen, rdr, said>>
  BY DEF LmHears, termVars
<1>3. /\ heard' \in Seq(Nat) /\ Len(heard) \in Nat /\ Len(heard') = Len(heard) + 1
      /\ \A k \in 1..Len(heard) + 1 : heard'[k] = IF k <= Len(heard) THEN heard[k] ELSE tdr
  <2>1. heard \in Seq(Nat) /\ tdr \in Nat
    BY <1>1 DEF TermTypeOK
  <2> QED BY <1>2, <2>1, FifoFacts
<1>4. TermTypeOK' /\ Counts(heard')
  BY <1>1, <1>2, <1>3 DEF TermTypeOK, Counts
<1>5. ASSUME NEW t \in Terms PROVE KeysAt(t)'
  <2>1. Ahead(t)' = Ahead(t) /\ Len(heard') + Full(tdr') = Len(heard) + Full(tdr)
    BY <1>1, <1>2, <1>3 DEF Ahead, Full
  <2>2. KeysAt(t)
    BY DEF LineInv
  <2> QED BY <1>2, <2>1, <2>2 DEF KeysAt
<1> QED BY <1>2, <1>4, <1>5 DEF LineInv, Full, Counts

LEMMA LmSaysInv == LineInv /\ LmSays => LineInv'
<1> SUFFICES ASSUME LineInv, LmSays PROVE LineInv'
  OBVIOUS
<1>1. /\ rdr = 0 /\ said' = said + 1 /\ rdr' = said'
      /\ UNCHANGED <<tpc, key, stdin, typed, seen, tdr, heard>>
  BY DEF LmSays, termVars
<1>2. TermTypeOK /\ said = Len(seen) /\ Len(seen) \in Nat
  BY <1>1 DEF LineInv, TermTypeOK, Full
<1>3. TermTypeOK'
  BY <1>1, <1>2 DEF TermTypeOK
<1>4. \A t \in Terms : KeysAt(t)'
  BY <1>1 DEF LineInv, KeysAt, Ahead
<1> QED BY <1>1, <1>2, <1>3, <1>4 DEF LineInv, Counts, Full

(* What the processor sent is printed in order.                            *)
LEMMA DrainInv ==
  ASSUME LineInv, AtMostOne(Terms), NEW t \in Terms, Drain(t)
  PROVE  LineInv'
<1>1. TermTypeOK /\ KeysAt(t) /\ (\A u \in Terms : u = t)
  BY DEF LineInv, AtMostOne
<1>2. tpc[t] = "drain" /\ UNCHANGED <<tdr, heard, said, key, stdin, typed>>
  BY DEF Drain
<1>3. Ahead(t)' = Ahead(t)
  BY <1>2 DEF Ahead
<1>4. CASE rdr # 0
  <2>1. seen' = Append(seen, rdr) /\ rdr' = 0 /\ tpc' = tpc
    BY <1>4 DEF Drain
  <2>2. /\ seen' \in Seq(Nat) /\ Len(seen) \in Nat /\ Len(seen') = Len(seen) + 1
        /\ \A k \in 1..Len(seen) + 1 : seen'[k] = IF k <= Len(seen) THEN seen[k] ELSE rdr
    <3>1. seen \in Seq(Nat) /\ rdr \in Nat
      BY <1>1 DEF TermTypeOK
    <3> QED BY <2>1, <3>1, FifoFacts
  <2>3. TermTypeOK' /\ Counts(seen') /\ said = Len(seen')
    BY <1>1, <1>2, <1>4, <2>1, <2>2 DEF TermTypeOK, LineInv, Counts, Full
  <2>4. KeysAt(t)'
    BY <1>1, <1>2, <1>3, <2>1 DEF KeysAt
  <2> QED BY <1>1, <1>2, <2>1, <2>2, <2>3, <2>4 DEF LineInv, Counts, Full
<1>5. CASE rdr = 0
  <2>1. /\ seen' = seen /\ rdr' = rdr
        /\ tpc' = [tpc EXCEPT ![t] = IF leaving[t] THEN "off" ELSE "select"]
    BY <1>5 DEF Drain, Step
  <2>2. TermTypeOK' /\ tpc'[t] \in {"off", "select"}
    BY <1>1, <1>2, <2>1 DEF TermTypeOK
  <2>3. KeysAt(t)'
    BY <1>1, <1>2, <1>3, <2>2 DEF KeysAt
  <2> QED BY <1>1, <1>2, <2>1, <2>2, <2>3 DEF LineInv, Counts, Full
<1> QED BY <1>4, <1>5

(* The other steps of spec-vuart only move it.                             *)
LEMMA TermQuietInv ==
  ASSUME LineInv, AtMostOne(Terms), NEW t \in Terms,
         TermStart(t) \/ TermTimeout(t) \/ TxReady(t)
  PROVE  LineInv'
<1>1. TermTypeOK /\ KeysAt(t) /\ (\A u \in Terms : u = t)
  BY DEF LineInv, AtMostOne
<1>2. UNCHANGED <<tdr, rdr, heard, said, key, stdin, typed, seen>>
  BY DEF TermStart, TermTimeout, TxReady, uartVars
<1>3. PICK pc \in {"select", "drain", "txw"} :
        /\ tpc' = [tpc EXCEPT ![t] = pc]
        /\ pc = "txw" => tpc[t] = "tx" /\ tdr = 0
        /\ pc # "txw" => tpc[t] \in {"off", "select"}
  BY DEF TermStart, TermTimeout, TxReady, Step
<1>4. TermTypeOK' /\ tpc'[t] = pc
  BY <1>1, <1>2, <1>3 DEF TermTypeOK
<1>5. Ahead(t)' = Ahead(t)
  BY <1>2 DEF Ahead
<1>6. KeysAt(t)'
  BY <1>1, <1>2, <1>3, <1>4, <1>5 DEF KeysAt
<1> QED BY <1>1, <1>2, <1>4, <1>6 DEF LineInv, Counts, Full

(* Every step of the card preserves it; the next load finds no terminal.   *)
LEMMA LineNextInv == AtMostOne(Terms) /\ LineInv /\ [Next]_vars => LineInv'
<1> SUFFICES ASSUME AtMostOne(Terms), LineInv, [Next]_vars PROVE LineInv'
  OBVIOUS
<1>1. CASE UNCHANGED <<termVars, uartVars>>
  BY <1>1 DEF termVars, uartVars, LineInv, TermTypeOK, Counts, KeysAt, Ahead
<1>2. CASE LmUser
  BY <1>1, <1>2, TypeInv, TermQuietInv DEF LmUser, LmHold, LmKill, Poke
<1>3. CASE LmTools
  <2>1. ASSUME NEW l \in Loaders, LmLoad(l) PROVE UNCHANGED <<termVars, uartVars>>
    BY <2>1 DEF LmLoad, LmIsHeld, LmWrite, LmWritten, LmVerify, LmRelease
  <2> QED BY <1>1, <1>3, <2>1, TermKeyInv, TermQuietInv, TxWriteInv, DrainInv DEF LmTools, Term
<1>4. CASE LmHardware
  BY <1>1, <1>4, LmHearsInv, LmSaysInv DEF LmHardware, LmObey
<1>5. CASE Reload
  <2>1. tpc' = [t \in Terms |-> "off"] /\ key' = [t \in Terms |-> 0]
    BY <1>5 DEF Reload, LineInv, TermTypeOK, KeysAt
  <2>2. LineBoot'
    BY <1>5, <2>1 DEF Reload, LineBoot
  <2>3. LineBoot' => LineInv'
    BY LineBootInv, PTL
  <2> QED BY <2>2, <2>3
<1> QED
  BY <1>1, <1>2, <1>3, <1>4, <1>5
     DEF Next, Load, ToEeprom, ToTools, Eeprom, Tools, lmVars, vars

(* A sequence that goes on where another ends counts on.                   *)
LEMMA CountsOn ==
  ASSUME NEW s \in Seq(Nat), NEW r \in Seq(Nat), Counts(s),
         \A k \in 1..Len(r) : r[k] = Len(s) + k
  PROVE  Counts(s \o r) /\ s \o r \in Seq(Nat) /\ Len(s \o r) = Len(s) + Len(r)
  BY DEF Counts

LEMMA OneFacts ==
  ASSUME NEW b \in Nat, NEW a \in Nat, b # 0 => b = a + 1
  PROVE  /\ One(b) \in Seq(Nat) /\ Len(One(b)) = Full(b)
         /\ \A k \in 1..Len(One(b)) : One(b)[k] = a + k
  BY DEF One, Full

LEMMA SubSeqFacts ==
  ASSUME NEW s \in Seq(Nat), Len(s) > 0
  PROVE  LET r == SubSeq(s, 1, Len(s) - 1) IN
           /\ r \in Seq(Nat) /\ Len(r) = Len(s) - 1
           /\ \A k \in 1..Len(s) - 1 : r[k] = s[k]
<1>1. Len(s) \in Nat /\ \A k \in 1..Len(s) : s[k] \in Nat
  OBVIOUS
<1>2. SubSeq(s, 1, Len(s) - 1) = [k \in 1..Len(s) - 1 |-> s[k]]
  BY <1>1
<1> DEFINE r == [k \in 1..Len(s) - 1 |-> s[k]]
<1>3. r \in Seq(Nat) /\ Len(r) = Len(s) - 1
  BY <1>1
<1> QED BY <1>2, <1>3

LEMMA KeysFacts ==
  ASSUME NEW s \in Seq(Nat), NEW a \in Nat, NEW n \in Nat, InLine(s, a, n)
  PROVE  /\ Keys(s) \in Seq(Nat) /\ a + Len(Keys(s)) = n
         /\ \A k \in 1..Len(Keys(s)) : Keys(s)[k] = a + k
<1>1. Len(s) \in Nat /\ (s # << >> => Len(s) > 0)
  BY FifoFacts
<1>2. CASE EndsQuit(s)
  <2>1. Keys(s) = SubSeq(s, 1, Len(s) - 1)
    BY <1>2 DEF EndsQuit, Keys
  <2>2. /\ SubSeq(s, 1, Len(s) - 1) \in Seq(Nat) /\ Len(SubSeq(s, 1, Len(s) - 1)) = Len(s) - 1
        /\ \A k \in 1..Len(s) - 1 : SubSeq(s, 1, Len(s) - 1)[k] = s[k]
    BY <1>1, <1>2, SubSeqFacts DEF EndsQuit
  <2>3. \A k \in 1..Len(s) - 1 : s[k] = a + k
    BY <1>1 DEF InLine
  <2> QED BY <1>1, <1>2, <2>1, <2>2, <2>3 DEF InLine
<1>3. CASE ~EndsQuit(s)
  <2>1. Keys(s) = s
    BY <1>3 DEF EndsQuit, Keys
  <2>2. ASSUME NEW k \in 1..Len(s) PROVE s[k] = a + k
    <3>1. s # << >>
      BY <1>1
    <3> QED BY <1>1, <1>3, <3>1 DEF InLine, EndsQuit
  <2> QED BY <1>1, <1>3, <2>1, <2>2 DEF InLine
<1> QED BY <1>2, <1>3

LEMMA CountsIsOneTo ==
  ASSUME NEW s \in Seq(Nat), NEW n \in Nat, Counts(s), Len(s) = n
  PROVE  s = OneTo(n)
  BY DEF Counts, OneTo

(* What is typed reaches the processor once and in order, and what it      *)
(* sends is printed so, with one spec-vuart at a time, whatever the        *)
(* processor does and however often the terminal is left and started.      *)
THEOREM LineCorrect == AtMostOne(Terms) => (Spec => []SerialLine)
<1> SUFFICES ASSUME AtMostOne(Terms) PROVE Spec => []SerialLine
  OBVIOUS
<1>1. Init => LineInv
  BY LineBootInv DEF Init, LmInit, LineBoot
<1>2. LineInv /\ [Next]_vars => LineInv'
  BY LineNextInv
<1>3. LineInv => SerialLine
  <2> SUFFICES ASSUME LineInv PROVE SerialLine
    OBVIOUS
  <2>1. TermTypeOK
    BY DEF LineInv
  <2>2. seen \o One(rdr) = OneTo(said)
    <3>1. seen \in Seq(Nat) /\ Len(seen) \in Nat /\ rdr \in Nat
      BY <2>1 DEF TermTypeOK
    <3>2. /\ One(rdr) \in Seq(Nat) /\ Len(One(rdr)) = Full(rdr)
          /\ \A k \in 1..Len(One(rdr)) : One(rdr)[k] = Len(seen) + k
      BY <3>1, OneFacts DEF LineInv
    <3>3. Counts(seen \o One(rdr)) /\ seen \o One(rdr) \in Seq(Nat) /\ Len(seen \o One(rdr)) = said
      BY <3>1, <3>2, CountsOn DEF LineInv
    <3> QED BY <2>1, <3>3, CountsIsOneTo DEF TermTypeOK
  <2>3. ASSUME NEW t \in Terms
        PROVE  heard \o One(tdr) \o One(key[t]) \o Keys(stdin[t]) = OneTo(typed)
    <3> DEFINE a == heard \o One(tdr)
               b == a \o One(key[t])
    <3>1. /\ heard \in Seq(Nat) /\ Len(heard) \in Nat /\ tdr \in Nat /\ key[t] \in Nat
          /\ stdin[t] \in Seq(Nat) /\ typed \in Nat
      BY <2>1 DEF TermTypeOK
    <3>2. KeysAt(t)
      BY DEF LineInv
    <3>3. /\ One(tdr) \in Seq(Nat) /\ Len(One(tdr)) = Full(tdr)
          /\ \A k \in 1..Len(One(tdr)) : One(tdr)[k] = Len(heard) + k
      BY <3>1, OneFacts DEF LineInv
    <3>4. Counts(a) /\ a \in Seq(Nat) /\ Len(a) = Len(heard) + Full(tdr) /\ Len(a) \in Nat
      <4>1. Full(tdr) \in Nat /\ Counts(heard)
        BY DEF Full, LineInv
      <4> QED BY <3>1, <3>3, <4>1, CountsOn
    <3> HIDE DEF a
    <3>5. /\ One(key[t]) \in Seq(Nat) /\ Len(One(key[t])) = Full(key[t])
          /\ \A k \in 1..Len(One(key[t])) : One(key[t])[k] = Len(a) + k
      <4>1. key[t] # 0 => key[t] = Len(a) + 1
        BY <3>2, <3>4 DEF KeysAt
      <4> QED BY <3>1, <3>4, <4>1, OneFacts
    <3>6. Counts(b) /\ b \in Seq(Nat) /\ Len(b) = Ahead(t) /\ Len(b) \in Nat
      BY <2>1, <3>4, <3>5, CountsOn, AheadNat DEF Ahead
    <3> HIDE DEF b
    <3>7. /\ Keys(stdin[t]) \in Seq(Nat) /\ Ahead(t) + Len(Keys(stdin[t])) = typed
          /\ \A k \in 1..Len(Keys(stdin[t])) : Keys(stdin[t])[k] = Len(b) + k
      BY <3>1, <3>2, <3>6, KeysFacts DEF KeysAt
    <3>8. /\ Counts(b \o Keys(stdin[t])) /\ b \o Keys(stdin[t]) \in Seq(Nat)
          /\ Len(b \o Keys(stdin[t])) = typed
      BY <3>6, <3>7, CountsOn
    <3>9. b \o Keys(stdin[t]) = OneTo(typed)
      BY <3>1, <3>8, CountsIsOneTo
    <3> QED BY <3>9 DEF a, b
  <2> QED BY <2>2, <2>3 DEF SerialLine
<1> QED BY <1>1, <1>2, <1>3, PTL DEF Spec

-----------------------------------------------------------------------------
(* The EEPROM.  Its inductive invariant follows the two lines of the bus   *)
(* through each call of the driver: what the chip has taken, what it gives, *)
(* and where the routine is.                                               *)

\* Between the operations of a call.  The chip has taken the byte that was
\* put before put_byte looks at the acknowledge bit, and knows of get_byte's
\* before that brings SDA down.
Working == call <= Len(todo)
Cur == todo[call]
Past == bit = Bits + 1 /\ (Cur.f = "put" \/ (Cur.f = "get" /\ ph = 4))
\* The calls that the chip has seen, and the mode they leave it in.
Seen == IF Working /\ Past THEN call + 1 ELSE call
Mode == IF chip.mode = "start" THEN "idle" ELSE chip.mode

ChipType ==
  [mode : {"idle", "start", "dev", "hi", "lo", "data", "send"}, bits : Seq({0, 1}),
   sent : Nat, ack : BOOLEAN, addr : Nat, byte : Byte \cup {NoByte}, out : {0, 1},
   mem : Image, busy : BOOLEAN]

EepromTypeOK ==
  /\ call \in Nat \ {0} /\ bit \in 0..(Bits + 1) /\ ph \in 1..5
  /\ sda \in {0, 1} /\ scl \in {0, 1} /\ nack \in {0, 1}
  /\ indata \in Seq({0, 1})
  /\ calls \in Nat /\ fake \in BOOLEAN
  /\ chip \in ChipType

(* The lines.  A chip that sends holds the first bit ready between calls;  *)
(* otherwise it lets go.                                                   *)
Bus(c, d) == scl = c /\ sda = d
Quiet == chip.bits = << >> /\ chip.sent = 0 /\ ~chip.ack /\ chip.out = 1
Sending(n) ==
  /\ chip.bits = << >> /\ ~chip.ack /\ chip.sent = n
  /\ chip.out = IF n <= Bits THEN Digit(chip.mem[chip.addr], n) ELSE 1
Rest == IF chip.mode = "send" THEN Sending(1) ELSE Quiet
Collected(b, n) ==
  /\ chip.sent = 0 /\ ~chip.ack /\ chip.out = 1
  /\ IF chip.mode = "idle" THEN chip.bits = << >>
     ELSE Len(chip.bits) = n /\ \A j \in 1..n : chip.bits[j] = Digit(b, j)

DoneWire ==
  /\ Rest /\ chip.mode # "start"
  /\ IF epc \in {"read", "write"} THEN Bus(0, 0) ELSE Bus(1, 1)
StartWire ==
  /\ bit = Bits + 1 /\ Quiet
  /\ \/ ph = 1 /\ Bus(1, 1) /\ chip.mode = "idle"
     \/ ph = 2 /\ Bus(1, 0) /\ chip.mode = "start"
StopWire ==
  /\ bit = Bits + 1 /\ Quiet /\ chip.mode \notin {"start", "send"}
  /\ (ph \in {1, 2} /\ Bus(0, 0)) \/ (ph = 3 /\ Bus(1, 0))
PutBitWire ==
  /\ bit \in 1..Bits /\ ph \in 1..3
  /\ chip.mode \in {"idle", "dev", "hi", "lo", "data"}
  /\ Cur.byte \in Byte
  /\ chip.mode = "dev" => Cur.byte \in {WriteAddr, ReadAddr}
  /\ chip.mode = "dev" /\ Cur.byte = ReadAddr => chip.addr \in Offset
  /\ chip.mode = "lo" => AddrOf(chip.addr, Cur.byte) \in Nat
  /\ Collected(Cur.byte, bit - 1)
  /\ scl = IF ph = 3 THEN 1 ELSE 0
  /\ ph # 1 => sda = Digit(Cur.byte, bit)
PutAckWire ==
  /\ bit = Bits + 1
  /\ chip.mode \in {"idle", "hi", "lo", "data", "send"}
  /\ scl = IF ph \in {3, 4} THEN 1 ELSE 0
  /\ ph # 1 => sda = 1
  /\ IF ph = 5 THEN Rest
     ELSE /\ chip.bits = << >> /\ chip.sent = 0
          /\ IF chip.mode = "idle" THEN ~chip.ack /\ chip.out = 1
             ELSE chip.ack /\ chip.out = 0
  /\ ph >= 4 => nack = IF chip.mode = "idle" THEN 1 ELSE 0
GetHeadWire ==
  /\ bit = 0 /\ ph \in {1, 2} /\ Bus(0, 0) /\ chip.mode = "send" /\ Sending(1) /\ indata = << >>
GetBitWire ==
  /\ bit \in 1..Bits /\ ph \in 1..3 /\ chip.mode = "send" /\ Sending(bit)
  /\ Bus(IF ph = 1 THEN 0 ELSE 1, 1)
  /\ Len(indata) = IF ph = 3 THEN bit ELSE bit - 1
GetEndWire ==
  /\ bit = Bits + 1 /\ ph \in 1..4
  /\ scl = IF ph = 3 THEN 1 ELSE 0
  /\ sda = IF ph # 1 /\ Cur.ack THEN 0 ELSE 1
  /\ IF ph = 4 THEN chip.mode \in {"idle", "send"} /\ Rest
     ELSE chip.mode = "send" /\ Sending(Bits + 1)
  /\ Len(indata) = Bits

CallWire ==
  /\ Cur.f = "start" => StartWire
  /\ Cur.f = "stop" => StopWire
  /\ Cur.f = "put" => PutBitWire \/ PutAckWire
  /\ Cur.f = "get" => GetHeadWire \/ GetBitWire \/ GetEndWire

WireInv ==
  /\ IF Working THEN CallWire ELSE DoneWire
  /\ ~(Working /\ Cur.f = "get") => indata = << >>
  /\ chip.mode = "send" => chip.addr \in Offset

(* The routines: what is to be done, and the mode of the chip on the way.  *)
AtRest == chip.mode = "idle" /\ todo = << >> /\ call = 1
ScanPlace ==
  /\ todo = ScanCalls /\ call \in 1..6
  /\ Seen \in {1, 3, 6} => Mode = "idle"
  /\ Seen \in {2, 4} => Mode = "dev"
  /\ Seen = 5 => Mode = "hi"
  /\ call >= 5 => nack = 0
SelectPlace ==
  /\ todo = SelectCalls /\ call \in 1..3
  /\ Seen = 1 => Mode = "idle"
  /\ Seen = 2 => Mode = "dev"
  /\ Seen = 3 => Mode = "hi"
  /\ call = 3 => nack = 0
ReadPlace ==
  /\ todo = ReadCalls(off, edata) /\ call \in 1..(edata + 7)
  /\ Seen = 1 => Mode = "hi"
  /\ Seen = 2 => Mode = "lo" /\ chip.addr = OffsetHi(off)
  /\ Seen = 3 => Mode = "data"
  /\ Seen = 4 \/ Seen >= edata + 6 => Mode = "idle"
  /\ Seen = 5 => Mode = "dev"
  /\ Seen \in 3..5 => chip.addr = off
  /\ Seen \in 6..(edata + 5) => Mode = "send" /\ chip.addr = off + (Seen - 6)
Written == chip.byte = Head(edata) /\ chip.addr = off /\ chip.mem = cache
Stored == chip.byte = NoByte /\ chip.mem = [cache EXCEPT ![off] = Head(edata)]
Cycle == IF chip.busy THEN Written ELSE Stored
WritePlace ==
  /\ todo = WriteCalls(off, Head(edata)) /\ call \in 1..5
  /\ Seen = 1 => Mode = "hi"
  /\ Seen = 2 => Mode = "lo" /\ chip.addr = OffsetHi(off)
  /\ Seen \in {3, 4} => Mode = "data" /\ chip.addr = off
  /\ Seen <= 3 => ~chip.busy /\ chip.byte = NoByte /\ chip.mem = cache
  /\ Seen = 4 => ~chip.busy /\ Written
  /\ Seen = 5 => Mode = "idle" /\ Cycle
PollPlace ==
  /\ todo = PollCalls /\ call \in 1..4
  /\ Seen \in {1, 4} => Mode = "idle"
  /\ Seen = 2 => Mode \in {"idle", "dev"}
  /\ Seen = 3 => Mode \in {"idle", "hi"}
  /\ Mode # "idle" \/ (call >= 3 /\ nack = 0) => ~chip.busy
  /\ Cycle

Program ==
  /\ epc \in {"start", "scanned", "ready", "read", "got", "next", "write", "poll", "polled"}
  /\ epc \in {"start", "ready", "next"} => AtRest
  /\ epc = "scanned" => ScanPlace
  /\ epc \in {"read", "write"} => SelectPlace
  /\ epc = "got" => ReadPlace
  /\ epc = "poll" => WritePlace \/ (AtRest /\ Cycle)
  /\ epc = "polled" => PollPlace

(* The data: what is asked for, the copy, and what was read.               *)
CopyKept ==
  /\ epc \notin {"poll", "polled"} => ~chip.busy /\ chip.byte = NoByte
  /\ epc \in {"ready", "next", "write", "poll", "polled"} => cache \in Image
  /\ fake => epc \in {"ready", "next"}
  /\ epc \in {"start", "scanned"} => calls = 0
  /\ ~fake /\ (epc \in {"ready", "next", "write"} \/ (epc \in {"read", "got"} /\ calls > 0)) =>
       cache = chip.mem
  /\ IF epc = "ready" /\ ~fake
     THEN \A k \in DOMAIN readBack.bytes : readBack.bytes[k] = chip.mem[readBack.off + k]
     ELSE readBack = NothingRead
Asked ==
  /\ epc \in {"read", "got"} =>
       /\ off \in Nat /\ edata \in Nat \ {0} /\ off + edata <= SIZE
       /\ calls = 0 => off = 0 /\ edata = SIZE
  /\ epc \in {"next", "write", "poll", "polled"} =>
       off \in Nat /\ edata \in Seq(Byte) /\ off + Len(edata) <= SIZE
  /\ epc \in {"write", "poll", "polled"} => edata # << >>
BytesGot ==
  /\ epc = "read" => rx = << >>
  /\ epc = "got" =>
       /\ rx \in Seq(Byte)
       /\ Len(rx) = IF call <= 6 THEN 0 ELSE IF call <= edata + 6 THEN call - 6 ELSE edata
       /\ \A i \in 1..Len(rx) : rx[i] = chip.mem[off + (i - 1)]
       /\ Working /\ Cur.f = "get" =>
            \A j \in 1..Len(indata) : indata[j] = Digit(chip.mem[off + (call - 6)], j)

EepromInv == EepromTypeOK /\ WireInv /\ Program /\ CopyKept /\ Asked /\ BytesGot
CopyInv == epc = "start" \/ (present /\ epc # "failed") => EepromInv

LEMMA ByteValue ==
  ASSUME NEW b \in Byte, NEW s \in Seq({0, 1}), Len(s) = Bits,
         \A j \in 1..Bits : s[j] = Digit(b, j)
  PROVE  Value(s) = b
<1>1. s \in [1..Bits -> {0, 1}]
  BY EepromAssumption
<1> QED BY <1>1, DigitsAssumption

(* A chip that lets go of the bus keeps its place and its memory.          *)
LEMMA ClearFields ==
  ASSUME NEW c \in ChipType
  PROVE  /\ Clear(c) \in ChipType
         /\ Clear(c).mode = c.mode /\ Clear(c).addr = c.addr /\ Clear(c).byte = c.byte
         /\ Clear(c).mem = c.mem
         /\ Clear(c).bits = << >> /\ Clear(c).sent = 0 /\ Clear(c).out = 1
         /\ Clear(c).ack = FALSE
         /\ Clear(c).busy = c.busy
<1>1. << >> \in Seq({0, 1}) /\ 0 \in Nat /\ FALSE \in BOOLEAN /\ 1 \in {0, 1}
  OBVIOUS
<1>2. Clear(c) \in ChipType
  BY <1>1 DEF ChipType, Clear
<1> QED BY <1>1 DEF ChipType, Clear

(* So does one that sees a START.                                          *)
LEMMA StartedFields ==
  ASSUME chip \in ChipType
  PROVE  /\ Started \in ChipType
         /\ Started.mode = "start" /\ Started.addr = chip.addr /\ Started.byte = chip.byte
         /\ Started.mem = chip.mem
         /\ Started.bits = << >> /\ Started.sent = 0 /\ Started.out = 1
         /\ ~Started.ack
         /\ Started.busy = chip.busy
<1> DEFINE c == Clear(chip)
<1>1. c \in ChipType
  BY ClearFields
<1>2. /\ c.addr = chip.addr /\ c.byte = chip.byte /\ c.mem = chip.mem
      /\ c.bits = << >> /\ c.sent = 0 /\ c.out = 1
      /\ ~c.ack /\ c.busy = chip.busy
  BY ClearFields
<1>3. Started = [c EXCEPT !.mode = "start"]
  BY DEF Started
<1> HIDE DEF c
<1>4. Started \in ChipType
  BY <1>1, <1>3, Zenon DEF ChipType
<1>5. /\ Started.mode = "start"
      /\ Started.addr = c.addr /\ Started.byte = c.byte /\ Started.mem = c.mem
      /\ Started.bits = c.bits /\ Started.sent = c.sent /\ Started.out = c.out
      /\ Started.ack = c.ack /\ Started.busy = c.busy
  BY <1>1, <1>3 DEF ChipType
<1> QED BY <1>2, <1>4, <1>5

(* A STOP starts a write cycle only after a byte of data.                  *)
LEMMA StoppedFields ==
  ASSUME chip \in ChipType
  PROVE  /\ Stopped \in ChipType
         /\ Stopped.mode = "idle" /\ Stopped.addr = chip.addr /\ Stopped.byte = chip.byte
         /\ Stopped.mem = chip.mem
         /\ Stopped.bits = << >> /\ Stopped.sent = 0 /\ Stopped.out = 1
         /\ ~Stopped.ack
         /\ Stopped.busy = (chip.busy \/ chip.byte # NoByte)
<1> DEFINE c == Clear(chip)
           w == chip.busy \/ chip.byte # NoByte
<1>1. c \in ChipType
  BY ClearFields
<1>2. /\ c.addr = chip.addr /\ c.byte = chip.byte /\ c.mem = chip.mem
      /\ c.bits = << >> /\ c.sent = 0 /\ c.out = 1
      /\ ~c.ack
  BY ClearFields
<1>3. Stopped = [c EXCEPT !.mode = "idle", !.busy = w]
  BY DEF Stopped
<1>6. w \in BOOLEAN
  OBVIOUS
<1> HIDE DEF c, w
<1>4. Stopped \in ChipType
  BY <1>1, <1>3, <1>6 DEF ChipType
<1>5. /\ Stopped.mode = "idle"
      /\ Stopped.addr = c.addr /\ Stopped.byte = c.byte /\ Stopped.mem = c.mem
      /\ Stopped.bits = c.bits /\ Stopped.sent = c.sent /\ Stopped.out = c.out
      /\ Stopped.ack = c.ack /\ Stopped.busy = w
  BY <1>1, <1>3 DEF ChipType
<1>7. Stopped.busy = (chip.busy \/ chip.byte # NoByte)
  BY <1>5 DEF w
<1> QED BY <1>2, <1>4, <1>5, <1>7

Keeps(d) == d.addr = chip.addr /\ d.byte = chip.byte /\ d.mem = chip.mem /\ d.busy = chip.busy
QuietIn(d) == d.bits = << >> /\ d.sent = 0 /\ ~d.ack /\ d.out = 1
Taking == chip.mode \in {"dev", "hi", "lo", "data"}

(* SCL falls: a chip that is not spoken to does not move.                  *)
LEMMA FallIdle ==
  ASSUME NEW l, chip.mode = "idle"
  PROVE  Fallen(l) = chip
BY DEF Fallen

(* After a START it listens, unless it is in a write cycle.                *)
LEMMA FallStart ==
  ASSUME NEW l, chip \in ChipType, chip.mode = "start"
  PROVE  LET d == Fallen(l) IN
         /\ d \in ChipType /\ Keeps(d)
         /\ d.bits = chip.bits /\ d.sent = chip.sent /\ d.ack = chip.ack /\ d.out = chip.out
         /\ d.mode = IF chip.busy THEN "idle" ELSE "dev"
<1> DEFINE d == Fallen(l)
           m == IF chip.busy THEN "idle" ELSE "dev"
<1>1. d = [chip EXCEPT !.mode = m]
  BY DEF Fallen
<1>2. m \in {"idle", "dev"}
  OBVIOUS
<1>3. m = IF chip.busy THEN "idle" ELSE "dev"
  OBVIOUS
<1> HIDE DEF d, m
<1>4. d \in ChipType
  BY <1>1, <1>2, Zenon DEF ChipType
<1>5. /\ d.bits = chip.bits /\ d.sent = chip.sent /\ d.ack = chip.ack /\ d.out = chip.out
      /\ d.mode = m
      /\ d.addr = chip.addr /\ d.byte = chip.byte /\ d.mem = chip.mem /\ d.busy = chip.busy
  BY <1>1 DEF ChipType
<1> QED BY <1>3, <1>4, <1>5 DEF d, Keeps

(* It lets go when the acknowledge bit is over.                            *)
LEMMA FallAck ==
  ASSUME NEW l, chip \in ChipType, Taking, chip.ack
  PROVE  LET d == Fallen(l) IN
         /\ d \in ChipType /\ Keeps(d) /\ QuietIn(d) /\ d.mode = chip.mode
<1>1. Fallen(l) = Clear(chip)
  BY DEF Fallen, Taking
<1> QED BY <1>1, ClearFields DEF Keeps, QuietIn

(* It takes a bit that is not the last of its byte.                        *)
LEMMA FallBit ==
  ASSUME NEW l \in {0, 1}, chip \in ChipType, Taking, ~chip.ack, Len(chip.bits) + 1 < Bits
  PROVE  LET d == Fallen(l) IN
         /\ d \in ChipType /\ Keeps(d) /\ d.mode = chip.mode
         /\ d.bits = Append(chip.bits, l)
         /\ d.sent = chip.sent /\ d.ack = chip.ack /\ d.out = chip.out
<1> DEFINE d == Fallen(l)
           s == Append(chip.bits, l)
<1>0. chip.bits \in Seq({0, 1})
  BY DEF ChipType
<1>1. s \in Seq({0, 1}) /\ Len(s) < Bits
  BY <1>0
<1>2. s = Append(chip.bits, l)
  OBVIOUS
<1>3. d = [chip EXCEPT !.bits = s]
  BY <1>1 DEF Fallen, Taking
<1> HIDE DEF d, s
<1>4. d \in ChipType
  BY <1>1, <1>3, Zenon DEF ChipType
<1>5. /\ d.bits = s
      /\ d.sent = chip.sent /\ d.ack = chip.ack /\ d.out = chip.out
      /\ d.mode = chip.mode
      /\ d.addr = chip.addr /\ d.byte = chip.byte /\ d.mem = chip.mem /\ d.busy = chip.busy
  BY <1>1, <1>3 DEF ChipType
<1> QED BY <1>2, <1>4, <1>5 DEF d, Keeps

(* What it gives is a bit of the byte it is at.                            *)
LEMMA GivingFields ==
  ASSUME chip \in ChipType, NEW a \in Offset, NEW n \in Nat \ {0}
  PROVE  LET d == Giving(a, n) IN
         /\ d \in ChipType
         /\ d.mode = chip.mode /\ d.bits = chip.bits /\ d.byte = chip.byte
         /\ d.mem = chip.mem /\ d.busy = chip.busy
         /\ d.addr = a /\ ~d.ack /\ d.sent = n
         /\ d.out = IF n <= Bits THEN Digit(chip.mem[a], n) ELSE 1
<1> DEFINE d == Giving(a, n)
           v == IF n <= Bits THEN Digit(chip.mem[a], n) ELSE 1
<1>1. chip.mem[a] \in Byte
  BY DEF ChipType, Image
<1>2. n <= Bits => Digit(chip.mem[a], n) \in {0, 1}
  BY <1>1, DigitsAssumption, EepromAssumption
<1>3. v \in {0, 1} /\ v = (IF n <= Bits THEN Digit(chip.mem[a], n) ELSE 1)
  BY <1>2
<1>4. d = [chip EXCEPT !.ack = FALSE, !.addr = a, !.sent = n, !.out = v]
  BY DEF Giving
<1>5. a \in Nat
  BY EepromAssumption DEF Offset
<1> HIDE DEF d, v
<1>6. d \in ChipType
  BY <1>3, <1>4, <1>5 DEF ChipType
<1>7. /\ d.mode = chip.mode /\ d.bits = chip.bits /\ d.byte = chip.byte
      /\ d.mem = chip.mem /\ d.busy = chip.busy
      /\ d.addr = a /\ ~d.ack /\ d.sent = n /\ d.out = v
  BY <1>3, <1>4, <1>5 DEF ChipType
<1> QED BY <1>3, <1>6, <1>7 DEF d

(* The chip sends: the next bit, the next byte, or no more.                *)
LEMMA FallSend ==
  ASSUME NEW l, chip \in ChipType, chip.mode = "send"
  PROVE  /\ chip.ack => Fallen(l) = Giving(chip.addr, 1)
         /\ ~chip.ack /\ chip.sent <= Bits => Fallen(l) = Giving(chip.addr, chip.sent + 1)
         /\ ~chip.ack /\ ~(chip.sent <= Bits) /\ l = 0 =>
              Fallen(l) = Giving((chip.addr + 1) % SIZE, 1)
         /\ ~chip.ack /\ ~(chip.sent <= Bits) /\ l # 0 =>
              Fallen(l) = [Clear(chip) EXCEPT !.mode = "idle", !.addr = (chip.addr + 1) % SIZE]
BY DEF Fallen

(* A byte that is not acknowledged is the last one.                        *)
LEMMA FallLast ==
  ASSUME NEW l, chip \in ChipType, chip.mode = "send", ~chip.ack, ~(chip.sent <= Bits), l # 0
  PROVE  LET d == Fallen(l) IN
         /\ d \in ChipType /\ QuietIn(d) /\ d.mode = "idle"
         /\ d.byte = chip.byte /\ d.mem = chip.mem /\ d.busy = chip.busy
<1> DEFINE d == Fallen(l)
           c == Clear(chip)
           a == (chip.addr + 1) % SIZE
<1>1. d = [c EXCEPT !.mode = "idle", !.addr = a]
  BY FallSend
<1>2. chip.addr \in Nat
  BY DEF ChipType
<1>3. a \in Nat
  BY <1>2, EepromAssumption
<1>4. c \in ChipType /\ QuietIn(c) /\ c.byte = chip.byte /\ c.mem = chip.mem /\ c.busy = chip.busy
  BY ClearFields DEF QuietIn
<1> HIDE DEF d, c, a
<1>5. d \in ChipType
  BY <1>1, <1>3, <1>4 DEF ChipType
<1>6. /\ d.mode = "idle" /\ d.bits = c.bits /\ d.sent = c.sent /\ d.ack = c.ack /\ d.out = c.out
      /\ d.byte = c.byte /\ d.mem = c.mem /\ d.busy = c.busy
  BY <1>1, <1>3, <1>4 DEF ChipType
<1> QED BY <1>4, <1>5, <1>6 DEF d, QuietIn

(* The last bit of a byte: the chip takes the byte that was put.           *)
LEMMA FallByte ==
  ASSUME NEW l \in {0, 1}, NEW b \in Byte, chip \in ChipType, Taking, ~chip.ack,
         Len(chip.bits) = Bits - 1, l = Digit(b, Bits),
         \A j \in 1..(Bits - 1) : chip.bits[j] = Digit(b, j),
         chip.mode = "dev" => b \in {WriteAddr, ReadAddr},
         chip.mode = "lo" => AddrOf(chip.addr, b) \in Nat
  PROVE  LET d == Fallen(l) IN
         /\ d \in ChipType
         /\ d.bits = << >> /\ d.sent = chip.sent /\ d.ack /\ d.out = 0
         /\ d.mem = chip.mem /\ d.busy = chip.busy
         /\ chip.mode = "dev" => d.mode = IF b = WriteAddr THEN "hi" ELSE "send"
         /\ chip.mode = "hi" => d.mode = "lo" /\ d.addr = b
         /\ chip.mode = "lo" => d.mode = "data" /\ d.addr = AddrOf(chip.addr, b)
         /\ chip.mode = "data" => d.mode = "data" /\ d.byte = b
         /\ chip.mode \notin {"hi", "lo"} => d.addr = chip.addr
         /\ chip.mode # "data" => d.byte = chip.byte
<1> DEFINE d == Fallen(l)
           s == Append(chip.bits, l)
<1>0. chip.bits \in Seq({0, 1}) /\ Bits \in Nat /\ Bits >= 2
  BY EepromAssumption DEF ChipType
<1>1. s \in Seq({0, 1}) /\ Len(s) = Bits
  BY <1>0
<1>2. \A j \in 1..Bits : s[j] = Digit(b, j)
  BY <1>0
<1>3. Value(s) = b
  BY <1>1, <1>2, ByteValue
<1>4. d = [Taken(b) EXCEPT !.bits = << >>]
  <2>1. d = [Taken(Value(s)) EXCEPT !.bits = << >>]
    BY <1>1 DEF Fallen, Taking
  <2> QED BY <2>1, <1>3
<1>5. b \in Nat
  BY EepromAssumption DEF Byte
<1> DEFINE m == CASE chip.mode = "dev" -> IF b = WriteAddr THEN "hi" ELSE "send"
                  [] chip.mode = "hi" -> "lo"
                  [] OTHER -> "data"
           a == CASE chip.mode = "hi" -> b
                  [] chip.mode = "lo" -> AddrOf(chip.addr, b)
                  [] OTHER -> chip.addr
           y == IF chip.mode = "data" THEN b ELSE chip.byte
<1>6. Taken(b) = [chip EXCEPT !.mode = m, !.addr = a, !.byte = y, !.ack = TRUE, !.out = 0]
  <2>0. chip = [chip EXCEPT !.addr = chip.addr, !.byte = chip.byte]
    BY DEF ChipType
  <2>1. CASE chip.mode = "dev"
    BY <2>1, <2>0 DEF Taken, ChipType
  <2>2. CASE chip.mode = "hi"
    BY <2>2, <2>0 DEF Taken, ChipType
  <2>3. CASE chip.mode = "lo"
    BY <2>3, <2>0 DEF Taken, ChipType
  <2>4. CASE chip.mode = "data"
    BY <2>4, <2>0 DEF Taken, ChipType
  <2> QED BY <2>1, <2>2, <2>3, <2>4 DEF Taking
<1>7. m \in {"hi", "lo", "data", "send"} /\ a \in Nat /\ y \in Byte \cup {NoByte}
  BY <1>5 DEF ChipType
<1>8. /\ chip.mode = "dev" => m = IF b = WriteAddr THEN "hi" ELSE "send"
      /\ chip.mode = "hi" => m = "lo" /\ a = b
      /\ chip.mode = "lo" => m = "data" /\ a = AddrOf(chip.addr, b)
      /\ chip.mode = "data" => m = "data" /\ y = b
      /\ chip.mode \notin {"hi", "lo"} => a = chip.addr
      /\ chip.mode # "data" => y = chip.byte
  OBVIOUS
<1> HIDE DEF m, a, y
<1> DEFINE t == Taken(b)
<1>9. t \in ChipType
  BY <1>6, <1>7 DEF ChipType
<1>10. /\ t.mode = m /\ t.addr = a /\ t.byte = y /\ t.ack /\ t.out = 0
       /\ t.sent = chip.sent /\ t.mem = chip.mem /\ t.busy = chip.busy
  BY <1>6, <1>7 DEF ChipType
<1> HIDE DEF d, t
<1>11. d = [t EXCEPT !.bits = << >>]
  BY <1>4 DEF t
<1>12. d \in ChipType
  <2>1. << >> \in Seq({0, 1})
    OBVIOUS
  <2> QED BY <1>9, <1>11, <2>1, Zenon DEF ChipType
<1>13. /\ d.bits = << >>
       /\ d.mode = t.mode /\ d.addr = t.addr /\ d.byte = t.byte /\ d.ack = t.ack /\ d.out = t.out
       /\ d.sent = t.sent /\ d.mem = t.mem /\ d.busy = t.busy
  BY <1>9, <1>11 DEF ChipType
<1> QED BY <1>8, <1>10, <1>12, <1>13 DEF d

(* A line operation is one of the call at work.                            *)
LEMMA LineOpIs ==
  ASSUME LineOp
  PROVE  /\ Working /\ Drive(Ops(Cur, bit)[ph]) /\ Onwards(Cur, Ops(Cur, bit)[ph])
         /\ UNCHANGED <<epc, todo, off, edata, cache, fake, readBack, calls, present>>
BY DEF LineOp, Working, Cur

(* What set_sda, set_scl and get_sda do.                                   *)
LEMMA DriveSda ==
  ASSUME NEW v, present, Drive(Sda(v))
  PROVE  /\ sda' = v /\ scl' = scl /\ nack' = nack
         /\ scl # 1 => chip' = chip
         /\ scl = 1 => chip' = IF Line(sda) = 1 /\ Line(v) = 0 THEN Started
                               ELSE IF Line(sda) = 0 /\ Line(v) = 1 THEN Stopped ELSE chip
BY DEF Drive, Sda

LEMMA DriveScl ==
  ASSUME NEW v, present, Drive(Scl(v))
  PROVE  /\ sda' = sda /\ scl' = v /\ nack' = nack
         /\ chip' = IF scl = 1 /\ v = 0 THEN Fallen(Line(sda)) ELSE chip
BY DEF Drive, Scl

LEMMA DriveGet ==
  ASSUME NEW o \in {Ack, Bit}, present, Drive(o)
  PROVE  /\ sda' = sda /\ scl' = scl /\ chip' = chip
         /\ nack' = IF o = Ack THEN Line(sda) ELSE nack
BY DEF Drive, Ack, Bit

(* Where the call goes on.                                                 *)
LEMMA OnwardsIs ==
  ASSUME NEW c, NEW o, NEW n \in Nat, bit \in Nat, ph \in Nat, Len(Ops(c, bit)) = n, Onwards(c, o)
  PROVE  /\ ph < n => /\ ph' = ph + 1 /\ call' = call /\ bit' = bit /\ rx' = rx
                      /\ indata' = IF o.op = "bit" THEN Append(indata, Line(sda)) ELSE indata
         /\ ph = n /\ bit <= Bits =>
              ph' = 1 /\ bit' = bit + 1 /\ call' = call /\ indata' = indata /\ rx' = rx
         /\ ph = n /\ bit = Bits + 1 =>
              /\ ph' = 1 /\ call' = call + 1 /\ bit' = FirstRound(todo, call + 1) /\ indata' = << >>
              /\ rx' = IF c.f = "get" THEN Append(rx, Value(indata)) ELSE rx
<1> Bits \in Nat
  BY EepromAssumption
<1> QED BY DEF Onwards

Still == call' = call /\ Seen' = Seen /\ Mode' = Mode /\ Keeps(chip') /\ rx' = rx
Ends ==
  /\ ph' = 1 /\ call' = call + 1 /\ bit' = FirstRound(todo, call + 1)
  /\ indata' = << >> /\ nack' = nack

(* mi2c_start, step by step.                                               *)
LEMMA StartStep ==
  ASSUME present, EepromTypeOK, Cur.f = "start", StartWire, LineOp
  PROVE  /\ chip' \in ChipType /\ sda' \in {0, 1} /\ scl' \in {0, 1} /\ nack' = nack
         /\ QuietIn(chip') /\ Keeps(chip') /\ rx' = rx
         /\ \/ Still /\ StartWire' /\ indata' = indata
            \/ /\ Ends /\ Bus(0, 0)' /\ Mode = "idle" /\ Seen = call
               /\ chip'.mode = IF chip.busy THEN "idle" ELSE "dev"
<1> DEFINE o == Ops(Cur, bit)[ph]
<1>1. /\ Ops(Cur, bit) = <<Sda(0), Scl(0)>>
      /\ Drive(o) /\ Onwards(Cur, o)
      /\ UNCHANGED <<epc, todo, off, edata, cache, fake, readBack, calls, present>>
  BY LineOpIs DEF Ops, StartOps
<1>2. Len(Ops(Cur, bit)) = 2 /\ bit = Bits + 1 /\ Bits \in Nat /\ bit \in Nat /\ chip \in ChipType
  BY <1>1, EepromAssumption DEF StartWire, EepromTypeOK
<1>3. chip.out = 1 /\ chip.bits = << >> /\ chip.sent = 0 /\ ~chip.ack
  BY DEF StartWire, Quiet
<1>4. Working /\ Working' = (call' <= Len(todo))
  BY <1>1, LineOpIs DEF Working
<1>5. CASE ph = 1
  <2>1. o = Sda(0)
    BY <1>1, <1>5
  <2>2. Bus(1, 1) /\ chip.mode = "idle"
    BY <1>5 DEF StartWire
  <2>3. sda' = 0 /\ scl' = 1 /\ nack' = nack /\ chip' = Started
    BY <1>1, <1>3, <2>1, <2>2, DriveSda DEF Bus, Line
  <2>4. ph' = 2 /\ call' = call /\ bit' = bit /\ rx' = rx /\ indata' = indata
    <3>1. o.op # "bit"
      BY <2>1 DEF Sda
    <3> HIDE DEF o
    <3> QED BY <1>1, <1>2, <1>5, <3>1, OnwardsIs
  <2>5. chip' \in ChipType /\ QuietIn(chip') /\ Keeps(chip') /\ chip'.mode = "start"
    BY <1>2, <2>3, StartedFields DEF QuietIn, Keeps
  <2>6. StartWire'
    BY <1>2, <2>3, <2>4, <2>5 DEF StartWire, Bus, QuietIn, Quiet
  <2>7. Seen' = Seen
    BY <1>1, <2>4, <1>4, <1>5 DEF Seen, Past, Cur
  <2>8. Mode' = Mode
    BY <2>2, <2>5 DEF Mode
  <2> QED BY <2>3, <2>4, <2>5, <2>6, <2>7, <2>8 DEF Still
<1>6. CASE ph = 2
  <2>1. o = Scl(0)
    BY <1>1, <1>6
  <2>2. Bus(1, 0) /\ chip.mode = "start"
    BY <1>6 DEF StartWire
  <2>3. sda' = 0 /\ scl' = 0 /\ nack' = nack /\ chip' = Fallen(Line(sda))
    BY <1>1, <2>1, <2>2, DriveScl DEF Bus
  <2>4. Ends /\ rx' = rx
    <3> HIDE DEF o
    <3> QED BY <1>1, <1>2, <1>6, <2>3, OnwardsIs DEF Ends
  <2>5. /\ chip' \in ChipType /\ QuietIn(chip') /\ Keeps(chip')
        /\ chip'.mode = IF chip.busy THEN "idle" ELSE "dev"
    BY <1>2, <1>3, <2>2, <2>3, FallStart DEF QuietIn
  <2>6. Bus(0, 0)'
    BY <2>3 DEF Bus
  <2>7. Seen = call /\ Mode = "idle"
    BY <2>2 DEF Seen, Past, Mode
  <2> QED BY <2>3, <2>4, <2>5, <2>6, <2>7
<1> QED BY <1>5, <1>6 DEF StartWire

(* mi2c_stop: SDA rises while SCL is high, as the chip lets go of it.      *)
LEMMA StopStep ==
  ASSUME present, EepromTypeOK, Cur.f = "stop", StopWire, LineOp
  PROVE  /\ chip' \in ChipType /\ sda' \in {0, 1} /\ scl' \in {0, 1} /\ nack' = nack
         /\ QuietIn(chip') /\ rx' = rx /\ Seen = call /\ Mode = chip.mode
         /\ \/ Still /\ StopWire' /\ indata' = indata
            \/ /\ Ends /\ Bus(1, 1)' /\ chip'.mode = "idle"
               /\ chip'.addr = chip.addr /\ chip'.byte = chip.byte /\ chip'.mem = chip.mem
               /\ chip'.busy = (chip.busy \/ chip.byte # NoByte)
<1> DEFINE o == Ops(Cur, bit)[ph]
<1>1. /\ Ops(Cur, bit) = <<Sda(0), Scl(1), Sda(1)>>
      /\ Drive(o) /\ Onwards(Cur, o)
      /\ UNCHANGED <<epc, todo, off, edata, cache, fake, readBack, calls, present>>
  BY LineOpIs DEF Ops, StopOps
<1>2. Len(Ops(Cur, bit)) = 3 /\ bit = Bits + 1 /\ Bits \in Nat /\ bit \in Nat /\ chip \in ChipType
  BY <1>1, EepromAssumption DEF StopWire, EepromTypeOK
<1>3. /\ chip.out = 1 /\ chip.bits = << >> /\ chip.sent = 0 /\ ~chip.ack
      /\ chip.mode \notin {"start", "send"}
  BY DEF StopWire, Quiet
<1>4. Working /\ Working' = (call' <= Len(todo))
  BY <1>1, LineOpIs DEF Working
<1>5. Seen = call /\ Mode = chip.mode
  BY <1>3 DEF Seen, Past, Mode
<1>6. ASSUME ph \in {1, 2}, o \in {Sda(0), Scl(1)}
      PROVE  ph' = ph + 1 /\ call' = call /\ bit' = bit /\ rx' = rx /\ indata' = indata
  <2>1. o.op # "bit"
    BY <1>6 DEF Sda, Scl
  <2>2. ph \in Nat /\ ph < 3 /\ 3 \in Nat
    BY <1>6
  <2> HIDE DEF o
  <2> QED BY <1>1, <1>2, <2>1, <2>2, OnwardsIs
<1>7. ASSUME ph \in {1, 2}, o \in {Sda(0), Scl(1)}, chip' = chip, nack' = nack,
             sda' = 0, scl' = IF ph = 1 THEN 0 ELSE 1
      PROVE  /\ chip' \in ChipType /\ sda' \in {0, 1} /\ scl' \in {0, 1} /\ QuietIn(chip')
             /\ Still /\ StopWire' /\ indata' = indata /\ rx' = rx
  <2>1. StopWire'
    BY <1>2, <1>3, <1>6, <1>7 DEF StopWire, Bus, Quiet
  <2>2. Seen' = Seen /\ Mode' = Mode
    BY <1>1, <1>4, <1>5, <1>6, <1>7 DEF Seen, Past, Cur, Mode
  <2> QED BY <1>2, <1>3, <1>6, <1>7, <2>1, <2>2 DEF Still, Keeps, QuietIn
<1>8. CASE ph = 1
  <2>1. o = Sda(0) /\ scl = 0
    BY <1>1, <1>8 DEF StopWire, Bus
  <2>2. sda' = 0 /\ scl' = 0 /\ nack' = nack /\ chip' = chip
    BY <1>1, <2>1, DriveSda
  <2> QED BY <1>5, <1>7, <1>8, <2>1, <2>2
<1>9. CASE ph = 2
  <2>1. o = Scl(1) /\ scl = 0 /\ sda = 0
    BY <1>1, <1>9 DEF StopWire, Bus
  <2>2. sda' = 0 /\ scl' = 1 /\ nack' = nack /\ chip' = chip
    BY <1>1, <2>1, DriveScl
  <2> QED BY <1>5, <1>7, <1>9, <2>1, <2>2
<1>10. CASE ph = 3
  <2>1. o = Sda(1) /\ scl = 1 /\ sda = 0
    BY <1>1, <1>10 DEF StopWire, Bus
  <2>2. sda' = 1 /\ scl' = 1 /\ nack' = nack /\ chip' = Stopped
    BY <1>1, <1>3, <2>1, DriveSda DEF Line
  <2>3. Ends /\ rx' = rx
    <3> HIDE DEF o
    <3> QED BY <1>1, <1>2, <1>10, <2>2, OnwardsIs DEF Ends
  <2>4. Bus(1, 1)'
    BY <2>2 DEF Bus
  <2> QED BY <1>2, <1>5, <2>2, <2>3, <2>4, StoppedFields DEF QuietIn
<1> QED BY <1>8, <1>9, <1>10 DEF StopWire

PutTaken(b) ==
  /\ chip'.mem = chip.mem /\ chip'.busy = chip.busy
  /\ chip.mode = "idle" => chip'.mode = "idle"
  /\ chip.mode = "dev" => chip'.mode = IF b = WriteAddr THEN "hi" ELSE "send"
  /\ chip.mode = "hi" => chip'.mode = "lo" /\ chip'.addr = b
  /\ chip.mode = "lo" => chip'.mode = "data" /\ chip'.addr = AddrOf(chip.addr, b)
  /\ chip.mode = "data" => chip'.mode = "data" /\ chip'.byte = b
  /\ chip.mode \notin {"hi", "lo"} => chip'.addr = chip.addr
  /\ chip.mode # "data" => chip'.byte = chip.byte

(* mi2c_put_byte, the bits.                                                *)
LEMMA PutBitStep ==
  ASSUME present, EepromTypeOK, Cur.f = "put", PutBitWire, LineOp
  PROVE  /\ chip' \in ChipType /\ sda' \in {0, 1} /\ scl' \in {0, 1} /\ nack' = nack
         /\ rx' = rx /\ indata' = indata /\ call' = call /\ bit' \in 0..(Bits + 1) /\ ph' \in 1..5
         /\ Seen = call /\ Mode = chip.mode
         /\ \/ Still /\ PutBitWire'
            \/ Seen' = call + 1 /\ PutTaken(Cur.byte) /\ PutAckWire' /\ Mode' = chip'.mode
<1> DEFINE o == Ops(Cur, bit)[ph]
           b == Cur.byte
           v == Digit(b, bit)
<1>1. /\ Ops(Cur, bit) = <<Sda(v), Scl(1), Scl(0)>>
      /\ Drive(o) /\ Onwards(Cur, o)
      /\ UNCHANGED <<epc, todo, off, edata, cache, fake, readBack, calls, present>>
  BY LineOpIs, EepromAssumption DEF Ops, PutOps, PutBitWire
<1>2. /\ bit \in 1..Bits /\ Bits \in Nat /\ Bits >= 2 /\ chip \in ChipType /\ ph \in 1..3
      /\ Len(Ops(Cur, bit)) = 3
  BY <1>1, EepromAssumption DEF PutBitWire, EepromTypeOK
<1>3. b \in Byte /\ v \in {0, 1}
  BY <1>2, DigitsAssumption DEF PutBitWire
<1>4. Working /\ Working' = (call' <= Len(todo))
  BY <1>1, LineOpIs DEF Working
<1>5. Seen = call /\ Mode = chip.mode
  BY <1>2 DEF Seen, Past, Mode, PutBitWire
<1>6. Cur' = todo[call'] /\ Cur = todo[call]
  BY <1>1 DEF Cur
<1>7. /\ chip.mode \in {"idle", "dev", "hi", "lo", "data"} /\ chip.sent = 0 /\ ~chip.ack
      /\ chip.out = 1 /\ Collected(b, bit - 1)
      /\ chip.mode = "dev" => b \in {WriteAddr, ReadAddr}
      /\ chip.mode = "dev" /\ b = ReadAddr => chip.addr \in Offset
      /\ chip.mode = "lo" => AddrOf(chip.addr, b) \in Nat
      /\ scl = IF ph = 3 THEN 1 ELSE 0
      /\ ph # 1 => sda = v
  BY DEF PutBitWire, Collected
<1>8. o.op # "bit"
  BY <1>1, <1>2 DEF Sda, Scl
<1> HIDE DEF o
<1>9. /\ ph < 3 => /\ ph' = ph + 1 /\ call' = call /\ bit' = bit /\ rx' = rx /\ indata' = indata
      /\ ph = 3 => ph' = 1 /\ bit' = bit + 1 /\ call' = call /\ indata' = indata /\ rx' = rx
  <2>1. bit \in Nat /\ ph \in Nat /\ 3 \in Nat /\ bit <= Bits
    BY <1>2
  <2> QED BY <1>1, <1>2, <1>8, <2>1, OnwardsIs
<1>10. /\ rx' = rx /\ indata' = indata /\ call' = call /\ bit' \in 0..(Bits + 1) /\ ph' \in 1..5
  BY <1>2, <1>9
<1>11. Cur' = Cur /\ Working'
  BY <1>4, <1>6, <1>10 DEF Working
<1>12. ASSUME ph < 3, chip' = chip, sda' = v, scl' = IF ph = 2 THEN 1 ELSE 0
       PROVE  Still /\ PutBitWire'
  <2>1. PutBitWire'
    BY <1>2, <1>3, <1>7, <1>9, <1>11, <1>12 DEF PutBitWire, Collected
  <2>2. Seen' = Seen /\ Mode' = Mode
    BY <1>2, <1>9, <1>11, <1>5, <1>12 DEF Seen, Past, Mode
  <2> QED BY <1>10, <1>12, <2>1, <2>2 DEF Still, Keeps
<1>13. CASE ph = 1
  <2>1. o = Sda(v) /\ scl = 0
    BY <1>1, <1>7, <1>13 DEF o
  <2>2. sda' = v /\ scl' = 0 /\ nack' = nack /\ chip' = chip
    BY <1>1, <2>1, DriveSda
  <2> QED BY <1>2, <1>3, <1>5, <1>10, <1>12, <1>13, <2>2
<1>14. CASE ph = 2
  <2>1. o = Scl(1) /\ scl = 0 /\ sda = v
    BY <1>1, <1>7, <1>14 DEF o
  <2>2. sda' = v /\ scl' = 1 /\ nack' = nack /\ chip' = chip
    BY <1>1, <2>1, DriveScl
  <2> QED BY <1>2, <1>3, <1>5, <1>10, <1>12, <1>14, <2>2
<1>15. CASE ph = 3
  <2>1. o = Scl(0) /\ scl = 1 /\ sda = v
    BY <1>1, <1>7, <1>15 DEF o
  <2>2. sda' = v /\ scl' = 0 /\ nack' = nack /\ chip' = Fallen(v)
    BY <1>1, <1>3, <1>7, <2>1, DriveScl DEF Line
  <2>3. ph' = 1 /\ bit' = bit + 1
    BY <1>9, <1>15
  <2>4. ASSUME bit < Bits, chip' \in ChipType, chip'.mode = chip.mode, Keeps(chip'), Collected(b, bit - 1)'
        PROVE  Still /\ PutBitWire'
    <3>1. PutBitWire'
      BY <1>2, <1>3, <1>7, <1>11, <2>2, <2>3, <2>4 DEF PutBitWire, Keeps
    <3>2. Seen' = Seen /\ Mode' = Mode
      BY <1>2, <1>10, <1>11, <1>5, <1>7, <2>3, <2>4 DEF Seen, Past, Mode
    <3> QED BY <1>10, <2>4, <3>1, <3>2 DEF Still
  <2>5. ASSUME bit = Bits PROVE Seen' = call + 1
    BY <1>10, <1>11, <2>3, <2>5 DEF Seen, Past
  <2>6. CASE chip.mode = "idle"
    <3>1. chip' = chip /\ chip.bits = << >>
      BY <1>7, <2>2, <2>6, FallIdle DEF Collected
    <3>2. CASE bit < Bits
      <4>1. Collected(b, bit - 1)'
        BY <1>7, <2>6, <3>1 DEF Collected
      <4> QED BY <1>2, <1>3, <1>5, <1>10, <2>2, <2>4, <3>1, <3>2, <4>1 DEF Keeps
    <3>3. CASE bit = Bits
      <4>1. PutAckWire'
        BY <1>2, <1>7, <2>2, <2>3, <2>6, <3>1, <3>3 DEF PutAckWire
      <4>2. PutTaken(b) /\ Mode' = chip'.mode
        BY <2>6, <3>1 DEF PutTaken, Mode
      <4> QED BY <1>2, <1>3, <1>5, <1>10, <2>2, <2>5, <3>1, <3>3, <4>1, <4>2
    <3> QED BY <1>2, <3>2, <3>3
  <2>7. CASE chip.mode # "idle"
    <3>1. Taking /\ Len(chip.bits) = bit - 1 /\ \A j \in 1..(bit - 1) : chip.bits[j] = Digit(b, j)
      BY <1>7, <2>7 DEF Taking, Collected
    <3>2. CASE bit < Bits
      <4>1. /\ chip' \in ChipType /\ Keeps(chip') /\ chip'.mode = chip.mode
            /\ chip'.bits = Append(chip.bits, v)
            /\ chip'.sent = 0 /\ ~chip'.ack /\ chip'.out = 1
        BY <1>2, <1>3, <1>7, <2>2, <3>1, <3>2, FallBit
      <4>2. Len(chip'.bits) = bit /\ \A j \in 1..bit : chip'.bits[j] = Digit(b, j)
        <5>1. chip.bits \in Seq({0, 1})
          BY <1>2 DEF ChipType
        <5> QED BY <1>2, <1>3, <3>1, <4>1, <5>1
      <4>3. Collected(b, bit - 1)'
        BY <1>2, <1>11, <1>10, <2>3, <2>7, <4>1, <4>2 DEF Collected
      <4> QED BY <1>2, <1>3, <1>5, <1>10, <2>2, <2>4, <3>2, <4>1, <4>3
    <3>3. CASE bit = Bits
      <4>1. /\ chip' \in ChipType
            /\ chip'.bits = << >> /\ chip'.sent = 0 /\ chip'.ack /\ chip'.out = 0
            /\ chip'.mem = chip.mem /\ chip'.busy = chip.busy
            /\ chip.mode = "dev" => chip'.mode = IF b = WriteAddr THEN "hi" ELSE "send"
            /\ chip.mode = "hi" => chip'.mode = "lo" /\ chip'.addr = b
            /\ chip.mode = "lo" => chip'.mode = "data" /\ chip'.addr = AddrOf(chip.addr, b)
            /\ chip.mode = "data" => chip'.mode = "data" /\ chip'.byte = b
            /\ chip.mode \notin {"hi", "lo"} => chip'.addr = chip.addr
            /\ chip.mode # "data" => chip'.byte = chip.byte
        <5>1. Len(chip.bits) = Bits - 1 /\ v = Digit(b, Bits)
              /\ \A j \in 1..(Bits - 1) : chip.bits[j] = Digit(b, j)
          BY <3>1, <3>3
        <5> HIDE DEF v, b
        <5> QED BY <1>2, <1>3, <1>7, <2>2, <3>1, <5>1, FallByte
      <4>2. PutTaken(b)
        BY <2>7, <4>1 DEF PutTaken
      <4>3. chip'.mode \in {"hi", "lo", "data", "send"}
        BY <3>1, <4>1 DEF Taking
      <4>4. PutAckWire'
        BY <1>2, <2>2, <2>3, <3>3, <4>1, <4>3 DEF PutAckWire
      <4>5. Mode' = chip'.mode
        BY <4>3 DEF Mode
      <4> QED BY <1>2, <1>3, <1>5, <1>10, <2>2, <2>5, <3>3, <4>1, <4>2, <4>4, <4>5
    <3> QED BY <1>2, <3>2, <3>3
  <2> QED BY <2>6, <2>7
<1> QED BY <1>2, <1>13, <1>14, <1>15

(* mi2c_put_byte, the acknowledge bit: nack says whether the chip took it. *)
LEMMA PutAckStep ==
  ASSUME present, EepromTypeOK, Cur.f = "put", PutAckWire, LineOp,
         chip.mode = "send" => chip.addr \in Offset
  PROVE  /\ chip' \in ChipType /\ sda' \in {0, 1} /\ scl' \in {0, 1} /\ nack' \in {0, 1}
         /\ rx' = rx /\ Seen = call + 1 /\ Mode = chip.mode
         /\ \/ Still /\ PutAckWire' /\ indata' = indata /\ bit' = bit /\ ph' \in 1..5
            \/ /\ Ends /\ chip' = chip /\ Rest /\ Bus(0, 0)'
               /\ nack = IF chip.mode = "idle" THEN 1 ELSE 0
<1> DEFINE o == Ops(Cur, bit)[ph]
<1>1. /\ Ops(Cur, bit) = <<Sda(1), Scl(1), Ack, Scl(0), Sda(0)>>
      /\ Drive(o) /\ Onwards(Cur, o)
      /\ UNCHANGED <<epc, todo, off, edata, cache, fake, readBack, calls, present>>
  BY LineOpIs, EepromAssumption DEF Ops, PutOps, PutAckWire
<1>2. /\ bit = Bits + 1 /\ bit \in Nat /\ Bits \in Nat /\ chip \in ChipType /\ ph \in 1..5
      /\ Len(Ops(Cur, bit)) = 5 /\ nack \in {0, 1} /\ call \in Nat
  BY <1>1, EepromAssumption DEF PutAckWire, EepromTypeOK
<1>3. /\ chip.mode \in {"idle", "hi", "lo", "data", "send"}
      /\ scl = IF ph \in {3, 4} THEN 1 ELSE 0
      /\ ph # 1 => sda = 1
  BY DEF PutAckWire
<1>4. Working /\ Working' = (call' <= Len(todo))
  BY <1>1, LineOpIs DEF Working
<1>5. Seen = call + 1 /\ Mode = chip.mode
  BY <1>2, <1>3, <1>4 DEF Seen, Past, Mode
<1>6. Cur' = todo[call'] /\ Cur = todo[call]
  BY <1>1 DEF Cur
<1>7. o.op # "bit"
  BY <1>1, <1>2 DEF Sda, Scl, Ack
<1> HIDE DEF o
<1>8. /\ ph < 5 => /\ ph' = ph + 1 /\ call' = call /\ bit' = bit /\ rx' = rx /\ indata' = indata
      /\ ph = 5 => /\ ph' = 1 /\ call' = call + 1 /\ bit' = FirstRound(todo, call + 1)
                   /\ indata' = << >> /\ rx' = rx
  <2>1. bit \in Nat /\ ph \in Nat /\ 5 \in Nat /\ bit = Bits + 1 /\ ~(bit <= Bits)
    BY <1>2
  <2> QED BY <1>1, <1>2, <1>7, <2>1, OnwardsIs
<1>9. ASSUME ph < 5, chip'.mode = chip.mode, Keeps(chip'), chip' \in ChipType, PutAckWire',
             sda' \in {0, 1}, scl' \in {0, 1}, nack' \in {0, 1}
      PROVE  /\ Still /\ PutAckWire' /\ indata' = indata /\ bit' = bit /\ ph' \in 1..5
             /\ rx' = rx
  <2>1. Cur' = Cur /\ Working' /\ ph' \in 1..5
    BY <1>2, <1>4, <1>6, <1>8, <1>9 DEF Working
  <2>2. Seen' = Seen
    BY <1>2, <1>5, <1>8, <1>9, <2>1 DEF Seen, Past
  <2>3. Mode' = Mode
    BY <1>5, <1>9, <1>3 DEF Mode
  <2> QED BY <1>8, <1>9, <2>1, <2>2, <2>3 DEF Still
<1>10. CASE ph \in {1, 2, 3}
  <2>1. /\ chip.bits = << >> /\ chip.sent = 0
        /\ IF chip.mode = "idle" THEN ~chip.ack /\ chip.out = 1 ELSE chip.ack /\ chip.out = 0
    BY <1>10 DEF PutAckWire
  <2>2. /\ chip' = chip /\ sda' = 1 /\ scl' = IF ph = 1 THEN 0 ELSE 1
        /\ nack' = IF ph = 3 THEN (IF chip.mode = "idle" THEN 1 ELSE 0) ELSE nack
    <3>1. CASE ph = 1
      <4>1. o = Sda(1) /\ scl = 0
        BY <1>1, <1>3, <3>1 DEF o
      <4> QED BY <1>1, <4>1, <3>1, DriveSda
    <3>2. CASE ph = 2
      <4>1. o = Scl(1) /\ scl = 0 /\ sda = 1
        BY <1>1, <1>3, <3>2 DEF o
      <4> QED BY <1>1, <4>1, <3>2, DriveScl
    <3>3. CASE ph = 3
      <4>1. o = Ack /\ scl = 1 /\ sda = 1
        BY <1>1, <1>3, <3>3 DEF o
      <4>2. Line(sda) = IF chip.mode = "idle" THEN 1 ELSE 0
        BY <2>1, <4>1 DEF Line
      <4> QED BY <1>1, <4>1, <4>2, <3>3, DriveGet
    <3> QED BY <1>10, <3>1, <3>2, <3>3
  <2>3. ph' = ph + 1 /\ bit' = bit /\ ph < 5
    BY <1>8, <1>10
  <2>4. PutAckWire'
    <3>1. ph' \in {2, 3, 4} /\ bit' = Bits + 1 /\ sda' = 1 /\ (ph' >= 4 => ph = 3)
      BY <1>2, <1>10, <2>2, <2>3
    <3>2. scl' = IF ph' \in {3, 4} THEN 1 ELSE 0
      BY <1>10, <2>2, <2>3
    <3>3. ph' >= 4 => nack' = IF chip'.mode = "idle" THEN 1 ELSE 0
      BY <2>2, <3>1
    <3>4. ph' # 5 /\ (ph' # 1 => sda' = 1)
      BY <3>1
    <3>5. /\ chip'.bits = << >> /\ chip'.sent = 0
          /\ IF chip'.mode = "idle" THEN ~chip'.ack /\ chip'.out = 1
             ELSE chip'.ack /\ chip'.out = 0
      BY <2>1, <2>2
    <3>6. chip'.mode \in {"idle", "hi", "lo", "data", "send"}
      BY <1>3, <2>2
    <3> QED BY <3>1, <3>2, <3>3, <3>4, <3>5, <3>6 DEF PutAckWire
  <2>5. nack' \in {0, 1} /\ sda' \in {0, 1} /\ scl' \in {0, 1}
    BY <1>2, <2>2
  <2> QED BY <1>2, <1>5, <1>9, <2>2, <2>3, <2>4, <2>5 DEF Keeps
<1>11. CASE ph = 4
  <2>1. o = Scl(0) /\ scl = 1 /\ sda = 1
    BY <1>1, <1>3, <1>11 DEF o
  <2>2. sda' = 1 /\ scl' = 0 /\ nack' = nack /\ chip' = Fallen(Line(sda))
    BY <1>1, <2>1, DriveScl
  <2>3. /\ chip.bits = << >> /\ chip.sent = 0
        /\ IF chip.mode = "idle" THEN ~chip.ack /\ chip.out = 1 ELSE chip.ack /\ chip.out = 0
        /\ nack = IF chip.mode = "idle" THEN 1 ELSE 0
    BY <1>11 DEF PutAckWire
  <2>4. chip' \in ChipType /\ Keeps(chip') /\ chip'.mode = chip.mode /\ Rest'
    <3>1. CASE chip.mode = "idle"
      <4>1. chip' = chip
        BY <2>2, <3>1, FallIdle
      <4> QED BY <1>2, <2>3, <3>1, <4>1 DEF Keeps, Rest, Quiet
    <3>2. CASE chip.mode \in {"hi", "lo", "data"}
      <4>1. chip' \in ChipType /\ Keeps(chip') /\ QuietIn(chip') /\ chip'.mode = chip.mode
        BY <1>2, <2>2, <2>3, <3>2, FallAck DEF Taking
      <4>2. Rest'
        BY <3>2, <4>1 DEF Rest, Quiet, QuietIn
      <4> QED BY <4>1, <4>2
    <3>3. CASE chip.mode = "send"
      <4>1. chip' = Giving(chip.addr, 1) /\ 1 \in Nat \ {0} /\ chip.addr \in Offset
        BY <1>2, <2>2, <2>3, <3>3, FallSend
      <4>2. /\ chip' \in ChipType /\ chip'.mode = chip.mode /\ chip'.bits = chip.bits
            /\ chip'.byte = chip.byte /\ chip'.mem = chip.mem /\ chip'.busy = chip.busy
            /\ chip'.addr = chip.addr /\ ~chip'.ack /\ chip'.sent = 1
            /\ chip'.out = IF 1 <= Bits THEN Digit(chip.mem[chip.addr], 1) ELSE 1
        BY <1>2, <4>1, GivingFields
      <4>3. Sending(1)'
        BY <2>3, <4>2 DEF Sending
      <4> QED BY <3>3, <4>2, <4>3 DEF Rest, Keeps
    <3> QED BY <1>3, <3>1, <3>2, <3>3
  <2>5. ph' = 5 /\ bit' = bit
    BY <1>8, <1>11
  <2>6. PutAckWire'
    BY <1>2, <1>3, <2>2, <2>3, <2>4, <2>5 DEF PutAckWire
  <2> QED BY <1>2, <1>5, <1>9, <1>11, <2>2, <2>4, <2>6
<1>12. CASE ph = 5
  <2>1. o = Sda(0) /\ scl = 0
    BY <1>1, <1>3, <1>12 DEF o
  <2>2. sda' = 0 /\ scl' = 0 /\ nack' = nack /\ chip' = chip
    BY <1>1, <2>1, DriveSda
  <2>3. Rest /\ nack = IF chip.mode = "idle" THEN 1 ELSE 0
    BY <1>12 DEF PutAckWire
  <2>4. Ends /\ rx' = rx
    BY <1>8, <1>12, <2>2 DEF Ends
  <2> QED BY <1>2, <1>5, <2>2, <2>3, <2>4 DEF Bus
<1> QED BY <1>2, <1>10, <1>11, <1>12

(* mi2c_get_byte, before the first bit.                                    *)
LEMMA GetHeadStep ==
  ASSUME present, EepromTypeOK, Cur.f = "get", GetHeadWire, LineOp
  PROVE  /\ chip' = chip /\ sda' \in {0, 1} /\ scl' \in {0, 1} /\ nack' = nack
         /\ rx' = rx /\ bit' \in 0..(Bits + 1) /\ ph' \in 1..5 /\ Seen = call
         /\ Still /\ indata' = indata /\ (GetHeadWire' \/ GetBitWire')
<1> DEFINE o == Ops(Cur, bit)[ph]
<1>1. /\ Ops(Cur, bit) = <<Scl(0), Sda(1)>>
      /\ Drive(o) /\ Onwards(Cur, o)
      /\ UNCHANGED <<epc, todo, off, edata, cache, fake, readBack, calls, present>>
  BY LineOpIs DEF Ops, GetOps, GetHeadWire
<1>2. /\ bit = 0 /\ ph \in {1, 2} /\ Bits \in Nat /\ Bits >= 2 /\ call \in Nat
      /\ Len(Ops(Cur, bit)) = 2 /\ scl = 0 /\ sda = 0 /\ chip.mode = "send" /\ Sending(1)
      /\ indata = << >>
  BY <1>1, EepromAssumption DEF GetHeadWire, EepromTypeOK, Bus
<1>3. Working /\ Working' = (call' <= Len(todo)) /\ Cur' = todo[call'] /\ Cur = todo[call]
  BY <1>1, LineOpIs DEF Working, Cur
<1>4. o.op # "bit"
  BY <1>1, <1>2 DEF Sda, Scl
<1> HIDE DEF o
<1>5. /\ ph < 2 => /\ ph' = ph + 1 /\ call' = call /\ bit' = bit /\ rx' = rx /\ indata' = indata
      /\ ph = 2 => ph' = 1 /\ bit' = bit + 1 /\ call' = call /\ indata' = indata /\ rx' = rx
  <2>1. bit \in Nat /\ ph \in Nat /\ 2 \in Nat /\ bit <= Bits
    BY <1>2
  <2> QED BY <1>1, <1>2, <1>4, <2>1, OnwardsIs
<1>6. chip' = chip /\ nack' = nack /\ scl' = 0 /\ sda' = IF ph = 1 THEN 0 ELSE 1
  <2>1. CASE ph = 1
    <3>1. o = Scl(0)
      BY <1>1, <2>1 DEF o
    <3> QED BY <1>1, <1>2, <2>1, <3>1, DriveScl
  <2>2. CASE ph = 2
    <3>1. o = Sda(1)
      BY <1>1, <2>2 DEF o
    <3> QED BY <1>1, <1>2, <2>2, <3>1, DriveSda
  <2> QED BY <1>2, <2>1, <2>2
<1>7. /\ rx' = rx /\ indata' = indata /\ call' = call /\ bit' \in {0, 1} /\ ph' \in {1, 2}
      /\ bit' = (IF ph = 1 THEN 0 ELSE 1) /\ ph' = (IF ph = 1 THEN 2 ELSE 1)
  BY <1>2, <1>5
<1>8. Seen = call /\ Seen' = call'
  BY <1>2, <1>7 DEF Seen, Past
<1>9. Still
  BY <1>6, <1>7, <1>8 DEF Still, Keeps, Mode
<1>10. GetHeadWire' \/ GetBitWire'
  <2>1. Sending(1)'
    BY <1>2, <1>6 DEF Sending
  <2>2. CASE ph = 1
    BY <1>2, <1>6, <1>7, <2>1, <2>2 DEF GetHeadWire, Bus
  <2>3. CASE ph = 2
    <3>1. bit' = 1 /\ ph' = 1 /\ scl' = 0 /\ sda' = 1 /\ chip'.mode = "send" /\ Len(indata') = 0
      BY <1>2, <1>6, <1>7, <2>3
    <3>2. Sending(bit)'
      BY <2>1, <3>1 DEF Sending
    <3> QED BY <1>2, <3>1, <3>2 DEF GetBitWire, Bus
  <2> QED BY <1>2, <2>2, <2>3
<1> QED BY <1>2, <1>6, <1>7, <1>8, <1>9, <1>10

(* mi2c_get_byte, the bits: each is the one that the chip gives.           *)
LEMMA GetBitStep ==
  ASSUME present, EepromTypeOK, Cur.f = "get", GetBitWire, LineOp, chip.addr \in Offset
  PROVE  /\ chip' \in ChipType /\ sda' \in {0, 1} /\ scl' \in {0, 1} /\ nack' = nack
         /\ rx' = rx /\ bit' \in 0..(Bits + 1) /\ ph' \in 1..5 /\ Seen = call
         /\ indata' \in Seq({0, 1})
         /\ \/ indata' = indata
            \/ Len(indata) = bit - 1 /\ indata' = Append(indata, Digit(chip.mem[chip.addr], bit))
         /\ Still /\ (GetBitWire' \/ GetEndWire')
<1> DEFINE o == Ops(Cur, bit)[ph]
           v == Digit(chip.mem[chip.addr], bit)
<1>1. /\ Ops(Cur, bit) = <<Scl(1), Bit, Scl(0)>>
      /\ Drive(o) /\ Onwards(Cur, o)
      /\ UNCHANGED <<epc, todo, off, edata, cache, fake, readBack, calls, present>>
  BY LineOpIs, EepromAssumption DEF Ops, GetOps, GetBitWire
<1>2. /\ bit \in 1..Bits /\ ph \in 1..3 /\ Bits \in Nat /\ Bits >= 2 /\ call \in Nat
      /\ Len(Ops(Cur, bit)) = 3 /\ chip \in ChipType /\ indata \in Seq({0, 1})
  BY <1>1, EepromAssumption DEF GetBitWire, EepromTypeOK
<1>3. /\ chip.mode = "send" /\ sda = 1 /\ scl = IF ph = 1 THEN 0 ELSE 1
      /\ Len(indata) = IF ph = 3 THEN bit ELSE bit - 1
      /\ chip.bits = << >> /\ ~chip.ack /\ chip.sent = bit /\ chip.out = v
  BY <1>2 DEF GetBitWire, Bus, Sending
<1>4. v \in {0, 1}
  <2>1. chip.mem[chip.addr] \in Byte
    BY <1>2 DEF ChipType, Image
  <2> QED BY <1>2, <2>1, DigitsAssumption
<1>5. Working /\ Working' = (call' <= Len(todo)) /\ Cur' = todo[call'] /\ Cur = todo[call]
  BY <1>1, LineOpIs DEF Working, Cur
<1>6. (o.op = "bit") <=> (ph = 2)
  BY <1>1, <1>2 DEF Sda, Scl, Bit
<1>7. Line(sda) = v
  BY <1>3, <1>4 DEF Line
<1> HIDE DEF o, v
<1>8. /\ ph < 3 => /\ ph' = ph + 1 /\ call' = call /\ bit' = bit /\ rx' = rx
                   /\ indata' = IF ph = 2 THEN Append(indata, v) ELSE indata
      /\ ph = 3 => ph' = 1 /\ bit' = bit + 1 /\ call' = call /\ indata' = indata /\ rx' = rx
  <2>1. bit \in Nat /\ ph \in Nat /\ 3 \in Nat /\ bit <= Bits
    BY <1>2
  <2>2. ph < 3 => /\ ph' = ph + 1 /\ call' = call /\ bit' = bit /\ rx' = rx
                  /\ indata' = IF o.op = "bit" THEN Append(indata, Line(sda)) ELSE indata
    BY <1>1, <1>2, <2>1, OnwardsIs
  <2>3. ph = 3 => ph' = 1 /\ bit' = bit + 1 /\ call' = call /\ indata' = indata /\ rx' = rx
    BY <1>1, <1>2, <2>1, OnwardsIs
  <2> QED BY <1>6, <1>7, <2>2, <2>3
<1>9. call' = call /\ rx' = rx /\ bit' \in 1..(Bits + 1) /\ ph' \in 1..3 /\ (bit' = Bits + 1 => ph' = 1)
  BY <1>2, <1>8
<1>12. Cur' = Cur
  BY <1>5, <1>9
<1>10. Seen = call /\ Seen' = call
  <2>1. ~Past /\ ~Past'
    BY <1>2, <1>9, <1>12 DEF Past
  <2> QED BY <1>9, <2>1 DEF Seen
<1>11. /\ indata' \in Seq({0, 1})
       /\ \/ indata' = indata
          \/ Len(indata) = bit - 1 /\ indata' = Append(indata, v)
  <2>1. CASE ph = 2
    <3>1. indata' = Append(indata, v) /\ Len(indata) = bit - 1
      BY <1>3, <1>8, <2>1
    <3> QED BY <1>2, <1>4, <3>1
  <2>2. CASE ph # 2
    BY <1>2, <1>8, <2>2
  <2> QED BY <2>1, <2>2
<1>13. CASE ph \in {1, 2}
  <2>1. chip' = chip /\ nack' = nack /\ sda' = 1 /\ scl' = 1
    <3>1. CASE ph = 1
      <4>1. o = Scl(1)
        BY <1>1, <3>1 DEF o
      <4> QED BY <1>1, <1>3, <3>1, <4>1, DriveScl
    <3>2. CASE ph = 2
      <4>1. o = Bit /\ o # Ack /\ o \in {Ack, Bit}
        BY <1>1, <3>2 DEF o, Bit, Ack
      <4> QED BY <1>1, <1>3, <3>2, <4>1, DriveGet
    <3> QED BY <1>13, <3>1, <3>2
  <2>2. bit' = bit /\ ph' \in {2, 3} /\ ph' = ph + 1
    BY <1>8, <1>13
  <2>3. Len(indata') = IF ph' = 3 THEN bit' ELSE bit' - 1
    BY <1>2, <1>3, <1>8, <1>13, <2>2
  <2>4. Sending(bit)'
    BY <2>1, <2>2, <1>3, <1>2 DEF Sending, v
  <2>5. GetBitWire'
    BY <1>2, <1>3, <2>1, <2>2, <2>3, <2>4 DEF GetBitWire, Bus
  <2>6. Still
    BY <1>9, <1>10, <2>1 DEF Still, Keeps, Mode
  <2> QED BY <1>2, <1>9, <1>10, <1>11, <2>1, <2>5, <2>6 DEF v
<1>14. CASE ph = 3
  <2>1. o = Scl(0)
    BY <1>1, <1>14 DEF o
  <2>2. sda' = 1 /\ scl' = 0 /\ nack' = nack /\ chip' = Fallen(Line(sda))
    BY <1>1, <1>3, <1>14, <2>1, DriveScl
  <2>3. chip' = Giving(chip.addr, bit + 1) /\ bit + 1 \in Nat \ {0}
    BY <1>2, <1>3, <2>2, FallSend
  <2>4. /\ chip' \in ChipType /\ chip'.mode = chip.mode /\ chip'.bits = chip.bits
        /\ chip'.byte = chip.byte /\ chip'.mem = chip.mem /\ chip'.busy = chip.busy
        /\ chip'.addr = chip.addr /\ ~chip'.ack /\ chip'.sent = bit + 1
        /\ chip'.out = IF bit + 1 <= Bits THEN Digit(chip.mem[chip.addr], bit + 1) ELSE 1
    BY <1>2, <2>3, GivingFields
  <2>5. ph' = 1 /\ bit' = bit + 1 /\ indata' = indata /\ Len(indata') = bit
    BY <1>3, <1>8, <1>14
  <2>6. Sending(bit)'
    BY <1>3, <2>4, <2>5 DEF Sending
  <2>7. CASE bit < Bits
    <3>1. GetBitWire'
      BY <1>2, <1>3, <2>2, <2>4, <2>5, <2>6, <2>7 DEF GetBitWire, Bus
    <3>2. Still
      BY <1>3, <1>9, <1>10, <2>4 DEF Still, Keeps, Mode
    <3> QED BY <1>2, <1>9, <1>10, <1>11, <2>2, <2>4, <3>1, <3>2 DEF v
  <2>8. CASE bit = Bits
    <3>1. bit' = Bits + 1 /\ Sending(Bits + 1)'
      BY <2>5, <2>6, <2>8 DEF Sending
    <3>2. GetEndWire'
      BY <1>2, <1>3, <2>2, <2>4, <2>5, <3>1, <2>8 DEF GetEndWire
    <3>3. Still
      BY <1>3, <1>9, <1>10, <2>4 DEF Still, Keeps, Mode
    <3> QED BY <1>2, <1>9, <1>10, <1>11, <2>2, <2>4, <3>2, <3>3 DEF v
  <2> QED BY <1>2, <2>7, <2>8
<1> QED BY <1>2, <1>13, <1>14

GetTaken(ack) ==
  /\ chip'.byte = chip.byte /\ chip'.mem = chip.mem /\ chip'.busy = chip.busy
  /\ IF ack THEN chip'.mode = "send" /\ chip'.addr = (chip.addr + 1) % SIZE
     ELSE chip'.mode = "idle"

(* mi2c_get_byte, the acknowledge bit of the driver.                       *)
LEMMA GetEndStep ==
  ASSUME present, EepromTypeOK, Cur.f = "get", GetEndWire, LineOp, Cur.ack \in BOOLEAN
  PROVE  /\ chip' \in ChipType /\ sda' \in {0, 1} /\ scl' \in {0, 1} /\ nack' = nack
         /\ \/ /\ Still /\ GetEndWire' /\ indata' = indata /\ bit' = bit /\ ph' \in 1..5
               /\ chip' = chip
            \/ /\ GetTaken(Cur.ack) /\ GetEndWire' /\ indata' = indata /\ bit' = bit /\ ph' \in 1..5
               /\ rx' = rx /\ call' = call /\ Seen = call /\ Seen' = call + 1 /\ Mode' = chip'.mode
            \/ /\ Ends /\ chip' = chip /\ Rest /\ Bus(0, 0)' /\ Seen = call + 1 /\ Mode = chip.mode
               /\ rx' = Append(rx, Value(indata)) /\ Len(indata) = Bits
               /\ chip.mode \in {"idle", "send"}
<1> DEFINE o == Ops(Cur, bit)[ph]
           v == IF Cur.ack THEN 0 ELSE 1
<1>1. /\ Ops(Cur, bit) = <<Sda(v), Scl(1), Scl(0), Sda(0)>>
      /\ Drive(o) /\ Onwards(Cur, o)
      /\ UNCHANGED <<epc, todo, off, edata, cache, fake, readBack, calls, present>>
  BY LineOpIs, EepromAssumption DEF Ops, GetOps, GetEndWire
<1>2. /\ bit = Bits + 1 /\ ph \in 1..4 /\ Bits \in Nat /\ Bits >= 2 /\ call \in Nat
      /\ Len(Ops(Cur, bit)) = 4 /\ chip \in ChipType /\ v \in {0, 1} /\ Len(indata) = Bits
  BY <1>1, EepromAssumption DEF GetEndWire, EepromTypeOK
<1>3. /\ scl = IF ph = 3 THEN 1 ELSE 0
      /\ sda = IF ph = 1 THEN 1 ELSE v
      /\ ph = 4 => chip.mode \in {"idle", "send"} /\ Rest
      /\ ph # 4 => chip.mode = "send" /\ Sending(Bits + 1)
  BY DEF GetEndWire
<1>4. v = IF Cur.ack THEN 0 ELSE 1
  OBVIOUS
<1>5. Working /\ Working' = (call' <= Len(todo)) /\ Cur' = todo[call'] /\ Cur = todo[call]
  BY <1>1, LineOpIs DEF Working, Cur
<1>6. o.op # "bit"
  BY <1>1, <1>2 DEF Sda, Scl
<1> HIDE DEF o, v
<1>7. /\ ph < 4 => /\ ph' = ph + 1 /\ call' = call /\ bit' = bit /\ rx' = rx /\ indata' = indata
      /\ ph = 4 => Ends \/ nack' # nack
      /\ ph = 4 => rx' = Append(rx, Value(indata))
  <2>1. bit \in Nat /\ ph \in Nat /\ 4 \in Nat /\ bit = Bits + 1 /\ ~(bit <= Bits)
    BY <1>2
  <2> QED BY <1>1, <1>2, <1>6, <2>1, OnwardsIs DEF Ends
<1>8. CASE ph \in {1, 2}
  <2>1. chip' = chip /\ nack' = nack /\ sda' = v /\ scl' = IF ph = 1 THEN 0 ELSE 1
    <3>1. CASE ph = 1
      <4>1. o = Sda(v) /\ scl = 0
        BY <1>1, <1>3, <3>1 DEF o
      <4> QED BY <1>1, <3>1, <4>1, DriveSda
    <3>2. CASE ph = 2
      <4>1. o = Scl(1) /\ scl = 0 /\ sda = v
        BY <1>1, <1>3, <3>2 DEF o
      <4> QED BY <1>1, <3>2, <4>1, DriveScl
    <3> QED BY <1>8, <3>1, <3>2
  <2>2. /\ ph' = ph + 1 /\ ph' \in {2, 3} /\ call' = call /\ bit' = bit /\ rx' = rx
        /\ indata' = indata
    BY <1>7, <1>8
  <2>3. Cur' = Cur
    BY <1>5, <2>2
  <2>4. chip.mode = "send" /\ Sending(Bits + 1)
    BY <1>3, <1>8
  <2>5. Sending(Bits + 1)'
    BY <2>1, <2>4 DEF Sending
  <2>6. scl' = (IF ph' = 3 THEN 1 ELSE 0) /\ sda' = IF ph' # 1 /\ Cur'.ack THEN 0 ELSE 1
    BY <1>4, <1>8, <2>1, <2>2, <2>3
  <2>7. GetEndWire'
    BY <1>2, <2>1, <2>2, <2>4, <2>5, <2>6 DEF GetEndWire
  <2>8. Seen' = Seen
    <3>1. ~Past /\ ~Past'
      BY <1>8, <2>2, <2>3 DEF Past
    <3> QED BY <2>2, <3>1 DEF Seen
  <2>9. Still
    BY <2>1, <2>2, <2>8 DEF Still, Keeps, Mode
  <2> QED BY <1>2, <2>1, <2>2, <2>7, <2>9
<1>9. CASE ph = 3
  <2>1. o = Scl(0) /\ scl = 1 /\ sda = v
    BY <1>1, <1>3, <1>9 DEF o
  <2>2. /\ chip.mode = "send" /\ chip.bits = << >> /\ ~chip.ack /\ chip.sent = Bits + 1
        /\ chip.out = 1
    BY <1>2, <1>3, <1>9 DEF Sending
  <2>3. Line(sda) = v
    BY <1>2, <2>1, <2>2 DEF Line
  <2>4. sda' = v /\ scl' = 0 /\ nack' = nack /\ chip' = Fallen(v)
    BY <1>1, <2>1, <2>3, DriveScl
  <2>5. ph' = 4 /\ call' = call /\ bit' = bit /\ rx' = rx /\ indata' = indata
    BY <1>7, <1>9
  <2>6. Cur' = Cur /\ Working'
    BY <1>5, <2>5 DEF Working
  <2>7. chip' \in ChipType /\ chip'.mode \in {"idle", "send"} /\ GetTaken(Cur.ack) /\ Rest'
    <3>0. ~(chip.sent <= Bits)
      BY <1>2, <2>2
    <3>1. CASE Cur.ack
      <4>1. (chip.addr + 1) % SIZE \in Offset
        <5>1. chip.addr \in Nat /\ SIZE \in Nat /\ SIZE > 0
          BY <1>2, EepromAssumption DEF ChipType
        <5> QED BY <5>1 DEF Offset
      <4>2. chip' = Giving((chip.addr + 1) % SIZE, 1) /\ 1 \in Nat \ {0}
        BY <1>2, <1>4, <2>2, <2>4, <3>0, <3>1, FallSend
      <4> DEFINE a == (chip.addr + 1) % SIZE
      <4> HIDE DEF a
      <4>3. /\ chip' \in ChipType /\ chip'.mode = chip.mode /\ chip'.bits = chip.bits
            /\ chip'.byte = chip.byte /\ chip'.mem = chip.mem /\ chip'.busy = chip.busy
            /\ chip'.addr = a /\ ~chip'.ack /\ chip'.sent = 1
            /\ chip'.out = IF 1 <= Bits THEN Digit(chip.mem[a], 1) ELSE 1
        BY <1>2, <4>1, <4>2, GivingFields DEF a
      <4>4. Sending(1)'
        BY <2>2, <4>3 DEF Sending
      <4>5. Rest'
        BY <2>2, <4>3, <4>4 DEF Rest
      <4>6. GetTaken(Cur.ack)
        BY <2>2, <3>1, <4>3 DEF GetTaken, a
      <4> QED BY <2>2, <4>3, <4>5, <4>6
    <3>2. CASE ~Cur.ack
      <4>1. v # 0
        BY <1>4, <3>2
      <4>2. /\ chip' \in ChipType /\ QuietIn(chip') /\ chip'.mode = "idle"
            /\ chip'.byte = chip.byte /\ chip'.mem = chip.mem /\ chip'.busy = chip.busy
        BY <1>2, <2>2, <2>4, <3>0, <4>1, FallLast
      <4>3. Rest'
        BY <4>2 DEF Rest, Quiet, QuietIn
      <4> QED BY <3>2, <4>2, <4>3 DEF GetTaken
    <3> QED BY <3>1, <3>2
  <2>8. GetEndWire'
    <3>1. sda' = IF ph' # 1 /\ Cur'.ack THEN 0 ELSE 1
      BY <1>4, <2>4, <2>5, <2>6
    <3> QED BY <1>2, <2>4, <2>5, <2>7, <3>1 DEF GetEndWire
  <2>9. Seen = call /\ Seen' = call + 1
    <3>1. ~Past /\ Past'
      BY <1>2, <1>9, <2>5, <2>6 DEF Past
    <3> QED BY <1>5, <2>5, <2>6, <3>1 DEF Seen
  <2>10. Mode' = chip'.mode
    BY <2>7 DEF Mode
  <2> QED BY <1>2, <2>4, <2>5, <2>7, <2>8, <2>9, <2>10
<1>10. CASE ph = 4
  <2>1. o = Sda(0) /\ scl = 0
    BY <1>1, <1>3, <1>10 DEF o
  <2>2. sda' = 0 /\ scl' = 0 /\ nack' = nack /\ chip' = chip
    BY <1>1, <2>1, DriveSda
  <2>3. Past /\ Seen = call + 1
    BY <1>2, <1>5, <1>10 DEF Seen, Past
  <2>4. Rest /\ chip.mode \in {"idle", "send"}
    BY <1>3, <1>10
  <2>5. Mode = chip.mode
    BY <2>4 DEF Mode
  <2> QED BY <1>2, <1>7, <1>10, <2>2, <2>3, <2>4, <2>5 DEF Bus
<1> QED BY <1>2, <1>8, <1>9, <1>10

(* What the calls of a routine are.                                        *)
LEMMA ScanIs ==
  /\ Len(ScanCalls) = 5
  /\ ScanCalls[1].f = "start" /\ ScanCalls[2].f = "stop" /\ ScanCalls[3].f = "start"
  /\ ScanCalls[4].f = "put" /\ ScanCalls[4].byte = WriteAddr
  /\ ScanCalls[5].f = "stop"
BY DEF ScanCalls, mi2c_start, mi2c_stop, mi2c_put_byte

LEMMA SelectIs ==
  /\ Len(SelectCalls) = 2
  /\ SelectCalls[1].f = "start"
  /\ SelectCalls[2].f = "put" /\ SelectCalls[2].byte = WriteAddr
BY DEF SelectCalls, mi2c_start, mi2c_put_byte

LEMMA PollIs ==
  /\ Len(PollCalls) = 3
  /\ PollCalls[1].f = "start"
  /\ PollCalls[2].f = "put" /\ PollCalls[2].byte = WriteAddr
  /\ PollCalls[3].f = "stop"
BY DEF PollCalls, mi2c_start, mi2c_stop, mi2c_put_byte

LEMMA WriteIs ==
  ASSUME NEW o, NEW b
  PROVE  LET s == WriteCalls(o, b) IN
         /\ Len(s) = 4
         /\ s[1].f = "put" /\ s[1].byte = OffsetHi(o)
         /\ s[2].f = "put" /\ s[2].byte = OffsetLo(o)
         /\ s[3].f = "put" /\ s[3].byte = b
         /\ s[4].f = "stop"
BY DEF WriteCalls, mi2c_stop, mi2c_put_byte

LEMMA ReadIs ==
  ASSUME NEW o, NEW n \in Nat
  PROVE  LET s == ReadCalls(o, n) IN
         /\ Len(s) = n + 6
         /\ s[1].f = "put" /\ s[1].byte = OffsetHi(o)
         /\ s[2].f = "put" /\ s[2].byte = OffsetLo(o)
         /\ s[3].f = "stop" /\ s[4].f = "start"
         /\ s[5].f = "put" /\ s[5].byte = ReadAddr
         /\ \A k \in 6..(n + 5) : s[k].f = "get" /\ s[k].ack = (k # n + 5)
         /\ s[n + 6].f = "stop"
<1> DEFINE p == <<mi2c_put_byte(OffsetHi(o)), mi2c_put_byte(OffsetLo(o)), mi2c_stop, mi2c_start,
                  mi2c_put_byte(ReadAddr)>>
           g == GetBytes(n)
           z == <<mi2c_stop>>
           A == {mi2c_put_byte(OffsetHi(o)), mi2c_put_byte(OffsetLo(o)), mi2c_stop, mi2c_start,
                 mi2c_put_byte(ReadAddr), mi2c_get_byte(TRUE), mi2c_get_byte(FALSE)}
<1>1. /\ p \in Seq(A) /\ Len(p) = 5
      /\ p[1].f = "put" /\ p[1].byte = OffsetHi(o)
      /\ p[2].f = "put" /\ p[2].byte = OffsetLo(o)
      /\ p[3].f = "stop" /\ p[4].f = "start"
      /\ p[5].f = "put" /\ p[5].byte = ReadAddr
  <2>1. p \in Seq(A) /\ Len(p) = 5
    OBVIOUS
  <2> QED BY <2>1 DEF mi2c_start, mi2c_stop, mi2c_put_byte
<1>2. z \in Seq(A) /\ Len(z) = 1 /\ z[1].f = "stop"
  <2>1. z \in Seq(A) /\ Len(z) = 1
    OBVIOUS
  <2> QED BY <2>1 DEF mi2c_stop
<1>3. g \in Seq(A) /\ Len(g) = n /\ \A i \in 1..n : g[i] = mi2c_get_byte(i # n)
  <2>1. \A i \in 1..n : mi2c_get_byte(i # n) \in A
    BY DEF mi2c_get_byte
  <2> HIDE DEF A
  <2>2. g = [i \in 1..n |-> mi2c_get_byte(i # n)]
    BY DEF GetBytes
  <2>3. g \in [1..n -> A]
    BY <2>1, <2>2
  <2> QED BY <2>2, <2>3
<1> DEFINE q == p \o g
           s == q \o z
<1>4. ReadCalls(o, n) = s
  BY DEF ReadCalls
<1> HIDE DEF p, g, z, A
<1>5. /\ q \in Seq(A) /\ Len(q) = n + 5
      /\ \A k \in 1..(n + 5) : q[k] = IF k <= 5 THEN p[k] ELSE g[k - 5]
  <2>1. /\ q \in Seq(A) /\ Len(q) = Len(p) + Len(g)
        /\ \A k \in 1..(Len(p) + Len(g)) : q[k] = IF k <= Len(p) THEN p[k] ELSE g[k - Len(p)]
    BY <1>1, <1>3, ConcatProperties, Zenon
  <2> HIDE DEF q
  <2> QED BY <1>1, <1>3, <2>1
<1> HIDE DEF q
<1>6. /\ Len(s) = n + 6
      /\ \A k \in 1..(n + 6) : s[k] = IF k <= n + 5 THEN q[k] ELSE z[k - (n + 5)]
  <2>1. /\ Len(s) = Len(q) + Len(z)
        /\ \A k \in 1..(Len(q) + Len(z)) : s[k] = IF k <= Len(q) THEN q[k] ELSE z[k - Len(q)]
    BY <1>2, <1>5, ConcatProperties, Zenon
  <2> HIDE DEF s
  <2> QED BY <1>2, <1>5, <2>1
<1> HIDE DEF s
<1>7. s[1] = p[1] /\ s[2] = p[2] /\ s[3] = p[3] /\ s[4] = p[4] /\ s[5] = p[5] /\ s[n + 6] = z[1]
  BY <1>5, <1>6
<1>8. \A k \in 6..(n + 5) : s[k].f = "get" /\ s[k].ack = (k # n + 5)
  <2> SUFFICES ASSUME NEW k \in 6..(n + 5)
               PROVE  s[k].f = "get" /\ s[k].ack = (k # n + 5)
    OBVIOUS
  <2>1. k \in 1..(n + 5) /\ k \in 1..(n + 6) /\ k - 5 \in 1..n /\ k <= n + 5 /\ ~(k <= 5)
    OBVIOUS
  <2>2. s[k] = g[k - 5]
    BY <1>5, <1>6, <2>1
  <2>3. g[k - 5] = mi2c_get_byte(k - 5 # n)
    BY <1>3, <2>1
  <2>4. (k - 5 # n) = (k # n + 5)
    OBVIOUS
  <2> QED BY <2>2, <2>3, <2>4 DEF mi2c_get_byte
<1> QED BY <1>1, <1>2, <1>4, <1>6, <1>7, <1>8

(* A call begins, or all are done: what the lines and the chip are like.   *)
CallReady ==
  /\ Rest /\ chip.mode # "start"
  /\ ~Working => IF epc \in {"read", "write"} THEN Bus(0, 0) ELSE Bus(1, 1)
  /\ Working =>
       /\ Cur.f = "start" => Bus(1, 1) /\ chip.mode = "idle"
       /\ Cur.f # "start" => Bus(0, 0)
       /\ Cur.f = "stop" => chip.mode # "send"
       /\ Cur.f = "put" =>
            /\ chip.mode # "send"
            /\ Cur.byte \in Byte
            /\ chip.mode = "dev" => Cur.byte \in {WriteAddr, ReadAddr}
            /\ chip.mode = "dev" /\ Cur.byte = ReadAddr => chip.addr \in Offset
            /\ chip.mode = "lo" => AddrOf(chip.addr, Cur.byte) \in Nat
       /\ Cur.f = "get" => chip.mode = "send"

(* A call that begins has the lines as its wire condition wants them.      *)
LEMMA ReadyWire ==
  ASSUME chip' \in ChipType, CallReady', ph' = 1, bit' = FirstRound(todo', call'), indata' = << >>,
         chip'.mode = "send" => chip'.addr \in Offset, call' \in Nat, Len(todo') \in Nat
  PROVE  WireInv' /\ bit' \in 0..(Bits + 1) /\ ~Past'
<1>0. Bits \in Nat /\ Bits >= 2
  BY EepromAssumption
<1>1. bit' \in 0..(Bits + 1)
  BY <1>0 DEF FirstRound
<1>2. CASE ~Working'
  <2>1. bit' = 0
    BY <1>2 DEF Working, FirstRound
  <2> QED BY <1>0, <1>1, <1>2, <2>1 DEF CallReady, WireInv, DoneWire, Past
<1>3. CASE Working'
  <2>0. ~(call' > Len(todo')) /\ Cur' = todo'[call']
    BY <1>3 DEF Working, Cur
  <2>1. bit' = IF Cur'.f = "get" THEN 0 ELSE IF Cur'.f = "put" THEN 1 ELSE Bits + 1
    BY <2>0 DEF FirstRound
  <2>2. chip'.mode # "send" => Quiet'
    BY <1>3 DEF CallReady, Rest
  <2>3. Cur'.f = "start" => StartWire'
    BY <1>3, <2>1, <2>2 DEF CallReady, StartWire
  <2>4. Cur'.f = "stop" => StopWire'
    BY <1>3, <2>1, <2>2 DEF CallReady, StopWire
  <2>5. Cur'.f = "put" => PutBitWire'
    <3>1. SUFFICES ASSUME Cur'.f = "put" PROVE PutBitWire'
      OBVIOUS
    <3>2. bit' = 1 /\ bit' \in 1..Bits /\ Quiet' /\ scl' = 0 /\ ph' \in 1..3
      BY <1>0, <1>3, <2>1, <2>2, <3>1 DEF CallReady, Bus
    <3>3. chip'.mode \in {"idle", "dev", "hi", "lo", "data"}
      BY <1>3, <3>1 DEF CallReady, ChipType
    <3>4. Collected(Cur.byte, bit - 1)'
      BY <3>2 DEF Collected, Quiet
    <3> QED BY <1>3, <3>1, <3>2, <3>3, <3>4 DEF CallReady, PutBitWire
  <2>6. Cur'.f = "get" => GetHeadWire'
    BY <1>3, <2>1 DEF CallReady, GetHeadWire, Rest
  <2>7. CallWire'
    BY <2>3, <2>4, <2>5, <2>6 DEF CallWire
  <2>8. ~Past'
    BY <1>0, <2>1 DEF Past
  <2> QED BY <1>1, <1>3, <2>7, <2>8 DEF WireInv
<1> QED BY <1>2, <1>3

(* A line operation in the middle of a call moves no routine.              *)
LEMMA StayPlace ==
  ASSUME Program, CopyKept, Asked, Working, Still, nack' = nack \/ Cur.f = "put",
         UNCHANGED <<epc, todo, off, edata, cache, fake, readBack, calls>>
  PROVE  Program' /\ CopyKept' /\ Asked'
<1>1. /\ Seen' = Seen /\ call' = call /\ chip'.addr = chip.addr
      /\ chip'.byte = chip.byte /\ chip'.mem = chip.mem /\ chip'.busy = chip.busy
      /\ Mode' = Mode
  BY DEF Still, Keeps
<1>2. CopyKept'
  BY <1>1 DEF CopyKept
<1>3. Asked'
  BY DEF Asked
<1>4. ~AtRest
  BY DEF AtRest, Working
<1>5. epc = "scanned" => ScanPlace'
  <2>1. SUFFICES ASSUME epc = "scanned" PROVE ScanPlace'
    OBVIOUS
  <2>2. ScanPlace
    BY <2>1 DEF Program
  <2>3. call >= 5 => nack' = 0
    <3>1. SUFFICES ASSUME call >= 5 PROVE nack' = 0
      OBVIOUS
    <3>2. call = 5
      BY <2>2, <3>1, ScanIs DEF ScanPlace, Working
    <3> QED BY <2>2, <3>2, ScanIs DEF ScanPlace, Cur
  <2> QED BY <1>1, <2>2, <2>3 DEF ScanPlace
<1>6. epc \in {"read", "write"} => SelectPlace'
  <2>1. SUFFICES ASSUME epc \in {"read", "write"} PROVE SelectPlace'
    OBVIOUS
  <2>2. SelectPlace
    BY <2>1 DEF Program
  <2>3. call # 3
    BY <2>2, SelectIs DEF SelectPlace, Working
  <2> QED BY <1>1, <2>2, <2>3 DEF SelectPlace
<1>7. epc = "got" => ReadPlace'
  BY <1>1 DEF Program, ReadPlace
<1>8. epc = "poll" => WritePlace'
  <2>1. SUFFICES ASSUME epc = "poll" PROVE WritePlace'
    OBVIOUS
  <2>2. WritePlace
    BY <1>4, <2>1 DEF Program
  <2> QED BY <1>1, <2>2 DEF WritePlace, Written, Stored, Cycle
<1>9. epc = "polled" => PollPlace'
  <2>1. SUFFICES ASSUME epc = "polled" PROVE PollPlace'
    OBVIOUS
  <2>2. PollPlace
    BY <2>1 DEF Program
  <2>3. call >= 3 => nack' = nack
    <3>1. SUFFICES ASSUME call >= 3 PROVE nack' = nack
      OBVIOUS
    <3>2. call = 3
      BY <2>2, <3>1, PollIs DEF PollPlace, Working
    <3> QED BY <2>2, <3>2, PollIs DEF PollPlace, Cur
  <2> QED BY <1>1, <2>2, <2>3 DEF PollPlace, Written, Stored, Cycle
<1>10. epc \notin {"start", "ready", "next"}
  BY <1>4 DEF Program
<1> QED BY <1>2, <1>3, <1>5, <1>6, <1>7, <1>8, <1>9, <1>10 DEF Program

\* get_byte reads the bits of this byte.
TheByte == chip.mem[off + (call - 6)]

(* Nor the bytes read, but for the bit that get_byte reads.                *)
LEMMA StayBytes ==
  ASSUME EepromTypeOK, Program, Asked, BytesGot, Working, call' = call, rx' = rx,
         chip'.mem = chip.mem,
         UNCHANGED <<epc, todo, off, edata, cache, fake, readBack, calls>>,
         \/ indata' = indata
         \/ /\ Cur.f = "get" /\ Seen = call /\ bit \in Nat /\ Len(indata) = bit - 1
            /\ indata' = Append(indata, Digit(chip.mem[chip.addr], bit))
  PROVE  BytesGot'
<1>1. CASE epc # "got"
  BY <1>1 DEF BytesGot
<1>2. CASE epc = "got"
  <2>1. Working' /\ Cur' = Cur
    BY DEF Working, Cur
  <2>2. ReadPlace /\ off \in Nat /\ edata \in Nat \ {0} /\ call \in Nat
    BY <1>2 DEF Program, Asked, EepromTypeOK
  <2>3. Cur.f = "get" => call \in 6..(edata + 5)
    <3>1. /\ call \in 1..(edata + 6)
          /\ todo[1].f = "put" /\ todo[2].f = "put" /\ todo[3].f = "stop" /\ todo[4].f = "start"
          /\ todo[5].f = "put" /\ todo[edata + 6].f = "stop"
      BY <2>2, ReadIs DEF ReadPlace, Working
    <3> QED BY <2>2, <3>1 DEF Cur
  <2>4. Cur.f = "get" /\ Seen = call => chip.addr = off + (call - 6)
    BY <2>2, <2>3 DEF ReadPlace
  <2>5. Cur.f = "get" =>
          \A j \in 1..Len(indata') : indata'[j] = Digit(chip.mem[off + (call - 6)], j)
    <3>1. SUFFICES ASSUME Cur.f = "get"
                   PROVE  \A j \in 1..Len(indata') : indata'[j] = Digit(TheByte, j)
      BY DEF TheByte
    <3>2. \A j \in 1..Len(indata) : indata[j] = Digit(TheByte, j)
      BY <1>2, <3>1 DEF BytesGot, TheByte
    <3>3. CASE indata' = indata
      BY <3>2, <3>3
    <3>4. CASE /\ Seen = call /\ bit \in Nat /\ Len(indata) = bit - 1
               /\ indata' = Append(indata, Digit(chip.mem[chip.addr], bit))
      <4>1. indata' = Append(indata, Digit(TheByte, bit))
        BY <2>4, <3>1, <3>4 DEF TheByte
      <4>2. indata \in Seq({0, 1})
        BY DEF EepromTypeOK
      <4> HIDE DEF TheByte
      <4> QED BY <3>2, <3>4, <4>1, <4>2
    <3> QED BY <3>3, <3>4
  <2>6. /\ rx \in Seq(Byte)
        /\ Len(rx) = IF call <= 6 THEN 0 ELSE IF call <= edata + 6 THEN call - 6 ELSE edata
        /\ \A i \in 1..Len(rx) : rx[i] = chip.mem[off + (i - 1)]
    BY <1>2 DEF BytesGot
  <2> QED BY <1>2, <2>1, <2>5, <2>6 DEF BytesGot
<1> QED BY <1>1, <1>2

(* So it keeps the invariant.                                              *)
LEMMA StayInv ==
  ASSUME EepromInv, Working, Still,
         chip' \in ChipType, sda' \in {0, 1}, scl' \in {0, 1}, nack' \in {0, 1},
         bit' \in 0..(Bits + 1), ph' \in 1..5, indata' \in Seq({0, 1}), CallWire',
         nack' = nack \/ Cur.f = "put",
         UNCHANGED <<epc, todo, off, edata, cache, fake, readBack, calls>>,
         \/ indata' = indata
         \/ /\ Cur.f = "get" /\ Seen = call /\ bit \in Nat /\ Len(indata) = bit - 1
            /\ indata' = Append(indata, Digit(chip.mem[chip.addr], bit))
  PROVE  EepromInv'
<1>1. call' = call /\ rx' = rx /\ chip'.mem = chip.mem /\ chip'.addr = chip.addr /\ Mode' = Mode
  BY DEF Still, Keeps
<1>2. EepromTypeOK'
  BY <1>1 DEF EepromInv, EepromTypeOK
<1>3. Program' /\ CopyKept' /\ Asked'
  BY StayPlace DEF EepromInv
<1>4. BytesGot'
  BY <1>1, StayBytes DEF EepromInv
<1>5. WireInv'
  <2>1. Working' /\ Cur' = Cur
    BY <1>1 DEF Working, Cur
  <2>2. ~(Working' /\ Cur'.f = "get") => indata' = << >>
    BY <2>1 DEF EepromInv, WireInv
  <2>3. chip'.mode = "send" => chip'.addr \in Offset
    BY <1>1 DEF EepromInv, WireInv, Mode
  <2> QED BY <2>1, <2>2, <2>3 DEF WireInv
<1> QED BY <1>2, <1>3, <1>4, <1>5 DEF EepromInv

(* While a routine works, it is at one of its calls.                       *)
LEMMA CallRange ==
  ASSUME EepromInv, Working
  PROVE  /\ epc \in {"scanned", "read", "got", "write", "poll", "polled"}
         /\ epc = "scanned" => ScanPlace /\ todo = ScanCalls /\ call \in 1..5
         /\ epc \in {"read", "write"} => SelectPlace /\ todo = SelectCalls /\ call \in 1..2
         /\ epc = "polled" => PollPlace /\ todo = PollCalls /\ call \in 1..3
         /\ epc = "poll" =>
              WritePlace /\ todo = WriteCalls(off, Head(edata)) /\ call \in 1..4
         /\ epc = "got" =>
              /\ ReadPlace /\ todo = ReadCalls(off, edata)
              /\ edata \in Nat \ {0} /\ call \in 1..(edata + 6)
<1>1. call \in Nat /\ Program /\ Asked /\ call <= Len(todo)
  BY DEF EepromInv, EepromTypeOK, Working
<1>2. ~AtRest
  BY <1>1 DEF AtRest
<1>3. CASE epc = "scanned"
  <2>1. ScanPlace /\ todo = ScanCalls /\ call \in 1..6
    BY <1>1, <1>2, <1>3 DEF Program, ScanPlace
  <2>2. Len(todo) = 5
    BY <2>1, ScanIs
  <2>3. call \in 1..6 /\ call <= 5
    BY <1>1, <2>1, <2>2
  <2>4. call \in 1..5
    BY <2>3
  <2> QED BY <1>3, <2>1, <2>4
<1>4. CASE epc \in {"read", "write"}
  <2>1. SelectPlace /\ todo = SelectCalls /\ call \in 1..3
    BY <1>1, <1>2, <1>4 DEF Program, SelectPlace
  <2>2. Len(todo) = 2
    BY <2>1, SelectIs
  <2>3. call \in 1..3 /\ call <= 2
    BY <1>1, <2>1, <2>2
  <2>4. call \in 1..2
    BY <2>3
  <2> QED BY <1>4, <2>1, <2>4
<1>5. CASE epc = "polled"
  <2>1. PollPlace /\ todo = PollCalls /\ call \in 1..4
    BY <1>1, <1>2, <1>5 DEF Program, PollPlace
  <2>2. Len(todo) = 3
    BY <2>1, PollIs
  <2>3. call \in 1..4 /\ call <= 3
    BY <1>1, <2>1, <2>2
  <2>4. call \in 1..3
    BY <2>3
  <2> QED BY <1>5, <2>1, <2>4
<1>6. CASE epc = "poll"
  <2>1. WritePlace /\ todo = WriteCalls(off, Head(edata)) /\ call \in 1..5
    BY <1>1, <1>2, <1>6 DEF Program, WritePlace
  <2>2. Len(todo) = 4
    BY <2>1, WriteIs
  <2>3. call \in 1..5 /\ call <= 4
    BY <1>1, <2>1, <2>2
  <2>4. call \in 1..4
    BY <2>3
  <2> QED BY <1>6, <2>1, <2>4
<1>7. CASE epc = "got"
  <2>1. /\ ReadPlace /\ edata \in Nat \ {0} /\ todo = ReadCalls(off, edata)
        /\ call \in 1..(edata + 7)
    BY <1>1, <1>7 DEF Program, ReadPlace, Asked
  <2>2. call <= edata + 6
    <3>1. Len(todo) = edata + 6
      BY <2>1, ReadIs
    <3> QED BY <1>1, <3>1
  <2>3. call \in 1..(edata + 6)
    <3>1. edata \in Nat /\ call \in 1..(edata + 7) /\ call <= edata + 6
      BY <2>1, <2>2
    <3> QED BY <3>1
  <2> QED BY <1>7, <2>1, <2>3
<1> QED BY <1>1, <1>2, <1>3, <1>4, <1>5, <1>6, <1>7 DEF Program

(* What a routine calls.                                                   *)
LEMMA CallKinds ==
  ASSUME EepromInv, Working
  PROVE  /\ Cur.f \in {"start", "stop", "put", "get"}
         /\ Cur.f = "get" => Cur.ack \in BOOLEAN
<1>1. CASE epc = "scanned"
  BY <1>1, CallRange, ScanIs DEF Cur
<1>2. CASE epc \in {"read", "write"}
  BY <1>2, CallRange, SelectIs DEF Cur
<1>3. CASE epc = "polled"
  BY <1>3, CallRange, PollIs DEF Cur
<1>4. CASE epc = "poll"
  <2>1. call \in 1..4 /\ todo = WriteCalls(off, Head(edata))
    BY <1>4, CallRange
  <2> QED BY <2>1, WriteIs DEF Cur
<1>5. CASE epc = "got"
  <2>1. edata \in Nat \ {0} /\ todo = ReadCalls(off, edata) /\ call \in 1..(edata + 6)
    BY <1>5, CallRange
  <2>2. CASE call \in 6..(edata + 5)
    <3>1. Cur.f = "get" /\ Cur.ack = (call # edata + 5)
      BY <2>1, <2>2, ReadIs DEF Cur
    <3>2. (call # edata + 5) \in BOOLEAN
      OBVIOUS
    <3> QED BY <3>1, <3>2, Zenon
  <2>3. CASE call \in {1, 2, 3, 4, 5, edata + 6}
    BY <2>1, <2>3, ReadIs DEF Cur
  <2> QED BY <2>1, <2>2, <2>3
<1> QED BY <1>1, <1>2, <1>3, <1>4, <1>5, CallRange

(* The steps that take a routine further.                                  *)
PutMoves ==
  /\ Cur.f = "put" /\ PutTaken(Cur.byte) /\ PutAckWire'
  /\ Mode = chip.mode /\ Mode' = chip'.mode /\ Seen = call /\ Seen' = call + 1
  /\ call' = call /\ rx' = rx /\ nack' = nack /\ indata' = indata
GetMoves ==
  /\ Cur.f = "get" /\ GetTaken(Cur.ack) /\ GetEndWire'
  /\ Mode' = chip'.mode /\ Seen = call /\ Seen' = call + 1
  /\ call' = call /\ rx' = rx /\ nack' = nack /\ indata' = indata
StartEnds ==
  /\ Cur.f = "start" /\ Ends /\ Bus(0, 0)' /\ Mode = "idle" /\ Seen = call
  /\ QuietIn(chip') /\ Keeps(chip') /\ rx' = rx
  /\ chip'.mode = IF chip.busy THEN "idle" ELSE "dev"
StopEnds ==
  /\ Cur.f = "stop" /\ Ends /\ Bus(1, 1)' /\ Seen = call /\ Mode = chip.mode
  /\ QuietIn(chip') /\ rx' = rx
  /\ chip'.mode = "idle" /\ chip'.addr = chip.addr /\ chip'.byte = chip.byte /\ chip'.mem = chip.mem
  /\ chip'.busy = (chip.busy \/ chip.byte # NoByte)
PutEnds ==
  /\ Cur.f = "put" /\ Ends /\ Bus(0, 0)' /\ Seen = call + 1 /\ Mode = chip.mode
  /\ chip' = chip /\ Rest /\ rx' = rx
  /\ nack = IF chip.mode = "idle" THEN 1 ELSE 0
GetEnds ==
  /\ Cur.f = "get" /\ Ends /\ Bus(0, 0)' /\ Seen = call + 1 /\ Mode = chip.mode
  /\ chip' = chip /\ Rest /\ rx' = Append(rx, Value(indata)) /\ Len(indata) = Bits
  /\ chip.mode \in {"idle", "send"}

(* A line operation stays in its call, moves the chip, or ends the call.   *)
LEMMA LineStep ==
  ASSUME EepromInv, present, LineOp
  PROVE  /\ UNCHANGED <<epc, todo, off, edata, cache, fake, readBack, calls, present>>
         /\ Working
         /\ \/ EepromInv'
            \/ EepromTypeOK' /\ (PutMoves \/ GetMoves)
            \/ EepromTypeOK' /\ (StartEnds \/ StopEnds \/ PutEnds \/ GetEnds)
<1>1. UNCHANGED <<epc, todo, off, edata, cache, fake, readBack, calls, present>> /\ Working
  BY LineOpIs
<1>2. /\ EepromTypeOK /\ CallWire /\ (chip.mode = "send" => chip.addr \in Offset)
      /\ call \in Nat \ {0} /\ nack \in {0, 1} /\ indata \in Seq({0, 1}) /\ calls \in Nat
      /\ fake \in BOOLEAN /\ chip \in ChipType /\ bit \in 0..(Bits + 1) /\ ph \in 1..5
  BY <1>1 DEF EepromInv, WireInv, EepromTypeOK
<1>3. ASSUME Ends, chip' \in ChipType, sda' \in {0, 1}, scl' \in {0, 1}
      PROVE  EepromTypeOK'
  <2>1. Bits \in Nat
    BY EepromAssumption
  <2>2. bit' \in 0..(Bits + 1) /\ ph' \in 1..5 /\ call' \in Nat \ {0} /\ nack' \in {0, 1}
    BY <1>2, <1>3, <2>1 DEF Ends, FirstRound
  <2>3. indata' \in Seq({0, 1})
    BY <1>3 DEF Ends
  <2> QED BY <1>1, <1>2, <1>3, <2>2, <2>3 DEF EepromTypeOK
<1>4. ASSUME call' = call, chip' \in ChipType, sda' \in {0, 1}, scl' \in {0, 1}, nack' \in {0, 1},
             bit' \in 0..(Bits + 1), ph' \in 1..5, indata' \in Seq({0, 1})
      PROVE  EepromTypeOK'
  BY <1>1, <1>2, <1>4 DEF EepromTypeOK
<1>5. CASE Cur.f = "start"
  <2>1. StartWire
    BY <1>2, <1>5 DEF CallWire
  <2>2. /\ chip' \in ChipType /\ sda' \in {0, 1} /\ scl' \in {0, 1} /\ nack' = nack
        /\ QuietIn(chip') /\ Keeps(chip') /\ rx' = rx
        /\ \/ Still /\ StartWire' /\ indata' = indata
           \/ /\ Ends /\ Bus(0, 0)' /\ Mode = "idle" /\ Seen = call
              /\ chip'.mode = IF chip.busy THEN "idle" ELSE "dev"
    BY <1>2, <1>5, <2>1, StartStep
  <2>3. CASE Still /\ StartWire' /\ indata' = indata
    <3>1. Cur' = Cur /\ bit' \in 0..(Bits + 1) /\ ph' \in 1..5
      BY <1>1, <2>3, EepromAssumption DEF Still, Cur, StartWire
    <3>2. CallWire'
      BY <1>5, <2>3, <3>1 DEF CallWire
    <3> QED BY <1>1, <1>2, <2>2, <2>3, <3>1, <3>2, StayInv
  <2>4. CASE Ends /\ Bus(0, 0)'
    BY <1>1, <1>3, <1>5, <2>2, <2>4 DEF StartEnds, Ends, Still
  <2> QED BY <2>2, <2>3, <2>4
<1>6. CASE Cur.f = "stop"
  <2>1. StopWire
    BY <1>2, <1>6 DEF CallWire
  <2>2. /\ chip' \in ChipType /\ sda' \in {0, 1} /\ scl' \in {0, 1} /\ nack' = nack
        /\ QuietIn(chip') /\ rx' = rx /\ Seen = call /\ Mode = chip.mode
        /\ \/ Still /\ StopWire' /\ indata' = indata
           \/ /\ Ends /\ Bus(1, 1)' /\ chip'.mode = "idle"
              /\ chip'.addr = chip.addr /\ chip'.byte = chip.byte /\ chip'.mem = chip.mem
              /\ chip'.busy = (chip.busy \/ chip.byte # NoByte)
    BY <1>2, <1>6, <2>1, StopStep
  <2>3. CASE Still /\ StopWire' /\ indata' = indata
    <3>1. Cur' = Cur /\ bit' \in 0..(Bits + 1) /\ ph' \in 1..5
      BY <1>1, <2>3, EepromAssumption DEF Still, Cur, StopWire
    <3>2. CallWire'
      BY <1>6, <2>3, <3>1 DEF CallWire
    <3> QED BY <1>1, <1>2, <2>2, <2>3, <3>1, <3>2, StayInv
  <2>4. CASE /\ Ends /\ Bus(1, 1)' /\ chip'.mode = "idle"
             /\ chip'.addr = chip.addr /\ chip'.byte = chip.byte /\ chip'.mem = chip.mem
             /\ chip'.busy = (chip.busy \/ chip.byte # NoByte)
    <3>1. StopEnds
      BY <1>6, <2>2, <2>4 DEF StopEnds
    <3> QED BY <1>1, <1>3, <2>2, <2>4, <3>1
  <2> QED BY <2>2, <2>3, <2>4
<1>7. CASE Cur.f = "put" /\ PutBitWire
  <2>1. /\ chip' \in ChipType /\ sda' \in {0, 1} /\ scl' \in {0, 1} /\ nack' = nack
        /\ rx' = rx /\ indata' = indata /\ call' = call /\ bit' \in 0..(Bits + 1) /\ ph' \in 1..5
        /\ Seen = call /\ Mode = chip.mode
        /\ \/ Still /\ PutBitWire'
           \/ Seen' = call + 1 /\ PutTaken(Cur.byte) /\ PutAckWire' /\ Mode' = chip'.mode
    BY <1>2, <1>7, PutBitStep
  <2>2. CASE Still /\ PutBitWire'
    <3>1. Cur' = Cur
      BY <1>1, <2>1 DEF Cur
    <3>2. CallWire'
      BY <1>7, <2>2, <3>1 DEF CallWire
    <3> QED BY <1>1, <1>2, <2>1, <2>2, <3>2, StayInv
  <2>3. CASE Seen' = call + 1 /\ PutTaken(Cur.byte) /\ PutAckWire' /\ Mode' = chip'.mode
    BY <1>1, <1>2, <1>4, <1>7, <2>1, <2>3 DEF PutMoves
  <2> QED BY <2>1, <2>2, <2>3
<1>8. CASE Cur.f = "put" /\ PutAckWire
  <2>1. /\ chip' \in ChipType /\ sda' \in {0, 1} /\ scl' \in {0, 1} /\ nack' \in {0, 1}
        /\ rx' = rx /\ Seen = call + 1 /\ Mode = chip.mode
        /\ \/ Still /\ PutAckWire' /\ indata' = indata /\ bit' = bit /\ ph' \in 1..5
           \/ /\ Ends /\ chip' = chip /\ Rest /\ Bus(0, 0)'
              /\ nack = IF chip.mode = "idle" THEN 1 ELSE 0
    BY <1>2, <1>8, PutAckStep
  <2>2. CASE Still /\ PutAckWire' /\ indata' = indata /\ bit' = bit /\ ph' \in 1..5
    <3>1. Cur' = Cur
      BY <1>1, <2>2 DEF Cur, Still
    <3>2. CallWire'
      BY <1>8, <2>2, <3>1 DEF CallWire
    <3>3. bit' \in 0..(Bits + 1) /\ indata' \in Seq({0, 1})
      BY <1>2, <2>2
    <3> QED BY <1>1, <1>8, <2>1, <2>2, <3>2, <3>3, StayInv
  <2>3. CASE /\ Ends /\ chip' = chip /\ Rest /\ Bus(0, 0)'
             /\ nack = IF chip.mode = "idle" THEN 1 ELSE 0
    BY <1>1, <1>3, <1>8, <2>1, <2>3 DEF PutEnds
  <2> QED BY <2>1, <2>2, <2>3
<1>9. CASE Cur.f = "get" /\ GetHeadWire
  <2>1. /\ chip' = chip /\ sda' \in {0, 1} /\ scl' \in {0, 1} /\ nack' = nack
        /\ rx' = rx /\ bit' \in 0..(Bits + 1) /\ ph' \in 1..5 /\ Seen = call
        /\ Still /\ indata' = indata /\ (GetHeadWire' \/ GetBitWire')
    BY <1>2, <1>9, GetHeadStep
  <2>2. Cur' = Cur
    BY <1>1, <2>1 DEF Cur, Still
  <2>3. CallWire'
    BY <1>9, <2>1, <2>2 DEF CallWire
  <2> QED BY <1>1, <1>2, <2>1, <2>3, StayInv
<1>10. CASE Cur.f = "get" /\ GetBitWire
  <2>1. /\ chip' \in ChipType /\ sda' \in {0, 1} /\ scl' \in {0, 1} /\ nack' = nack
        /\ rx' = rx /\ bit' \in 0..(Bits + 1) /\ ph' \in 1..5 /\ Seen = call
        /\ indata' \in Seq({0, 1})
        /\ \/ indata' = indata
           \/ Len(indata) = bit - 1 /\ indata' = Append(indata, Digit(chip.mem[chip.addr], bit))
        /\ Still /\ (GetBitWire' \/ GetEndWire')
    BY <1>2, <1>10, GetBitStep DEF GetBitWire
  <2>2. Cur' = Cur /\ bit \in Nat
    BY <1>1, <1>2, <2>1, EepromAssumption DEF Cur, Still
  <2>3. CallWire'
    BY <1>10, <2>1, <2>2 DEF CallWire
  <2> QED BY <1>1, <1>2, <1>10, <2>1, <2>2, <2>3, StayInv
<1>11. CASE Cur.f = "get" /\ GetEndWire
  <2>0. Cur.ack \in BOOLEAN
    BY <1>1, <1>11, CallKinds
  <2>1. /\ chip' \in ChipType /\ sda' \in {0, 1} /\ scl' \in {0, 1} /\ nack' = nack
        /\ \/ /\ Still /\ GetEndWire' /\ indata' = indata /\ bit' = bit /\ ph' \in 1..5
              /\ chip' = chip
           \/ /\ GetTaken(Cur.ack) /\ GetEndWire' /\ indata' = indata /\ bit' = bit /\ ph' \in 1..5
              /\ rx' = rx /\ call' = call /\ Seen = call /\ Seen' = call + 1 /\ Mode' = chip'.mode
           \/ /\ Ends /\ chip' = chip /\ Rest /\ Bus(0, 0)' /\ Seen = call + 1 /\ Mode = chip.mode
              /\ rx' = Append(rx, Value(indata)) /\ Len(indata) = Bits
              /\ chip.mode \in {"idle", "send"}
    BY <1>2, <1>11, <2>0, GetEndStep
  <2>2. CASE Still /\ GetEndWire' /\ indata' = indata /\ bit' = bit /\ ph' \in 1..5
    <3>1. Cur' = Cur
      BY <1>1, <2>2 DEF Cur, Still
    <3>2. CallWire'
      BY <1>11, <2>2, <3>1 DEF CallWire
    <3> QED BY <1>1, <1>2, <2>1, <2>2, <3>2, StayInv
  <2>3. CASE /\ GetTaken(Cur.ack) /\ GetEndWire' /\ indata' = indata /\ bit' = bit /\ ph' \in 1..5
             /\ rx' = rx /\ call' = call /\ Seen = call /\ Seen' = call + 1 /\ Mode' = chip'.mode
    BY <1>1, <1>2, <1>4, <1>11, <2>1, <2>3 DEF GetMoves
  <2>4. CASE /\ Ends /\ chip' = chip /\ Rest /\ Bus(0, 0)' /\ Seen = call + 1 /\ Mode = chip.mode
             /\ rx' = Append(rx, Value(indata)) /\ Len(indata) = Bits
             /\ chip.mode \in {"idle", "send"}
    BY <1>1, <1>3, <1>11, <2>1, <2>4 DEF GetEnds
  <2> QED BY <2>1, <2>2, <2>3, <2>4
<1> QED BY <1>1, <1>2, <1>5, <1>6, <1>7, <1>8, <1>9, <1>10, <1>11, CallKinds DEF CallWire

(* A call has moved the chip: what the routine knows of it.                *)
LEMMA MovedInv ==
  ASSUME EepromInv, Working, PutMoves \/ GetMoves, EepromTypeOK', Program',
         UNCHANGED <<epc, todo, off, edata, cache, fake, readBack, calls>>,
         chip'.mode = "send" => chip'.addr \in Offset,
         epc # "poll" => chip'.byte = chip.byte
  PROVE  EepromInv'
<1>1. /\ call' = call /\ rx' = rx /\ indata' = indata
      /\ chip'.mem = chip.mem /\ chip'.busy = chip.busy
  BY DEF PutMoves, GetMoves, PutTaken, GetTaken
<1>2. Working' /\ Cur' = Cur
  BY <1>1 DEF Working, Cur
<1>3. CallWire'
  BY <1>2 DEF PutMoves, GetMoves, CallWire
<1>4. WireInv'
  BY <1>1, <1>2, <1>3 DEF EepromInv, WireInv
<1>5. CopyKept'
  BY <1>1 DEF EepromInv, CopyKept
<1>6. Asked'
  BY DEF EepromInv, Asked
<1>7. BytesGot'
  BY <1>1, <1>2 DEF EepromInv, BytesGot
<1> QED BY <1>4, <1>5, <1>6, <1>7 DEF EepromInv

(* put_byte in mi2c_scan.                                                  *)
LEMMA PutScan ==
  ASSUME EepromInv, Working, PutMoves, epc = "scanned", UNCHANGED <<epc, todo>>
  PROVE  Program' /\ chip'.mode # "send" /\ chip'.byte = chip.byte
<1>1. ScanPlace /\ todo = ScanCalls /\ call \in 1..5 /\ Cur.f = "put"
  BY CallRange DEF PutMoves
<1>2. call = 4 /\ Cur.byte = WriteAddr
  BY <1>1, ScanIs DEF Cur
<1>3. Seen = 4 /\ Seen' = 5 /\ Mode = chip.mode /\ Mode' = chip'.mode /\ call' = 4
  BY <1>2 DEF PutMoves
<1>4. chip.mode = "dev"
  BY <1>1, <1>3 DEF ScanPlace
<1>5. chip'.mode = "hi" /\ chip'.byte = chip.byte
  BY <1>2, <1>4 DEF PutMoves, PutTaken
<1>6. ScanPlace'
  BY <1>1, <1>3, <1>5 DEF ScanPlace
<1> QED BY <1>5, <1>6 DEF Program

(* put_byte at the head of a read or of the write of a byte.               *)
LEMMA PutSelect ==
  ASSUME EepromInv, Working, PutMoves, epc \in {"read", "write"}, UNCHANGED <<epc, todo>>
  PROVE  Program' /\ chip'.mode # "send" /\ chip'.byte = chip.byte
<1>1. SelectPlace /\ todo = SelectCalls /\ call \in 1..2 /\ Cur.f = "put"
  BY CallRange DEF PutMoves
<1>2. call = 2 /\ Cur.byte = WriteAddr
  BY <1>1, SelectIs DEF Cur
<1>3. Seen = 2 /\ Seen' = 3 /\ Mode = chip.mode /\ Mode' = chip'.mode /\ call' = 2
  BY <1>2 DEF PutMoves
<1>4. chip.mode = "dev"
  BY <1>1, <1>3 DEF SelectPlace
<1>5. chip'.mode = "hi" /\ chip'.byte = chip.byte
  BY <1>2, <1>4 DEF PutMoves, PutTaken
<1>6. SelectPlace'
  BY <1>1, <1>3, <1>5 DEF SelectPlace
<1> QED BY <1>5, <1>6 DEF Program

(* put_byte while the driver waits for the write cycle.                    *)
LEMMA PutPoll ==
  ASSUME EepromInv, Working, PutMoves, epc = "polled",
         UNCHANGED <<epc, todo, off, edata, cache>>
  PROVE  Program' /\ chip'.mode # "send" /\ chip'.byte = chip.byte
<1>1. PollPlace /\ todo = PollCalls /\ call \in 1..3 /\ Cur.f = "put"
  BY CallRange DEF PutMoves
<1>2. call = 2 /\ Cur.byte = WriteAddr
  BY <1>1, PollIs DEF Cur
<1>3. Seen = 2 /\ Seen' = 3 /\ Mode = chip.mode /\ Mode' = chip'.mode /\ call' = 2
  BY <1>2 DEF PutMoves
<1>4. chip.mode \in {"idle", "dev"} /\ (chip.mode = "dev" => ~chip.busy)
  BY <1>1, <1>3 DEF PollPlace
<1>5. /\ chip'.mode = IF chip.mode = "dev" THEN "hi" ELSE "idle"
      /\ chip'.byte = chip.byte /\ chip'.addr = chip.addr
      /\ chip'.mem = chip.mem /\ chip'.busy = chip.busy
  BY <1>2, <1>4 DEF PutMoves, PutTaken
<1>6. Cycle'
  BY <1>1, <1>5 DEF PollPlace, Cycle, Written, Stored
<1>7. PollPlace'
  BY <1>1, <1>3, <1>4, <1>5, <1>6 DEF PollPlace
<1> QED BY <1>5, <1>7 DEF Program

(* The two bytes of an offset come together in the chip.                   *)
LEMMA OffsetTaken ==
  ASSUME NEW o \in Offset
  PROVE  AddrOf(OffsetHi(o), OffsetLo(o)) = o
BY DigitsAssumption

(* put_byte in the write of a byte: its offset, then its value.            *)
LEMMA PutWrite ==
  ASSUME EepromInv, Working, PutMoves, epc = "poll",
         UNCHANGED <<epc, todo, off, edata, cache>>
  PROVE  Program' /\ chip'.mode # "send"
<1>1. WritePlace /\ todo = WriteCalls(off, Head(edata)) /\ call \in 1..4 /\ Cur.f = "put"
  BY CallRange DEF PutMoves
<1>2. /\ call \in {1, 2, 3}
      /\ call = 1 => Cur.byte = OffsetHi(off)
      /\ call = 2 => Cur.byte = OffsetLo(off)
      /\ call = 3 => Cur.byte = Head(edata)
  BY <1>1, WriteIs DEF Cur
<1>3. Seen = call /\ Seen' = call + 1 /\ Mode = chip.mode /\ Mode' = chip'.mode /\ call' = call
  BY DEF PutMoves
<1>4. /\ PutTaken(Cur.byte) /\ chip'.mem = chip.mem /\ chip'.busy = chip.busy
      /\ ~chip.busy /\ chip.byte = NoByte /\ chip.mem = cache
  BY <1>1, <1>2, <1>3 DEF PutMoves, PutTaken, WritePlace
<1>5. off \in Offset
  <2>1. off \in Nat /\ edata \in Seq(Byte) /\ off + Len(edata) <= SIZE /\ edata # << >>
    BY DEF EepromInv, Asked
  <2>2. Len(edata) >= 1 /\ Len(edata) \in Nat
    BY <2>1
  <2> QED BY <2>1, <2>2, EepromAssumption DEF Offset
<1>6. CASE call = 1
  <2>1. chip.mode = "hi"
    BY <1>1, <1>3, <1>6 DEF WritePlace
  <2>2. chip'.mode = "lo" /\ chip'.addr = OffsetHi(off) /\ chip'.byte = chip.byte
    BY <1>2, <1>4, <1>6, <2>1 DEF PutTaken
  <2>3. WritePlace'
    BY <1>1, <1>3, <1>4, <1>6, <2>2 DEF WritePlace
  <2> QED BY <2>2, <2>3 DEF Program
<1>7. CASE call = 2
  <2>1. chip.mode = "lo" /\ chip.addr = OffsetHi(off)
    BY <1>1, <1>3, <1>7 DEF WritePlace
  <2>2. chip'.mode = "data" /\ chip'.addr = off /\ chip'.byte = chip.byte
    BY <1>2, <1>4, <1>5, <1>7, <2>1, OffsetTaken DEF PutTaken
  <2>3. WritePlace'
    BY <1>1, <1>3, <1>4, <1>7, <2>2 DEF WritePlace
  <2> QED BY <2>2, <2>3 DEF Program
<1>8. CASE call = 3
  <2>1. chip.mode = "data" /\ chip.addr = off
    BY <1>1, <1>3, <1>8 DEF WritePlace
  <2>2. chip'.mode = "data" /\ chip'.addr = off /\ chip'.byte = Head(edata)
    BY <1>2, <1>4, <1>8, <2>1 DEF PutTaken
  <2>3. WritePlace'
    BY <1>1, <1>3, <1>4, <1>8, <2>2 DEF WritePlace, Written
  <2> QED BY <2>2, <2>3 DEF Program
<1> QED BY <1>2, <1>6, <1>7, <1>8

(* put_byte in a read: the offset, then the address to read from.          *)
LEMMA PutRead ==
  ASSUME EepromInv, Working, PutMoves, epc = "got", UNCHANGED <<epc, todo, off, edata>>
  PROVE  /\ Program' /\ chip'.byte = chip.byte
         /\ chip'.mode = "send" => chip'.addr \in Offset
<1>1. /\ ReadPlace /\ todo = ReadCalls(off, edata) /\ Cur.f = "put"
      /\ edata \in Nat \ {0} /\ call \in 1..(edata + 6)
  BY CallRange DEF PutMoves
<1>2. call \in {1, 2, 5}
  <2>1. CASE call \in 6..(edata + 5)
    BY <1>1, <2>1, ReadIs DEF Cur
  <2>2. CASE call \in {1, 2, 3, 4, 5, edata + 6}
    BY <1>1, <2>2, ReadIs DEF Cur
  <2> QED BY <1>1, <2>1, <2>2
<1>3. /\ call = 1 => Cur.byte = OffsetHi(off)
      /\ call = 2 => Cur.byte = OffsetLo(off)
      /\ call = 5 => Cur.byte = ReadAddr
  BY <1>1, ReadIs DEF Cur
<1>4. Seen = call /\ Seen' = call + 1 /\ Mode = chip.mode /\ Mode' = chip'.mode /\ call' = call
  BY DEF PutMoves
<1>5. PutTaken(Cur.byte)
  BY DEF PutMoves
<1>6. off \in Offset
  <2>1. off \in Nat /\ edata \in Nat \ {0} /\ off + edata <= SIZE
    BY DEF EepromInv, Asked
  <2> QED BY <2>1, EepromAssumption DEF Offset
<1>7. CASE call = 1
  <2>1. chip.mode = "hi"
    BY <1>1, <1>4, <1>7 DEF ReadPlace
  <2>2. chip'.mode = "lo" /\ chip'.addr = OffsetHi(off) /\ chip'.byte = chip.byte
    BY <1>3, <1>5, <1>7, <2>1 DEF PutTaken
  <2>3. ReadPlace'
    BY <1>1, <1>4, <1>7, <2>2 DEF ReadPlace
  <2> QED BY <2>2, <2>3 DEF Program
<1>8. CASE call = 2
  <2>1. chip.mode = "lo" /\ chip.addr = OffsetHi(off)
    BY <1>1, <1>4, <1>8 DEF ReadPlace
  <2>2. chip'.mode = "data" /\ chip'.addr = off /\ chip'.byte = chip.byte
    BY <1>3, <1>5, <1>6, <1>8, <2>1, OffsetTaken DEF PutTaken
  <2>3. ReadPlace'
    BY <1>1, <1>4, <1>8, <2>2 DEF ReadPlace
  <2> QED BY <2>2, <2>3 DEF Program
<1>9. CASE call = 5
  <2>1. chip.mode = "dev" /\ chip.addr = off
    BY <1>1, <1>4, <1>9 DEF ReadPlace
  <2>2. ReadAddr # WriteAddr
    BY DEF ReadAddr, WriteAddr
  <2>3. chip'.mode = "send" /\ chip'.addr = off /\ chip'.byte = chip.byte
    BY <1>3, <1>5, <1>9, <2>1, <2>2 DEF PutTaken
  <2>4. off \in Nat
    BY <1>6, EepromAssumption DEF Offset
  <2>5. ReadPlace'
    BY <1>1, <1>4, <1>9, <2>3, <2>4 DEF ReadPlace
  <2> QED BY <1>6, <2>3, <2>5 DEF Program
<1> QED BY <1>2, <1>7, <1>8, <1>9

(* get_byte: the chip goes on to the next byte that was asked for.         *)
LEMMA GetRead ==
  ASSUME EepromInv, Working, GetMoves, epc = "got", UNCHANGED <<epc, todo, off, edata>>
  PROVE  /\ Program' /\ chip'.byte = chip.byte
         /\ chip'.mode = "send" => chip'.addr \in Offset
<1>1. /\ ReadPlace /\ todo = ReadCalls(off, edata) /\ Cur.f = "get"
      /\ edata \in Nat \ {0} /\ call \in 1..(edata + 6)
  BY CallRange DEF GetMoves
<1>2. call \in 6..(edata + 5)
  <2>1. call \notin {1, 2, 3, 4, 5, edata + 6}
    BY <1>1, ReadIs DEF Cur
  <2> QED BY <1>1, <2>1
<1>3. Cur.ack = (call # edata + 5)
  BY <1>1, <1>2, ReadIs DEF Cur
<1>4. Seen = call /\ Seen' = call + 1 /\ Mode' = chip'.mode /\ call' = call /\ GetTaken(Cur.ack)
  BY DEF GetMoves
<1>5. chip.addr = off + (call - 6) /\ chip'.byte = chip.byte
  BY <1>1, <1>2, <1>4 DEF ReadPlace, GetTaken
<1>6. off \in Nat /\ edata \in Nat \ {0} /\ off + edata <= SIZE /\ SIZE \in Nat
  BY EepromAssumption DEF EepromInv, Asked
<1>7. CASE call # edata + 5
  <2>1. call \in 6..(edata + 4)
    BY <1>1, <1>2, <1>7
  <2>2. off + (call - 5) \in 0..(SIZE - 1)
    BY <1>6, <2>1
  <2>3. (chip.addr + 1) % SIZE = off + (call - 5)
    <3>1. chip.addr + 1 = off + (call - 5)
      BY <1>5, <1>6, <2>1
    <3> DEFINE n == off + (call - 5)
    <3> HIDE DEF n
    <3>2. n \in 0..(SIZE - 1) => n % SIZE = n
      BY <1>6
    <3> QED BY <2>2, <3>1, <3>2 DEF n
  <2>4. chip'.mode = "send" /\ chip'.addr = off + (call - 5)
    BY <1>3, <1>4, <1>7, <2>3 DEF GetTaken
  <2>5. ReadPlace'
    BY <1>1, <1>4, <1>6, <2>1, <2>4 DEF ReadPlace
  <2> QED BY <1>5, <2>2, <2>4, <2>5 DEF Program, Offset
<1>8. CASE call = edata + 5
  <2>1. chip'.mode = "idle"
    BY <1>3, <1>4, <1>8 DEF GetTaken
  <2>2. ReadPlace'
    BY <1>1, <1>4, <1>8, <2>1 DEF ReadPlace
  <2> QED BY <1>5, <2>1, <2>2 DEF Program
<1> QED BY <1>7, <1>8

(* Whatever moves the chip keeps the invariant.                            *)
LEMMA MovesInv ==
  ASSUME EepromInv, Working, PutMoves \/ GetMoves, EepromTypeOK',
         UNCHANGED <<epc, todo, off, edata, cache, fake, readBack, calls>>
  PROVE  EepromInv'
<1>1. epc # "got" => PutMoves
  <2>1. SUFFICES ASSUME epc # "got", GetMoves PROVE FALSE
    OBVIOUS
  <2>2. Cur.f = "get"
    BY <2>1 DEF GetMoves
  <2>3. CASE epc = "poll"
    <3>1. call \in 1..4 /\ todo = WriteCalls(off, Head(edata))
      BY <2>3, CallRange
    <3> QED BY <2>2, <3>1, WriteIs DEF Cur
  <2>4. CASE epc # "poll"
    BY <2>1, <2>2, <2>4, CallRange, ScanIs, SelectIs, PollIs DEF Cur
  <2> QED BY <2>3, <2>4
<1>2. /\ Program'
      /\ chip'.mode = "send" => chip'.addr \in Offset
      /\ epc # "poll" => chip'.byte = chip.byte
  <2>1. epc = "scanned" => Program' /\ chip'.mode # "send" /\ chip'.byte = chip.byte
    BY <1>1, PutScan
  <2>2. epc \in {"read", "write"} => Program' /\ chip'.mode # "send" /\ chip'.byte = chip.byte
    BY <1>1, PutSelect
  <2>3. epc = "polled" => Program' /\ chip'.mode # "send" /\ chip'.byte = chip.byte
    BY <1>1, PutPoll
  <2>4. epc = "poll" => Program' /\ chip'.mode # "send"
    BY <1>1, PutWrite
  <2>5. epc = "got" =>
          Program' /\ chip'.byte = chip.byte /\ (chip'.mode = "send" => chip'.addr \in Offset)
    BY PutRead, GetRead
  <2>6. epc \in {"scanned", "read", "got", "write", "poll", "polled"}
    BY CallRange
  <2> QED BY <2>1, <2>2, <2>3, <2>4, <2>5, <2>6
<1> QED BY <1>2, MovedInv

(* A call ends: what holds whichever it was.                               *)
LEMMA Ended ==
  ASSUME EepromInv, Working, StartEnds \/ StopEnds \/ PutEnds \/ GetEnds,
         UNCHANGED <<epc, todo, off, edata, cache, fake, readBack, calls>>
  PROVE  /\ Ends /\ call' = call + 1 /\ Seen' = call' /\ Mode' = chip'.mode
         /\ Rest' /\ chip'.mode # "start" /\ CopyKept' /\ Asked'
         /\ chip'.addr = chip.addr /\ chip'.byte = chip.byte /\ chip'.mem = chip.mem
         /\ nack' = nack
<1>1. Ends
  BY DEF StartEnds, StopEnds, PutEnds, GetEnds
<1>2. Seen' = call'
  <2>1. /\ bit' = FirstRound(todo', call') /\ Bits \in Nat /\ Bits >= 2
    BY <1>1, EepromAssumption DEF Ends
  <2>2. Working' => ~Past'
    <3>1. SUFFICES ASSUME Working' PROVE ~Past'
      OBVIOUS
    <3>2. ~(call' > Len(todo')) /\ Cur' = todo'[call']
      <4>1. call' <= Len(todo') /\ Cur' = todo'[call']
        BY <3>1 DEF Working, Cur
      <4>2. call' \in Nat /\ Len(todo') \in Nat
        <5>1. call' \in Nat
          BY <1>1 DEF Ends, EepromInv, EepromTypeOK
        <5>2. epc = "poll" => Len(todo) = 4
          BY CallRange, WriteIs
        <5>3. epc = "got" => Len(todo) = edata + 6 /\ edata \in Nat
          BY CallRange, ReadIs
        <5>4. epc \notin {"poll", "got"} => Len(todo) \in {2, 3, 5}
          BY CallRange, ScanIs, SelectIs, PollIs
        <5>5. epc = "got" => Len(todo) \in Nat
          BY <5>3
        <5> QED BY <5>1, <5>2, <5>4, <5>5
      <4> QED BY <4>1, <4>2
    <3>3. bit' = IF Cur'.f = "get" THEN 0 ELSE IF Cur'.f = "put" THEN 1 ELSE Bits + 1
      BY <2>1, <3>2 DEF FirstRound
    <3> QED BY <2>1, <3>3 DEF Past
  <2> QED BY <2>2 DEF Seen
<1>3. /\ chip'.addr = chip.addr /\ chip'.byte = chip.byte /\ chip'.mem = chip.mem
      /\ chip'.busy = chip.busy \/ chip'.busy = (chip.busy \/ chip.byte # NoByte)
  BY DEF StartEnds, StopEnds, PutEnds, GetEnds, Keeps
<1>4. Rest' /\ chip'.mode # "start"
  <2>1. CASE StartEnds \/ StopEnds
    BY <2>1 DEF StartEnds, StopEnds, QuietIn, Rest, Quiet
  <2>2. CASE PutEnds \/ GetEnds
    <3>1. chip' = chip /\ Rest /\ Mode = chip.mode
      BY <2>2 DEF PutEnds, GetEnds
    <3> QED BY <3>1 DEF Rest, Sending, Quiet, Mode
  <2> QED BY <2>1, <2>2
<1>5. CopyKept'
  BY <1>3 DEF EepromInv, CopyKept
<1>6. Asked'
  BY DEF EepromInv, Asked
<1> QED BY <1>1, <1>2, <1>3, <1>4, <1>5, <1>6 DEF Ends, Mode

(* What is ready when the call before has left the lines so.               *)
LEMMA ReadyIs ==
  ASSUME Rest', chip'.mode # "start",
         \/ ~Working' /\ (IF epc' \in {"read", "write"} THEN Bus(0, 0)' ELSE Bus(1, 1)')
         \/ Working' /\ Cur'.f = "start" /\ Bus(1, 1)' /\ chip'.mode = "idle"
         \/ Working' /\ Cur'.f = "stop" /\ Bus(0, 0)' /\ chip'.mode # "send"
         \/ Working' /\ Cur'.f = "get" /\ Bus(0, 0)' /\ chip'.mode = "send"
         \/ /\ Working' /\ Cur'.f = "put" /\ Bus(0, 0)' /\ chip'.mode # "send"
            /\ Cur'.byte \in Byte
            /\ chip'.mode = "dev" => Cur'.byte \in {WriteAddr, ReadAddr}
            /\ chip'.mode = "dev" /\ Cur'.byte = ReadAddr => chip'.addr \in Offset
            /\ chip'.mode = "lo" => AddrOf(chip'.addr, Cur'.byte) \in Nat
  PROVE  CallReady'
BY DEF CallReady

Ending ==
  /\ EepromInv /\ Working /\ (StartEnds \/ StopEnds \/ PutEnds \/ GetEnds)
  /\ UNCHANGED <<epc, todo, off, edata, cache, fake, readBack, calls>>

(* The addresses of the chip.                                              *)
LEMMA Addresses == WriteAddr \in Byte /\ ReadAddr \in Byte /\ WriteAddr # ReadAddr
BY DigitsAssumption DEF WriteAddr, ReadAddr

(* A call of mi2c_scan ends.                                               *)
LEMMA EndScan ==
  ASSUME Ending, epc = "scanned"
  PROVE  Program' /\ CallReady' /\ chip'.mode # "send"
<1>1. ScanPlace /\ todo = ScanCalls /\ call \in 1..5
  BY CallRange DEF Ending
<1>2. /\ call' = call + 1 /\ Seen' = call' /\ Mode' = chip'.mode /\ Rest' /\ chip'.mode # "start"
      /\ nack' = nack /\ epc' = epc /\ todo' = todo
  BY Ended DEF Ending
<1>3. /\ Cur = ScanCalls[call] /\ Cur' = ScanCalls[call'] /\ (call' <= 5 => Working')
      /\ ~(call' <= 5) => ~Working'
  BY <1>1, <1>2, ScanIs DEF Cur, Working
<1>4. ~chip.busy
  BY DEF Ending, EepromInv, CopyKept
<1>5. CASE call = 1
  <2>1. StartEnds
    BY <1>1, <1>3, <1>5, ScanIs DEF Ending, StopEnds, PutEnds, GetEnds
  <2>2. chip'.mode = "dev" /\ Bus(0, 0)'
    BY <1>4, <2>1 DEF StartEnds
  <2>3. ScanPlace'
    BY <1>1, <1>2, <1>5, <2>2 DEF ScanPlace
  <2>4. CallReady'
    <3>1. call' = 2
      BY <1>2, <1>5
    <3>2. Working' /\ Cur'.f = "stop"
      BY <1>3, <3>1, ScanIs
    <3> QED BY <1>2, <2>2, <3>2, ReadyIs
  <2> QED BY <1>2, <2>2, <2>3, <2>4 DEF Program
<1>6. CASE call = 2
  <2>1. StopEnds
    BY <1>1, <1>3, <1>6, ScanIs DEF Ending, StartEnds, PutEnds, GetEnds
  <2>2. chip'.mode = "idle" /\ Bus(1, 1)'
    BY <2>1 DEF StopEnds
  <2>3. ScanPlace'
    BY <1>1, <1>2, <1>6, <2>2 DEF ScanPlace
  <2>4. CallReady'
    <3>1. call' = 3
      BY <1>2, <1>6
    <3>2. Working' /\ Cur'.f = "start"
      BY <1>3, <3>1, ScanIs
    <3> QED BY <1>2, <2>2, <3>2, ReadyIs
  <2> QED BY <1>2, <2>2, <2>3, <2>4 DEF Program
<1>7. CASE call = 3
  <2>1. StartEnds
    BY <1>1, <1>3, <1>7, ScanIs DEF Ending, StopEnds, PutEnds, GetEnds
  <2>2. chip'.mode = "dev" /\ Bus(0, 0)'
    BY <1>4, <2>1 DEF StartEnds
  <2>3. ScanPlace'
    BY <1>1, <1>2, <1>7, <2>2 DEF ScanPlace
  <2>4. Cur'.f = "put" /\ Cur'.byte = WriteAddr /\ Working'
    <3>1. call' = 4
      BY <1>2, <1>7
    <3> QED BY <1>3, <3>1, ScanIs
  <2>5. CallReady'
    BY <1>2, <2>2, <2>4, Addresses, ReadyIs
  <2> QED BY <1>2, <2>2, <2>3, <2>5 DEF Program
<1>8. CASE call = 4
  <2>1. PutEnds
    BY <1>1, <1>3, <1>8, ScanIs DEF Ending, StartEnds, StopEnds, GetEnds
  <2>2. chip' = chip /\ chip.mode = "hi" /\ nack = 0 /\ Bus(0, 0)'
    <3>1. Seen = 5 /\ Mode = chip.mode
      BY <1>8, <2>1 DEF PutEnds
    <3>2. chip.mode = "hi"
      BY <1>1, <3>1 DEF ScanPlace
    <3> QED BY <2>1, <3>2 DEF PutEnds
  <2>3. ScanPlace'
    BY <1>1, <1>2, <1>8, <2>2 DEF ScanPlace
  <2>4. CallReady'
    <3>1. call' = 5
      BY <1>2, <1>8
    <3>2. Working' /\ Cur'.f = "stop"
      BY <1>3, <3>1, ScanIs
    <3> QED BY <1>2, <2>2, <3>2, ReadyIs
  <2> QED BY <1>2, <2>2, <2>3, <2>4 DEF Program
<1>9. CASE call = 5
  <2>1. StopEnds
    BY <1>1, <1>3, <1>9, ScanIs DEF Ending, StartEnds, PutEnds, GetEnds
  <2>2. chip'.mode = "idle" /\ Bus(1, 1)' /\ nack = 0
    BY <1>1, <1>9, <2>1 DEF StopEnds, ScanPlace
  <2>3. ScanPlace'
    BY <1>1, <1>2, <1>9, <2>2 DEF ScanPlace
  <2>4. CallReady'
    <3>1. call' = 6
      BY <1>2, <1>9
    <3>2. ~Working'
      BY <1>3, <3>1
    <3> QED BY <1>2, <2>2, <3>2, ReadyIs
  <2> QED BY <1>2, <2>2, <2>3, <2>4 DEF Program
<1> QED BY <1>1, <1>5, <1>6, <1>7, <1>8, <1>9

(* A call at the head of a read or write ends.                             *)
LEMMA EndSelect ==
  ASSUME Ending, epc \in {"read", "write"}
  PROVE  Program' /\ CallReady' /\ chip'.mode # "send"
<1>1. SelectPlace /\ todo = SelectCalls /\ call \in 1..2
  BY CallRange DEF Ending
<1>2. /\ call' = call + 1 /\ Seen' = call' /\ Mode' = chip'.mode /\ Rest' /\ chip'.mode # "start"
      /\ nack' = nack /\ epc' = epc /\ todo' = todo
  BY Ended DEF Ending
<1>3. /\ Cur = SelectCalls[call] /\ Cur' = SelectCalls[call'] /\ (call' <= 2 => Working')
      /\ ~(call' <= 2) => ~Working'
  BY <1>1, <1>2, SelectIs DEF Cur, Working
<1>4. ~chip.busy
  BY DEF Ending, EepromInv, CopyKept
<1>5. CASE call = 1
  <2>1. StartEnds
    BY <1>1, <1>3, <1>5, SelectIs DEF Ending, StopEnds, PutEnds, GetEnds
  <2>2. chip'.mode = "dev" /\ Bus(0, 0)'
    BY <1>4, <2>1 DEF StartEnds
  <2>3. SelectPlace'
    BY <1>1, <1>2, <1>5, <2>2 DEF SelectPlace
  <2>4. Cur'.f = "put" /\ Cur'.byte = WriteAddr /\ Working'
    <3>1. call' = 2
      BY <1>2, <1>5
    <3> QED BY <1>3, <3>1, SelectIs
  <2>5. CallReady'
    BY <1>2, <2>2, <2>4, Addresses, ReadyIs
  <2> QED BY <1>2, <2>2, <2>3, <2>5 DEF Program
<1>6. CASE call = 2
  <2>1. PutEnds
    BY <1>1, <1>3, <1>6, SelectIs DEF Ending, StartEnds, StopEnds, GetEnds
  <2>2. chip' = chip /\ chip.mode = "hi" /\ nack = 0 /\ Bus(0, 0)'
    <3>1. Seen = 3 /\ Mode = chip.mode
      BY <1>6, <2>1 DEF PutEnds
    <3>2. chip.mode = "hi"
      BY <1>1, <3>1 DEF SelectPlace
    <3> QED BY <2>1, <3>2 DEF PutEnds
  <2>3. SelectPlace'
    BY <1>1, <1>2, <1>6, <2>2 DEF SelectPlace
  <2>4. CallReady'
    <3>1. call' = 3
      BY <1>2, <1>6
    <3>2. ~Working'
      BY <1>3, <3>1
    <3> QED BY <1>2, <2>2, <3>2, ReadyIs
  <2> QED BY <1>2, <2>2, <2>3, <2>4 DEF Program
<1> QED BY <1>1, <1>5, <1>6

(* A call of the poll ends: an answer means that the write cycle is over.  *)
LEMMA EndPoll ==
  ASSUME Ending, epc = "polled"
  PROVE  Program' /\ CallReady' /\ chip'.mode # "send"
<1>1. PollPlace /\ todo = PollCalls /\ call \in 1..3
  BY CallRange DEF Ending
<1>2. /\ call' = call + 1 /\ Seen' = call' /\ Mode' = chip'.mode /\ Rest' /\ chip'.mode # "start"
      /\ nack' = nack /\ epc' = epc /\ todo' = todo
      /\ chip'.addr = chip.addr /\ chip'.byte = chip.byte /\ chip'.mem = chip.mem
      /\ UNCHANGED <<off, edata, cache>>
  BY Ended DEF Ending
<1>3. /\ Cur = PollCalls[call] /\ Cur' = PollCalls[call'] /\ (call' <= 3 => Working')
      /\ ~(call' <= 3) => ~Working'
  BY <1>1, <1>2, PollIs DEF Cur, Working
<1>4. chip'.busy = chip.busy => Cycle'
  BY <1>1, <1>2 DEF PollPlace, Cycle, Written, Stored
<1>5. CASE call = 1
  <2>1. StartEnds
    BY <1>1, <1>3, <1>5, PollIs DEF Ending, StopEnds, PutEnds, GetEnds
  <2>2. /\ chip'.mode = (IF chip.busy THEN "idle" ELSE "dev") /\ Bus(0, 0)'
        /\ chip'.busy = chip.busy
    BY <2>1 DEF StartEnds, Keeps
  <2>3. PollPlace'
    BY <1>1, <1>2, <1>4, <1>5, <2>2 DEF PollPlace
  <2>4. Cur'.f = "put" /\ Cur'.byte = WriteAddr /\ Working'
    <3>1. call' = 2
      BY <1>2, <1>5
    <3> QED BY <1>3, <3>1, PollIs
  <2>5. CallReady'
    BY <1>2, <2>2, <2>4, Addresses, ReadyIs
  <2> QED BY <1>2, <2>2, <2>3, <2>5 DEF Program
<1>6. CASE call = 2
  <2>1. PutEnds
    BY <1>1, <1>3, <1>6, PollIs DEF Ending, StartEnds, StopEnds, GetEnds
  <2>2. /\ chip' = chip /\ chip.mode \in {"idle", "hi"} /\ Bus(0, 0)'
        /\ chip.mode # "idle" => ~chip.busy
        /\ nack = IF chip.mode = "idle" THEN 1 ELSE 0
    <3>1. Seen = 3 /\ Mode = chip.mode
      BY <1>6, <2>1 DEF PutEnds
    <3>2. chip.mode \in {"idle", "hi"} /\ (chip.mode # "idle" => ~chip.busy)
      BY <1>1, <3>1 DEF PollPlace
    <3> QED BY <2>1, <3>2 DEF PutEnds
  <2>3. PollPlace'
    BY <1>1, <1>2, <1>4, <1>6, <2>2 DEF PollPlace
  <2>4. CallReady'
    <3>1. call' = 3
      BY <1>2, <1>6
    <3>2. Working' /\ Cur'.f = "stop"
      BY <1>3, <3>1, PollIs
    <3> QED BY <1>2, <2>2, <3>2, ReadyIs
  <2> QED BY <1>2, <2>2, <2>3, <2>4 DEF Program
<1>7. CASE call = 3
  <2>1. StopEnds
    BY <1>1, <1>3, <1>7, PollIs DEF Ending, StartEnds, PutEnds, GetEnds
  <2>2. chip'.mode = "idle" /\ Bus(1, 1)' /\ chip'.busy = (chip.busy \/ chip.byte # NoByte)
    BY <2>1 DEF StopEnds
  <2>3. chip'.busy = chip.busy
    <3>1. ~chip.busy => chip.byte = NoByte
      BY <1>1 DEF PollPlace, Cycle, Stored
    <3>2. chip.busy \in BOOLEAN
      BY DEF Ending, EepromInv, EepromTypeOK, ChipType
    <3> QED BY <2>2, <3>1, <3>2
  <2>4. nack = 0 => ~chip.busy
    BY <1>1, <1>7 DEF PollPlace
  <2>5. PollPlace'
    BY <1>1, <1>2, <1>4, <1>7, <2>2, <2>3, <2>4 DEF PollPlace
  <2>6. CallReady'
    <3>1. call' = 4
      BY <1>2, <1>7
    <3>2. ~Working'
      BY <1>3, <3>1
    <3> QED BY <1>2, <2>2, <3>2, ReadyIs
  <2> QED BY <1>2, <2>2, <2>5, <2>6 DEF Program
<1> QED BY <1>1, <1>5, <1>6, <1>7

(* A call of the write of a byte ends: the STOP starts the write cycle.    *)
LEMMA EndWrite ==
  ASSUME Ending, epc = "poll"
  PROVE  Program' /\ CallReady' /\ chip'.mode # "send"
<1>1. WritePlace /\ todo = WriteCalls(off, Head(edata)) /\ call \in 1..4
  BY CallRange DEF Ending
<1>2. /\ call' = call + 1 /\ Seen' = call' /\ Mode' = chip'.mode /\ Rest' /\ chip'.mode # "start"
      /\ nack' = nack /\ epc' = epc /\ todo' = todo
      /\ chip'.addr = chip.addr /\ chip'.byte = chip.byte /\ chip'.mem = chip.mem
      /\ off' = off /\ edata' = edata /\ cache' = cache
  BY Ended DEF Ending
<1> DEFINE s == WriteCalls(off, Head(edata))
<1>3. /\ Len(s) = 4
      /\ s[1].f = "put" /\ s[1].byte = OffsetHi(off)
      /\ s[2].f = "put" /\ s[2].byte = OffsetLo(off)
      /\ s[3].f = "put" /\ s[3].byte = Head(edata)
      /\ s[4].f = "stop"
  BY WriteIs
<1>4. todo = s
  BY <1>1
<1> HIDE DEF s
<1>5. /\ Cur = s[call] /\ Cur' = s[call'] /\ (call' <= 4 => Working')
      /\ ~(call' <= 4) => ~Working'
  BY <1>2, <1>3, <1>4 DEF Cur, Working
<1>6. off \in Offset /\ Head(edata) \in Byte
  <2>1. off \in Nat /\ edata \in Seq(Byte) /\ off + Len(edata) <= SIZE /\ edata # << >>
    BY DEF Ending, EepromInv, Asked
  <2>2. Len(edata) >= 1 /\ Len(edata) \in Nat /\ Head(edata) \in Byte
    BY <2>1
  <2> QED BY <2>1, <2>2, EepromAssumption DEF Offset
<1>7. /\ OffsetHi(off) \in Byte /\ OffsetLo(off) \in Byte
      /\ AddrOf(OffsetHi(off), OffsetLo(off)) = off /\ off \in Nat
  BY <1>6, DigitsAssumption, EepromAssumption DEF Offset
<1>8. CASE call \in 1..3
  <2>1. PutEnds
    BY <1>3, <1>5, <1>8 DEF Ending, StartEnds, StopEnds, GetEnds
  <2>2. /\ chip' = chip /\ Bus(0, 0)' /\ Seen = call + 1 /\ Mode = chip.mode
    BY <2>1 DEF PutEnds
  <2>3. /\ ~chip.busy
        /\ call = 1 => chip.mode = "lo" /\ chip.addr = OffsetHi(off)
        /\ call \in {2, 3} => chip.mode = "data" /\ chip.addr = off
        /\ call < 3 => chip.byte = NoByte /\ chip.mem = cache
        /\ call = 3 => Written
    BY <1>1, <1>8, <2>2 DEF WritePlace
  <2>4. WritePlace'
    BY <1>1, <1>2, <1>8, <2>2, <2>3 DEF WritePlace, Written
  <2>5. CallReady'
    <3>1. call' \in {2, 3, 4} /\ Working' /\ Cur' = s[call']
      BY <1>2, <1>5, <1>8
    <3>2. CASE call = 1
      <4>1. Cur'.f = "put" /\ Cur'.byte = OffsetLo(off)
        BY <1>2, <1>3, <3>1, <3>2
      <4> QED BY <1>2, <1>7, <2>2, <2>3, <3>1, <3>2, <4>1, ReadyIs
    <3>3. CASE call = 2
      <4>1. Cur'.f = "put" /\ Cur'.byte = Head(edata)
        BY <1>2, <1>3, <3>1, <3>3
      <4> QED BY <1>2, <1>6, <2>2, <2>3, <3>1, <3>3, <4>1, ReadyIs
    <3>4. CASE call = 3
      <4>1. Cur'.f = "stop"
        BY <1>2, <1>3, <3>1, <3>4
      <4> QED BY <1>2, <2>2, <2>3, <3>1, <3>4, <4>1, ReadyIs
    <3> QED BY <1>8, <3>2, <3>3, <3>4
  <2>6. chip'.mode # "send"
    BY <1>8, <2>2, <2>3
  <2> QED BY <1>2, <2>4, <2>5, <2>6 DEF Program
<1>9. CASE call = 4
  <2>1. StopEnds
    BY <1>3, <1>5, <1>9 DEF Ending, StartEnds, PutEnds, GetEnds
  <2>2. /\ chip'.mode = "idle" /\ Bus(1, 1)' /\ Seen = 4
        /\ chip'.busy = (chip.busy \/ chip.byte # NoByte)
    BY <1>9, <2>1 DEF StopEnds
  <2>3. Written
    BY <1>1, <2>2 DEF WritePlace
  <2>4. Head(edata) # NoByte
    BY <1>6, EepromAssumption DEF Byte, NoByte
  <2>5. chip'.busy = TRUE
    BY <2>2, <2>3, <2>4 DEF Written
  <2>6. Cycle'
    BY <1>2, <2>3, <2>5 DEF Cycle, Written
  <2>7. WritePlace'
    BY <1>1, <1>2, <1>9, <2>2, <2>6 DEF WritePlace
  <2>8. CallReady'
    <3>1. ~Working'
      BY <1>2, <1>5, <1>9
    <3> QED BY <1>2, <2>2, <3>1, ReadyIs
  <2> QED BY <1>2, <2>2, <2>7, <2>8 DEF Program
<1> QED BY <1>1, <1>8, <1>9

(* The calls of spec_eeprom_read, one by one.                              *)
LEMMA ReadKinds ==
  ASSUME Ending, epc = "got"
  PROVE  /\ ReadPlace /\ edata \in Nat \ {0} /\ call \in 1..(edata + 6)
         /\ off \in Offset /\ off \in Nat /\ off + edata <= SIZE
         /\ call \in {1, 2, 5} => PutEnds
         /\ call \in {3, edata + 6} => StopEnds
         /\ call = 4 => StartEnds
         /\ call \in 6..(edata + 5) => GetEnds
         /\ call < edata + 6 => Working'
         /\ call = edata + 6 => ~Working'
         /\ call = 1 => Cur'.f = "put" /\ Cur'.byte = OffsetLo(off)
         /\ call = 4 => Cur'.f = "put" /\ Cur'.byte = ReadAddr
         /\ call \in {2, edata + 5} => Cur'.f = "stop"
         /\ call = 3 => Cur'.f = "start"
         /\ call \in 5..(edata + 4) => Cur'.f = "get"
<1>1. /\ ReadPlace /\ todo = ReadCalls(off, edata)
      /\ edata \in Nat \ {0} /\ call \in 1..(edata + 6)
  BY CallRange DEF Ending
<1>2. call' = call + 1 /\ todo' = todo
  BY Ended DEF Ending
<1> DEFINE s == ReadCalls(off, edata)
<1>3. /\ Len(s) = edata + 6
      /\ s[1].f = "put" /\ s[2].f = "put" /\ s[2].byte = OffsetLo(off)
      /\ s[3].f = "stop" /\ s[4].f = "start"
      /\ s[5].f = "put" /\ s[5].byte = ReadAddr
      /\ \A k \in 6..(edata + 5) : s[k].f = "get"
      /\ s[edata + 6].f = "stop"
  BY <1>1, ReadIs
<1>4. todo = s
  BY <1>1
<1> HIDE DEF s
<1>5. /\ Cur = s[call] /\ Cur' = s[call + 1] /\ (call < edata + 6 => Working')
      /\ call = edata + 6 => ~Working'
  BY <1>1, <1>2, <1>3, <1>4 DEF Cur, Working
<1>6. off \in Nat /\ off + edata <= SIZE /\ off \in Offset
  <2>1. off \in Nat /\ off + edata <= SIZE
    BY <1>1 DEF Ending, EepromInv, Asked
  <2> QED BY <1>1, <2>1, EepromAssumption DEF Offset
<1>7. call \in {1, 2, 5} => PutEnds
  <2>1. call \in {1, 2, 5} => Cur.f = "put"
    BY <1>3, <1>5
  <2> QED BY <2>1 DEF Ending, StartEnds, StopEnds, PutEnds, GetEnds
<1>8. call \in {3, edata + 6} => StopEnds
  <2>1. call \in {3, edata + 6} => Cur.f = "stop"
    BY <1>3, <1>5
  <2> QED BY <2>1 DEF Ending, StartEnds, StopEnds, PutEnds, GetEnds
<1>9. call = 4 => StartEnds
  <2>1. call = 4 => Cur.f = "start"
    BY <1>3, <1>5
  <2> QED BY <2>1 DEF Ending, StartEnds, StopEnds, PutEnds, GetEnds
<1>10. call \in 6..(edata + 5) => GetEnds
  <2>1. call \in 6..(edata + 5) => Cur.f = "get"
    BY <1>3, <1>5
  <2> QED BY <2>1 DEF Ending, StartEnds, StopEnds, PutEnds, GetEnds
<1>11. /\ call = 1 => Cur'.f = "put" /\ Cur'.byte = OffsetLo(off)
       /\ call = 4 => Cur'.f = "put" /\ Cur'.byte = ReadAddr
       /\ call \in {2, edata + 5} => Cur'.f = "stop"
       /\ call = 3 => Cur'.f = "start"
  BY <1>1, <1>3, <1>5
<1>12. call \in 5..(edata + 4) => Cur'.f = "get"
  <2>1. call \in 5..(edata + 4) => call + 1 \in 6..(edata + 5)
    BY <1>1
  <2> QED BY <1>3, <1>5, <2>1
<1> QED BY <1>1, <1>5, <1>6, <1>7, <1>8, <1>9, <1>10, <1>11, <1>12

(* A call of spec_eeprom_read ends.                                        *)
LEMMA EndRead ==
  ASSUME Ending, epc = "got"
  PROVE  /\ Program' /\ CallReady'
         /\ chip'.mode = "send" => chip'.addr \in Offset
<1>1. /\ ReadPlace /\ edata \in Nat \ {0} /\ call \in 1..(edata + 6)
      /\ off \in Offset /\ off \in Nat /\ off + edata <= SIZE
  BY ReadKinds
<1>2. /\ call' = call + 1 /\ Seen' = call' /\ Mode' = chip'.mode /\ Rest' /\ chip'.mode # "start"
      /\ nack' = nack /\ epc' = epc /\ todo' = todo
      /\ chip'.addr = chip.addr /\ chip'.byte = chip.byte /\ chip'.mem = chip.mem
      /\ off' = off /\ edata' = edata /\ cache' = cache
  BY Ended DEF Ending
<1>3. ~chip.busy
  BY DEF Ending, EepromInv, CopyKept
<1>4. /\ OffsetHi(off) \in Byte /\ OffsetLo(off) \in Byte
      /\ AddrOf(OffsetHi(off), OffsetLo(off)) = off
  BY <1>1, DigitsAssumption
<1>5. CASE call = 1
  <2>1. PutEnds /\ Working' /\ Cur'.f = "put" /\ Cur'.byte = OffsetLo(off)
    BY <1>1, <1>5, ReadKinds
  <2>2. chip' = chip /\ Bus(0, 0)' /\ Seen = 2 /\ Mode = chip.mode
    BY <1>5, <2>1 DEF PutEnds
  <2>3. chip'.mode = "lo" /\ chip'.addr = OffsetHi(off)
    BY <1>1, <2>2 DEF ReadPlace
  <2>4. ReadPlace'
    BY <1>1, <1>2, <1>5, <2>3 DEF ReadPlace
  <2>5. CallReady'
    BY <1>1, <1>2, <1>4, <2>1, <2>2, <2>3, ReadyIs
  <2> QED BY <1>2, <2>3, <2>4, <2>5 DEF Program
<1>6. CASE call = 2
  <2>1. PutEnds /\ Working' /\ Cur'.f = "stop"
    BY <1>1, <1>6, ReadKinds
  <2>2. chip' = chip /\ Bus(0, 0)' /\ Seen = 3 /\ Mode = chip.mode
    BY <1>6, <2>1 DEF PutEnds
  <2>3. chip'.mode = "data" /\ chip'.addr = off
    BY <1>1, <2>2 DEF ReadPlace
  <2>4. ReadPlace'
    BY <1>1, <1>2, <1>6, <2>3 DEF ReadPlace
  <2>5. CallReady'
    BY <1>2, <2>1, <2>2, <2>3, ReadyIs
  <2> QED BY <1>2, <2>3, <2>4, <2>5 DEF Program
<1>7. CASE call = 3
  <2>1. StopEnds /\ Working' /\ Cur'.f = "start"
    BY <1>1, <1>7, ReadKinds
  <2>2. chip'.mode = "idle" /\ Bus(1, 1)' /\ Seen = 3
    BY <1>7, <2>1 DEF StopEnds
  <2>3. chip'.addr = off
    BY <1>1, <1>2, <2>2 DEF ReadPlace
  <2>4. ReadPlace'
    BY <1>1, <1>2, <1>7, <2>2, <2>3 DEF ReadPlace
  <2>5. CallReady'
    BY <1>2, <2>1, <2>2, ReadyIs
  <2> QED BY <1>2, <2>2, <2>4, <2>5 DEF Program
<1>8. CASE call = 4
  <2>1. StartEnds /\ Working' /\ Cur'.f = "put" /\ Cur'.byte = ReadAddr
    BY <1>1, <1>8, ReadKinds
  <2>2. chip'.mode = "dev" /\ Bus(0, 0)' /\ Seen = 4
    BY <1>3, <1>8, <2>1 DEF StartEnds
  <2>3. chip'.addr = off
    BY <1>1, <1>2, <2>2 DEF ReadPlace
  <2>4. ReadPlace'
    BY <1>1, <1>2, <1>8, <2>2, <2>3 DEF ReadPlace
  <2>5. CallReady'
    BY <1>1, <1>2, <2>1, <2>2, <2>3, Addresses, ReadyIs
  <2> QED BY <1>2, <2>2, <2>4, <2>5 DEF Program
<1>9. CASE call = 5
  <2>1. PutEnds /\ Working' /\ Cur'.f = "get"
    BY <1>1, <1>9, ReadKinds
  <2>2. chip' = chip /\ Bus(0, 0)' /\ Seen = 6 /\ Mode = chip.mode
    BY <1>9, <2>1 DEF PutEnds
  <2>3. chip'.mode = "send" /\ chip'.addr = off
    BY <1>1, <2>2 DEF ReadPlace
  <2>4. ReadPlace'
    BY <1>1, <1>2, <1>9, <2>3 DEF ReadPlace
  <2>5. CallReady'
    BY <1>2, <2>1, <2>2, <2>3, ReadyIs
  <2> QED BY <1>1, <1>2, <2>3, <2>4, <2>5 DEF Program
<1>10. CASE call \in 6..(edata + 4)
  <2>1. GetEnds /\ Working' /\ Cur'.f = "get"
    BY <1>1, <1>10, ReadKinds
  <2>2. chip' = chip /\ Bus(0, 0)' /\ Seen = call + 1 /\ Mode = chip.mode
    BY <2>1 DEF GetEnds
  <2>3. chip'.mode = "send" /\ chip'.addr = off + (call - 5)
    BY <1>1, <1>10, <2>2 DEF ReadPlace
  <2>4. ReadPlace'
    BY <1>1, <1>2, <1>10, <2>3 DEF ReadPlace
  <2>5. CallReady'
    BY <1>2, <2>1, <2>2, <2>3, ReadyIs
  <2>6. chip'.addr \in Offset
    BY <1>1, <1>10, <2>3, EepromAssumption DEF Offset
  <2> QED BY <1>2, <2>4, <2>5, <2>6 DEF Program
<1>11. CASE call = edata + 5
  <2>1. GetEnds /\ Working' /\ Cur'.f = "stop"
    BY <1>1, <1>11, ReadKinds
  <2>2. chip' = chip /\ Bus(0, 0)' /\ Seen = edata + 6 /\ Mode = chip.mode
    BY <1>1, <1>11, <2>1 DEF GetEnds
  <2>3. chip'.mode = "idle"
    BY <1>1, <2>2 DEF ReadPlace
  <2>4. ReadPlace'
    BY <1>1, <1>2, <1>11, <2>3 DEF ReadPlace
  <2>5. CallReady'
    BY <1>2, <2>1, <2>2, <2>3, ReadyIs
  <2> QED BY <1>2, <2>3, <2>4, <2>5 DEF Program
<1>12. CASE call = edata + 6
  <2>1. StopEnds /\ ~Working'
    BY <1>1, <1>12, ReadKinds
  <2>2. chip'.mode = "idle" /\ Bus(1, 1)'
    BY <2>1 DEF StopEnds
  <2>3. ReadPlace'
    BY <1>1, <1>2, <1>12, <2>2 DEF ReadPlace
  <2>4. CallReady'
    BY <1>2, <2>1, <2>2, ReadyIs
  <2> QED BY <1>2, <2>2, <2>3, <2>4 DEF Program
<1> QED BY <1>1, <1>5, <1>6, <1>7, <1>8, <1>9, <1>10, <1>11, <1>12

(* A byte that was read is the one of the chip.                            *)
LEMMA EndBytes ==
  ASSUME Ending, EepromTypeOK
  PROVE  BytesGot'
<1>1. /\ call' = call + 1 /\ Ends /\ indata' = << >> /\ chip'.mem = chip.mem
      /\ epc' = epc /\ edata' = edata /\ off' = off /\ todo' = todo
  BY Ended DEF Ending, Ends
<1>2. BytesGot
  BY DEF Ending, EepromInv
<1>3. CASE epc = "read"
  <2>1. SelectPlace /\ todo = SelectCalls /\ call \in 1..2
    BY <1>3, CallRange DEF Ending
  <2>2. Cur.f # "get"
    BY <2>1, SelectIs DEF Cur
  <2>3. rx' = rx
    BY <2>2 DEF Ending, StartEnds, StopEnds, PutEnds, GetEnds
  <2> QED BY <1>1, <1>2, <1>3, <2>3 DEF BytesGot
<1>4. CASE epc = "got"
  <2>1. /\ ReadPlace /\ edata \in Nat \ {0} /\ call \in 1..(edata + 6)
        /\ off \in Nat /\ off + edata <= SIZE
    BY <1>4, ReadKinds
  <2>2. /\ rx \in Seq(Byte)
        /\ Len(rx) = IF call <= 6 THEN 0 ELSE IF call <= edata + 6 THEN call - 6 ELSE edata
        /\ \A i \in 1..Len(rx) : rx[i] = chip.mem[off + (i - 1)]
    BY <1>2, <1>4 DEF BytesGot
  <2>3. CASE call \in 6..(edata + 5)
    <3>1. GetEnds /\ Cur.f = "get" /\ rx' = Append(rx, Value(indata)) /\ Len(indata) = Bits
      BY <1>4, <2>3, ReadKinds DEF GetEnds
    <3>2. TheByte \in Byte
      <4>1. off + (call - 6) \in Offset
        BY <2>1, <2>3, EepromAssumption DEF Offset
      <4> QED BY <4>1 DEF TheByte, EepromTypeOK, ChipType, Image
    <3>3. \A j \in 1..Bits : indata[j] = Digit(TheByte, j)
      BY <1>2, <1>4, <3>1 DEF BytesGot, TheByte, Ending
    <3>4. Value(indata) = TheByte
      <4>1. indata \in Seq({0, 1})
        BY DEF EepromTypeOK
      <4> QED BY <3>1, <3>2, <3>3, <4>1, ByteValue
    <3>5. Len(rx) = call - 6 /\ call - 6 \in Nat
      BY <2>1, <2>2, <2>3
    <3>6. /\ rx' \in Seq(Byte) /\ Len(rx') = call - 5
          /\ \A i \in 1..(call - 6) : rx'[i] = rx[i]
          /\ rx'[call - 5] = TheByte
      <4>1. rx' = Append(rx, TheByte)
        BY <3>1, <3>4
      <4> HIDE DEF TheByte
      <4>2. /\ rx' \in Seq(Byte) /\ Len(rx') = Len(rx) + 1
            /\ \A i \in 1..Len(rx) : rx'[i] = rx[i]
            /\ rx'[Len(rx) + 1] = TheByte
        BY <2>2, <3>2, <4>1
      <4> QED BY <2>1, <2>3, <3>5, <4>2
    <3>7. \A i \in 1..(call - 5) : rx'[i] = chip.mem[off + (i - 1)]
      <4>1. SUFFICES ASSUME NEW i \in 1..(call - 5)
                     PROVE  rx'[i] = chip.mem[off + (i - 1)]
        OBVIOUS
      <4>2. CASE i \in 1..(call - 6)
        BY <2>2, <3>5, <3>6, <4>2
      <4>3. CASE i = call - 5
        <5>1. off + (i - 1) = off + (call - 6)
          BY <2>1, <4>3
        <5> QED BY <3>6, <4>3, <5>1 DEF TheByte
      <4> QED BY <2>1, <2>3, <4>2, <4>3
    <3>8. Len(rx') = IF call' <= 6 THEN 0 ELSE IF call' <= edata + 6 THEN call' - 6 ELSE edata
      BY <1>1, <2>1, <2>3, <3>6
    <3>9. \A i \in 1..Len(rx') : rx'[i] = chip'.mem[off + (i - 1)]
      BY <1>1, <3>6, <3>7
    <3> QED BY <1>1, <1>4, <3>6, <3>8, <3>9 DEF BytesGot
  <2>4. CASE call \notin 6..(edata + 5)
    <3>1. rx' = rx
      <4>1. call \in {1, 2, 3, 4, 5, edata + 6}
        BY <2>1, <2>4
      <4> QED BY <1>4, <4>1, ReadKinds DEF StartEnds, StopEnds, PutEnds
    <3>2. Len(rx) = IF call' <= 6 THEN 0 ELSE IF call' <= edata + 6 THEN call' - 6 ELSE edata
      BY <1>1, <2>1, <2>2, <2>4
    <3> QED BY <1>1, <1>4, <2>2, <3>1, <3>2 DEF BytesGot
  <2> QED BY <2>3, <2>4
<1>5. CASE epc \notin {"read", "got"}
  BY <1>1, <1>5 DEF BytesGot
<1> QED BY <1>3, <1>4, <1>5

(* Whatever ends a call keeps the invariant.                               *)
LEMMA EndInv ==
  ASSUME Ending, EepromTypeOK'
  PROVE  EepromInv'
<1>1. EepromInv /\ Working /\ UNCHANGED <<epc, todo, off, edata, cache, fake, readBack, calls>>
  BY DEF Ending
<1>2. Ends /\ call' = call + 1 /\ CopyKept' /\ Asked'
  BY Ended DEF Ending
<1>3. /\ Program' /\ CallReady'
      /\ chip'.mode = "send" => chip'.addr \in Offset
  <2>1. epc \in {"scanned", "read", "got", "write", "poll", "polled"}
    BY <1>1, CallRange
  <2> QED BY <2>1, EndScan, EndSelect, EndPoll, EndWrite, EndRead
<1>4. BytesGot'
  BY <1>1, EndBytes DEF EepromInv
<1>5. Len(todo') \in Nat
  <2>1. epc = "poll" => Len(todo) = 4
    BY <1>1, CallRange, WriteIs
  <2>2. epc = "got" => Len(todo) \in Nat
    BY <1>1, CallRange, ReadIs
  <2>3. epc \notin {"poll", "got"} => Len(todo) \in {2, 3, 5}
    BY <1>1, CallRange, ScanIs, SelectIs, PollIs
  <2> QED BY <1>1, <2>1, <2>2, <2>3
<1>6. WireInv'
  <2>1. /\ chip' \in ChipType /\ call' \in Nat /\ ph' = 1 /\ indata' = << >>
        /\ bit' = FirstRound(todo', call')
    BY <1>1, <1>2 DEF Ends, EepromTypeOK
  <2> QED BY <1>3, <1>5, <2>1, ReadyWire
<1> QED BY <1>2, <1>3, <1>4, <1>6 DEF EepromInv

(* So every line operation does.                                           *)
LEMMA LineOpInv ==
  ASSUME EepromInv, present, LineOp
  PROVE  EepromInv' /\ epc' = epc /\ present' = present
<1>1. /\ UNCHANGED <<epc, todo, off, edata, cache, fake, readBack, calls, present>>
      /\ Working
      /\ \/ EepromInv'
         \/ EepromTypeOK' /\ (PutMoves \/ GetMoves)
         \/ EepromTypeOK' /\ (StartEnds \/ StopEnds \/ PutEnds \/ GetEnds)
  BY LineStep
<1>2. EepromTypeOK' /\ (PutMoves \/ GetMoves) => EepromInv'
  BY <1>1, MovesInv
<1>3. EepromTypeOK' /\ (StartEnds \/ StopEnds \/ PutEnds \/ GetEnds) => EepromInv'
  BY <1>1, EndInv DEF Ending
<1> QED BY <1>1, <1>2, <1>3

(* A routine has finitely many calls.                                      *)
LEMMA TodoLen ==
  ASSUME Program, Asked
  PROVE  Len(todo) \in Nat
<1>1. /\ AtRest => Len(todo) = 0
      /\ ScanPlace => Len(todo) = 5
      /\ SelectPlace => Len(todo) = 2
      /\ PollPlace => Len(todo) = 3
  BY ScanIs, SelectIs, PollIs DEF AtRest, ScanPlace, SelectPlace, PollPlace
<1>2. WritePlace => Len(todo) = 4
  BY WriteIs DEF WritePlace
<1>3. epc = "got" => Len(todo) = edata + 6 /\ edata \in Nat
  BY ReadIs DEF Program, ReadPlace, Asked
<1>4. epc = "got" => Len(todo) \in Nat
  BY <1>3
<1> QED BY <1>1, <1>2, <1>4 DEF Program

(* The write cycle ends.  A chip in it does not answer.                    *)
LEMMA CycleEnds ==
  ASSUME WireInv, chip.mode # "send",
         chip'.mode = chip.mode, chip'.bits = chip.bits, chip'.sent = chip.sent,
         chip'.ack = chip.ack, chip'.addr = chip.addr, chip'.out = chip.out,
         UNCHANGED <<epc, todo, call, bit, ph, nack, indata, sda, scl>>
  PROVE  WireInv'
<1>1. Quiet' = Quiet /\ Working' = Working /\ Cur' = Cur
  BY DEF Quiet, Working, Cur
<1>2. Rest => Rest'
  BY DEF Rest, Quiet
<1>3. ~Working => DoneWire'
  BY <1>2 DEF WireInv, DoneWire, Bus
<1>4. StartWire => StartWire'
  BY DEF StartWire, Bus, Quiet
<1>5. StopWire => StopWire'
  BY DEF StopWire, Bus, Quiet
<1>6. PutBitWire => PutBitWire'
  BY <1>1 DEF PutBitWire, Collected
<1>7. PutAckWire => PutAckWire'
  BY <1>2 DEF PutAckWire
<1>8. ~GetHeadWire /\ ~GetBitWire
  BY DEF GetHeadWire, GetBitWire
<1>9. GetEndWire => GetEndWire'
  BY <1>1, <1>2 DEF GetEndWire
<1>10. Working => CallWire'
  BY <1>1, <1>4, <1>5, <1>6, <1>7, <1>8, <1>9 DEF WireInv, CallWire
<1> QED BY <1>1, <1>3, <1>10 DEF WireInv

(* The end of a write cycle: the byte is where the copy will have it.      *)
LEMMA ChipWrittenInv ==
  ASSUME EepromInv, ChipWritten
  PROVE  EepromInv' /\ epc' = epc /\ present' = present
<1>1. /\ UNCHANGED <<epc, todo, call, bit, ph, nack, indata, rx>>
      /\ UNCHANGED <<off, edata, cache, fake, readBack, calls, present, sda, scl>>
      /\ chip.busy
      /\ chip' = [chip EXCEPT !.mem[chip.addr] = chip.byte, !.byte = NoByte, !.busy = FALSE]
  BY DEF ChipWritten, driverVars, routineVars, dataVars
<1>2. chip \in ChipType /\ EepromTypeOK /\ Program /\ Asked /\ CopyKept /\ WireInv
  BY DEF EepromInv, EepromTypeOK
<1>3. epc \in {"poll", "polled"}
  BY <1>1, <1>2 DEF CopyKept
<1>4. /\ off \in Offset /\ Head(edata) \in Byte /\ cache \in Image
  <2>1. off \in Nat /\ edata \in Seq(Byte) /\ off + Len(edata) <= SIZE /\ edata # << >>
    BY <1>2, <1>3 DEF Asked
  <2>2. Len(edata) >= 1 /\ Len(edata) \in Nat /\ Head(edata) \in Byte
    BY <2>1
  <2> QED BY <1>2, <1>3, <2>1, <2>2, EepromAssumption DEF Offset, CopyKept
<1>5. chip.mode # "send" /\ Cycle /\ (epc = "poll" => Seen = 5 \/ AtRest)
  <2>1. Seen \in {call, call + 1} /\ (Seen = call + 1 => Working) /\ call \in Nat
    BY <1>2 DEF Seen, EepromTypeOK
  <2>2. CASE epc = "polled"
    <3>1. PollPlace /\ Len(todo) = 3
      BY <1>2, <2>2, PollIs DEF Program, PollPlace
    <3>2. Seen \in 1..4
      BY <2>1, <3>1 DEF PollPlace, Working
    <3> QED BY <2>2, <3>1, <3>2 DEF PollPlace, Mode
  <2>3. CASE epc = "poll" /\ WritePlace
    <3>1. Len(todo) = 4
      BY <2>3, WriteIs DEF WritePlace
    <3>2. Seen \in 1..5
      <4>1. call \in 1..5 /\ (Working => call <= 4)
        BY <2>3, <3>1 DEF WritePlace, Working
      <4> QED BY <2>1, <4>1
    <3>3. Seen = 5
      BY <1>1, <2>3, <3>2 DEF WritePlace
    <3> QED BY <2>3, <3>3 DEF WritePlace, Mode
  <2>4. CASE epc = "poll" /\ AtRest /\ Cycle
    BY <2>4 DEF AtRest
  <2> QED BY <1>2, <1>3, <2>2, <2>3, <2>4 DEF Program
<1>6. Written
  BY <1>1, <1>5 DEF Cycle
<1> DEFINE m == [cache EXCEPT ![off] = Head(edata)]
<1>7. m \in Image /\ m = [cache EXCEPT ![off] = Head(edata)]
  BY <1>4 DEF Image
<1> HIDE DEF m
<1>8. chip' = [chip EXCEPT !.mem = m, !.byte = NoByte, !.busy = FALSE]
  BY <1>1, <1>2, <1>6, <1>7 DEF Written, ChipType
<1>9. chip' \in ChipType
  BY <1>2, <1>7, <1>8 DEF ChipType
<1>10. /\ chip'.mode = chip.mode /\ chip'.bits = chip.bits /\ chip'.sent = chip.sent
       /\ chip'.ack = chip.ack /\ chip'.addr = chip.addr /\ chip'.out = chip.out
       /\ chip'.mem = m /\ chip'.byte = NoByte /\ ~chip'.busy
  BY <1>2, <1>8 DEF ChipType
<1>11. EepromTypeOK'
  BY <1>1, <1>2, <1>9 DEF EepromTypeOK
<1>12. WireInv'
  BY <1>1, <1>2, <1>5, <1>10, CycleEnds
<1>13. Cycle' /\ Seen' = Seen /\ Mode' = Mode /\ (AtRest => AtRest')
  <2>1. Cycle'
    BY <1>1, <1>7, <1>10 DEF Cycle, Stored
  <2> QED BY <1>1, <1>10, <2>1 DEF Seen, Working, Past, Cur, Mode, AtRest
<1>14. Program'
  <2>1. epc = "polled" => PollPlace'
    BY <1>1, <1>2, <1>10, <1>13 DEF Program, PollPlace
  <2>2. epc = "poll" /\ WritePlace /\ Seen = 5 => WritePlace'
    BY <1>1, <1>13 DEF WritePlace
  <2> QED BY <1>1, <1>2, <1>3, <1>5, <1>13, <2>1, <2>2 DEF Program
<1>15. CopyKept' /\ Asked' /\ BytesGot'
  <2>1. epc \notin {"start", "scanned", "read", "got", "ready", "next", "write"}
    BY <1>3
  <2>2. CopyKept'
    BY <1>1, <1>2, <1>3 DEF CopyKept
  <2> QED BY <1>1, <1>2, <1>3, <2>2 DEF Asked, BytesGot
<1> QED BY <1>1, <1>11, <1>12, <1>14, <1>15 DEF EepromInv

(* A routine returns or goes on: the driver between two sequences.         *)
LEMMA AtIs ==
  ASSUME EepromInv, NEW pc, At(pc)
  PROVE  /\ epc = pc /\ ~Working /\ Seen = call /\ Mode = chip.mode /\ chip.mode # "start"
         /\ Rest /\ indata = << >> /\ call = Len(todo) + 1
         /\ IF pc \in {"read", "write"} THEN Bus(0, 0) ELSE Bus(1, 1)
<1>1. call \in Nat /\ Len(todo) \in Nat
  BY TodoLen DEF EepromInv, EepromTypeOK
<1>2. epc = pc /\ ~Working /\ call > Len(todo)
  BY <1>1 DEF At, Working
<1>3. Seen = call
  BY <1>2 DEF Seen
<1>4. DoneWire /\ indata = << >>
  BY <1>2 DEF EepromInv, WireInv
<1>5. call <= Len(todo) + 1
  <2>1. CASE AtRest
    BY <2>1 DEF AtRest
  <2>2. CASE ScanPlace
    <3>1. Len(todo) = 5 /\ call <= 6
      BY <2>2, ScanIs DEF ScanPlace
    <3> QED BY <3>1
  <2>3. CASE SelectPlace
    <3>1. Len(todo) = 2 /\ call <= 3
      BY <2>3, SelectIs DEF SelectPlace
    <3> QED BY <3>1
  <2>4. CASE PollPlace
    <3>1. Len(todo) = 3 /\ call <= 4
      BY <2>4, PollIs DEF PollPlace
    <3> QED BY <3>1
  <2>5. CASE WritePlace
    <3>1. Len(todo) = 4
      BY <2>5, WriteIs DEF WritePlace
    <3>2. call <= 5
      BY <2>5 DEF WritePlace
    <3> QED BY <3>1, <3>2
  <2>6. CASE epc = "got"
    <3>1. edata \in Nat \ {0} /\ ReadPlace
      BY <2>6 DEF EepromInv, Program, Asked
    <3>2. Len(todo) = edata + 6
      BY <3>1, ReadIs DEF ReadPlace
    <3>3. call <= edata + 7
      BY <3>1 DEF ReadPlace
    <3> QED BY <3>1, <3>2, <3>3
  <2> QED BY <2>1, <2>2, <2>3, <2>4, <2>5, <2>6 DEF EepromInv, Program
<1> QED BY <1>1, <1>2, <1>3, <1>4, <1>5 DEF DoneWire, Mode

(* The next calls find the lines as they need them.                        *)
LEMMA DoInv ==
  ASSUME EepromInv, NEW pc, NEW to, NEW s, At(pc), Do(to, s), Len(s) \in Nat,
         calls' \in Nat, fake' \in BOOLEAN,
         \/ s = << >> /\ pc \notin {"read", "write"} /\ to \notin {"read", "write"}
         \/ /\ Len(s) >= 1 /\ s[1].f = "start"
            /\ pc \notin {"read", "write"} /\ chip.mode = "idle"
         \/ /\ Len(s) >= 1 /\ s[1].f = "put" /\ s[1].byte \in Byte
            /\ pc \in {"read", "write"} /\ chip.mode = "hi"
  PROVE  /\ EepromTypeOK' /\ WireInv' /\ chip' = chip /\ nack' = nack /\ indata' = << >>
         /\ epc' = to /\ todo' = s /\ call' = 1 /\ Seen' = 1 /\ Mode' = chip.mode
         /\ s = << >> => ~Working'
<1>1. /\ epc = pc /\ ~Working /\ Rest /\ chip.mode # "start" /\ indata = << >>
      /\ IF pc \in {"read", "write"} THEN Bus(0, 0) ELSE Bus(1, 1)
  BY AtIs
<1>2. /\ epc' = to /\ todo' = s /\ call' = 1 /\ bit' = FirstRound(s, 1) /\ ph' = 1
      /\ nack' = nack /\ indata' = indata /\ sda' = sda /\ scl' = scl /\ chip' = chip
  BY DEF Do
<1>3. chip \in ChipType /\ EepromTypeOK
  BY DEF EepromInv, EepromTypeOK
<1>4. Rest'
  BY <1>1, <1>2 DEF Rest, Sending, Quiet
<1>5. /\ Cur' = s[1]
      /\ Len(s) >= 1 => Working'
      /\ s = << >> => ~Working'
  BY <1>2 DEF Cur, Working
<1>6. CallReady'
  <2>1. CASE s = << >> /\ pc \notin {"read", "write"} /\ to \notin {"read", "write"}
    <3>1. Bus(1, 1)'
      BY <1>1, <1>2, <2>1 DEF Bus
    <3> QED BY <1>1, <1>2, <1>4, <1>5, <2>1, <3>1, ReadyIs
  <2>2. CASE /\ Len(s) >= 1 /\ s[1].f = "start"
             /\ pc \notin {"read", "write"} /\ chip.mode = "idle"
    <3>1. Bus(1, 1)'
      BY <1>1, <1>2, <2>2 DEF Bus
    <3> QED BY <1>1, <1>2, <1>4, <1>5, <2>2, <3>1, ReadyIs
  <2>3. CASE /\ Len(s) >= 1 /\ s[1].f = "put" /\ s[1].byte \in Byte
             /\ pc \in {"read", "write"} /\ chip.mode = "hi"
    <3>1. Bus(0, 0)'
      BY <1>1, <1>2, <2>3 DEF Bus
    <3> QED BY <1>1, <1>2, <1>4, <1>5, <2>3, <3>1, ReadyIs
  <2> QED BY <2>1, <2>2, <2>3
<1>7. chip'.mode = "send" => chip'.addr \in Offset
  BY <1>2 DEF EepromInv, WireInv
<1>8. WireInv' /\ bit' \in 0..(Bits + 1) /\ ~Past'
  <2>1. chip' \in ChipType /\ ph' = 1 /\ bit' = FirstRound(todo', call') /\ indata' = << >>
        /\ call' \in Nat /\ Len(todo') \in Nat
    BY <1>1, <1>2, <1>3
  <2> QED BY <1>6, <1>7, <2>1, ReadyWire
<1>9. EepromTypeOK'
  BY <1>1, <1>2, <1>3, <1>8 DEF EepromTypeOK
<1>10. Seen' = 1 /\ Mode' = chip.mode
  BY <1>1, <1>2, <1>8 DEF Seen, Mode
<1> QED BY <1>1, <1>2, <1>5, <1>8, <1>9, <1>10

(* Nothing to do.                                                          *)
LEMMA RestInv ==
  ASSUME EepromInv, NEW pc, NEW to, At(pc), Do(to, << >>), calls' \in Nat, fake' \in BOOLEAN,
         pc \notin {"read", "write"}, to \in {"ready", "next"}, chip.mode = "idle"
  PROVE  /\ EepromTypeOK' /\ WireInv' /\ Program' /\ chip' = chip /\ indata' = << >>
         /\ epc' = to /\ nack' = nack
<1>1. /\ EepromTypeOK' /\ WireInv' /\ chip' = chip /\ nack' = nack /\ indata' = << >>
      /\ epc' = to /\ todo' = << >> /\ call' = 1
  BY DoInv
<1>2. AtRest'
  BY <1>1 DEF AtRest
<1> QED BY <1>1, <1>2 DEF Program

(* A START on a bus at rest.                                               *)
LEMMA BeginInv ==
  ASSUME EepromInv, NEW pc, NEW to, NEW s \in {ScanCalls, SelectCalls, PollCalls},
         At(pc), Do(to, s), calls' \in Nat, fake' \in BOOLEAN,
         pc \notin {"read", "write"}, chip.mode = "idle"
  PROVE  /\ EepromTypeOK' /\ WireInv' /\ chip' = chip /\ nack' = nack
         /\ epc' = to /\ todo' = s /\ call' = 1 /\ Seen' = 1 /\ Mode' = "idle"
<1>1. Len(s) \in {2, 3, 5} /\ s[1].f = "start"
  BY ScanIs, SelectIs, PollIs
<1>2. Len(s) \in Nat /\ Len(s) >= 1 /\ s[1].f = "start"
  BY <1>1
<1> QED BY <1>2, DoInv

(* mi2c_scan has returned: somebody is there.                              *)
LEMMA AtScanned ==
  ASSUME EepromInv, At("scanned")
  PROVE  chip.mode = "idle" /\ nack = 0 /\ ~fake /\ calls = 0 /\ readBack = NothingRead
<1>1. ScanPlace /\ epc = "scanned" /\ call = 6 /\ Seen = 6 /\ Mode = chip.mode
  <2>1. ScanPlace /\ epc = "scanned" /\ Seen = call /\ Mode = chip.mode /\ call = Len(todo) + 1
    BY AtIs DEF EepromInv, Program
  <2>2. Len(todo) = 5
    BY <2>1, ScanIs DEF ScanPlace
  <2> QED BY <2>1, <2>2
<1> QED BY <1>1 DEF ScanPlace, EepromInv, CopyKept

(* The chip took its address.                                              *)
LEMMA AtSelected ==
  ASSUME EepromInv, NEW pc \in {"read", "write"}, At(pc)
  PROVE  chip.mode = "hi" /\ nack = 0 /\ ~fake /\ readBack = NothingRead
<1>1. SelectPlace /\ epc = pc /\ call = 3 /\ Seen = 3 /\ Mode = chip.mode
  <2>1. SelectPlace /\ epc = pc /\ Seen = call /\ Mode = chip.mode /\ call = Len(todo) + 1
    BY AtIs DEF EepromInv, Program
  <2>2. Len(todo) = 2
    BY <2>1, SelectIs DEF SelectPlace
  <2> QED BY <2>1, <2>2
<1> QED BY <1>1 DEF SelectPlace, EepromInv, CopyKept

(* The chip answered, or it is in its write cycle.                         *)
LEMMA AtPolled ==
  ASSUME EepromInv, At("polled")
  PROVE  chip.mode = "idle" /\ Cycle /\ (nack = 0 => ~chip.busy)
<1>1. PollPlace /\ epc = "polled" /\ call = 4 /\ Seen = 4 /\ Mode = chip.mode
  <2>1. PollPlace /\ epc = "polled" /\ Seen = call /\ Mode = chip.mode /\ call = Len(todo) + 1
    BY AtIs DEF EepromInv, Program
  <2>2. Len(todo) = 3
    BY <2>1, PollIs DEF PollPlace
  <2> QED BY <2>1, <2>2
<1> QED BY <1>1 DEF PollPlace

(* The byte was sent, or asked after.                                      *)
LEMMA AtPoll ==
  ASSUME EepromInv, At("poll")
  PROVE  chip.mode = "idle" /\ Cycle
<1>1. epc = "poll" /\ Seen = call /\ Mode = chip.mode /\ call = Len(todo) + 1
  BY AtIs
<1>2. CASE AtRest /\ Cycle
  BY <1>2 DEF AtRest
<1>3. CASE WritePlace
  <2>1. Len(todo) = 4
    BY <1>3, WriteIs DEF WritePlace
  <2>2. Seen = 5
    BY <1>1, <2>1
  <2> QED BY <1>1, <1>3, <2>2 DEF WritePlace
<1> QED BY <1>1, <1>2, <1>3 DEF EepromInv, Program

(* All bytes were read.                                                    *)
LEMMA AtGot ==
  ASSUME EepromInv, At("got")
  PROVE  /\ chip.mode = "idle" /\ ~fake /\ readBack = NothingRead
         /\ edata \in Nat \ {0} /\ off \in Nat /\ off + edata <= SIZE
         /\ rx \in Seq(Byte) /\ Len(rx) = edata
         /\ \A i \in 1..edata : rx[i] = chip.mem[off + (i - 1)]
<1>1. epc = "got" /\ Seen = call /\ Mode = chip.mode /\ call = Len(todo) + 1 /\ ReadPlace
  BY AtIs DEF EepromInv, Program
<1>2. edata \in Nat \ {0} /\ off \in Nat /\ off + edata <= SIZE
  BY <1>1 DEF EepromInv, Asked
<1>3. call = edata + 7
  <2>1. Len(todo) = edata + 6
    BY <1>1, <1>2, ReadIs DEF ReadPlace
  <2> QED BY <1>1, <1>2, <2>1
<1>4. chip.mode = "idle"
  BY <1>1, <1>2, <1>3 DEF ReadPlace
<1>5. /\ rx \in Seq(Byte) /\ Len(rx) = edata
      /\ \A i \in 1..Len(rx) : rx[i] = chip.mem[off + (i - 1)]
  BY <1>1, <1>2, <1>3 DEF EepromInv, BytesGot
<1>6. ~fake /\ readBack = NothingRead
  BY <1>1 DEF EepromInv, CopyKept
<1> QED BY <1>2, <1>4, <1>5, <1>6

(* The actions of the driver, one by one.                                  *)
LEMMA ScanInv ==
  ASSUME EepromInv, Scan
  PROVE  EepromInv' /\ epc' # "start"
<1>1. /\ At("start") /\ Do("scanned", ScanCalls)
      /\ UNCHANGED <<rx, off, edata, cache, fake, readBack, calls>>
  BY DEF Scan
<1>2. /\ epc = "start" /\ AtRest /\ CopyKept /\ calls \in Nat /\ fake \in BOOLEAN
  BY <1>1 DEF At, EepromInv, Program, EepromTypeOK
<1>3. /\ EepromTypeOK' /\ WireInv' /\ chip' = chip /\ nack' = nack
      /\ epc' = "scanned" /\ todo' = ScanCalls /\ call' = 1 /\ Seen' = 1 /\ Mode' = "idle"
  <2>1. calls' \in Nat /\ fake' \in BOOLEAN /\ chip.mode = "idle"
    BY <1>1, <1>2 DEF AtRest
  <2> QED BY <1>1, <2>1, BeginInv
<1>4. ScanPlace'
  BY <1>3 DEF ScanPlace
<1>5. CopyKept'
  BY <1>1, <1>2, <1>3 DEF CopyKept
<1> QED BY <1>3, <1>4, <1>5 DEF EepromInv, Program, Asked, BytesGot

(* A file in the place of the EEPROM is not compared with it.              *)
LEMMA FakeItInv ==
  ASSUME EepromInv, FakeIt
  PROVE  EepromInv' /\ epc' # "start"
<1>1. /\ At("scanned") /\ Do("ready", << >>) /\ fake' = TRUE /\ cache' \in Image
      /\ UNCHANGED <<rx, off, edata, readBack, calls>>
  BY DEF FakeIt
<1>2. chip.mode = "idle" /\ readBack = NothingRead /\ calls \in Nat /\ epc = "scanned" /\ CopyKept
  BY <1>1, AtScanned DEF At, EepromInv, EepromTypeOK
<1>3. /\ EepromTypeOK' /\ WireInv' /\ Program' /\ chip' = chip /\ epc' = "ready"
  BY <1>1, <1>2, RestInv
<1>4. CopyKept'
  BY <1>1, <1>2, <1>3 DEF CopyKept
<1> QED BY <1>3, <1>4 DEF EepromInv, Asked, BytesGot

(* spec_i2c_init reads the whole EEPROM.                                   *)
LEMMA ReadAllInv ==
  ASSUME EepromInv, ReadAll
  PROVE  EepromInv' /\ epc' # "start"
<1>1. /\ At("scanned") /\ Do("read", SelectCalls)
      /\ off' = 0 /\ edata' = SIZE /\ rx' = << >>
      /\ UNCHANGED <<cache, fake, readBack, calls>>
  BY DEF ReadAll
<1>2. /\ chip.mode = "idle" /\ readBack = NothingRead /\ calls = 0 /\ ~fake /\ fake \in BOOLEAN
      /\ epc = "scanned" /\ CopyKept
  BY <1>1, AtScanned DEF At, EepromInv, EepromTypeOK
<1>3. /\ EepromTypeOK' /\ WireInv' /\ chip' = chip /\ nack' = nack
      /\ epc' = "read" /\ todo' = SelectCalls /\ call' = 1 /\ Seen' = 1 /\ Mode' = "idle"
  <2>1. calls' \in Nat /\ fake' \in BOOLEAN /\ chip.mode = "idle"
    BY <1>1, <1>2 DEF AtRest
  <2> QED BY <1>1, <2>1, BeginInv
<1>4. SelectPlace'
  BY <1>3 DEF SelectPlace
<1>5. CopyKept'
  BY <1>1, <1>2, <1>3 DEF CopyKept
<1>6. Asked'
  BY <1>1, <1>3, EepromAssumption DEF Asked
<1>7. BytesGot'
  BY <1>1, <1>3 DEF BytesGot
<1> QED BY <1>3, <1>4, <1>5, <1>6, <1>7 DEF EepromInv, Program

(* The offset of a read is in the chip.                                    *)
LEMMA ReadAckedInv ==
  ASSUME EepromInv, ReadAcked
  PROVE  EepromInv' /\ epc' # "start"
<1>1. /\ At("read") /\ Do("got", ReadCalls(off, edata))
      /\ UNCHANGED <<rx, off, edata, cache, fake, readBack, calls>>
  BY DEF ReadAcked
<1>2. /\ chip.mode = "hi" /\ readBack = NothingRead /\ calls \in Nat /\ ~fake /\ fake \in BOOLEAN
      /\ epc = "read" /\ CopyKept /\ rx = << >>
      /\ edata \in Nat \ {0} /\ off \in Nat /\ off + edata <= SIZE
      /\ calls = 0 => off = 0 /\ edata = SIZE
  BY <1>1, AtSelected DEF At, EepromInv, EepromTypeOK, Asked, BytesGot
<1>3. off \in Offset
  BY <1>2, EepromAssumption DEF Offset
<1> DEFINE s == ReadCalls(off, edata)
<1>4. Len(s) = edata + 6 /\ s[1].f = "put" /\ s[1].byte \in Byte
  BY <1>2, <1>3, ReadIs, DigitsAssumption
<1>5. Do("got", s) /\ s = ReadCalls(off, edata)
  BY <1>1
<1> HIDE DEF s
<1>6. Len(s) \in Nat /\ Len(s) >= 1
  BY <1>2, <1>4
<1>7. /\ EepromTypeOK' /\ WireInv' /\ chip' = chip /\ nack' = nack /\ indata' = << >>
      /\ epc' = "got" /\ todo' = s /\ call' = 1 /\ Seen' = 1 /\ Mode' = "hi"
  BY <1>1, <1>2, <1>4, <1>5, <1>6, DoInv
<1>8. ReadPlace'
  BY <1>1, <1>2, <1>5, <1>7 DEF ReadPlace
<1>9. CopyKept'
  BY <1>1, <1>2, <1>7 DEF CopyKept
<1>10. Asked'
  BY <1>1, <1>2, <1>7 DEF Asked
<1>11. BytesGot'
  BY <1>1, <1>2, <1>7 DEF BytesGot
<1> QED BY <1>7, <1>8, <1>9, <1>10, <1>11 DEF EepromInv, Program

(* What was read is the part of the chip that was asked for.               *)
LEMMA ReadDoneInv ==
  ASSUME EepromInv, ReadDone
  PROVE  EepromInv' /\ epc' # "start"
<1>1. /\ At("got") /\ Do("ready", << >>)
      /\ IF calls = 0 THEN cache' = Bytes(rx) /\ readBack' = readBack
         ELSE readBack' = [off |-> off, bytes |-> Bytes(rx)] /\ cache' = cache
      /\ off' = 0 /\ fake' = fake /\ calls' = calls
  BY DEF ReadDone
<1>2. /\ chip.mode = "idle" /\ readBack = NothingRead /\ calls \in Nat /\ ~fake /\ fake \in BOOLEAN
      /\ epc = "got" /\ CopyKept
      /\ edata \in Nat \ {0} /\ off \in Nat /\ off + edata <= SIZE
      /\ rx \in Seq(Byte) /\ Len(rx) = edata
      /\ \A i \in 1..edata : rx[i] = chip.mem[off + (i - 1)]
      /\ calls = 0 => off = 0 /\ edata = SIZE
      /\ chip.mem \in Image
  BY <1>1, AtGot DEF At, EepromInv, EepromTypeOK, ChipType, Asked
<1>3. /\ EepromTypeOK' /\ WireInv' /\ Program' /\ chip' = chip /\ epc' = "ready"
  BY <1>1, <1>2, RestInv
<1> DEFINE bs == Bytes(rx)
<1>4. bs = [k \in 0..(edata - 1) |-> rx[k + 1]]
  BY <1>2 DEF Bytes
<1>5. \A k \in 0..(edata - 1) : bs[k] = chip.mem[off + k]
  <2>1. SUFFICES ASSUME NEW k \in 0..(edata - 1) PROVE bs[k] = chip.mem[off + k]
    OBVIOUS
  <2>2. k + 1 \in 1..edata /\ off + ((k + 1) - 1) = off + k
    BY <1>2
  <2> QED BY <1>2, <1>4, <2>2
<1>6. DOMAIN bs = 0..(edata - 1)
  BY <1>4
<1>7. bs = Bytes(rx)
  OBVIOUS
<1> HIDE DEF bs
<1>8. cache' = chip.mem /\ \A k \in DOMAIN readBack'.bytes : readBack'.bytes[k] = chip.mem[readBack'.off + k]
  <2>1. CASE calls = 0
    <3>1. cache' = bs /\ off = 0 /\ edata = SIZE /\ readBack' = NothingRead
      BY <1>1, <1>2, <1>7, <2>1
    <3>2. DOMAIN bs = Offset
      BY <1>6, <3>1 DEF Offset
    <3>3. \A k \in Offset : bs[k] = chip.mem[k]
      <4>1. \A k \in Offset : 0 + k = k /\ k \in 0..(edata - 1)
        BY <3>1, EepromAssumption DEF Offset
      <4> QED BY <1>5, <3>1, <4>1
    <3>4. bs = [k \in Offset |-> bs[k]]
      BY <1>4, <3>2
    <3>5. chip.mem = [k \in Offset |-> chip.mem[k]]
      BY <1>2 DEF Image
    <3>6. bs = chip.mem
      BY <3>3, <3>4, <3>5
    <3> QED BY <3>1, <3>6 DEF NothingRead
  <2>2. CASE calls # 0
    <3>1. cache' = chip.mem
      BY <1>1, <1>2, <2>2 DEF CopyKept
    <3>2. readBack' = [off |-> off, bytes |-> bs]
      BY <1>1, <1>7, <2>2
    <3>3. readBack'.off = off /\ readBack'.bytes = bs
      BY <3>2
    <3> QED BY <1>5, <1>6, <3>1, <3>3
  <2> QED BY <2>1, <2>2
<1>9. CopyKept'
  BY <1>1, <1>2, <1>3, <1>8 DEF CopyKept
<1> QED BY <1>3, <1>9 DEF EepromInv, Asked, BytesGot

(* read_ee past the end is refused.                                        *)
LEMMA ReadEeInv ==
  ASSUME EepromInv, MinRead >= 1, NEW o \in 0..SIZE, NEW n \in MinRead..SIZE, ReadEe(o, n)
  PROVE  EepromInv' /\ epc' # "start"
<1>1. /\ At("ready") /\ calls' = calls + 1 /\ readBack' = NothingRead
      /\ cache' = cache /\ fake' = fake
  BY DEF ReadEe
<1>2. /\ epc = "ready" /\ AtRest /\ CopyKept /\ calls \in Nat /\ fake \in BOOLEAN
  BY <1>1 DEF At, EepromInv, Program, EepromTypeOK
<1>3. calls' \in Nat /\ calls' > 0 /\ fake' \in BOOLEAN /\ chip.mode = "idle"
  BY <1>1, <1>2 DEF AtRest
<1>4. CASE fake \/ o + n > SIZE
  <2>1. Do("ready", << >>)
    BY <1>4 DEF ReadEe
  <2>2. EepromTypeOK' /\ WireInv' /\ Program' /\ chip' = chip /\ epc' = "ready"
    BY <1>1, <1>3, <2>1, RestInv
  <2>3. CopyKept'
    BY <1>1, <1>2, <2>2 DEF CopyKept, NothingRead
  <2> QED BY <2>2, <2>3 DEF EepromInv, Asked, BytesGot
<1>5. CASE ~(fake \/ o + n > SIZE)
  <2>1. off' = o /\ edata' = n /\ rx' = << >> /\ Do("read", SelectCalls)
    BY <1>5 DEF ReadEe
  <2>2. /\ EepromTypeOK' /\ WireInv' /\ chip' = chip /\ nack' = nack
        /\ epc' = "read" /\ todo' = SelectCalls /\ call' = 1 /\ Seen' = 1 /\ Mode' = "idle"
    BY <1>1, <1>3, <2>1, BeginInv
  <2>3. SelectPlace'
    BY <2>2 DEF SelectPlace
  <2>4. CopyKept'
    BY <1>1, <1>2, <1>5, <2>2 DEF CopyKept
  <2>5. Asked'
    <3>1. o \in Nat /\ n \in Nat \ {0} /\ o + n <= SIZE
      BY <1>5, EepromAssumption
    <3> QED BY <1>3, <2>1, <2>2, <3>1 DEF Asked
  <2>6. BytesGot'
    BY <2>1, <2>2 DEF BytesGot
  <2> QED BY <2>2, <2>3, <2>4, <2>5, <2>6 DEF EepromInv, Program
<1> QED BY <1>4, <1>5

(* write_ee past the end is refused, too.                                  *)
LEMMA WriteEeInv ==
  ASSUME EepromInv, NEW o \in 0..SIZE, NEW s \in Seq(Byte), WriteEe(o, s)
  PROVE  EepromInv' /\ epc' # "start"
<1>1. /\ At("ready") /\ calls' = calls + 1 /\ readBack' = NothingRead
      /\ cache' = cache /\ fake' = fake
  BY DEF WriteEe
<1>2. /\ epc = "ready" /\ AtRest /\ CopyKept /\ calls \in Nat /\ fake \in BOOLEAN
  BY <1>1 DEF At, EepromInv, Program, EepromTypeOK
<1>3. calls' \in Nat /\ calls' > 0 /\ fake' \in BOOLEAN /\ chip.mode = "idle"
  BY <1>1, <1>2 DEF AtRest
<1>4. CASE o + Len(s) > SIZE
  <2>1. Do("ready", << >>)
    BY <1>4 DEF WriteEe
  <2>2. EepromTypeOK' /\ WireInv' /\ Program' /\ chip' = chip /\ epc' = "ready"
    BY <1>1, <1>3, <2>1, RestInv
  <2>3. CopyKept'
    BY <1>1, <1>2, <2>2 DEF CopyKept, NothingRead
  <2> QED BY <2>2, <2>3 DEF EepromInv, Asked, BytesGot
<1>5. CASE ~(o + Len(s) > SIZE)
  <2>1. off' = o /\ edata' = s /\ Do("next", << >>)
    BY <1>5 DEF WriteEe
  <2>2. EepromTypeOK' /\ WireInv' /\ Program' /\ chip' = chip /\ epc' = "next"
    BY <1>1, <1>3, <2>1, RestInv
  <2>3. CopyKept'
    BY <1>1, <1>2, <2>2 DEF CopyKept
  <2>4. o \in Nat /\ o + Len(s) <= SIZE
    BY <1>5, EepromAssumption
  <2>5. Asked'
    BY <2>1, <2>2, <2>4 DEF Asked
  <2> QED BY <2>2, <2>3, <2>5 DEF EepromInv, BytesGot
<1> QED BY <1>4, <1>5

(* A byte is written: the copy and what is left to write.                  *)
LEMMA AdvanceIs ==
  ASSUME Advance, off \in Nat, edata \in Seq(Byte), edata # << >>, off + Len(edata) <= SIZE,
         cache \in Image
  PROVE  /\ cache' = [cache EXCEPT ![off] = Head(edata)] /\ cache' \in Image
         /\ off' \in Nat /\ edata' \in Seq(Byte) /\ off' + Len(edata') <= SIZE
<1>1. Head(edata) \in Byte /\ Tail(edata) \in Seq(Byte) /\ Len(Tail(edata)) = Len(edata) - 1
      /\ Len(edata) \in Nat
  OBVIOUS
<1>2. cache' = [cache EXCEPT ![off] = Head(edata)] /\ off' = off + 1 /\ edata' = Tail(edata)
  BY DEF Advance
<1>3. cache' \in Image
  BY <1>1, <1>2 DEF Image
<1> QED BY <1>1, <1>2, <1>3

(* A fake EEPROM is only the copy.                                         *)
LEMMA WriteFakeInv ==
  ASSUME EepromInv, WriteFake
  PROVE  EepromInv' /\ epc' # "start"
<1>1. /\ At("next") /\ Do("next", << >>) /\ edata # << >> /\ fake /\ Advance
      /\ fake' = fake /\ readBack' = readBack /\ calls' = calls
  BY DEF WriteFake
<1>2. /\ epc = "next" /\ AtRest /\ CopyKept /\ calls \in Nat /\ fake \in BOOLEAN
      /\ off \in Nat /\ edata \in Seq(Byte) /\ off + Len(edata) <= SIZE
  BY <1>1 DEF At, EepromInv, Program, EepromTypeOK, Asked
<1>3. EepromTypeOK' /\ WireInv' /\ Program' /\ chip' = chip /\ epc' = "next"
  BY <1>1, <1>2, RestInv DEF AtRest
<1>4. /\ cache' \in Image
      /\ off' \in Nat /\ edata' \in Seq(Byte) /\ off' + Len(edata') <= SIZE
  BY <1>1, <1>2, AdvanceIs DEF CopyKept
<1>5. CopyKept'
  BY <1>1, <1>2, <1>3, <1>4 DEF CopyKept
<1>6. Asked'
  BY <1>3, <1>4 DEF Asked
<1> QED BY <1>3, <1>5, <1>6 DEF EepromInv, BytesGot

(* The next byte of a write.                                               *)
LEMMA WriteByteInv ==
  ASSUME EepromInv, WriteByte
  PROVE  EepromInv' /\ epc' # "start"
<1>1. /\ At("next") /\ Do("write", SelectCalls) /\ edata # << >> /\ ~fake
      /\ UNCHANGED <<rx, off, edata, cache, fake, readBack, calls>>
  BY DEF WriteByte
<1>2. /\ epc = "next" /\ AtRest /\ CopyKept /\ calls \in Nat /\ fake \in BOOLEAN /\ Asked
  BY <1>1 DEF At, EepromInv, Program, EepromTypeOK
<1>3. /\ EepromTypeOK' /\ WireInv' /\ chip' = chip /\ nack' = nack
      /\ epc' = "write" /\ todo' = SelectCalls /\ call' = 1 /\ Seen' = 1 /\ Mode' = "idle"
  <2>1. calls' \in Nat /\ fake' \in BOOLEAN /\ chip.mode = "idle"
    BY <1>1, <1>2 DEF AtRest
  <2> QED BY <1>1, <2>1, BeginInv
<1>4. SelectPlace'
  BY <1>3 DEF SelectPlace
<1>5. CopyKept'
  BY <1>1, <1>2, <1>3 DEF CopyKept
<1>6. Asked'
  BY <1>1, <1>2, <1>3 DEF Asked
<1> QED BY <1>3, <1>4, <1>5, <1>6 DEF EepromInv, Program, BytesGot

(* All bytes are written, and the copy has them.                           *)
LEMMA WriteReturnsInv ==
  ASSUME EepromInv, WriteReturns
  PROVE  EepromInv' /\ epc' # "start"
<1>1. /\ At("next") /\ Do("ready", << >>)
      /\ cache' = cache /\ fake' = fake /\ readBack' = readBack /\ calls' = calls
  BY DEF WriteReturns
<1>2. /\ epc = "next" /\ AtRest /\ CopyKept /\ calls \in Nat /\ fake \in BOOLEAN
  BY <1>1 DEF At, EepromInv, Program, EepromTypeOK
<1>3. EepromTypeOK' /\ WireInv' /\ Program' /\ chip' = chip /\ epc' = "ready"
  BY <1>1, <1>2, RestInv DEF AtRest
<1>4. CopyKept'
  BY <1>1, <1>2, <1>3 DEF CopyKept, NothingRead
<1> QED BY <1>3, <1>4 DEF EepromInv, Asked, BytesGot

(* The chip took its address: the byte follows.                            *)
LEMMA WriteAckedInv ==
  ASSUME EepromInv, WriteAcked
  PROVE  EepromInv' /\ epc' # "start"
<1>1. /\ At("write") /\ Do("poll", WriteCalls(off, Head(edata)))
      /\ UNCHANGED <<rx, off, edata, cache, fake, readBack, calls>>
  BY DEF WriteAcked
<1>2. /\ chip.mode = "hi" /\ calls \in Nat /\ ~fake /\ fake \in BOOLEAN
      /\ epc = "write" /\ CopyKept /\ Asked
      /\ edata \in Seq(Byte) /\ off \in Nat /\ off + Len(edata) <= SIZE /\ edata # << >>
  BY <1>1, AtSelected DEF At, EepromInv, EepromTypeOK, Asked
<1>3. off \in Offset
  <2>1. Len(edata) >= 1 /\ Len(edata) \in Nat
    BY <1>2
  <2> QED BY <1>2, <2>1, EepromAssumption DEF Offset
<1> DEFINE s == WriteCalls(off, Head(edata))
<1>4. Len(s) = 4 /\ s[1].f = "put" /\ s[1].byte \in Byte
  BY <1>3, WriteIs, DigitsAssumption
<1>5. Do("poll", s) /\ s = WriteCalls(off, Head(edata))
  BY <1>1
<1> HIDE DEF s
<1>6. /\ EepromTypeOK' /\ WireInv' /\ chip' = chip /\ nack' = nack /\ indata' = << >>
      /\ epc' = "poll" /\ todo' = s /\ call' = 1 /\ Seen' = 1 /\ Mode' = "hi"
  BY <1>1, <1>2, <1>4, <1>5, DoInv
<1>7. WritePlace'
  BY <1>1, <1>2, <1>5, <1>6 DEF WritePlace, CopyKept
<1>8. CopyKept'
  BY <1>1, <1>2, <1>6 DEF CopyKept
<1>9. Asked'
  BY <1>1, <1>2, <1>6 DEF Asked
<1> QED BY <1>6, <1>7, <1>8, <1>9 DEF EepromInv, Program, BytesGot

(* The chip is asked whether it is ready.                                  *)
LEMMA PollInv ==
  ASSUME EepromInv, Poll
  PROVE  EepromInv' /\ epc' # "start"
<1>1. /\ At("poll") /\ Do("polled", PollCalls)
      /\ UNCHANGED <<rx, off, edata, cache, fake, readBack, calls>>
  BY DEF Poll
<1>2. /\ chip.mode = "idle" /\ Cycle /\ epc = "poll" /\ CopyKept /\ Asked
      /\ calls \in Nat /\ fake \in BOOLEAN
  BY <1>1, AtPoll DEF At, EepromInv, EepromTypeOK
<1>3. /\ EepromTypeOK' /\ WireInv' /\ chip' = chip /\ nack' = nack
      /\ epc' = "polled" /\ todo' = PollCalls /\ call' = 1 /\ Seen' = 1 /\ Mode' = "idle"
  <2>1. calls' \in Nat /\ fake' \in BOOLEAN /\ chip.mode = "idle"
    BY <1>1, <1>2 DEF AtRest
  <2> QED BY <1>1, <2>1, BeginInv
<1>4. Cycle'
  BY <1>1, <1>2, <1>3 DEF Cycle, Written, Stored
<1>5. PollPlace'
  BY <1>3, <1>4 DEF PollPlace
<1>6. CopyKept'
  BY <1>1, <1>2, <1>3 DEF CopyKept
<1>7. Asked'
  BY <1>1, <1>2, <1>3 DEF Asked
<1> QED BY <1>3, <1>5, <1>6, <1>7 DEF EepromInv, Program, BytesGot

(* It is: the copy takes the byte that the chip has.                       *)
LEMMA PolledInv ==
  ASSUME EepromInv, Polled
  PROVE  EepromInv' /\ epc' # "start"
<1>1. /\ At("polled") /\ rx' = rx /\ fake' = fake /\ readBack' = readBack /\ calls' = calls
  BY DEF Polled
<1>2. /\ chip.mode = "idle" /\ Cycle /\ (nack = 0 => ~chip.busy) /\ epc = "polled"
      /\ CopyKept /\ Asked /\ calls \in Nat /\ fake \in BOOLEAN /\ nack \in {0, 1}
      /\ off \in Nat /\ edata \in Seq(Byte) /\ off + Len(edata) <= SIZE /\ edata # << >>
      /\ cache \in Image /\ ~fake /\ readBack = NothingRead
  BY <1>1, AtPolled DEF At, EepromInv, EepromTypeOK, Asked, CopyKept
<1>3. CASE nack = 1
  <2>1. Do("poll", << >>) /\ cache' = cache /\ off' = off /\ edata' = edata
    BY <1>3 DEF Polled
  <2>2. /\ EepromTypeOK' /\ WireInv' /\ chip' = chip
        /\ epc' = "poll" /\ todo' = << >> /\ call' = 1
    BY <1>1, <1>2, <2>1, DoInv
  <2>3. AtRest' /\ Cycle'
    BY <1>2, <2>1, <2>2 DEF AtRest, Cycle, Written, Stored
  <2>4. CopyKept'
    BY <1>1, <1>2, <2>1, <2>2 DEF CopyKept
  <2>5. Asked'
    BY <1>1, <1>2, <2>1, <2>2 DEF Asked
  <2> QED BY <2>2, <2>3, <2>4, <2>5 DEF EepromInv, Program, BytesGot
<1>4. CASE nack = 0
  <2>1. Do("next", << >>) /\ Advance
    BY <1>4 DEF Polled
  <2>2. EepromTypeOK' /\ WireInv' /\ Program' /\ chip' = chip /\ epc' = "next"
    BY <1>1, <1>2, <2>1, RestInv
  <2>3. /\ cache' = [cache EXCEPT ![off] = Head(edata)] /\ cache' \in Image
        /\ off' \in Nat /\ edata' \in Seq(Byte) /\ off' + Len(edata') <= SIZE
    BY <1>2, <2>1, AdvanceIs
  <2>4. ~chip.busy /\ chip.byte = NoByte /\ chip.mem = [cache EXCEPT ![off] = Head(edata)]
    BY <1>2, <1>4 DEF Cycle, Stored
  <2>5. CopyKept'
    BY <1>1, <1>2, <2>2, <2>3, <2>4 DEF CopyKept
  <2>6. Asked'
    BY <2>2, <2>3 DEF Asked
  <2> QED BY <2>2, <2>5, <2>6 DEF EepromInv, BytesGot
<1> QED BY <1>2, <1>3, <1>4

(* Every step of the routines, on a card that is there.                    *)
LEMMA EepromStepInv ==
  ASSUME CopyInv, EepromStep
  PROVE  CopyInv'
<1>1. CASE LineOp
  <2>1. epc' = epc /\ present' = present /\ Working
    BY <1>1, LineOpIs
  <2>2. epc # "start"
    BY <2>1 DEF CopyInv, EepromInv, Program, AtRest, Working
  <2>3. present /\ epc # "failed" => EepromInv'
    BY <1>1, LineOpInv DEF CopyInv
  <2> QED BY <2>1, <2>2, <2>3 DEF CopyInv
<1>2. CASE ~LineOp
  <2>1. present' = present /\ epc # "failed"
    BY <1>2 DEF EepromStep, I2cInit, Reading, Writing, Do, At, Scan, NoMezzanine, NoMemory,
                FakeIt, ReadAll, ReadAcked, ReadNacked, ReadDone, WriteFake, WriteByte,
                WriteReturns, WriteNacked, WriteAcked, Poll, Polled
  <2>2. epc' # "start"
    BY <1>2 DEF EepromStep, I2cInit, Reading, Writing, Do, At, Scan, NoMezzanine, NoMemory,
                FakeIt, ReadAll, ReadAcked, ReadNacked, ReadDone, WriteFake, WriteByte,
                WriteReturns, WriteNacked, WriteAcked, Poll, Polled
  <2>3. SUFFICES ASSUME present, epc' # "failed", EepromInv
                 PROVE  EepromInv'
    BY <2>1, <2>2 DEF CopyInv
  <2>4. ~NoMezzanine
    BY <2>3, AtScanned DEF NoMezzanine
  <2>5. ~NoMemory
    BY <2>3 DEF NoMemory, Do
  <2>6. ~ReadNacked
    BY <2>3, AtSelected DEF ReadNacked
  <2>7. ~WriteNacked
    BY <2>3, AtSelected DEF WriteNacked
  <2> QED BY <1>2, <2>3, <2>4, <2>5, <2>6, <2>7, ScanInv, FakeItInv, ReadAllInv, ReadAckedInv, ReadDoneInv,
             WriteFakeInv, WriteByteInv, WriteReturnsInv, WriteAckedInv, PollInv, PolledInv
          DEF EepromStep, I2cInit, Reading, Writing
<1> QED BY <1>1, <1>2

(* Every call.                                                             *)
LEMMA EepromCallInv ==
  ASSUME CopyInv, EepromCall, MinRead >= 1
  PROVE  CopyInv'
<1>1. CASE \E o \in 0..SIZE, n \in MinRead..SIZE : ReadEe(o, n)
  <2>1. PICK o \in 0..SIZE, n \in MinRead..SIZE : ReadEe(o, n)
    BY <1>1
  <2>2. present' = present /\ epc = "ready" /\ epc' # "start"
    BY <2>1 DEF ReadEe, Do, At
  <2> QED BY <2>1, <2>2, ReadEeInv DEF CopyInv
<1>2. CASE \E o \in 0..SIZE, s \in SeqOf(Byte, SIZE) : s # << >> /\ WriteEe(o, s)
  <2>1. PICK o \in 0..SIZE, s \in SeqOf(Byte, SIZE) : s # << >> /\ WriteEe(o, s)
    BY <1>2
  <2>2. s \in Seq(Byte)
    <3>1. PICK m \in 0..SIZE : s \in [1..m -> Byte]
      BY <2>1 DEF SeqOf
    <3>2. m \in Nat
      BY EepromAssumption
    <3> QED BY <3>1, <3>2
  <2>3. present' = present /\ epc = "ready" /\ epc' # "start"
    BY <2>1 DEF WriteEe, Do, At
  <2> QED BY <2>1, <2>2, <2>3, WriteEeInv DEF CopyInv
<1> QED BY <1>1, <1>2 DEF EepromCall

(* The bus at rest.                                                        *)
LEMMA CopyInitInv == EepromInit => CopyInv
<1> SUFFICES ASSUME EepromInit PROVE EepromInv
  BY DEF CopyInv
<1>1. /\ epc = "start" /\ todo = << >> /\ call = 1 /\ bit = 0 /\ ph = 1
      /\ nack = 1 /\ indata = << >> /\ fake = FALSE
      /\ readBack = NothingRead /\ calls = 0 /\ sda = 1 /\ scl = 1
      /\ Bits \in Nat
  BY EepromAssumption DEF EepromInit
<1>2. PICK m \in Image :
        chip = [mode |-> "idle", bits |-> << >>, sent |-> 0, ack |-> FALSE, addr |-> 0,
                byte |-> NoByte, out |-> 1, mem |-> m, busy |-> FALSE]
  BY DEF EepromInit
<1>3. chip \in ChipType
  BY <1>2 DEF ChipType
<1>4. /\ chip.mode = "idle" /\ chip.bits = << >> /\ chip.sent = 0 /\ ~chip.ack /\ chip.out = 1
      /\ ~chip.busy /\ chip.byte = NoByte
  BY <1>2
<1>5. EepromTypeOK
  <2>1. /\ call \in Nat \ {0} /\ bit \in 0..(Bits + 1) /\ ph \in 1..5
        /\ sda \in {0, 1} /\ scl \in {0, 1} /\ nack \in {0, 1}
        /\ calls \in Nat
    <3>1. /\ call = 1 /\ bit = 0 /\ ph = 1 /\ nack = 1 /\ calls = 0 /\ sda = 1 /\ scl = 1
          /\ Bits \in Nat
      BY <1>1
    <3> QED BY <3>1
  <2>2. indata \in Seq({0, 1}) /\ fake \in BOOLEAN
    <3>1. indata = << >> /\ fake = FALSE
      BY <1>1
    <3>2. << >> \in Seq({0, 1})
      OBVIOUS
    <3> QED BY <3>1, <3>2
  <2> QED BY <1>3, <2>1, <2>2 DEF EepromTypeOK
<1>6. ~Working
  BY <1>1 DEF Working
<1>7. WireInv
  BY <1>1, <1>4, <1>6 DEF WireInv, DoneWire, Rest, Quiet, Bus
<1>8. Program /\ CopyKept /\ Asked /\ BytesGot
  BY <1>1, <1>4 DEF Program, AtRest, CopyKept, Asked, BytesGot
<1> QED BY <1>5, <1>7, <1>8 DEF EepromInv

(* Another card: whether it is there, and what it holds.                   *)
LEMMA ToEepromInv ==
  ASSUME CopyInv, ToEeprom
  PROVE  CopyInv'
<1>1. /\ UNCHANGED <<epc, todo, call, bit, ph, nack, indata, rx>>
      /\ UNCHANGED <<off, edata, cache, fake, readBack, calls, sda, scl>>
      /\ epc = "start"
  BY DEF ToEeprom, driverVars, routineVars, dataVars
<1>2. PICK m \in Image : chip' = [chip EXCEPT !.mem = m]
  BY DEF ToEeprom
<1>3. EepromInv /\ EepromTypeOK /\ chip \in ChipType /\ AtRest
  BY <1>1 DEF CopyInv, EepromInv, EepromTypeOK, Program
<1>4. chip' \in ChipType
  BY <1>2, <1>3 DEF ChipType
<1>5. /\ chip'.mode = chip.mode /\ chip'.bits = chip.bits /\ chip'.sent = chip.sent
      /\ chip'.ack = chip.ack /\ chip'.addr = chip.addr /\ chip'.out = chip.out
      /\ chip'.byte = chip.byte /\ chip'.busy = chip.busy
  BY <1>2, <1>3 DEF ChipType
<1>6. EepromTypeOK'
  BY <1>1, <1>3, <1>4 DEF EepromTypeOK
<1>7. WireInv'
  BY <1>1, <1>3, <1>5, CycleEnds DEF EepromInv, AtRest
<1>8. AtRest'
  BY <1>1, <1>3, <1>5 DEF AtRest
<1>9. CopyKept'
  BY <1>1, <1>3, <1>5 DEF EepromInv, CopyKept
<1> QED BY <1>1, <1>6, <1>7, <1>8, <1>9 DEF CopyInv, EepromInv, Program, Asked, BytesGot

(* Every step of the card.                                                 *)
LEMMA CopyNextInv ==
  ASSUME CopyInv, [Next]_vars, MinRead >= 1
  PROVE  CopyInv'
<1>1. CASE ToEeprom
  BY <1>1, ToEepromInv
<1>2. CASE Eeprom
  <2>1. ChipWritten => CopyInv'
    <3>1. SUFFICES ASSUME ChipWritten PROVE CopyInv'
      OBVIOUS
    <3>2. epc' = epc /\ present' = present
      BY <3>1 DEF ChipWritten, driverVars
    <3> QED BY <3>1, <3>2, ChipWrittenInv DEF CopyInv
  <2> QED BY <1>2, <2>1, EepromStepInv, EepromCallInv DEF Eeprom
<1>3. CASE UNCHANGED eepromVars
  BY <1>3 DEF eepromVars, driverVars, routineVars, dataVars, CopyInv, EepromInv, EepromTypeOK,
              WireInv, CallWire, DoneWire, StartWire, StopWire, PutBitWire, PutAckWire,
              GetHeadWire, GetBitWire, GetEndWire, Working, Cur, Past, Seen, Mode, Bus, Quiet,
              Sending, Rest, Collected, Program, AtRest, ScanPlace, SelectPlace, ReadPlace,
              Written, Stored, Cycle, WritePlace, PollPlace, CopyKept, Asked, BytesGot
<1>4. Load \/ ToTools \/ Tools \/ Reload \/ UNCHANGED vars => UNCHANGED eepromVars
  BY DEF Load, ToTools, Tools, Reload, vars
<1> QED BY <1>1, <1>2, <1>3, <1>4 DEF Next

(* The copy that drivers read as fmc->eeprom is the contents of the chip,  *)
(* whatever its size and however often it was written: every byte goes     *)
(* over the two lines bit by bit and arrives where it was meant to.  A     *)
(* read of no byte at all leaves the chip sending.                         *)
THEOREM CopyCorrect == MinRead >= 1 => (Spec => []CacheIsChip)
<1> SUFFICES ASSUME MinRead >= 1 PROVE Spec => []CacheIsChip
  OBVIOUS
<1>1. Init => CopyInv
  BY CopyInitInv DEF Init
<1>2. CopyInv /\ [Next]_vars => CopyInv'
  BY CopyNextInv
<1>3. CopyInv => CacheIsChip
  <2> SUFFICES ASSUME EepromInv, epc = "ready", ~fake
               PROVE  /\ ~chip.busy
                      /\ cache = chip.mem
                      /\ \A k \in DOMAIN readBack.bytes :
                           readBack.bytes[k] = chip.mem[readBack.off + k]
    BY DEF CopyInv, CacheIsChip, At
  <2> QED BY DEF EepromInv, CopyKept
<1> QED BY <1>1, <1>2, <1>3, PTL DEF Spec
=============================================================================
