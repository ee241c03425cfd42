----------------------------- MODULE FmcEeprom ------------------------------
(***************************************************************************)
(* The EEPROM of the mezzanine, which spec-i2c.c drives by setting the two *)
(* lines of its I2C bus one after the other, and the copy of it that the   *)
(* FMC device keeps (fmc->eeprom).                                         *)
(*                                                                         *)
(* A routine of the driver runs "todo", a sequence of calls of start, stop, *)
(* put_byte and get_byte, line operation by line operation, and goes on    *)
(* when it is done.  The chip only sees the lines.  A byte has Bits bits:  *)
(* the address of the chip is 1 and the last bit says read or write.       *)
(***************************************************************************)
EXTENDS Integers, Sequences, SequencesExt

CONSTANTS
  Bits,       \* bits per byte (8)
  SIZE,       \* SPEC_I2C_EEPROM_SIZE
  MaxCalls,   \* bound on the calls of read_ee and write_ee
  MinRead     \* shortest read a caller asks for

ASSUME EepromAssumption ==
  /\ {Bits, SIZE, MaxCalls, MinRead} \subseteq Nat
  /\ Bits >= 2 /\ SIZE > 0 /\ SIZE <= 2^(2 * Bits)

VARIABLES
  epc,        \* where the driver is
  todo,       \* calls of start, stop, put_byte and get_byte to do
  call,       \* the call at work, past the end when all are done
  bit,        \* its round: bit 1..Bits, what comes before or after them
  ph,         \* the line operation in the round
  nack,       \* the acknowledge bit read last
  indata,     \* bits of the byte being read
  rx,         \* bytes read
  off, edata, \* offset and bytes of the write, or offset and length of the read
  cache,      \* fmc->eeprom, or None
  fake,       \* SPEC_FLAG_FAKE_EEPROM
  readBack,   \* what the last read_ee returned: an offset and bytes
  calls,      \* calls of read_ee and write_ee
  present,    \* is there a mezzanine?
  sda, scl,   \* the lines as the driver drives them
  chip        \* the EEPROM

routineVars == <<todo, call, bit, ph>>
dataVars == <<nack, indata, rx>>
driverVars == <<epc, routineVars, dataVars, off, edata, cache, fake, readBack, calls>>
eepromVars == <<driverVars, present, sda, scl, chip>>

None == "none"
NoByte == -1
NothingRead == [off |-> 0, bytes |-> << >>]
Byte == 0 .. 2^Bits - 1
Offset == 0 .. SIZE - 1
Image == [Offset -> Byte]

-----------------------------------------------------------------------------
(* Bits and bytes, most significant bit first                              *)

Digit(b, i) == (b \div 2^(Bits - i)) % 2
Value(s) == FoldLeft(LAMBDA a, b : 2 * a + b, 0, s)
WriteAddr == 2
ReadAddr == 3
OffsetHi(o) == (o \div 2^Bits) % 2^Bits
OffsetLo(o) == o % 2^Bits
AddrOf(hi, lo) == (hi * 2^Bits + lo) % SIZE

\* A number is the value of its digits: for proofs, which cannot compute it.
ASSUME DigitsAssumption ==
  /\ WriteAddr \in Byte /\ ReadAddr \in Byte
  /\ \A b \in Byte :
       /\ \A i \in 1..Bits : Digit(b, i) \in {0, 1}
       /\ \A s \in [1..Bits -> {0, 1}] :
            (\A i \in 1..Bits : s[i] = Digit(b, i)) => Value(s) = b
  /\ \A o \in Offset :
       OffsetHi(o) \in Byte /\ OffsetLo(o) \in Byte /\ AddrOf(OffsetHi(o), OffsetLo(o)) = o

-----------------------------------------------------------------------------
(* What the routines do to the lines                                       *)

Sda(v) == [op |-> "sda", v |-> v]
Scl(v) == [op |-> "scl", v |-> v]
Ack == [op |-> "ack", v |-> 0]    \* get_sda, kept in nack
Bit == [op |-> "bit", v |-> 0]    \* get_sda, appended to indata

mi2c_start == [f |-> "start"]
mi2c_stop == [f |-> "stop"]
mi2c_put_byte(b) == [f |-> "put", byte |-> b]
mi2c_get_byte(ack) == [f |-> "get", ack |-> ack]

StartOps == <<Sda(0), Scl(0)>>
StopOps == <<Sda(0), Scl(1), Sda(1)>>
PutOps(b, i) ==
  IF i <= Bits THEN <<Sda(Digit(b, i)), Scl(1), Scl(0)>>
  ELSE <<Sda(1), Scl(1), Ack, Scl(0), Sda(0)>>
GetOps(ack, i) ==
  IF i = 0 THEN <<Scl(0), Sda(1)>>
  ELSE IF i <= Bits THEN <<Scl(1), Bit, Scl(0)>>
  ELSE <<Sda(IF ack THEN 0 ELSE 1), Scl(1), Scl(0), Sda(0)>>

\* What round i of call c does.
Ops(c, i) ==
  CASE c.f = "start" -> StartOps
    [] c.f = "stop" -> StopOps
    [] c.f = "put" -> PutOps(c.byte, i)
    [] c.f = "get" -> GetOps(c.ack, i)

\* The first round of call k of s; the last round of any call is Bits + 1.
FirstRound(s, k) ==
  IF k > Len(s) \/ s[k].f = "get" THEN 0 ELSE IF s[k].f = "put" THEN 1 ELSE Bits + 1

\* Mutant: the last byte is acknowledged as well.
GetBytesAllAcked(n) == [i \in 1..n |-> mi2c_get_byte(TRUE)]

\* The last byte is not acknowledged: the chip lets go of SDA.
GetBytes(n) == [i \in 1..n |-> mi2c_get_byte(i # n)]

ScanCalls == <<mi2c_start, mi2c_stop, mi2c_start, mi2c_put_byte(WriteAddr), mi2c_stop>>
SelectCalls == <<mi2c_start, mi2c_put_byte(WriteAddr)>>
ReadCalls(o, n) ==
  <<mi2c_put_byte(OffsetHi(o)), mi2c_put_byte(OffsetLo(o)), mi2c_stop,
    mi2c_start, mi2c_put_byte(ReadAddr)>> \o GetBytes(n) \o <<mi2c_stop>>
WriteCalls(o, b) ==
  <<mi2c_put_byte(OffsetHi(o)), mi2c_put_byte(OffsetLo(o)), mi2c_put_byte(b), mi2c_stop>>
PollCalls == <<mi2c_start, mi2c_put_byte(WriteAddr), mi2c_stop>>

-----------------------------------------------------------------------------
(* The chip (external): a 24xx EEPROM.  START and STOP are changes of SDA  *)
(* while SCL is high; a bit is taken or given when SCL falls.              *)

EepromInit ==
  /\ epc = "start" /\ todo = << >> /\ call = 1 /\ bit = 0 /\ ph = 1
  /\ nack = 1 /\ indata = << >> /\ rx = << >>
  /\ off = 0 /\ edata = << >> /\ cache = None /\ fake = FALSE
  /\ readBack = NothingRead /\ calls = 0
  /\ present \in BOOLEAN
  /\ sda = 1 /\ scl = 1
  /\ \E m \in Image :
       chip = [mode |-> "idle", bits |-> << >>, sent |-> 0, ack |-> FALSE, addr |-> 0,
               byte |-> NoByte, out |-> 1, mem |-> m, busy |-> FALSE]

Line(v) == IF v = 1 /\ chip.out = 1 THEN 1 ELSE 0
Clear(c) == [c EXCEPT !.bits = << >>, !.sent = 0, !.ack = FALSE, !.out = 1]

\* A STOP after a byte of data starts the write cycle.
Stopped == [Clear(chip) EXCEPT !.mode = "idle", !.busy = chip.busy \/ chip.byte # NoByte]
Started == [Clear(chip) EXCEPT !.mode = "start"]

\* A byte is complete: is it acknowledged, and what follows it?
Taken(b) ==
  CASE chip.mode = "dev" ->
         IF b = WriteAddr THEN [chip EXCEPT !.mode = "hi", !.ack = TRUE, !.out = 0]
         ELSE IF b = ReadAddr THEN [chip EXCEPT !.mode = "send", !.ack = TRUE, !.out = 0]
         ELSE [Clear(chip) EXCEPT !.mode = "idle"]
    [] chip.mode = "hi" -> [chip EXCEPT !.mode = "lo", !.addr = b, !.ack = TRUE, !.out = 0]
    [] chip.mode = "lo" -> [chip EXCEPT !.mode = "data", !.ack = TRUE, !.out = 0,
                                        !.addr = AddrOf(chip.addr, b)]
    [] chip.mode = "data" -> [chip EXCEPT !.byte = b, !.ack = TRUE, !.out = 0]

\* The chip gives bit n of the byte at address a, or lets go after the last.
Giving(a, n) ==
  [chip EXCEPT !.ack = FALSE, !.addr = a, !.sent = n,
               !.out = IF n <= Bits THEN Digit(chip.mem[a], n) ELSE 1]

\* SCL falls with "level" on SDA.
Fallen(level) ==
  CASE chip.mode = "idle" -> chip
    [] chip.mode = "start" -> [chip EXCEPT !.mode = IF chip.busy THEN "idle" ELSE "dev"]
    [] chip.mode = "send" ->
         LET next == (chip.addr + 1) % SIZE IN
         IF chip.ack THEN Giving(chip.addr, 1)
         ELSE IF chip.sent <= Bits THEN Giving(chip.addr, chip.sent + 1)
         ELSE IF level = 0 THEN Giving(next, 1)
         ELSE [Clear(chip) EXCEPT !.mode = "idle", !.addr = next]
    [] chip.mode \in {"dev", "hi", "lo", "data"} ->
         IF chip.ack THEN Clear(chip)
         ELSE LET s == Append(chip.bits, level) IN
              IF Len(s) < Bits THEN [chip EXCEPT !.bits = s]
              ELSE LET t == Taken(Value(s)) IN [t EXCEPT !.bits = << >>]

\* The write cycle ends.
ChipWritten ==
  /\ chip.busy
  /\ chip' = [chip EXCEPT !.mem[chip.addr] = chip.byte, !.byte = NoByte, !.busy = FALSE]
  /\ UNCHANGED <<driverVars, present, sda, scl>>

\* set_sda, set_scl, get_sda, as the chip sees them.
Drive(o) ==
  /\ sda' = IF o.op = "sda" THEN o.v ELSE sda
  /\ scl' = IF o.op = "scl" THEN o.v ELSE scl
  /\ nack' = IF o.op = "ack" THEN Line(sda) ELSE nack
  /\ chip' = IF ~present THEN chip
             ELSE IF o.op = "sda" /\ scl = 1 /\ Line(sda) = 1 /\ Line(o.v) = 0 THEN Started
             ELSE IF o.op = "sda" /\ scl = 1 /\ Line(sda) = 0 /\ Line(o.v) = 1 THEN Stopped
             ELSE IF o.op = "scl" /\ scl = 1 /\ o.v = 0 THEN Fallen(Line(sda))
             ELSE chip

\* On in the round, to the next round, or to the next call.  get_byte hands
\* its byte over at its end.
Onwards(c, o) ==
  \/ /\ ph < Len(Ops(c, bit))
     /\ ph' = ph + 1
     /\ indata' = IF o.op = "bit" THEN Append(indata, Line(sda)) ELSE indata
     /\ UNCHANGED <<call, bit, rx>>
  \/ /\ ph = Len(Ops(c, bit)) /\ bit <= Bits
     /\ ph' = 1
     /\ bit' = bit + 1
     /\ UNCHANGED <<call, indata, rx>>
  \/ /\ ph = Len(Ops(c, bit)) /\ bit = Bits + 1
     /\ ph' = 1
     /\ call' = call + 1
     /\ bit' = FirstRound(todo, call + 1)
     /\ indata' = << >>
     /\ rx' = IF c.f = "get" THEN Append(rx, Value(indata)) ELSE rx

LineOp ==
  /\ call <= Len(todo)
  /\ LET c == todo[call]
         o == Ops(c, bit)[ph]
     IN  Drive(o) /\ Onwards(c, o)
  /\ UNCHANGED <<epc, todo, off, edata, cache, fake, readBack, calls, present>>

-----------------------------------------------------------------------------
(* The driver                                                              *)

\* Go on at "pc" after the calls "s".
Do(pc, s) ==
  /\ epc' = pc
  /\ todo' = s /\ call' = 1 /\ bit' = FirstRound(s, 1) /\ ph' = 1
  /\ UNCHANGED <<nack, indata, present, sda, scl, chip>>

At(pc) == epc = pc /\ call > Len(todo)

\* mi2c_scan
Scan ==
  /\ At("start")
  /\ Do("scanned", ScanCalls)
  /\ UNCHANGED <<rx, off, edata, cache, fake, readBack, calls>>

\* spec_i2c_init, after the scan: nobody there, or out of memory.
NoMezzanine ==
  /\ At("scanned")
  /\ nack = 1
  /\ Do("ready", << >>)
  /\ UNCHANGED <<rx, off, edata, cache, fake, readBack, calls>>

NoMemory ==
  /\ At("scanned")
  /\ nack = 0
  /\ Do("failed", << >>)
  /\ UNCHANGED <<rx, off, edata, cache, fake, readBack, calls>>

\* The user named a file as the EEPROM of this card: its bytes are the copy.
FakeIt ==
  /\ At("scanned")
  /\ nack = 0
  /\ fake' = TRUE
  /\ cache' \in Image
  /\ Do("ready", << >>)
  /\ UNCHANGED <<rx, off, edata, readBack, calls>>

ReadAll ==
  /\ At("scanned")
  /\ nack = 0
  /\ off' = 0
  /\ edata' = SIZE
  /\ rx' = << >>
  /\ Do("read", SelectCalls)
  /\ UNCHANGED <<cache, fake, readBack, calls>>

\* The first byte of spec_eeprom_read was acknowledged or not.
ReadAcked ==
  /\ At("read")
  /\ nack = 0
  /\ Do("got", ReadCalls(off, edata))
  /\ UNCHANGED <<rx, off, edata, cache, fake, readBack, calls>>

ReadNacked ==
  /\ At("read")
  /\ nack = 1
  /\ Do(IF calls = 0 THEN "failed" ELSE "ready", <<mi2c_stop>>)
  /\ UNCHANGED <<rx, off, edata, cache, fake, readBack, calls>>

\* The bytes in the caller's buffer.
Bytes(s) == [k \in 0 .. Len(s) - 1 |-> s[k + 1]]

\* The whole EEPROM for spec_i2c_init, a part of it for a caller of read_ee.
ReadDone ==
  /\ At("got")
  /\ IF calls = 0
     THEN cache' = Bytes(rx) /\ UNCHANGED readBack
     ELSE readBack' = [off |-> off, bytes |-> Bytes(rx)] /\ UNCHANGED cache
  /\ rx' = << >>
  /\ off' = 0
  /\ edata' = << >>
  /\ Do("ready", << >>)
  /\ UNCHANGED <<fake, calls>>

\* spec_eeprom_read for read_ee.  A fake one leaves the buffer as it was.
ReadEe(o, n) ==
  /\ At("ready")
  /\ calls < MaxCalls
  /\ calls' = calls + 1
  /\ readBack' = NothingRead
  /\ IF fake \/ o + n > SIZE
     THEN Do("ready", << >>) /\ UNCHANGED <<rx, off, edata>>
     ELSE /\ off' = o
          /\ edata' = n
          /\ rx' = << >>
          /\ Do("read", SelectCalls)
  /\ UNCHANGED <<cache, fake>>

\* spec_eeprom_write for write_ee.
WriteEe(o, s) ==
  /\ At("ready")
  /\ calls < MaxCalls
  /\ calls' = calls + 1
  /\ readBack' = NothingRead
  /\ IF o + Len(s) > SIZE
     THEN Do("ready", << >>) /\ UNCHANGED <<off, edata>>
     ELSE off' = o /\ edata' = s /\ Do("next", << >>)
  /\ UNCHANGED <<rx, cache, fake>>

\* The byte is written: into the copy, too.
Advance ==
  /\ cache' = [cache EXCEPT ![off] = Head(edata)]
  /\ off' = off + 1
  /\ edata' = Tail(edata)

WriteFake ==
  /\ At("next")
  /\ edata # << >>
  /\ fake
  /\ Advance
  /\ Do("next", << >>)
  /\ UNCHANGED <<rx, fake, readBack, calls>>

WriteByte ==
  /\ At("next")
  /\ edata # << >>
  /\ ~fake
  /\ Do("write", SelectCalls)
  /\ UNCHANGED <<rx, off, edata, cache, fake, readBack, calls>>

WriteReturns ==
  /\ At("next")
  /\ edata = << >>
  /\ off' = 0
  /\ Do("ready", << >>)
  /\ UNCHANGED <<rx, edata, cache, fake, readBack, calls>>

WriteNacked ==
  /\ At("write")
  /\ nack = 1
  /\ off' = 0
  /\ edata' = << >>
  /\ Do("ready", <<mi2c_stop>>)
  /\ UNCHANGED <<rx, cache, fake, readBack, calls>>

WriteAcked ==
  /\ At("write")
  /\ nack = 0
  /\ Do("poll", WriteCalls(off, Head(edata)))
  /\ UNCHANGED <<rx, off, edata, cache, fake, readBack, calls>>

\* Mutant: the chip is asked again without a new START.
PollSameStart ==
  /\ At("poll")
  /\ Do("polled", <<mi2c_put_byte(WriteAddr), mi2c_stop>>)
  /\ UNCHANGED <<rx, off, edata, cache, fake, readBack, calls>>

\* "wait until the chip becomes ready"
Poll ==
  /\ At("poll")
  /\ Do("polled", PollCalls)
  /\ UNCHANGED <<rx, off, edata, cache, fake, readBack, calls>>

Polled ==
  /\ At("polled")
  /\ IF nack = 1
     THEN Do("poll", << >>) /\ UNCHANGED <<cache, off, edata>>
     ELSE Advance /\ Do("next", << >>)
  /\ UNCHANGED <<rx, fake, readBack, calls>>

-----------------------------------------------------------------------------
I2cInit == Scan \/ NoMezzanine \/ NoMemory \/ FakeIt \/ ReadAll
Writing == WriteFake \/ WriteByte \/ WriteReturns \/ WriteNacked \/ WriteAcked \/ Poll \/ Polled
Reading == ReadAcked \/ ReadNacked \/ ReadDone
EepromStep == LineOp \/ I2cInit \/ Reading \/ Writing

\* Lengths and offsets past the end as well.
EepromCall ==
  \/ \E o \in 0..SIZE, n \in MinRead..SIZE : ReadEe(o, n)
  \/ \E o \in 0..SIZE, s \in SeqOf(Byte, SIZE) : s # << >> /\ WriteEe(o, s)

-----------------------------------------------------------------------------
(* Properties *)

(* The copy that drivers read as fmc->eeprom is the contents of the chip,  *)
(* and a read_ee returns them, whenever no call is under way.              *)
CacheIsChip ==
  At("ready") /\ present /\ ~fake =>
    /\ ~chip.busy
    /\ cache = chip.mem
    /\ \A k \in DOMAIN readBack.bytes : readBack.bytes[k] = chip.mem[readBack.off + k]

(* A routine of spec-i2c.c returns: a write polls without a limit, but     *)
(* only while the chip is in its write cycle.                              *)
EepromCallEnds == call <= Len(todo) \/ epc \notin {"start", "ready", "failed"} ~> At("ready") \/ epc = "failed"
=============================================================================
