------------------------------- MODULE PpsTime -------------------------------
(***************************************************************************)
(* Time, as the NIC driver reads it.  The PPS generator counts seconds and *)
(* cycles in two registers that cannot be read together;                   *)
(* wrn_ppsg_read_time (wr_nic/pps.c) reads seconds, cycles, seconds, and   *)
(* the cycles again when a second went by.  The NIC and the TXTSU stamp a  *)
(* frame with cycles only, so record_tstamp (wr_nic/timestamp.c) and       *)
(* __wrn_rx_descriptor (wr_nic/nic-core.c) complete the stamp with a       *)
(* second read later: the current one, or the one before when the cycles   *)
(* counter is already below the stamp.                                     *)
(***************************************************************************)
EXTENDS Integers

CONSTANTS
  Cycles,     \* cycles in a second (125 000 000 in the hardware)
  MaxSec      \* bound on the seconds of a run

ASSUME CyclesAssumption == Cycles \in Nat \ {0}
ASSUME MaxSecAssumption == MaxSec \in Nat \ {0}

VARIABLES
  sec,        \* CNTR_UTCLO: whole seconds
  cyc,        \* CNTR_NSEC: cycles within the second
  pc,         \* the reader: where it is
  tsval,      \* the stamp the hardware took, cycles only
  utc1, cnt, utc2,   \* locals of wrn_ppsg_read_time
  utc,        \* the second record_tstamp ends up with
  evSec,      \* history: the second in which the stamp was taken
  begin       \* history: the time when the first register was read

clock == <<sec, cyc>>
ppsVars == <<sec, cyc, pc, tsval, utc1, cnt, utc2, utc, evSec, begin>>

\* Order of times, seconds first.
LeqTime(s, t) == s[1] < t[1] \/ (s[1] = t[1] /\ s[2] <= t[2])

PpsInit ==
  /\ sec = 1
  /\ cyc \in 0..(Cycles - 1)
  /\ pc = "idle"
  /\ tsval = 0
  /\ utc1 = 0 /\ cnt = 0 /\ utc2 = 0
  /\ utc = 0
  /\ evSec = 0
  /\ begin = <<0, 0>>

\* The clock (external).
Tick ==
  /\ \/ /\ cyc < Cycles - 1
        /\ cyc' = cyc + 1
        /\ UNCHANGED sec
     \/ /\ cyc = Cycles - 1
        /\ sec < MaxSec
        /\ cyc' = 0
        /\ sec' = sec + 1
  /\ UNCHANGED <<pc, tsval, utc1, cnt, utc2, utc, evSec, begin>>

\* The NIC or the TXTSU stamps a frame (external).
Stamp ==
  /\ pc = "idle"
  /\ tsval' = cyc
  /\ evSec' = sec
  /\ pc' = "utc1"
  /\ UNCHANGED <<sec, cyc, utc1, cnt, utc2, utc, begin>>

ReadUtc1 ==
  /\ pc = "utc1"
  /\ utc1' = sec
  /\ begin' = clock
  /\ pc' = "cnt"
  /\ UNCHANGED <<sec, cyc, tsval, cnt, utc2, utc, evSec>>

ReadCnt ==
  /\ pc = "cnt"
  /\ cnt' = cyc
  /\ pc' = "utc2"
  /\ UNCHANGED <<sec, cyc, tsval, utc1, utc2, utc, evSec, begin>>

\* Mutant: the cycles are never read again.
ReadUtc2NoCarry ==
  /\ pc = "utc2"
  /\ utc2' = sec
  /\ pc' = "result"
  /\ UNCHANGED <<sec, cyc, tsval, utc1, cnt, utc, evSec, begin>>

ReadUtc2 ==
  /\ pc = "utc2"
  /\ utc2' = sec
  /\ pc' = IF sec # utc1 THEN "again" ELSE "result"
  /\ UNCHANGED <<sec, cyc, tsval, utc1, cnt, utc, evSec, begin>>

ReadCntAgain ==
  /\ pc = "again"
  /\ cnt' = cyc
  /\ pc' = "result"
  /\ UNCHANGED <<sec, cyc, tsval, utc1, utc2, utc, evSec, begin>>

\* Mutant: equal counts are taken for a second that went by.
SecondOfStampLeq == IF cnt <= tsval THEN utc2 - 1 ELSE utc2
\* "We may be at the beginning of the next second."
SecondOfStamp == IF cnt < tsval THEN utc2 - 1 ELSE utc2

Complete ==
  /\ pc = "result"
  /\ utc' = SecondOfStamp
  /\ pc' = "done"
  /\ UNCHANGED <<sec, cyc, tsval, utc1, cnt, utc2, evSec, begin>>

Return ==
  /\ pc = "done"
  /\ pc' = "idle"
  /\ UNCHANGED <<sec, cyc, tsval, utc1, cnt, utc2, utc, evSec, begin>>

Reader == ReadUtc1 \/ ReadCnt \/ ReadUtc2 \/ ReadCntAgain \/ Complete \/ Return

PpsNext == Tick \/ Stamp \/ Reader

PpsSpec == PpsInit /\ [][PpsNext]_ppsVars

-----------------------------------------------------------------------------
(* Properties *)

(* Every variable has its type.                                            *)
PpsTypeOK ==
  /\ sec \in Nat
  /\ cyc \in 0..(Cycles - 1)
  /\ pc \in {"idle", "utc1", "cnt", "utc2", "again", "result", "done"}
  /\ {tsval, cnt} \subseteq 0..(Cycles - 1)
  /\ {utc1, utc2, evSec} \subseteq Nat
  /\ utc \in Int
  /\ begin \in Nat \X (0..(Cycles - 1))

(* wrn_ppsg_read_time returns a time that lies between its call and its    *)
(* return, wherever the seconds roll over between its register reads and   *)
(* however many do: the pair never mixes two seconds.                      *)
ReadBetween ==
  pc \in {"result", "done"} =>
     /\ LeqTime(begin, <<utc2, cnt>>)
     /\ LeqTime(<<utc2, cnt>>, clock)

(* The completed stamp is in the second in which it was taken, provided    *)
(* the driver is done within one second of it; the two cases of the carry  *)
(* and the roll-over between the register reads included.                  *)
StampSecond ==
  pc = "done" /\ ~LeqTime(<<evSec + 1, tsval>>, clock) => utc = evSec
=============================================================================
