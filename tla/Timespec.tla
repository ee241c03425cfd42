------------------------------ MODULE Timespec ------------------------------
(***************************************************************************)
(* Arithmetic on struct timespec in the tools (stamp-frame.c,              *)
(* wr-dio-ruler.c) and in wr-nic-dio.c.  The carry of an addition is made  *)
(* for more than a second of nanoseconds, where "not less" is meant.       *)
(***************************************************************************)
EXTENDS Integers

CONSTANT NSEC   \* nanoseconds in a second

ASSUME NSECAssumption == NSEC \in Nat \ {0, 1}

Time == [sec : Int, nsec : Int]
Ts(s, n) == [sec |-> s, nsec |-> n]
\* A time as the kernel and the libraries return it.
NormalTime == [sec : Int, nsec : 0..(NSEC - 1)]
Nanos(t) == t.sec * NSEC + t.nsec

ts_add(t1, t2) ==
  LET n == t1.nsec + t2.nsec IN
    IF n > NSEC THEN Ts(t1.sec + t2.sec + 1, n - NSEC) ELSE Ts(t1.sec + t2.sec, n)

ts_sub(t1, t2) ==
  LET n == t1.nsec - t2.nsec IN
    IF n < 0 THEN Ts(t1.sec - t2.sec - 1, n + NSEC) ELSE Ts(t1.sec - t2.sec, n)

\* The round trip, forward and backward times that report_times prints.
report_times(t1, t2, t3, t4) ==
  [rtt |-> ts_sub(ts_sub(t4, t1), ts_sub(t3, t2)),
   fw  |-> ts_sub(t2, t1),
   bw  |-> ts_sub(t4, t3)]

\* ruler_run_actions adds the delay of an action in the same way.
add_delay(t, delay) ==
  LET n == t.nsec + delay.nsec IN
    IF n > NSEC THEN Ts(t.sec + delay.sec + 1, n - NSEC) ELSE Ts(t.sec + delay.sec, n)

\* Carry or borrow one second: nanoseconds here are less than two off.
set_normalized_timespec(s, n) ==
  IF n >= NSEC THEN Ts(s + 1, n - NSEC)
  ELSE IF n < 0 THEN Ts(s - 1, n + NSEC)
  ELSE Ts(s, n)

wrn_ts_sub(ts, nano) == set_normalized_timespec(ts.sec, ts.nsec - nano)
=============================================================================
