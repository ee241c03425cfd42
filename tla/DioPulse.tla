------------------------------ MODULE DioPulse ------------------------------
(***************************************************************************)
(* Pulse trains of one DIO channel (wr-nic-dio.c).  The ioctl              *)
(* WR_DIO_CMD_PULSE stores count, set point and period and programs the    *)
(* first pulse; the gateware stamps its own output like an input, and for  *)
(* that stamp the interrupt programs the next pulse and counts down.       *)
(* Count, set point, period and trigger registers are shared between ioctl *)
(* and interrupt with no lock; ioctls exclude each other (rtnl lock).      *)
(*                                                                         *)
(* Channels share nothing: target_channel is set to the channel itself     *)
(* before its count is, so the interrupt's other branch is never taken.    *)
(* Times are numbers of 8 ns cycles, split into seconds and cycles only    *)
(* where the registers are.  The channel is driven, so every stamp on it   *)
(* is that of a pulse.  Left out: the width, the modes (IOMODE), the PPS   *)
(* second that F_REL adds to the start, and the rate limit of DioStamp.    *)
(***************************************************************************)
EXTENDS Integers, Sequences

CONSTANTS
  MaxValue,   \* bound on the number of pulses a request asks for
  MaxCalls,   \* bound on the ioctls of a run
  MaxPulses,  \* bound on the pulses of a run
  None,       \* no time
  OneCpu      \* does the machine have a single processor?

ASSUME BoundsAssumption == {MaxValue, MaxCalls, MaxPulses} \subseteq Nat
ASSUME NoneAssumption == None \notin Int \X Int
ASSUME OneCpuAssumption == OneCpu \in BOOLEAN

VARIABLES
  count, prevts, delay,   \* struct dio_channel
  cycle, trig,            \* trigger registers: sub-second part, seconds
  latched,                \* the pulse the gateware waits for: its two parts
  fifo,                   \* stamps of the channel not read yet
  pulses,                 \* pulses so far
  calls,                  \* ioctls so far; the number of the current one
  upc,                    \* wrn_dio_cmd_pulse: where it is
  req,                    \* its request: kind "now", "once" or "loop", and value
  ipc,                    \* wrn_dio_interrupt: where it is
  fired,                  \* history: the pulses since the request took effect
  alone                   \* history: was the channel at rest when it came?

chanVars == <<count, prevts, delay>>
regVars == <<cycle, trig, latched>>
histVars == <<pulses, fired>>
callVars == <<calls, req, alone>>
vars == <<chanVars, regVars, fifo, histVars, callVars, upc, ipc>>

\* The time of a pulse, or None: of no pulse, or of one that was asked for "now".
PulseTime == (Int \X Int) \cup {None}

\* "wr-dio-cmd pulse <ch> <duration> <when> [<period> <count>]"; the count is
\* an int, and -1 is "forever".
scan_pulse ==
  [kind : {"now", "once"}, value : {0}] \cup [kind : {"loop"}, value : -1..MaxValue]
\* wr-dio-pps: a pulse every second.
pps == [kind |-> "loop", value |-> -1]
Request == scan_pulse \cup {pps}

\* Start and period of the k-th request, all different.
Start(k) == 20 * k
Period(k) == k

Init ==
  /\ count = 0
  /\ prevts = 0
  /\ delay = 0
  /\ cycle = 0
  /\ trig = 0
  /\ latched = None
  /\ fifo = 0
  /\ pulses = 0
  /\ calls = 0
  /\ upc = "idle"
  /\ req = [kind |-> "now", value |-> 0]
  /\ ipc = "idle"
  /\ fired = << >>
  /\ alone = FALSE

\* Nothing is programmed, stamped or being worked on.
AtRest == latched = None /\ fifo = 0 /\ upc = "idle" /\ ipc = "idle"

-----------------------------------------------------------------------------
(* The gateware (external): at the time that was latched it pulses, and    *)
(* stamps the pulse.                                                       *)

Pulse ==
  /\ latched # None
  /\ pulses < MaxPulses
  /\ pulses' = pulses + 1
  /\ fired' = Append(fired, latched)
  /\ latched' = None
  /\ fifo' = fifo + 1
  /\ UNCHANGED <<chanVars, cycle, trig, callVars, upc, ipc>>

-----------------------------------------------------------------------------
(* __wrn_new_pulse: one cycle is subtracted for the output latency; the    *)
(* registers are written, then latched.                                    *)

SetCycle(t) ==
  /\ cycle' = t - 1
  /\ UNCHANGED <<trig, latched>>

SetSeconds(t) ==
  /\ trig' = t - 1
  /\ latched' = <<trig', cycle>>
  /\ UNCHANGED cycle

-----------------------------------------------------------------------------
(* wrn_dio_cmd_pulse *)

\* On one processor the ioctl does not run while the interrupt does.
MayRun == OneCpu => ipc = "idle"

Call ==
  /\ MayRun
  /\ upc = "idle"
  /\ calls < MaxCalls
  /\ calls' = calls + 1
  /\ req' \in Request
  /\ alone' = (AtRest /\ count = 0)
  /\ fired' = << >>
  /\ upc' = CASE req'.kind = "now" -> "now"
              [] req'.kind = "once" -> "cycle"
              [] req'.kind = "loop" -> "count"
  /\ UNCHANGED <<chanVars, regVars, fifo, pulses, ipc>>

\* "if now we are done", whatever else the request asks for.
Now ==
  /\ MayRun
  /\ upc = "now"
  /\ pulses < MaxPulses
  /\ pulses' = pulses + 1
  /\ fired' = Append(fired, None)
  /\ fifo' = fifo + 1
  /\ upc' = "idle"
  /\ UNCHANGED <<chanVars, regVars, callVars, ipc>>

\* Mutant: 0 is decremented like the other values.
RemainingPlain(value) == value - 1

\* cmd->value is unsigned: -1 is above 0 too and becomes -2 in the int count.
\* "count is used after the pulse, so remove the first"
Remaining(value) == IF value = 0 THEN 0 ELSE value - 1

SetCount ==
  /\ MayRun
  /\ upc = "count"
  /\ count' = Remaining(req.value)
  /\ fired' = << >>
  /\ upc' = "prevts"
  /\ UNCHANGED <<prevts, delay, regVars, fifo, pulses, callVars, ipc>>

SetPrevts ==
  /\ MayRun
  /\ upc = "prevts"
  /\ prevts' = Start(calls)
  /\ upc' = "delay"
  /\ UNCHANGED <<count, delay, regVars, fifo, histVars, callVars, ipc>>

SetDelay ==
  /\ MayRun
  /\ upc = "delay"
  /\ delay' = Period(calls)
  /\ upc' = "cycle"
  /\ UNCHANGED <<count, prevts, regVars, fifo, histVars, callVars, ipc>>

FirstCycle ==
  /\ MayRun
  /\ upc = "cycle"
  /\ SetCycle(Start(calls))
  /\ upc' = "seconds"
  /\ UNCHANGED <<chanVars, fifo, histVars, callVars, ipc>>

FirstSeconds ==
  /\ MayRun
  /\ upc = "seconds"
  /\ SetSeconds(Start(calls))
  /\ upc' = "idle"
  /\ UNCHANGED <<chanVars, fifo, histVars, callVars, ipc>>

-----------------------------------------------------------------------------
(* wrn_dio_interrupt and wrn_trig_next_pulse                               *)

\* All the stamps are pulled; the last one is that of "the" pulse.
IrqPull ==
  /\ ipc = "idle"
  /\ fifo > 0
  /\ fifo' = 0
  /\ ipc' = "pulled"
  /\ UNCHANGED <<chanVars, regVars, histVars, callVars, upc>>

IrqCheck ==
  /\ ipc = "pulled"
  /\ ipc' = IF count # 0 THEN "next" ELSE "idle"
  /\ UNCHANGED <<chanVars, regVars, fifo, histVars, callVars, upc>>

\* Mutant: the latency is subtracted from the set point itself.
IrqNextDrifts ==
  /\ ipc = "next"
  /\ prevts' = prevts + delay - 1
  /\ ipc' = "cycle"
  /\ UNCHANGED <<count, delay, regVars, fifo, histVars, callVars, upc>>

IrqNext ==
  /\ ipc = "next"
  /\ prevts' = prevts + delay
  /\ ipc' = "cycle"
  /\ UNCHANGED <<count, delay, regVars, fifo, histVars, callVars, upc>>

IrqCycle ==
  /\ ipc = "cycle"
  /\ SetCycle(prevts)
  /\ ipc' = "seconds"
  /\ UNCHANGED <<chanVars, fifo, histVars, callVars, upc>>

IrqSeconds ==
  /\ ipc = "seconds"
  /\ SetSeconds(prevts)
  /\ ipc' = "read"
  /\ UNCHANGED <<chanVars, fifo, histVars, callVars, upc>>

\* "If the count is not-infinite, decrement it": read, then decrement.
IrqRead ==
  /\ ipc = "read"
  /\ ipc' = IF count > 0 THEN "dec" ELSE "idle"
  /\ UNCHANGED <<chanVars, regVars, fifo, histVars, callVars, upc>>

IrqDec ==
  /\ ipc = "dec"
  /\ count' = count - 1
  /\ ipc' = "idle"
  /\ UNCHANGED <<prevts, delay, regVars, fifo, histVars, callVars, upc>>

-----------------------------------------------------------------------------
Ioctl ==
  \/ Call \/ Now \/ SetCount \/ SetPrevts \/ SetDelay \/ FirstCycle \/ FirstSeconds
Interrupt ==
  \/ IrqPull \/ IrqCheck \/ IrqNext \/ IrqCycle \/ IrqSeconds \/ IrqRead \/ IrqDec

Next == Pulse \/ Ioctl \/ Interrupt

Spec == Init /\ [][Next]_vars

-----------------------------------------------------------------------------
(* Properties *)

(* Every variable has its type; "forever" stays the count it was set to.   *)
TypeOK ==
  /\ count \in Int /\ (OneCpu => count \in -2..MaxValue)
  /\ {prevts, delay} \subseteq Nat
  /\ {cycle, trig} \subseteq Int
  /\ latched \in PulseTime
  /\ fifo \in 0..pulses
  /\ pulses \in 0..MaxPulses
  /\ calls \in 0..MaxCalls
  /\ upc \in {"idle", "now", "count", "prevts", "delay", "cycle", "seconds"}
  /\ req \in Request
  /\ ipc \in {"idle", "pulled", "next", "cycle", "seconds", "read", "dec"}
  /\ fired \in Seq(PulseTime) /\ Len(fired) <= pulses
  /\ alone \in BOOLEAN

\* The k-th pulse of the current request, with both parts of its time.
Due(k) == LET t == Start(calls) + (k - 1) * Period(calls) IN <<t - 1, t - 1>>

\* How many pulses a request asks for, forever cut at the bound.
Wanted ==
  CASE req.kind = "loop" /\ req.value < 0 -> MaxPulses
    [] req.kind = "loop" /\ req.value >= 0 -> req.value
    [] OTHER -> 1

(* On a channel at rest, a train of N pulses is exactly N pulses, one      *)
(* period apart with no drift, whatever the interleaving of interrupt,     *)
(* ioctl and gateware; so is a single pulse.                               *)
TrainExact ==
  alone /\ req.kind \in {"once", "loop"} /\ Wanted > 0 =>
    /\ Len(fired) <= Wanted
    /\ \A k \in 1..Len(fired) : fired[k] = Due(k)
    /\ AtRest => Len(fired) = Wanted

(* A request for 0 pulses ends the train that runs: from then on there is  *)
(* the pulse that was programmed already and the one of the request itself *)
(* at most.  On one processor, that is.                                    *)
ZeroEndsTrain == OneCpu /\ req = [kind |-> "loop", value |-> 0] /\ upc \notin {"count"} =>
  Len(fired) <= 2

(* "count of loops (0 to turn off)", "-1 means forever": the count is      *)
(* negative, which the interrupt takes for forever, only if the last train *)
(* was asked to be.                                                        *)
ForeverOnlyIfAsked ==
  req.kind = "loop" /\ req.value >= 0 /\ upc # "count" => count >= 0

(* On one processor a count is what was asked for, or what is left of it.  *)
CountObeyed == ZeroEndsTrain /\ ForeverOnlyIfAsked

(* "0 means stop generating pulses": a request for 0 pulses to a channel   *)
(* at rest generates none.                                                 *)
ZeroIsNone ==
  alone /\ req = [kind |-> "loop", value |-> 0] => fired = << >>

(* "count is the number of instances to run": when the channel is at rest, *)
(* all the pulses of the last train were generated.                        *)
AllInstances ==
  req.kind = "loop" /\ AtRest =>
    \A k \in 1..Wanted : Due(k) \in {fired[i] : i \in DOMAIN fired}
=============================================================================
