------------------------------ MODULE DioRuler ------------------------------
(***************************************************************************)
(* Replicating pulses (spec-sw.in, "Distributing Output Pulses"):          *)
(* wr-dio-ruler waits for stamps of an input channel and programs a pulse, *)
(* some time after the edge, on channels of its own board and, with a      *)
(* frame to wr-dio-agent, of the board at the other end of the fiber.      *)
(* Beside them the user runs "wr-dio-cmd mode" and "wr-dio-cmd pulse".     *)
(*                                                                         *)
(* One tick is a cycle of the DIO core.  The boards are synchronised:      *)
(* there is one clock.  The stamp ring does not overflow here (DioStamp),  *)
(* and trains of pulses are those of DioPulse.                             *)
(***************************************************************************)
EXTENDS DioModes, Timespec, FiniteSets

CONSTANTS
  Digits,       \* decimals of a second: NSEC = 10 ^ Digits
  Local, Remote,  \* the ruler's board and the agent's
  InCh,         \* IN<ch>
  ActionArgs,   \* the actions on the command line: L or R, channel, delay
  PulseArgs,    \* arguments that the user may give to "pulse"
  NStamp,       \* WR_DIO_N_STAMP
  Start,        \* the time when the run begins
  MaxTicks,     \* bound on the duration of a run
  MaxEdges,     \* bound on the edges of the input
  LastEdge,     \* bound on the time of an edge, from the start of the run
  MaxForeign    \* bound on frames that are not the ruler's

ASSUME BoardsAssumption == Local # Remote /\ Boards = {Local, Remote}
ASSUME DigitsAssumption == Digits \in Nat /\ NSEC = 10 ^ Digits
ASSUME StartAssumption == Start \in Nat
ASSUME NStampAssumption == NStamp \in Nat
\* One action at least, or the ruler prints its usage.
ASSUME ActionsAssumption ==
  /\ ActionArgs \in Seq([where : {"L", "R"}, channel : 0..4,
                         delay : [sec : Int, digits : Seq(0..9)]])
  /\ ActionArgs # << >>
\* An output that feeds the input would be replicated for ever.
ASSUME NoFeedback == \A k \in DOMAIN ActionArgs :
         ActionArgs[k].where = "L" => ActionArgs[k].channel # InCh

VARIABLES
  now,      \* the time, in ticks
  trig,     \* the trigger of each channel: a time, or None
  stamps,   \* stamps of the input that nobody has read
  pc,       \* the ruler: "wait", "act" or "dead"
  act,      \* the action that it runs
  ts,       \* the stamp it runs it for
  wire,     \* frames on their way to the agent
  agent,    \* is the agent running?
  foreign,  \* frames that are not the ruler's, so far
  edges,    \* history: times of the edges
  pulses,   \* history: pulses: board, channel, time
  wanted,   \* history: pulses that the user asked for
  spoilt    \* history: was something lost, late or overwritten?

rulerVars == <<pc, act, ts>>
netVars == <<wire, agent, foreign>>
histVars == <<edges, pulses, wanted>>
vars == <<modeVars, commands, now, trig, stamps, rulerVars, netVars, histVars, spoilt>>

None == Ts(-1, 0)
Clock(n) == Ts(n \div NSEC, n % NSEC)

-----------------------------------------------------------------------------
(* Text to times.  A decimal is its seconds and the digits of its          *)
(* fraction, as they are written.                                          *)

Number(digits) ==
  LET n[k \in 0..Len(digits)] == IF k = 0 THEN 0 ELSE 10 * n[k - 1] + digits[k]
  IN  n[Len(digits)]

\* Scanned as an integer, and made longer until all the decimals are there.
parse_ts(d) == Ts(d.sec, Number(d.digits) * 10 ^ (Digits - Len(d.digits)))

\* A decimal as the user reads it, in ticks.
Reading(d) ==
  LET n[k \in 0..Len(d.digits)] ==
        IF k = 0 THEN d.sec * NSEC ELSE n[k - 1] + d.digits[k] * (NSEC \div 10 ^ k)
  IN  n[Len(d.digits)]

\* The command lines are such that what is parsed is what was meant.
ASSUME DecimalsAssumption ==
  \A d \in {ActionArgs[k].delay : k \in DOMAIN ActionArgs} \cup {p.time : p \in PulseArgs} :
    parse_ts(d) \in NormalTime /\ Nanos(parse_ts(d)) = Reading(d)

\* ruler_build_actions
Actions ==
  [k \in DOMAIN ActionArgs |->
     [isremote |-> ActionArgs[k].where = "R",
      channel |-> ActionArgs[k].channel,
      delay |-> parse_ts(ActionArgs[k].delay)]]

-----------------------------------------------------------------------------
Init ==
  /\ ModeInit
  /\ now = Start
  /\ trig = [b \in Boards |-> [c \in Channels |-> None]]
  /\ stamps = << >>
  /\ pc = "wait"
  /\ act = 1
  /\ ts = None
  /\ wire = << >>
  /\ agent = TRUE
  /\ foreign = 0
  /\ edges = {}
  /\ pulses = {}
  /\ wanted = {}
  /\ spoilt = FALSE

-----------------------------------------------------------------------------
(* The boards (external).                                                  *)

\* An edge of the input is stamped and read by the interrupt.
Edge ==
  /\ Cardinality(edges) < MaxEdges
  /\ now <= Start + LastEdge
  /\ now \notin edges
  /\ edges' = edges \cup {now}
  /\ stamps' = Append(stamps, Clock(now))
  /\ UNCHANGED <<modeVars, commands, now, trig, rulerVars, netVars, pulses, wanted, spoilt>>

Busy == stamps # << >> \/ pc = "act" \/ wire # << >>

\* A trigger that shows the time makes a pulse one cycle later; one that is
\* in the past when it is latched never will.
Tick ==
  /\ now < Start + MaxTicks
  /\ now' = now + 1
  /\ pulses' = pulses \cup
       {p \in Boards \X Channels \X {now'} : trig[p[1]][p[2]] = Clock(now)}
  /\ trig' = [b \in Boards |-> [c \in Channels |->
                IF trig[b][c] = Clock(now) THEN None ELSE trig[b][c]]]
  /\ spoilt' = (spoilt \/ Busy)
  /\ UNCHANGED <<modeVars, commands, stamps, rulerVars, netVars, edges, wanted>>

-----------------------------------------------------------------------------
(* wrn_dio_cmd_pulse                                                       *)

\* __wrn_new_pulse: "1 cycle, to account for output latencies".
Program(b, c, t) == trig' = [trig EXCEPT ![b][c] = wrn_ts_sub(t, 1)]

wrn_dio_cmd_pulse(b, c, t) == SelectDio(b, c) /\ Program(b, c, t)

-----------------------------------------------------------------------------
(* wr-dio-ruler                                                            *)

\* ruler_wait_event: "Assume it's only one stamp", the others are dropped.
WaitEvent ==
  /\ pc = "wait"
  /\ stamps # << >>
  /\ LET n == IF Len(stamps) < NStamp THEN Len(stamps) ELSE NStamp IN
       /\ ts' = Head(stamps)
       /\ stamps' = SubSeq(stamps, n + 1, Len(stamps))
       /\ spoilt' = (spoilt \/ n > 1)
  /\ act' = 1
  /\ pc' = "act"
  /\ UNCHANGED <<modeVars, commands, now, trig, netVars, histVars>>

\* Mutant: the last action is left out.
NextActionButLast ==
  /\ act' = IF act + 1 < Len(ActionArgs) THEN act + 1 ELSE 1
  /\ pc' = IF act + 1 < Len(ActionArgs) THEN "act" ELSE "wait"

\* One action is done: the next one, or the next event.
NextAction ==
  /\ act' = IF act < Len(ActionArgs) THEN act + 1 ELSE 1
  /\ pc' = IF act < Len(ActionArgs) THEN "act" ELSE "wait"

\* Mutant: the deadline is built on that of the action before.
DeadlineCumulates ==
  LET d[k \in 0..Len(Actions)] ==
        IF k = 0 THEN ts ELSE add_delay(d[k - 1], Actions[k].delay)
  IN  d[act]

Deadline == add_delay(ts, Actions[act].delay)

RunLocal ==
  /\ pc = "act"
  /\ ~Actions[act].isremote
  /\ wrn_dio_cmd_pulse(Local, Actions[act].channel, Deadline)
  /\ NextAction
  /\ ts' = IF pc' = "wait" THEN None ELSE ts
  /\ UNCHANGED <<commands, now, stamps, netVars, histVars, spoilt>>

RunRemote ==
  /\ pc = "act"
  /\ Actions[act].isremote
  /\ wire' = IF agent THEN Append(wire, [channel |-> Actions[act].channel, t |-> Deadline])
              ELSE wire
  /\ NextAction
  /\ ts' = IF pc' = "wait" THEN None ELSE ts
  /\ UNCHANGED <<modeVars, commands, now, trig, stamps, agent, foreign, histVars, spoilt>>

\* An ioctl or send fails, or the user stops it: the stamps stay.
RulerExit ==
  /\ pc # "dead"
  /\ pc' = "dead"
  /\ act' = 1
  /\ ts' = None
  /\ spoilt' = TRUE
  /\ UNCHANGED <<modeVars, commands, now, trig, stamps, netVars, histVars>>

-----------------------------------------------------------------------------
(* The fiber and wr-dio-agent                                              *)

ForeignFrame == [channel |-> -1, t |-> None]

\* Something else is broadcast, of another length or type.
Foreign ==
  /\ agent
  /\ foreign < MaxForeign
  /\ foreign' = foreign + 1
  /\ wire' = Append(wire, ForeignFrame)
  /\ UNCHANGED <<modeVars, commands, now, trig, stamps, rulerVars, agent, histVars, spoilt>>

\* The NIC, or the socket, drops a frame.
Lose ==
  /\ wire # << >>
  /\ wire' = Tail(wire)
  /\ spoilt' = TRUE
  /\ UNCHANGED <<modeVars, commands, now, trig, stamps, rulerVars, agent, foreign, histVars>>

\* "Then simply pass it to the hardware".
AgentPulse ==
  /\ wire # << >>
  /\ Head(wire) # ForeignFrame
  /\ wrn_dio_cmd_pulse(Remote, Head(wire).channel, Head(wire).t)
  /\ wire' = Tail(wire)
  /\ UNCHANGED <<commands, now, stamps, rulerVars, agent, foreign, histVars, spoilt>>

AgentSkip ==
  /\ wire # << >>
  /\ Head(wire) = ForeignFrame
  /\ wire' = Tail(wire)
  /\ UNCHANGED <<modeVars, commands, now, trig, stamps, rulerVars, agent, foreign, histVars, spoilt>>

\* An ioctl fails, or the user stops it: its socket goes, and what is in it.
AgentExit ==
  /\ agent
  /\ agent' = FALSE
  /\ wire' = << >>
  /\ spoilt' = TRUE
  /\ UNCHANGED <<modeVars, commands, now, trig, stamps, rulerVars, foreign, histVars>>

-----------------------------------------------------------------------------
(* The user: wr-dio-cmd                                                    *)

ModeCommand ==
  /\ \E args \in ModeArgs :
       \/ \E b \in Boards : Mode(b, args)
       \/ ModeRefused(args)
  /\ UNCHANGED <<now, trig, stamps, rulerVars, netVars, histVars, spoilt>>

Overwrites(b, c) ==
  \E k \in DOMAIN Actions : c = Actions[k].channel /\ (b = Remote) = Actions[k].isremote

\* "pulse <channel> <duration> now": the trigger is left alone.
PulseNow(b, p) ==
  /\ p.when = "now"
  /\ SelectDio(b, p.channel)
  /\ pulses' = pulses \cup {<<b, p.channel, now>>}
  /\ wanted' = wanted \cup {<<b, p.channel, now>>}
  /\ UNCHANGED <<trig, spoilt>>

\* "<when>" is a time, or with "+" the fraction in a second counted from now.
When(p) ==
  LET t == parse_ts(p.time) IN
    IF p.when = "+" THEN Ts(t.sec + Clock(now).sec, t.nsec) ELSE t

\* The time that the user means.
WantedAt(p) ==
  Reading(p.time) + (IF p.when = "+" THEN (now \div NSEC) * NSEC ELSE 0)

PulseAt(b, p) ==
  /\ p.when # "now"
  /\ wrn_dio_cmd_pulse(b, p.channel, When(p))
  /\ wanted' = wanted \cup {<<b, p.channel, WantedAt(p)>>}
  /\ spoilt' = (spoilt \/ Overwrites(b, p.channel))
  /\ UNCHANGED pulses

PulseCommand ==
  /\ commands < MaxCommands
  /\ commands' = commands + 1
  /\ \E b \in Boards, p \in PulseArgs : PulseNow(b, p) \/ PulseAt(b, p)
  /\ UNCHANGED <<now, stamps, rulerVars, netVars, edges>>

-----------------------------------------------------------------------------
Next ==
  \/ Edge \/ Tick
  \/ WaitEvent \/ RunLocal \/ RunRemote \/ RulerExit
  \/ Foreign \/ Lose \/ AgentPulse \/ AgentSkip \/ AgentExit
  \/ ModeCommand \/ PulseCommand

Spec == Init /\ [][Next]_vars
-----------------------------------------------------------------------------
(* Properties *)

Board(a) == IF a.isremote THEN Remote ELSE Local

\* The pulses that the command line of the ruler asks for after an edge.
Replicas(e) ==
  {<<Board(Actions[k]), Actions[k].channel, e + Reading(ActionArgs[k].delay)>> :
     k \in DOMAIN Actions}

(* "It replicates the edge on one or more outputs", each with its own      *)
(* delay from the input pulse.  No pulse comes out of a board that is not  *)
(* exactly that long after an edge, on a channel of the command line, or   *)
(* one that the user asked for: a trigger that is overwritten, late, lost  *)
(* with a frame or programmed by a ruler that has fallen behind by some    *)
(* edges may be missed, but never comes out at another time.               *)
PulsesAsAsked == pulses \subseteq (UNION {Replicas(e) : e \in edges}) \cup wanted

\* "The delays should be no more than the interval between input pulses".
Spaced ==
  \A e, f \in edges : e < f => \A k \in DOMAIN ActionArgs : Reading(ActionArgs[k].delay) <= f - e

(* When the software keeps up, no frame is lost, nobody reprograms the     *)
(* outputs and the edges are as far apart as the manual asks, every edge   *)
(* is replicated on every output, also over the end of a second.           *)
EveryEdgeReplicated ==
  ~spoilt /\ Spaced =>
    \A e \in edges : \A p \in Replicas(e) : p[3] <= now => p \in pulses

(* "First, configure this bit as DIO output" (wr-nic-dio.c:170): a channel *)
(* that was told to pulse is an output of the DIO core.                    *)
PulsedIsOutput ==
  \A b \in Boards, c \in Channels :
    pulsed[b][c] => CoreOf(iomode[b][c].sel) = "dio" /\ ~iomode[b][c].oen
=============================================================================
