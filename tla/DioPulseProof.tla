---------------------------- MODULE DioPulseProof ----------------------------
(***************************************************************************)
(* Proofs about DioPulse, for any number of requests and pulses and trains *)
(* of any length.                                                          *)
(***************************************************************************)
EXTENDS DioPulse, TLAPS

-----------------------------------------------------------------------------
(* The inductive invariant.  On one processor the count is not touched     *)
(* between the interrupt's look at it and its decrement.  On a channel     *)
(* that was at rest there is one thing at a time: the ioctl's work, a      *)
(* latched pulse, its stamp, or the interrupt's work on it.                *)

\* The count was positive when the interrupt looked, and still is.
DecPositive == OneCpu /\ ipc = "dec" => count > 0

\* After a request for 0 pulses each pulse uses up what was latched or is
\* still to be programmed by the request.
ZeroBudget ==
  OneCpu /\ req = [kind |-> "loop", value |-> 0] /\ upc # "count" =>
    /\ count = 0
    /\ ipc \in {"idle", "pulled"}
    /\ Len(fired) + (IF latched # None THEN 1 ELSE 0) + (IF upc # "idle" THEN 1 ELSE 0) <= 2

\* A request, for pulses, to a channel at rest.
Watched ==
  alone /\ (req.kind = "once" \/ (req.kind = "loop" /\ req.value # 0))

Looping == req.kind = "loop"

\* While such a request is at work nobody else is.
FirstInv ==
  Watched /\ upc # "idle" =>
    /\ upc # "now"
    /\ latched = None /\ fifo = 0 /\ ipc = "idle" /\ fired = << >>
    /\ upc \in {"count", "prevts", "delay"} => Looping
    /\ ~Looping => count = 0
    /\ Looping /\ upc # "count" => count = Remaining(req.value)
    /\ Looping /\ upc \in {"delay", "cycle", "seconds"} => prevts = Start(calls)
    /\ Looping /\ upc \in {"cycle", "seconds"} => delay = Period(calls)
    /\ upc = "seconds" => cycle = Start(calls) - 1

\* Pulses programmed so far, and those the count has seen.
Programmed == Len(fired) + (IF latched # None THEN 1 ELSE 0)
Counted == Programmed - (IF ipc \in {"read", "dec"} THEN 1 ELSE 0)
\* The pulse that the set point is for.
SetPoint == Programmed + (IF ipc \in {"cycle", "seconds"} THEN 1 ELSE 0)

\* From then on the interrupt carries the train.
Running == Watched /\ upc = "idle"

\* Every pulse has its time.
FiredDue ==
  Running =>
    /\ \A k \in 1..Len(fired) : fired[k] = Due(k)
    /\ latched # None => latched = Due(Len(fired) + 1)

\* A pulse is latched, or stamped, or worked on.
OneThing ==
  Running =>
    /\ Programmed >= 1
    /\ ~Looping => Programmed = 1
    /\ latched # None => fifo = 0
    /\ fifo <= 1
    /\ latched # None \/ fifo = 1 => ipc \in {"idle", "read", "dec"}
    /\ ipc \in {"read", "dec"} => latched # None \/ fifo = 1

\* The set point is that of the pulse programmed last, or next.
SetPointFollows ==
  Running =>
    /\ Looping => delay = Period(calls)
    /\ Looping => prevts = Start(calls) + (SetPoint - 1) * Period(calls)
    /\ ipc = "seconds" => cycle = prevts - 1

\* The count is what is left to program.
CountFollows ==
  Running =>
    /\ ~Looping => count = 0
    /\ Looping /\ req.value > 0 => count = req.value - Counted /\ count >= 0
    /\ Looping /\ req.value < 0 => count < 0
    /\ ipc \in {"next", "cycle", "seconds", "read", "dec"} => Looping /\ count # 0
    /\ ipc = "dec" => count > 0
    /\ AtRest => count = 0

IInv ==
  /\ TypeOK
  /\ DecPositive
  /\ OneCpu => ForeverOnlyIfAsked
  /\ ZeroBudget
  /\ FirstInv
  /\ FiredDue
  /\ OneThing
  /\ SetPointFollows
  /\ CountFollows

(* The channel is at rest at first.                                        *)
LEMMA InitInv == Init => IInv
<1> SUFFICES ASSUME Init PROVE IInv
  OBVIOUS
<1> USE DEF Init
<1>1. TypeOK
  <2>1. req \in Request
    BY DEF Request, scan_pulse, pps
  <2>2. fired \in Seq(PulseTime) /\ Len(fired) = 0
    OBVIOUS
  <2>3. latched \in PulseTime
    BY DEF PulseTime
  <2>4. count \in Int /\ count \in -2..MaxValue /\ fifo \in 0..pulses
        /\ pulses \in 0..MaxPulses /\ calls \in 0..MaxCalls
    BY BoundsAssumption
  <2>5. {prevts, delay} \subseteq Nat /\ {cycle, trig} \subseteq Int
    OBVIOUS
  <2>6. upc = "idle" /\ ipc = "idle" /\ Len(fired) <= pulses
    BY <2>2
  <2>7. alone \in BOOLEAN
    BY Zenon
  <2> HIDE DEF Init
  <2> QED BY <2>1, <2>2, <2>3, <2>4, <2>5, <2>6, <2>7 DEF TypeOK
<1>2. DecPositive /\ (OneCpu => ForeverOnlyIfAsked) /\ ZeroBudget
  BY DEF DecPositive, ForeverOnlyIfAsked, ZeroBudget
<1>3. ~Watched
  BY DEF Watched
<1>4. FirstInv /\ FiredDue /\ OneThing /\ SetPointFollows /\ CountFollows
  BY <1>3 DEF FirstInv, Running, FiredDue, OneThing, SetPointFollows, CountFollows
<1> QED BY <1>1, <1>2, <1>4 DEF IInv

(* What a request asks for is an int.                                      *)
LEMMA RequestValue == ASSUME NEW r \in Request PROVE r.value \in -1..MaxValue
BY BoundsAssumption DEF Request, scan_pulse, pps

(* A time that is latched is not "no time".                                 *)
LEMMA TimeIsNotNone == ASSUME NEW s \in Int, NEW c \in Int PROVE <<s, c>> \in PulseTime \ {None}
BY NoneAssumption DEF PulseTime

(* One period more.                                                        *)
LEMMA OnePeriodMore ==
  ASSUME NEW n \in Int, NEW c \in Int
  PROVE  (n - 1) * c + c = (n + 1 - 1) * c
OBVIOUS

(* A pulse moves from the latch to the history.                            *)
LEMMA PulseInv == IInv /\ Pulse => IInv'
<1> SUFFICES ASSUME IInv, Pulse PROVE IInv'
  OBVIOUS
<1> USE NoneAssumption, BoundsAssumption DEF IInv, TypeOK, chanVars, regVars, histVars, callVars, MayRun, PulseTime, Pulse
<1>1. TypeOK'
  OBVIOUS
<1>2. DecPositive'
  BY DEF DecPositive
<1>3. OneCpu => ForeverOnlyIfAsked'
  BY DEF ForeverOnlyIfAsked
<1>4. ZeroBudget'
  BY DEF ZeroBudget
<1>5. FirstInv'
  BY DEF FirstInv, Watched
<1>6. FiredDue'
  <2>1. /\ Len(fired') = Len(fired) + 1
        /\ fired'[Len(fired) + 1] = latched
        /\ \A k \in 1..Len(fired) : fired'[k] = fired[k]
    OBVIOUS
  <2>2. Running' => Running
    BY DEF Running, Watched
  <2>3. \A k : Due(k)' = Due(k)
    BY DEF Due
  <2> QED BY <2>1, <2>2, <2>3 DEF FiredDue
<1>7. OneThing'
  BY DEF OneThing, Running, Programmed, Watched, Looping
<1>8. SetPointFollows'
  BY DEF SetPointFollows, Running, SetPoint, Programmed, Watched, Looping
<1>9. CountFollows'
  BY DEF CountFollows, Running, Counted, Programmed, AtRest, Watched, Looping
<1> QED BY <1>1, <1>2, <1>3, <1>4, <1>5, <1>6, <1>7, <1>8, <1>9

(* A new request: nothing is known of it yet, but whether it is watched.   *)
LEMMA CallInv == IInv /\ Call => IInv'
<1> SUFFICES ASSUME IInv, Call PROVE IInv'
  OBVIOUS
<1> USE NoneAssumption, BoundsAssumption DEF IInv, TypeOK, chanVars, regVars, histVars, callVars, MayRun, PulseTime, Call
<1>1. TypeOK'
  BY DEF Request, scan_pulse, pps
<1>2. DecPositive'
  BY DEF DecPositive
<1>3. OneCpu => ForeverOnlyIfAsked'
  BY DEF ForeverOnlyIfAsked
<1>4. ZeroBudget'
  BY DEF ZeroBudget
<1>5. FirstInv'
  BY DEF FirstInv, Watched, Looping, AtRest
<1>6. FiredDue'
  BY DEF FiredDue, Running, Watched
<1>7. OneThing'
  BY DEF OneThing, Running, Watched
<1>8. SetPointFollows'
  BY DEF SetPointFollows, Running, Watched
<1>9. CountFollows'
  BY DEF CountFollows, Running, Watched
<1> QED BY <1>1, <1>2, <1>3, <1>4, <1>5, <1>6, <1>7, <1>8, <1>9

(* A pulse of a request that is not watched.                               *)
LEMMA NowInv == IInv /\ Now => IInv'
<1> SUFFICES ASSUME IInv, Now PROVE IInv'
  OBVIOUS
<1> USE NoneAssumption, BoundsAssumption DEF IInv, TypeOK, chanVars, regVars, histVars, callVars, MayRun, PulseTime, Now
<1>1. TypeOK'
  OBVIOUS
<1>2. DecPositive'
  BY DEF DecPositive
<1>3. OneCpu => ForeverOnlyIfAsked'
  BY DEF ForeverOnlyIfAsked
<1>4. ZeroBudget'
  BY DEF ZeroBudget
<1>5. FirstInv'
  BY DEF FirstInv
<1>6. FiredDue'
  BY DEF FiredDue, Running, FirstInv, Watched
<1>7. OneThing'
  BY DEF OneThing, Running, FirstInv, Watched
<1>8. SetPointFollows'
  BY DEF SetPointFollows, Running, FirstInv, Watched
<1>9. CountFollows'
  BY DEF CountFollows, Running, FirstInv, Watched
<1> QED BY <1>1, <1>2, <1>3, <1>4, <1>5, <1>6, <1>7, <1>8, <1>9

(* The count is set; the first pulse is taken off.                         *)
LEMMA SetCountInv == IInv /\ SetCount => IInv'
<1> SUFFICES ASSUME IInv, SetCount PROVE IInv'
  OBVIOUS
<1> USE NoneAssumption, BoundsAssumption DEF IInv, TypeOK, chanVars, regVars, histVars, callVars, MayRun, PulseTime, SetCount, Remaining
<1>1. TypeOK'
  <2>1. req.value \in -1..MaxValue
    BY RequestValue
  <2>2. count' \in Int /\ count' \in -2..MaxValue
    BY <2>1
  <2>3. fired' \in Seq({None} \cup (Int \X Int)) /\ Len(fired') = 0
    OBVIOUS
  <2> QED BY <2>2, <2>3
<1>2. DecPositive'
  BY DEF DecPositive
<1>3. OneCpu => ForeverOnlyIfAsked'
  BY DEF ForeverOnlyIfAsked, Request, scan_pulse, pps
<1>4. ZeroBudget'
  BY DEF ZeroBudget
<1>5. FirstInv'
  BY DEF FirstInv, Watched, Looping
<1>6. FiredDue'
  BY DEF FiredDue, Running
<1>7. OneThing'
  BY DEF OneThing, Running
<1>8. SetPointFollows'
  BY DEF SetPointFollows, Running
<1>9. CountFollows'
  BY DEF CountFollows, Running
<1> QED BY <1>1, <1>2, <1>3, <1>4, <1>5, <1>6, <1>7, <1>8, <1>9

(* The set point.                                                          *)
LEMMA SetPrevtsInv == IInv /\ SetPrevts => IInv'
<1> SUFFICES ASSUME IInv, SetPrevts PROVE IInv'
  OBVIOUS
<1> USE NoneAssumption, BoundsAssumption DEF IInv, TypeOK, chanVars, regVars, histVars, callVars, MayRun, PulseTime, SetPrevts, Start
<1>1. TypeOK'
  OBVIOUS
<1>2. DecPositive'
  BY DEF DecPositive
<1>3. OneCpu => ForeverOnlyIfAsked'
  BY DEF ForeverOnlyIfAsked
<1>4. ZeroBudget'
  BY DEF ZeroBudget
<1>5. FirstInv'
  BY DEF FirstInv, Watched, Looping
<1>6. FiredDue'
  BY DEF FiredDue, Running
<1>7. OneThing'
  BY DEF OneThing, Running
<1>8. SetPointFollows'
  BY DEF SetPointFollows, Running
<1>9. CountFollows'
  BY DEF CountFollows, Running
<1> QED BY <1>1, <1>2, <1>3, <1>4, <1>5, <1>6, <1>7, <1>8, <1>9

(* The period.                                                             *)
LEMMA SetDelayInv == IInv /\ SetDelay => IInv'
<1> SUFFICES ASSUME IInv, SetDelay PROVE IInv'
  OBVIOUS
<1> USE NoneAssumption, BoundsAssumption DEF IInv, TypeOK, chanVars, regVars, histVars, callVars, MayRun, PulseTime, SetDelay, Period
<1>1. TypeOK'
  OBVIOUS
<1>2. DecPositive'
  BY DEF DecPositive
<1>3. OneCpu => ForeverOnlyIfAsked'
  BY DEF ForeverOnlyIfAsked
<1>4. ZeroBudget'
  BY DEF ZeroBudget
<1>5. FirstInv'
  BY DEF FirstInv, Watched, Looping
<1>6. FiredDue'
  BY DEF FiredDue, Running
<1>7. OneThing'
  BY DEF OneThing, Running
<1>8. SetPointFollows'
  BY DEF SetPointFollows, Running
<1>9. CountFollows'
  BY DEF CountFollows, Running
<1> QED BY <1>1, <1>2, <1>3, <1>4, <1>5, <1>6, <1>7, <1>8, <1>9

(* The sub-second part of the first pulse.                                 *)
LEMMA FirstCycleInv == IInv /\ FirstCycle => IInv'
<1> SUFFICES ASSUME IInv, FirstCycle PROVE IInv'
  OBVIOUS
<1> USE NoneAssumption, BoundsAssumption DEF IInv, TypeOK, chanVars, regVars, histVars, callVars, MayRun, PulseTime, FirstCycle, SetCycle, Start
<1>1. TypeOK'
  OBVIOUS
<1>2. DecPositive'
  BY DEF DecPositive
<1>3. OneCpu => ForeverOnlyIfAsked'
  BY DEF ForeverOnlyIfAsked
<1>4. ZeroBudget'
  BY DEF ZeroBudget
<1>5. FirstInv'
  BY DEF FirstInv, Watched, Looping
<1>6. FiredDue'
  BY DEF FiredDue, Running
<1>7. OneThing'
  BY DEF OneThing, Running
<1>8. SetPointFollows'
  BY DEF SetPointFollows, Running
<1>9. CountFollows'
  BY DEF CountFollows, Running
<1> QED BY <1>1, <1>2, <1>3, <1>4, <1>5, <1>6, <1>7, <1>8, <1>9

(* Its seconds, and the latch: one pulse is programmed.                    *)
LEMMA FirstSecondsInv == IInv /\ FirstSeconds => IInv'
<1> SUFFICES ASSUME IInv, FirstSeconds PROVE IInv'
  OBVIOUS
<1> USE NoneAssumption, BoundsAssumption DEF IInv, TypeOK, chanVars, regVars, histVars, callVars, MayRun, PulseTime, FirstSeconds, SetSeconds, Start
<1>0. latched' \in PulseTime \ {None}
  BY TimeIsNotNone
<1>1. TypeOK'
  OBVIOUS
<1>2. DecPositive'
  BY DEF DecPositive
<1>3. OneCpu => ForeverOnlyIfAsked'
  BY DEF ForeverOnlyIfAsked
<1>4. ZeroBudget'
  BY DEF ZeroBudget
<1>5. FirstInv'
  BY DEF FirstInv
<1>6. FiredDue'
  BY DEF FiredDue, Running, FirstInv, Watched, Due, Period
<1>7. OneThing'
  BY <1>0 DEF OneThing, Running, Programmed, FirstInv, Watched
<1>8. SetPointFollows'
  <2>1. Watched => SetPoint' = 1
    BY <1>0 DEF SetPoint, Programmed, FirstInv
  <2> QED BY <2>1, <1>0 DEF SetPointFollows, Running, FirstInv, Watched, Looping, Period
<1>9. CountFollows'
  <2>1. Watched => Counted' = 1
    BY <1>0 DEF Counted, Programmed, FirstInv
  <2>2. Watched /\ Looping => count = Remaining(req.value)
    BY DEF FirstInv
  <2> QED BY <2>1, <2>2, <1>0, RequestValue
          DEF CountFollows, Running, FirstInv, Watched, Looping, AtRest, Remaining
<1> QED BY <1>1, <1>2, <1>3, <1>4, <1>5, <1>6, <1>7, <1>8, <1>9

(* The stamp is read.                                                      *)
LEMMA IrqPullInv == IInv /\ IrqPull => IInv'
<1> SUFFICES ASSUME IInv, IrqPull PROVE IInv'
  OBVIOUS
<1> USE NoneAssumption, BoundsAssumption DEF IInv, TypeOK, chanVars, regVars, histVars, callVars, MayRun, PulseTime, IrqPull
<1>1. TypeOK'
  OBVIOUS
<1>2. DecPositive'
  BY DEF DecPositive
<1>3. OneCpu => ForeverOnlyIfAsked'
  BY DEF ForeverOnlyIfAsked
<1>4. ZeroBudget'
  BY DEF ZeroBudget
<1>5. FirstInv'
  BY DEF FirstInv, Watched
<1>6. FiredDue'
  BY DEF FiredDue, Running, Watched, Due
<1>7. OneThing'
  BY DEF OneThing, Running, Programmed, Watched, Looping
<1>8. SetPointFollows'
  BY DEF SetPointFollows, Running, SetPoint, Programmed, Watched, Looping
<1>9. CountFollows'
  BY DEF CountFollows, Running, Counted, Programmed, AtRest, Watched, Looping
<1> QED BY <1>1, <1>2, <1>3, <1>4, <1>5, <1>6, <1>7, <1>8, <1>9

(* The train goes on or is over.                                           *)
LEMMA IrqCheckInv == IInv /\ IrqCheck => IInv'
<1> SUFFICES ASSUME IInv, IrqCheck PROVE IInv'
  OBVIOUS
<1> USE NoneAssumption, BoundsAssumption DEF IInv, TypeOK, chanVars, regVars, histVars, callVars, MayRun, PulseTime, IrqCheck
<1>1. TypeOK'
  OBVIOUS
<1>2. DecPositive'
  BY DEF DecPositive
<1>3. OneCpu => ForeverOnlyIfAsked'
  BY DEF ForeverOnlyIfAsked
<1>4. ZeroBudget'
  BY DEF ZeroBudget
<1>5. FirstInv'
  BY DEF FirstInv, Watched
<1>6. FiredDue'
  BY DEF FiredDue, Running, Watched, Due
<1>7. OneThing'
  BY DEF OneThing, Running, Programmed, Watched, Looping
<1>8. SetPointFollows'
  BY DEF SetPointFollows, Running, SetPoint, Programmed, Watched, Looping
<1>9. CountFollows'
  BY DEF CountFollows, Running, Counted, Programmed, AtRest, Watched, Looping
<1> QED BY <1>1, <1>2, <1>3, <1>4, <1>5, <1>6, <1>7, <1>8, <1>9

(* The set point moves by one period.                                      *)
LEMMA IrqNextInv == IInv /\ IrqNext => IInv'
<1> SUFFICES ASSUME IInv, IrqNext PROVE IInv'
  OBVIOUS
<1> USE NoneAssumption, BoundsAssumption DEF IInv, TypeOK, chanVars, regVars, histVars, callVars, MayRun, PulseTime, IrqNext
<1>1. TypeOK'
  OBVIOUS
<1>2. DecPositive'
  BY DEF DecPositive
<1>3. OneCpu => ForeverOnlyIfAsked'
  BY DEF ForeverOnlyIfAsked
<1>4. ZeroBudget'
  BY DEF ZeroBudget
<1>5. FirstInv'
  BY DEF FirstInv, Watched
<1>6. FiredDue'
  BY DEF FiredDue, Running, Watched, Due
<1>7. OneThing'
  BY DEF OneThing, Running, Programmed, Watched, Looping
<1>8. SetPointFollows'
  <2>1. SetPoint \in Int /\ SetPoint' = SetPoint + 1
    BY DEF SetPoint, Programmed
  <2>2. Period(calls) \in Int
    BY DEF Period
  <2>3. (SetPoint - 1) * Period(calls) + Period(calls) = (SetPoint + 1 - 1) * Period(calls)
    BY <2>1, <2>2, OnePeriodMore
  <2> QED BY <2>1, <2>2, <2>3 DEF SetPointFollows, Running, Watched, Looping, CountFollows, Start
<1>9. CountFollows'
  BY DEF CountFollows, Running, Counted, Programmed, AtRest, Watched, Looping
<1> QED BY <1>1, <1>2, <1>3, <1>4, <1>5, <1>6, <1>7, <1>8, <1>9

(* The sub-second part of the next pulse.                                  *)
LEMMA IrqCycleInv == IInv /\ IrqCycle => IInv'
<1> SUFFICES ASSUME IInv, IrqCycle PROVE IInv'
  OBVIOUS
<1> USE NoneAssumption, BoundsAssumption DEF IInv, TypeOK, chanVars, regVars, histVars, callVars, MayRun, PulseTime, IrqCycle, SetCycle
<1>1. TypeOK'
  OBVIOUS
<1>2. DecPositive'
  BY DEF DecPositive
<1>3. OneCpu => ForeverOnlyIfAsked'
  BY DEF ForeverOnlyIfAsked
<1>4. ZeroBudget'
  BY DEF ZeroBudget
<1>5. FirstInv'
  BY DEF FirstInv, Watched
<1>6. FiredDue'
  BY DEF FiredDue, Running, Watched, Due
<1>7. OneThing'
  BY DEF OneThing, Running, Programmed, Watched, Looping
<1>8. SetPointFollows'
  BY DEF SetPointFollows, Running, SetPoint, Programmed, Watched, Looping
<1>9. CountFollows'
  BY DEF CountFollows, Running, Counted, Programmed, AtRest, Watched, Looping
<1> QED BY <1>1, <1>2, <1>3, <1>4, <1>5, <1>6, <1>7, <1>8, <1>9

(* Its seconds, and the latch: one more is programmed.                     *)
LEMMA IrqSecondsInv == IInv /\ IrqSeconds => IInv'
<1> SUFFICES ASSUME IInv, IrqSeconds PROVE IInv'
  OBVIOUS
<1> USE NoneAssumption, BoundsAssumption DEF IInv, TypeOK, chanVars, regVars, histVars, callVars, MayRun, PulseTime, IrqSeconds, SetSeconds
<1>0. latched' \in PulseTime \ {None}
  BY TimeIsNotNone
<1>1. TypeOK'
  OBVIOUS
<1>2. DecPositive'
  BY DEF DecPositive
<1>3. OneCpu => ForeverOnlyIfAsked'
  BY DEF ForeverOnlyIfAsked
<1>4. ZeroBudget'
  BY DEF ZeroBudget
<1>5. FirstInv'
  BY DEF FirstInv, Watched
<1>6. FiredDue'
  <2>1. SUFFICES ASSUME Running PROVE FiredDue'
    BY DEF FiredDue, Running, Watched
  <2>2. Looping
    BY <2>1 DEF CountFollows
  <2>3. SetPoint = Len(fired) + 1
    BY <2>1 DEF OneThing, SetPoint, Programmed
  <2>4. PICK n \in Int : n = Len(fired) + 1
    OBVIOUS
  <2>5. prevts = Start(calls) + (n - 1) * Period(calls) /\ cycle = prevts - 1
    BY <2>1, <2>2, <2>3, <2>4 DEF SetPointFollows
  <2>6. Due(n) = <<prevts - 1, prevts - 1>>
    BY <2>5, Zenon DEF Due
  <2>7. latched' = <<prevts - 1, cycle>>
    OBVIOUS
  <2> QED BY <2>1, <2>4, <2>5, <2>6, <2>7 DEF FiredDue, Due
<1>7. OneThing'
  <2>1. Running => Looping /\ latched = None /\ fifo = 0
    BY DEF CountFollows, OneThing
  <2> QED BY <1>0, <2>1 DEF OneThing, Running, Programmed, Watched, Looping
<1>8. SetPointFollows'
  <2>1. Running => SetPoint' = SetPoint
    BY <1>0 DEF OneThing, SetPoint, Programmed
  <2> QED BY <2>1 DEF SetPointFollows, Running, Watched, Looping
<1>9. CountFollows'
  BY DEF CountFollows, Running, Counted, Programmed, OneThing, AtRest, Watched, Looping
<1> QED BY <1>1, <1>2, <1>3, <1>4, <1>5, <1>6, <1>7, <1>8, <1>9

(* The count is not forever.                                               *)
LEMMA IrqReadInv == IInv /\ IrqRead => IInv'
<1> SUFFICES ASSUME IInv, IrqRead PROVE IInv'
  OBVIOUS
<1> USE NoneAssumption, BoundsAssumption DEF IInv, TypeOK, chanVars, regVars, histVars, callVars, MayRun, PulseTime, IrqRead
<1>1. TypeOK'
  OBVIOUS
<1>2. DecPositive'
  BY DEF DecPositive
<1>3. OneCpu => ForeverOnlyIfAsked'
  BY DEF ForeverOnlyIfAsked
<1>4. ZeroBudget'
  BY DEF ZeroBudget
<1>5. FirstInv'
  BY DEF FirstInv, Watched
<1>6. FiredDue'
  BY DEF FiredDue, Running, Watched, Due
<1>7. OneThing'
  BY DEF OneThing, Running, Programmed, Watched, Looping
<1>8. SetPointFollows'
  BY DEF SetPointFollows, Running, SetPoint, Programmed, Watched, Looping
<1>9. CountFollows'
  <2>1. Programmed \in Int /\ Programmed' = Programmed
    BY DEF Programmed
  <2>2. CASE count > 0
    BY <2>1, <2>2 DEF CountFollows, Running, Watched, Looping, Counted, AtRest
  <2>3. CASE ~(count > 0)
    <3>1. Running => ~(req.value > 0) /\ ~AtRest'
      BY <2>3 DEF CountFollows, OneThing, AtRest
    <3> QED BY <3>1, <2>1, <2>3 DEF CountFollows, Running, Watched, Looping
  <2> QED BY <2>2, <2>3
<1> QED BY <1>1, <1>2, <1>3, <1>4, <1>5, <1>6, <1>7, <1>8, <1>9

(* The count follows.                                                      *)
LEMMA IrqDecInv == IInv /\ IrqDec => IInv'
<1> SUFFICES ASSUME IInv, IrqDec PROVE IInv'
  OBVIOUS
<1> USE NoneAssumption, BoundsAssumption DEF IInv, TypeOK, chanVars, regVars, histVars, callVars, MayRun, PulseTime, IrqDec
<1>1. TypeOK'
  BY DEF DecPositive
<1>2. DecPositive'
  BY DEF DecPositive
<1>3. OneCpu => ForeverOnlyIfAsked'
  BY DEF ForeverOnlyIfAsked, DecPositive
<1>4. ZeroBudget'
  BY DEF ZeroBudget
<1>5. FirstInv'
  BY DEF FirstInv, Watched
<1>6. FiredDue'
  BY DEF FiredDue, Running, Watched, Due
<1>7. OneThing'
  BY DEF OneThing, Running, Programmed, Watched, Looping
<1>8. SetPointFollows'
  BY DEF SetPointFollows, Running, SetPoint, Programmed, Watched, Looping
<1>9. CountFollows'
  <2>1. Programmed \in Int /\ Programmed' = Programmed
    BY DEF Programmed
  <2>2. Running => Looping /\ count > 0 /\ ~AtRest'
    BY DEF CountFollows, OneThing, AtRest
  <2>3. Counted' = Counted + 1
    BY <2>1 DEF Counted
  <2>4. Running => ~(req.value < 0)
    BY <2>2 DEF CountFollows
  <2>5. Running' = Running /\ Looping' = Looping
    BY DEF Running, Watched, Looping
  <2>6. Counted \in Int /\ req.value \in Int
    BY <2>1, RequestValue DEF Counted
  <2>7. Running => req.value > 0
    BY <2>2, <2>4, <2>6 DEF Running, Watched, Looping
  <2>8. Running => count' = req.value - Counted' /\ count' >= 0
    <3> SUFFICES ASSUME Running PROVE count' = req.value - Counted' /\ count' >= 0
      OBVIOUS
    <3>1. count = req.value - Counted /\ count > 0
      BY <2>2, <2>7 DEF CountFollows
    <3>2. count' = count - 1 /\ count \in Int
      OBVIOUS
    <3> HIDE DEF IInv, IrqDec
    <3> QED BY <2>3, <2>6, <3>1, <3>2
  <2> QED BY <2>2, <2>4, <2>5, <2>8 DEF CountFollows
<1> QED BY <1>1, <1>2, <1>3, <1>4, <1>5, <1>6, <1>7, <1>8, <1>9

(* Every step preserves the invariant.                                     *)
LEMMA NextInv == IInv /\ [Next]_vars => IInv'
<1>1. IInv /\ Next => IInv'
  BY PulseInv, CallInv, NowInv, SetCountInv, SetPrevtsInv, SetDelayInv, FirstCycleInv,
     FirstSecondsInv, IrqPullInv, IrqCheckInv, IrqNextInv, IrqCycleInv, IrqSecondsInv,
     IrqReadInv, IrqDecInv
  DEF Next, Ioctl, Interrupt
<1>2. IInv /\ UNCHANGED vars => IInv'
  <2> SUFFICES ASSUME IInv, UNCHANGED vars PROVE IInv'
    OBVIOUS
  <2> USE DEF vars, chanVars, regVars, histVars, callVars
  <2>1. TypeOK' /\ DecPositive' /\ (OneCpu => ForeverOnlyIfAsked') /\ ZeroBudget'
    BY DEF IInv, TypeOK, DecPositive, ForeverOnlyIfAsked, ZeroBudget
  <2>2. Running' = Running /\ Watched' = Watched /\ Looping' = Looping /\ AtRest' = AtRest
    BY DEF Running, Watched, Looping, AtRest
  <2>3. Programmed' = Programmed /\ Counted' = Counted /\ SetPoint' = SetPoint
    BY DEF Programmed, Counted, SetPoint
  <2>4. FirstInv' /\ OneThing' /\ SetPointFollows' /\ CountFollows'
    BY <2>2, <2>3 DEF IInv, FirstInv, OneThing, SetPointFollows, CountFollows
  <2>5. FiredDue'
    BY <2>2 DEF IInv, FiredDue, Due
  <2> QED BY <2>1, <2>4, <2>5 DEF IInv
<1> QED BY <1>1, <1>2

(* So it holds in every behaviour.                                         *)
LEMMA Invariance == Spec => []IInv
BY InitInv, NextInv, PTL DEF Spec

-----------------------------------------------------------------------------
(* The shared state of ioctl, interrupt and gateware keeps its types, and  *)
(* on one processor the count stays in the range requests can give it.     *)
THEOREM TypeCorrect == Spec => []TypeOK
<1>1. IInv => TypeOK
  BY DEF IInv
<1> QED BY <1>1, Invariance, PTL

(* A train on a channel at rest is the pulses asked for, each at its time, *)
(* for trains of any length and on any number of processors.               *)
THEOREM TrainCorrect == Spec => []TrainExact
<1>1. IInv => TrainExact
  <2> SUFFICES ASSUME IInv, alone, req.kind \in {"once", "loop"}, Wanted > 0
               PROVE  /\ Len(fired) <= Wanted
                      /\ \A k \in 1..Len(fired) : fired[k] = Due(k)
                      /\ AtRest => Len(fired) = Wanted
    BY DEF TrainExact
  <2> USE DEF IInv
  <2>1. req.value \in -1..MaxValue /\ Len(fired) \in 0..pulses /\ pulses \in 0..MaxPulses
    BY RequestValue DEF TypeOK
  <2>2. Watched
    BY <2>1 DEF Watched, Wanted
  <2>3. CASE upc # "idle"
    <3>1. fired = << >> /\ ~AtRest
      BY <2>2, <2>3 DEF FirstInv, AtRest
    <3>2. Len(fired) = 0
      BY <3>1
    <3>3. Wanted \in Nat
      BY <2>1, BoundsAssumption DEF Wanted
    <3> QED BY <3>1, <3>2, <3>3
  <2>4. CASE upc = "idle"
    <3>1. Running
      BY <2>2, <2>4 DEF Running
    <3>2. \A k \in 1..Len(fired) : fired[k] = Due(k)
      BY <3>1 DEF FiredDue
    <3>3. CASE req.kind = "once"
      <4>1. Wanted = 1
        BY <3>3 DEF Wanted
      <4>2. Programmed = 1
        BY <3>1, <3>3 DEF OneThing, Looping
      <4> QED BY <2>1, <3>2, <4>1, <4>2 DEF Programmed, AtRest
    <3>4. CASE req.kind = "loop" /\ req.value < 0
      <4>1. Wanted = MaxPulses
        BY <2>1, <3>4 DEF Wanted
      <4>2. ~AtRest
        BY <3>1, <3>4 DEF CountFollows, Looping
      <4> QED BY <2>1, <3>2, <4>1, <4>2, BoundsAssumption
    <3>5. CASE req.kind = "loop" /\ req.value >= 0
      <4>1. Wanted = req.value /\ Looping /\ req.value > 0
        BY <2>1, <3>5 DEF Wanted, Looping
      <4>2. count = req.value - Counted /\ count >= 0 /\ (AtRest => count = 0)
        BY <3>1, <4>1 DEF CountFollows
      <4>3. ipc \in {"read", "dec"} => count # 0
        BY <3>1 DEF CountFollows
      <4>4. Len(fired) <= Programmed /\ Programmed \in Int /\ (AtRest => Len(fired) = Programmed)
        BY <2>1 DEF Programmed, AtRest
      <4>5. Counted = Programmed - (IF ipc \in {"read", "dec"} THEN 1 ELSE 0)
        BY DEF Counted
      <4>6. AtRest => ipc = "idle"
        BY DEF AtRest
      <4> QED BY <2>1, <3>2, <4>1, <4>2, <4>3, <4>4, <4>5, <4>6
    <3> QED BY <2>1, <3>3, <3>4, <3>5
  <2> QED BY <2>3, <2>4
<1> QED BY <1>1, Invariance, PTL

(* A request for 0 pulses ends a train within two pulses, on one processor.*)
THEOREM ZeroCorrect == Spec => []ZeroEndsTrain
<1>1. IInv => ZeroEndsTrain
  <2> SUFFICES ASSUME IInv, OneCpu, req = [kind |-> "loop", value |-> 0], upc # "count"
               PROVE  Len(fired) <= 2
    BY DEF ZeroEndsTrain
  <2>1. Len(fired) \in Nat
    OBVIOUS
  <2> DEFINE due == IF latched # None THEN 1 ELSE 0
             first == IF upc # "idle" THEN 1 ELSE 0
  <2>2. Len(fired) + due + first <= 2
    BY DEF IInv, ZeroBudget
  <2>3. due \in Nat /\ first \in Nat
    OBVIOUS
  <2> HIDE DEF due, first
  <2> QED BY <2>1, <2>2, <2>3
<1> QED BY <1>1, Invariance, PTL

(* On one processor a count never turns into forever by itself.            *)
THEOREM ForeverCorrect == ASSUME OneCpu PROVE Spec => []ForeverOnlyIfAsked
<1>1. IInv => ForeverOnlyIfAsked
  BY DEF IInv
<1> QED BY <1>1, Invariance, PTL

(* The counts of a channel are obeyed, on one processor.                   *)
THEOREM CountCorrect == ASSUME OneCpu PROVE Spec => []CountObeyed
BY ZeroCorrect, ForeverCorrect, PTL DEF CountObeyed
=============================================================================
