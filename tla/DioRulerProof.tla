---------------------------- MODULE DioRulerProof ----------------------------
(***************************************************************************)
(* What the arithmetic of Timespec computes, for every number of           *)
(* nanoseconds in a second and all times; and that the modes of DioModes   *)
(* hold and the pulses of DioRuler are as asked and none is missing, for   *)
(* every command line, any number of edges and commands and a run of any   *)
(* length; and that the stamp rings of DioStamp hold and return the stamps *)
(* they should on one processor, and that no stamp is slept over on any    *)
(* number of them, for rings, masks and replies of any size.               *)
(***************************************************************************)
EXTENDS DioRuler, DioStamp, WellFoundedInduction, TLAPS

-----------------------------------------------------------------------------
(* Times *)

\* Products with NSEC are opaque to the provers: what they need is that they
\* distribute.
LEMMA Distributes ==
  \A a, b \in Int : /\ (a + b) * NSEC = a * NSEC + b * NSEC
                    /\ (a - b) * NSEC = a * NSEC - b * NSEC
                    /\ a * NSEC \in Int
  BY NSECAssumption

(* ts_sub in stamp-frame: the difference of two normal times is normal and *)
(* exact, negative ones included.                                          *)
THEOREM SubExact ==
  ASSUME NEW a \in NormalTime, NEW b \in NormalTime
  PROVE  ts_sub(a, b) \in NormalTime /\ Nanos(ts_sub(a, b)) = Nanos(a) - Nanos(b)
<1> DEFINE n == a.nsec - b.nsec
<1>1. /\ a.sec \in Int /\ b.sec \in Int /\ n \in Int
      /\ a.nsec \in Int /\ b.nsec \in Int /\ 0 - NSEC < n /\ n < NSEC
  BY NSECAssumption DEF NormalTime
<1>2. CASE n < 0
  <2>1. ts_sub(a, b) = Ts(a.sec - b.sec - 1, n + NSEC)
    BY <1>2 DEF ts_sub
  <2>2. (a.sec - b.sec - 1) * NSEC = a.sec * NSEC - b.sec * NSEC - NSEC
    BY <1>1, Distributes, NSECAssumption
  <2>3. Nanos(ts_sub(a, b)) = Nanos(a) - Nanos(b)
    BY <1>1, <2>1, <2>2, Distributes, NSECAssumption DEF Nanos, Ts
  <2> QED BY <1>1, <1>2, <2>1, <2>3, NSECAssumption DEF NormalTime, Ts
<1>3. CASE ~(n < 0)
  <2>1. ts_sub(a, b) = Ts(a.sec - b.sec, n)
    BY <1>3 DEF ts_sub
  <2>2. Nanos(ts_sub(a, b)) = Nanos(a) - Nanos(b)
    BY <1>1, <2>1, Distributes, NSECAssumption DEF Nanos, Ts
  <2> QED BY <1>1, <1>3, <2>1, <2>2, NSECAssumption DEF NormalTime, Ts
<1> QED BY <1>2, <1>3

(* spec-sw.in on stamp-frame: the round trip "is correct nonetheless,      *)
(* because it is a difference of differences".  It is the sum of the       *)
(* forward and the backward time also when the clocks of the two hosts are *)
(* far apart and one of the two is negative.                               *)
THEOREM RoundTripIsSum ==
  ASSUME NEW t1 \in NormalTime, NEW t2 \in NormalTime,
         NEW t3 \in NormalTime, NEW t4 \in NormalTime
  PROVE  LET r == report_times(t1, t2, t3, t4) IN
           /\ r.rtt \in NormalTime /\ r.fw \in NormalTime /\ r.bw \in NormalTime
           /\ Nanos(r.rtt) = Nanos(r.fw) + Nanos(r.bw)
<1> DEFINE r == report_times(t1, t2, t3, t4)
<1>1. /\ r.rtt = ts_sub(ts_sub(t4, t1), ts_sub(t3, t2))
      /\ r.fw = ts_sub(t2, t1)
      /\ r.bw = ts_sub(t4, t3)
  BY DEF report_times
<1>2. \A t \in NormalTime : Nanos(t) \in Int
  BY Distributes, NSECAssumption DEF NormalTime, Nanos
<1>3. /\ ts_sub(t4, t1) \in NormalTime
      /\ Nanos(ts_sub(t4, t1)) = Nanos(t4) - Nanos(t1)
  BY SubExact
<1>4. /\ ts_sub(t3, t2) \in NormalTime
      /\ Nanos(ts_sub(t3, t2)) = Nanos(t3) - Nanos(t2)
  BY SubExact
<1>5. /\ r.rtt \in NormalTime
      /\ Nanos(r.rtt) = Nanos(ts_sub(t4, t1)) - Nanos(ts_sub(t3, t2))
  BY <1>1, <1>3, <1>4, SubExact
<1>6. r.fw \in NormalTime /\ Nanos(r.fw) = Nanos(t2) - Nanos(t1)
  BY <1>1, SubExact
<1>7. r.bw \in NormalTime /\ Nanos(r.bw) = Nanos(t4) - Nanos(t3)
  BY <1>1, SubExact
<1> HIDE DEF r
<1>8. Nanos(r.rtt) = Nanos(r.fw) + Nanos(r.bw)
  BY <1>2, <1>3, <1>4, <1>5, <1>6, <1>7
<1> QED BY <1>5, <1>6, <1>7, <1>8 DEF r

(* The carry for "> 1000 * 1000 * 1000" leaves exactly a second of         *)
(* nanoseconds as it is: the deadline that the ruler sends is exact, but   *)
(* may not be normal.                                                      *)
THEOREM DelayExact ==
  ASSUME NEW t \in NormalTime, NEW d \in NormalTime
  PROVE  /\ add_delay(t, d) \in [sec : Int, nsec : 0..NSEC]
         /\ Nanos(add_delay(t, d)) = Nanos(t) + Nanos(d)
<1> DEFINE n == t.nsec + d.nsec
<1>1. /\ t.sec \in Int /\ d.sec \in Int /\ n \in Int
      /\ t.nsec \in Int /\ d.nsec \in Int /\ 0 <= n /\ n < NSEC + NSEC
  BY NSECAssumption DEF NormalTime
<1>2. CASE n > NSEC
  <2>1. add_delay(t, d) = Ts(t.sec + d.sec + 1, n - NSEC)
    BY <1>2 DEF add_delay
  <2>2. (t.sec + d.sec + 1) * NSEC = t.sec * NSEC + d.sec * NSEC + NSEC
    BY <1>1, Distributes, NSECAssumption
  <2>3. Nanos(add_delay(t, d)) = Nanos(t) + Nanos(d)
    BY <1>1, <2>1, <2>2, Distributes, NSECAssumption DEF Nanos, Ts
  <2> QED BY <1>1, <1>2, <2>1, <2>3, NSECAssumption DEF Ts
<1>3. CASE ~(n > NSEC)
  <2>1. add_delay(t, d) = Ts(t.sec + d.sec, n)
    BY <1>3 DEF add_delay
  <2>2. Nanos(add_delay(t, d)) = Nanos(t) + Nanos(d)
    BY <1>1, <2>1, Distributes, NSECAssumption DEF Nanos, Ts
  <2> QED BY <1>1, <1>3, <2>1, <2>2, NSECAssumption DEF Ts
<1> QED BY <1>2, <1>3

LEMMA NormalisedExact ==
  ASSUME NEW a \in [sec : Int, nsec : 0..NSEC], NEW cycle \in 0..NSEC
  PROVE  /\ wrn_ts_sub(a, cycle) \in NormalTime
         /\ Nanos(wrn_ts_sub(a, cycle)) = Nanos(a) - cycle
<1> DEFINE n == a.nsec - cycle
           p == wrn_ts_sub(a, cycle)
<1>1. /\ a.sec \in Int /\ a.nsec \in Int /\ n \in Int /\ cycle \in Int
      /\ 0 - NSEC <= n /\ n <= NSEC
  BY NSECAssumption
<1>2. p = set_normalized_timespec(a.sec, n)
  BY DEF wrn_ts_sub
<1>3. CASE n >= NSEC
  <2>1. p = Ts(a.sec + 1, n - NSEC)
    BY <1>2, <1>3 DEF set_normalized_timespec
  <2>2. (a.sec + 1) * NSEC = a.sec * NSEC + NSEC
    BY <1>1, Distributes, NSECAssumption
  <2>3. Nanos(p) = Nanos(a) - cycle
    BY <1>1, <2>1, <2>2, Distributes, NSECAssumption DEF Nanos, Ts
  <2> QED BY <1>1, <1>3, <2>1, <2>3, NSECAssumption DEF NormalTime, Ts
<1>4. CASE n < 0
  <2>1. p = Ts(a.sec - 1, n + NSEC)
    BY <1>1, <1>2, <1>4, NSECAssumption DEF set_normalized_timespec
  <2>2. (a.sec - 1) * NSEC = a.sec * NSEC - NSEC
    BY <1>1, Distributes, NSECAssumption
  <2>3. Nanos(p) = Nanos(a) - cycle
    BY <1>1, <2>1, <2>2, Distributes, NSECAssumption DEF Nanos, Ts
  <2> QED BY <1>1, <1>4, <2>1, <2>3, NSECAssumption DEF NormalTime, Ts
<1>5. CASE n >= 0 /\ n < NSEC
  <2>1. p = Ts(a.sec, n)
    BY <1>1, <1>2, <1>5, NSECAssumption DEF set_normalized_timespec
  <2>2. Nanos(p) = Nanos(a) - cycle
    BY <1>1, <2>1, Distributes, NSECAssumption DEF Nanos, Ts
  <2> QED BY <1>1, <1>5, <2>1, <2>2, NSECAssumption DEF NormalTime, Ts
<1> QED BY <1>1, <1>3, <1>4, <1>5, NSECAssumption

(* The deadline that is not normal is harmless: the driver subtracts a     *)
(* cycle and normalises before it programs the card, so that what it       *)
(* writes is normal, and the deadline less that cycle, whenever a cycle is *)
(* no longer than a second.                                                *)
THEOREM DeadlineProgrammed ==
  ASSUME NEW t \in NormalTime, NEW d \in NormalTime, NEW cycle \in 0..NSEC
  PROVE  /\ wrn_ts_sub(add_delay(t, d), cycle) \in NormalTime
         /\ Nanos(wrn_ts_sub(add_delay(t, d), cycle)) = Nanos(t) + Nanos(d) - cycle
<1> DEFINE a == add_delay(t, d)
<1>1. a \in [sec : Int, nsec : 0..NSEC] /\ Nanos(a) = Nanos(t) + Nanos(d)
  BY DelayExact
<1>2. a \in [sec : Int, nsec : 0..NSEC] =>
        /\ wrn_ts_sub(a, cycle) \in NormalTime
        /\ Nanos(wrn_ts_sub(a, cycle)) = Nanos(a) - cycle
  <2> HIDE DEF a
  <2> QED BY NormalisedExact
<1> HIDE DEF a
<1>3. Nanos(t) \in Int /\ Nanos(d) \in Int /\ cycle \in Int
  BY Distributes, NSECAssumption DEF NormalTime, Nanos
<1>4. /\ wrn_ts_sub(a, cycle) \in NormalTime
      /\ Nanos(wrn_ts_sub(a, cycle)) = Nanos(t) + Nanos(d) - cycle
  BY <1>1, <1>2, <1>3
<1> QED BY <1>4 DEF a
-----------------------------------------------------------------------------
(* Modes *)

ModeTypes ==
  /\ iomode \in [Boards -> [Channels -> [sel : 0..3, oen : BOOLEAN, term : BOOLEAN]]]
  /\ gpio \in [Boards -> [Channels -> {0, 1}]]
  /\ asked \in [Boards -> [Channels -> SUBSET Letters]]
  /\ pulsed \in [Boards -> [Channels -> BOOLEAN]]

\* Where a pulse takes a channel.
Selected(sel) == IF sel % 2 = 0 THEN sel + 1 ELSE sel

\* A channel that a single letter was asked of has the bits of that letter,
\* but for the core, if it pulsed since.
ModeInv ==
  \A b \in Boards, c \in Channels : \A l \in Letters :
    asked[b][c] = {l} =>
      LET r == ModeReg(one_mode(l)) IN
        /\ iomode[b][c].oen = r.oen
        /\ iomode[b][c].term = r.term
        /\ iomode[b][c].sel = IF pulsed[b][c] THEN Selected(r.sel) ELSE r.sel
        /\ l \in {"0", "1"} => gpio[b][c] = IF l = "1" THEN 1 ELSE 0

LEMMA ModeRegType ==
  ASSUME NEW bits
  PROVE  ModeReg(bits) \in [sel : 0..3, oen : BOOLEAN, term : BOOLEAN]
  BY DEF ModeReg

\* What the letters come to in the register.
LEMMA LetterReg ==
  ASSUME NEW l \in Letters
  PROVE  /\ ModeReg(one_mode(l)).oen = Manual(l).input
         /\ ModeReg(one_mode(l)).term = Manual(l).term
         /\ CoreOf(ModeReg(one_mode(l)).sel) = Manual(l).core
         /\ Manual(l).core # "wr" => CoreOf(Selected(ModeReg(one_mode(l)).sel)) = "dio"
         /\ ModeReg(one_mode(l)).sel \in 0..2
         /\ l \in {"0", "1"} => "dio" \notin one_mode(l)
         /\ l \in {"0", "1"} => ("value" \in one_mode(l) <=> l = "1")
<1>1. CASE l = "I" BY <1>1 DEF Letters, one_mode, ModeReg, Manual, CoreOf, Selected
<1>2. CASE l = "i" BY <1>2 DEF Letters, one_mode, ModeReg, Manual, CoreOf, Selected
<1>3. CASE l = "0" BY <1>3 DEF Letters, one_mode, ModeReg, Manual, CoreOf, Selected
<1>4. CASE l = "1" BY <1>4 DEF Letters, one_mode, ModeReg, Manual, CoreOf, Selected
<1>5. CASE l = "D" BY <1>5 DEF Letters, one_mode, ModeReg, Manual, CoreOf, Selected
<1>6. CASE l = "d" BY <1>6 DEF Letters, one_mode, ModeReg, Manual, CoreOf, Selected
<1>7. CASE l = "P" BY <1>7 DEF Letters, one_mode, ModeReg, Manual, CoreOf, Selected
<1>8. CASE l = "p" BY <1>8 DEF Letters, one_mode, ModeReg, Manual, CoreOf, Selected
<1>9. CASE l = "C" BY <1>9 DEF Letters, one_mode, ModeReg, Manual, CoreOf, Selected
<1>10. CASE l = "c" BY <1>10 DEF Letters, one_mode, ModeReg, Manual, CoreOf, Selected
<1> QED BY <1>1, <1>2, <1>3, <1>4, <1>5, <1>6, <1>7, <1>8, <1>9, <1>10 DEF Letters

LEMMA ModeInvInit == ModeInit => ModeTypes /\ ModeInv
<1> SUFFICES ASSUME ModeInit PROVE ModeTypes /\ ModeInv
  OBVIOUS
<1>1. \A c \in Channels : AtReset(c) \in Letters /\ AtReset(c) # "1"
  BY ChannelsAssumption DEF AtReset, Letters
<1>2. ModeTypes
  BY <1>1, ModeRegType DEF ModeInit, ModeTypes
<1>3. ModeInv
  BY <1>1 DEF ModeInit, ModeInv
<1> QED BY <1>2, <1>3

\* A mode command that is not refused.
LEMMA ModeInvMode ==
  ASSUME NEW b \in Boards, NEW args, Mode(b, args), ModeTypes, ModeInv
  PROVE  ModeTypes' /\ ModeInv'
<1> DEFINE mask == {c \in Channels : LettersFor(args, c) # {}}
           bits(c) == ValueFor(args, c)
<1>1. \A c : LettersFor(args, c) \subseteq Letters
  BY DEF Mode, Refused, LettersFor
<1>2. /\ iomode' = [iomode EXCEPT ![b] = [c \in Channels |->
            IF c \in mask THEN ModeReg(bits(c)) ELSE iomode[b][c]]]
      /\ gpio' = [gpio EXCEPT ![b] = [c \in Channels |->
            IF c \notin mask \/ "dio" \in bits(c) THEN gpio[b][c]
            ELSE IF "value" \in bits(c) THEN 1 ELSE 0]]
      /\ asked' = [asked EXCEPT ![b] = [c \in Channels |->
            IF c \in mask THEN LettersFor(args, c) ELSE asked[b][c]]]
      /\ pulsed' = [pulsed EXCEPT ![b] = [c \in Channels |->
            c \notin mask /\ pulsed[b][c]]]
  BY DEF Mode, ModeTypes
<1> HIDE DEF mask, bits
<1>3. ModeTypes'
  <2>1. iomode' \in [Boards -> [Channels -> [sel : 0..3, oen : BOOLEAN, term : BOOLEAN]]]
    BY <1>2, ModeRegType DEF ModeTypes
  <2>2. gpio' \in [Boards -> [Channels -> {0, 1}]]
    BY <1>2 DEF ModeTypes
  <2>3. asked' \in [Boards -> [Channels -> SUBSET Letters]]
    BY <1>1, <1>2 DEF ModeTypes
  <2>4. pulsed' \in [Boards -> [Channels -> BOOLEAN]]
    BY <1>2 DEF ModeTypes
  <2> QED BY <2>1, <2>2, <2>3, <2>4 DEF ModeTypes
<1>4. ModeInv'
  <2> SUFFICES ASSUME NEW b1 \in Boards, NEW c \in Channels, NEW l \in Letters,
                      asked'[b1][c] = {l}
               PROVE  LET r == ModeReg(one_mode(l)) IN
                        /\ iomode'[b1][c].oen = r.oen
                        /\ iomode'[b1][c].term = r.term
                        /\ iomode'[b1][c].sel = IF pulsed'[b1][c] THEN Selected(r.sel) ELSE r.sel
                        /\ l \in {"0", "1"} => gpio'[b1][c] = IF l = "1" THEN 1 ELSE 0
    BY DEF ModeInv
  <2>1. CASE b1 # b \/ c \notin mask
    <3>1. /\ iomode'[b1][c] = iomode[b1][c]
          /\ gpio'[b1][c] = gpio[b1][c]
          /\ asked'[b1][c] = asked[b1][c]
          /\ pulsed'[b1][c] = pulsed[b1][c]
      BY <1>2, <2>1 DEF ModeTypes
    <3> QED BY <3>1 DEF ModeInv
  <2>2. CASE b1 = b /\ c \in mask
    <3>1. LettersFor(args, c) = {l}
      BY <1>2, <2>2 DEF ModeTypes
    <3>2. bits(c) = one_mode(l)
      BY <3>1 DEF bits, ValueFor
    <3>3. /\ iomode'[b1][c] = ModeReg(one_mode(l))
          /\ pulsed'[b1][c] = FALSE
          /\ gpio'[b1][c] = IF "dio" \in one_mode(l) THEN gpio[b1][c]
                            ELSE IF "value" \in one_mode(l) THEN 1 ELSE 0
      BY <1>2, <2>2, <3>2 DEF ModeTypes
    <3> QED BY <3>3, LetterReg
  <2> QED BY <2>1, <2>2
<1> QED BY <1>3, <1>4

\* A pulse, also a second one, and one on a channel that is not there.
LEMMA ModeInvPulse ==
  ASSUME NEW b, NEW c, SelectDio(b, c), ModeTypes, ModeInv
  PROVE  ModeTypes' /\ ModeInv'
<1>1. /\ gpio' = gpio /\ asked' = asked
      /\ iomode' = [iomode EXCEPT ![b][c].sel = Selected(iomode[b][c].sel)]
      /\ pulsed' = [pulsed EXCEPT ![b][c] = TRUE]
  BY DEF SelectDio, Selected
<1>2. \A s \in 0..3 : Selected(s) \in 0..3 /\ Selected(Selected(s)) = Selected(s)
  BY DEF Selected
<1>3. ASSUME NEW b1 \in Boards, NEW c1 \in Channels
      PROVE  /\ iomode'[b1][c1].oen = iomode[b1][c1].oen
             /\ iomode'[b1][c1].term = iomode[b1][c1].term
             /\ iomode'[b1][c1].sel = IF b1 = b /\ c1 = c THEN Selected(iomode[b1][c1].sel)
                                      ELSE iomode[b1][c1].sel
             /\ pulsed'[b1][c1] = IF b1 = b /\ c1 = c THEN TRUE ELSE pulsed[b1][c1]
  <2>1. /\ iomode[b1][c1] \in [sel : 0..3, oen : BOOLEAN, term : BOOLEAN]
        /\ iomode'[b1][c1] = IF b1 = b /\ c1 = c
              THEN [iomode[b1][c1] EXCEPT !.sel = Selected(iomode[b][c].sel)]
              ELSE iomode[b1][c1]
    BY <1>1 DEF ModeTypes
  <2>2. pulsed'[b1][c1] = IF b1 = b /\ c1 = c THEN TRUE ELSE pulsed[b1][c1]
    BY <1>1 DEF ModeTypes
  <2> QED BY <2>1, <2>2
<1>4. ModeTypes'
  <2>1. iomode' \in [Boards -> [Channels -> [sel : 0..3, oen : BOOLEAN, term : BOOLEAN]]]
    <3> DEFINE Reg == [sel : 0..3, oen : BOOLEAN, term : BOOLEAN]
               row == [iomode[b] EXCEPT ![c].sel = Selected(iomode[b][c].sel)]
    <3>1. iomode' = [iomode EXCEPT ![b] = row]
      BY <1>1
    <3>2. ASSUME b \in Boards PROVE row \in [Channels -> Reg]
      <4>1. CASE c \in Channels
        <5>1. iomode[b][c] \in Reg /\ Selected(iomode[b][c].sel) \in 0..3
          BY <1>2, <3>2, <4>1 DEF ModeTypes
        <5>2. [iomode[b][c] EXCEPT !.sel = Selected(iomode[b][c].sel)] \in Reg
          BY <5>1
        <5> QED BY <3>2, <5>2 DEF ModeTypes
      <4>2. CASE c \notin Channels
        <5>1. iomode[b] \in [Channels -> Reg]
          BY <3>2 DEF ModeTypes
        <5>2. \A f \in [Channels -> Reg] : \A v : [f EXCEPT ![c] = v] = f
          <6> HIDE DEF Reg
          <6> QED BY <4>2
        <5>3. row = iomode[b]
          BY <5>1, <5>2
        <5> QED BY <5>1, <5>3
      <4> QED BY <4>1, <4>2
    <3> HIDE DEF row
    <3> QED BY <3>1, <3>2 DEF ModeTypes
  <2>2. pulsed' \in [Boards -> [Channels -> BOOLEAN]]
    BY <1>1 DEF ModeTypes
  <2> QED BY <1>1, <2>1, <2>2 DEF ModeTypes
<1>5. ModeInv'
  <2> SUFFICES ASSUME NEW b1 \in Boards, NEW c1 \in Channels, NEW l \in Letters,
                      asked[b1][c1] = {l}
               PROVE  LET r == ModeReg(one_mode(l)) IN
                        /\ iomode'[b1][c1].oen = r.oen
                        /\ iomode'[b1][c1].term = r.term
                        /\ iomode'[b1][c1].sel = IF pulsed'[b1][c1] THEN Selected(r.sel) ELSE r.sel
                        /\ l \in {"0", "1"} => gpio'[b1][c1] = IF l = "1" THEN 1 ELSE 0
    BY <1>1 DEF ModeInv
  <2>1. ModeReg(one_mode(l)).sel \in 0..3
    BY LetterReg
  <2> QED BY <1>1, <1>2, <1>3, <2>1 DEF ModeInv, ModeTypes
<1> QED BY <1>4, <1>5

LEMMA ModeInvStuttering ==
  ASSUME ModeTypes, ModeInv, UNCHANGED modeVars
  PROVE  ModeTypes' /\ ModeInv'
  BY DEF ModeTypes, ModeInv, modeVars

LEMMA ModeInvGives == ModeTypes /\ ModeInv => ModeHolds
<1> SUFFICES ASSUME ModeTypes, ModeInv,
                    NEW b \in Boards, NEW c \in Channels, NEW l \in Letters,
                    asked[b][c] = {l}
             PROVE  /\ iomode[b][c].oen = Manual(l).input
                    /\ iomode[b][c].term = Manual(l).term
                    /\ ~pulsed[b][c] => CoreOf(iomode[b][c].sel) = Manual(l).core
                    /\ pulsed[b][c] /\ Manual(l).core # "wr" => CoreOf(iomode[b][c].sel) = "dio"
                    /\ l \in {"0", "1"} => gpio[b][c] = IF l = "1" THEN 1 ELSE 0
  BY DEF ModeHolds
<1>1. pulsed[b][c] \in BOOLEAN
  BY DEF ModeTypes
<1> QED BY <1>1, LetterReg DEF ModeInv

(* What the manual says of the modes holds on any boards, after any number *)
(* of mode and pulse commands.                                             *)
THEOREM ModesCorrect == Spec => []ModeHolds
<1>1. Init => ModeTypes /\ ModeInv
  BY ModeInvInit DEF Init
<1>2. ModeTypes /\ ModeInv /\ [Next]_vars => ModeTypes' /\ ModeInv'
  <2> SUFFICES ASSUME ModeTypes, ModeInv, [Next]_vars
               PROVE  ModeTypes' /\ ModeInv'
    OBVIOUS
  <2>1. CASE UNCHANGED modeVars
    BY <2>1, ModeInvStuttering
  <2>2. CASE RunLocal
    BY <2>2, ModeInvPulse DEF RunLocal, wrn_dio_cmd_pulse
  <2>3. CASE AgentPulse
    BY <2>3, ModeInvPulse DEF AgentPulse, wrn_dio_cmd_pulse
  <2>4. CASE ModeCommand
    <3>1. ASSUME NEW args, NEW b \in Boards, Mode(b, args) PROVE ModeTypes' /\ ModeInv'
      BY <3>1, ModeInvMode
    <3>2. ASSUME NEW args, ModeRefused(args) PROVE ModeTypes' /\ ModeInv'
      BY <3>2, ModeInvStuttering DEF ModeRefused, modeVars
    <3> QED BY <2>4, <3>1, <3>2 DEF ModeCommand
  <2>5. CASE PulseCommand
    BY <2>5, ModeInvPulse DEF PulseCommand, PulseNow, PulseAt, wrn_dio_cmd_pulse
  <2> QED BY <2>1, <2>2, <2>3, <2>4, <2>5
       DEF Next, vars, Edge, Tick, WaitEvent, RunRemote, RulerExit, Foreign, Lose,
           AgentSkip, AgentExit
<1> QED BY <1>1, <1>2, ModeInvGives, PTL DEF Spec
-----------------------------------------------------------------------------
(* Pulses *)

\* Deadlines, as the ruler computes them.
LateTime == [sec : Int, nsec : 0..NSEC]
Frame == [channel : -1..4, t : LateTime]

Asked == (UNION {Replicas(e) : e \in edges}) \cup wanted

\* Where each time on its way to a trigger comes from.
PulseInv ==
  /\ now \in Nat
  /\ edges \subseteq Nat
  /\ stamps \in Seq(NormalTime)
  /\ \A i \in 1..Len(stamps) : Nanos(stamps[i]) \in edges
  /\ act \in 1..Len(ActionArgs)
  /\ pc = "act" => ts \in NormalTime /\ Nanos(ts) \in edges
  /\ wire \in Seq(Frame)
  /\ \A i \in 1..Len(wire) :
       wire[i] # ForeignFrame => <<Remote, wire[i].channel, Nanos(wire[i].t)>> \in Asked
  /\ trig \in [Boards -> [Channels -> NormalTime]]
  /\ \A b \in Boards, c \in Channels :
       trig[b][c] # None => <<b, c, Nanos(trig[b][c]) + 1>> \in Asked
  /\ pulses \subseteq Asked

LEMMA ClockExact ==
  ASSUME NEW n \in Nat
  PROVE  /\ Clock(n) \in NormalTime
         /\ Clock(n) # None
         /\ Nanos(Clock(n)) = n
         /\ Clock(n).sec * NSEC = (n \div NSEC) * NSEC
<1>1. /\ n \div NSEC \in Nat /\ n % NSEC \in 0..(NSEC - 1)
      /\ n = NSEC * (n \div NSEC) + (n % NSEC)
  BY NSECAssumption
<1>2. NSEC * (n \div NSEC) = (n \div NSEC) * NSEC
  BY <1>1, NSECAssumption
<1> QED BY <1>1, <1>2, NSECAssumption DEF Clock, NormalTime, None, Ts, Nanos

LEMMA NanosInt == \A t \in LateTime : Nanos(t) \in Int
  BY Distributes, NSECAssumption DEF LateTime, Nanos

LEMMA NormalIsLate == NormalTime \subseteq LateTime
  BY NSECAssumption DEF NormalTime, LateTime

LEMMA AskedStays ==
  edges \subseteq edges' /\ wanted \subseteq wanted' => Asked \subseteq Asked'
  BY DEF Asked

\* The deadline of an action is a replica of the edge it runs for.
LEMMA DeadlineAsked ==
  ASSUME PulseInv, pc = "act"
  PROVE  /\ Deadline \in LateTime
         /\ Actions[act].channel \in 0..4
         /\ <<Board(Actions[act]), Actions[act].channel, Nanos(Deadline)>> \in Asked
<1>1. /\ act \in DOMAIN ActionArgs /\ act \in DOMAIN Actions
      /\ Actions[act].delay = parse_ts(ActionArgs[act].delay)
      /\ Actions[act].channel \in 0..4
  <2>1. act \in DOMAIN ActionArgs
    BY ActionsAssumption DEF PulseInv
  <2>2. ActionArgs[act].channel \in 0..4
    <3>1. \A k \in DOMAIN ActionArgs :
            ActionArgs[k] \in [where : {"L", "R"}, channel : 0..4,
                              delay : [sec : Int, digits : Seq(0..9)]]
      <4> DEFINE Arg == [where : {"L", "R"}, channel : 0..4,
                         delay : [sec : Int, digits : Seq(0..9)]]
      <4>1. ActionArgs \in Seq(Arg)
        BY ActionsAssumption
      <4> HIDE DEF Arg
      <4>2. \A k \in DOMAIN ActionArgs : ActionArgs[k] \in Arg
        BY <4>1
      <4> QED BY <4>2 DEF Arg
    <3> QED BY <2>1, <3>1
  <2> QED BY <2>1, <2>2 DEF Actions
<1>2. /\ Actions[act].delay \in NormalTime
      /\ Nanos(Actions[act].delay) = Reading(ActionArgs[act].delay)
  BY <1>1, DecimalsAssumption
<1>3. Deadline \in LateTime /\ Nanos(Deadline) = Nanos(ts) + Reading(ActionArgs[act].delay)
  BY <1>2, DelayExact DEF Deadline, PulseInv, LateTime
<1>4. <<Board(Actions[act]), Actions[act].channel, Nanos(Deadline)>> \in Replicas(Nanos(ts))
  BY <1>1, <1>3 DEF Replicas
<1> QED BY <1>1, <1>3, <1>4 DEF Asked, PulseInv

\* A trigger that is programmed for a time that is asked for.
LEMMA ProgramAsked ==
  ASSUME NEW b, NEW c, NEW t \in LateTime,
         trig \in [Boards -> [Channels -> NormalTime]],
         \A b1 \in Boards, c1 \in Channels :
           trig[b1][c1] # None => <<b1, c1, Nanos(trig[b1][c1]) + 1>> \in Asked',
         <<b, c, Nanos(t)>> \in Asked',
         Program(b, c, t)
  PROVE  /\ trig' \in [Boards -> [Channels -> NormalTime]]
         /\ \A b1 \in Boards, c1 \in Channels :
              trig'[b1][c1] # None => <<b1, c1, Nanos(trig'[b1][c1]) + 1>> \in Asked'
<1> DEFINE p == wrn_ts_sub(t, 1)
<1>1. p \in NormalTime /\ Nanos(p) = Nanos(t) - 1
  BY NormalisedExact, NSECAssumption DEF LateTime
<1>2. Nanos(p) + 1 = Nanos(t)
  BY <1>1, NanosInt
<1>3. trig' = [trig EXCEPT ![b][c] = p]
  BY DEF Program
<1> HIDE DEF p
<1>4. trig' \in [Boards -> [Channels -> NormalTime]]
  BY <1>1, <1>3
<1>5. ASSUME NEW b1 \in Boards, NEW c1 \in Channels
      PROVE  trig'[b1][c1] = IF b1 = b /\ c1 = c THEN p ELSE trig[b1][c1]
  BY <1>3
<1> QED BY <1>2, <1>4, <1>5

LEMMA PulseInvInit == Init => PulseInv
<1> SUFFICES ASSUME Init PROVE PulseInv
  OBVIOUS
<1>1. None \in NormalTime
  BY NSECAssumption DEF None, Ts, NormalTime
<1>2. 1 \in 1..Len(ActionArgs)
  BY ActionsAssumption
<1> QED BY <1>1, <1>2, StartAssumption DEF Init, PulseInv

LEMMA NextActionType ==
  ASSUME act \in 1..Len(ActionArgs), NextAction
  PROVE  act' \in 1..Len(ActionArgs) /\ pc' \in {"act", "wait"}
  BY ActionsAssumption DEF NextAction

LEMMA PulseInvNext == PulseInv /\ [Next]_vars => PulseInv'
<1> SUFFICES ASSUME PulseInv, [Next]_vars PROVE PulseInv'
  OBVIOUS
<1>1. CASE Edge
  <2>1. /\ Clock(now) \in NormalTime /\ Nanos(Clock(now)) = now
        /\ now \in Nat
    BY ClockExact DEF PulseInv
  <2>2. /\ stamps' \in Seq(NormalTime)
        /\ \A i \in 1..Len(stamps') : Nanos(stamps'[i]) \in edges'
    BY <1>1, <2>1 DEF Edge, PulseInv
  <2>3. Asked \subseteq Asked'
    BY <1>1, AskedStays DEF Edge, histVars
  <2>4. edges' \subseteq Nat
    BY <1>1, <2>1 DEF Edge, PulseInv
  <2> QED BY <1>1, <2>2, <2>3, <2>4 DEF Edge, PulseInv, rulerVars, netVars
<1>2. CASE Tick
  <2>1. /\ now \in Nat /\ now' = now + 1
        /\ Clock(now) # None /\ Nanos(Clock(now)) = now
    BY <1>2, ClockExact DEF Tick, PulseInv
  <2>2. Asked' = Asked
    BY <1>2 DEF Tick, Asked
  <2>3. pulses' \subseteq Asked'
    <3> SUFFICES ASSUME NEW b \in Boards, NEW c \in Channels, trig[b][c] = Clock(now)
                 PROVE  <<b, c, now'>> \in Asked'
      BY <1>2, <2>2 DEF Tick, PulseInv
    <3> QED BY <2>1, <2>2 DEF PulseInv
  <2>4. /\ trig' \in [Boards -> [Channels -> NormalTime]]
        /\ \A b \in Boards, c \in Channels :
             trig'[b][c] # None => trig'[b][c] = trig[b][c]
    <3>1. None \in NormalTime
      BY NSECAssumption DEF None, Ts, NormalTime
    <3> QED BY <1>2, <3>1 DEF Tick, PulseInv
  <2> QED BY <1>2, <2>1, <2>2, <2>3, <2>4 DEF Tick, PulseInv, rulerVars, netVars
<1>3. CASE WaitEvent
  <2> DEFINE n == IF Len(stamps) < NStamp THEN Len(stamps) ELSE NStamp
  <2>1. /\ stamps \in Seq(NormalTime) /\ stamps # << >>
        /\ ts' = Head(stamps) /\ stamps' = SubSeq(stamps, n + 1, Len(stamps))
    BY <1>3 DEF WaitEvent, PulseInv
  <2>2. ts' \in NormalTime /\ Nanos(ts') \in edges
    BY <2>1 DEF PulseInv
  <2>3. n \in Nat
    BY <2>1, NStampAssumption
  <2> HIDE DEF n
  <2>4. /\ stamps' \in Seq(NormalTime)
        /\ \A i \in 1..Len(stamps') : Nanos(stamps'[i]) \in edges
    BY <2>1, <2>3 DEF PulseInv
  <2>5. 1 \in 1..Len(ActionArgs)
    BY ActionsAssumption
  <2>6. Asked' = Asked
    BY <1>3 DEF WaitEvent, histVars, Asked
  <2> QED BY <1>3, <2>2, <2>4, <2>5, <2>6 DEF WaitEvent, PulseInv, netVars, histVars
<1>4. CASE RunLocal
  <2>1. /\ pc = "act"
        /\ Program(Local, Actions[act].channel, Deadline)
        /\ ~Actions[act].isremote
        /\ UNCHANGED <<now, stamps, wire, edges, pulses, wanted>>
    BY <1>4 DEF RunLocal, wrn_dio_cmd_pulse, netVars, histVars
  <2>2. Asked' = Asked
    BY <2>1 DEF Asked
  <2>3. /\ Deadline \in LateTime
        /\ <<Local, Actions[act].channel, Nanos(Deadline)>> \in Asked'
    BY <2>1, <2>2, DeadlineAsked DEF Board
  <2>4. /\ trig' \in [Boards -> [Channels -> NormalTime]]
        /\ \A b1 \in Boards, c1 \in Channels :
             trig'[b1][c1] # None => <<b1, c1, Nanos(trig'[b1][c1]) + 1>> \in Asked'
    BY <2>1, <2>2, <2>3, ProgramAsked DEF PulseInv
  <2>5. /\ act' \in 1..Len(ActionArgs) /\ pc' \in {"act", "wait"}
        /\ pc' = "act" => ts' = ts
    BY <1>4, NextActionType DEF RunLocal, PulseInv
  <2> QED BY <2>1, <2>2, <2>4, <2>5 DEF PulseInv
<1>5. CASE RunRemote
  <2>1. /\ pc = "act" /\ Actions[act].isremote
        /\ wire' = IF agent THEN Append(wire, [channel |-> Actions[act].channel, t |-> Deadline])
                   ELSE wire
        /\ UNCHANGED <<now, trig, stamps, edges, pulses, wanted>>
    BY <1>5 DEF RunRemote, histVars
  <2>2. Asked' = Asked
    BY <2>1 DEF Asked
  <2> DEFINE m == [channel |-> Actions[act].channel, t |-> Deadline]
  <2>3. m \in Frame /\ <<Remote, m.channel, Nanos(m.t)>> \in Asked'
    BY <2>1, <2>2, DeadlineAsked DEF Board, Frame
  <2> HIDE DEF m
  <2>4. wire' = IF agent THEN Append(wire, m) ELSE wire
    BY <2>1 DEF m
  <2>5. /\ wire' \in Seq(Frame)
        /\ \A i \in 1..Len(wire') : wire'[i] # ForeignFrame =>
             <<Remote, wire'[i].channel, Nanos(wire'[i].t)>> \in Asked'
    <3>1. CASE agent
      <4>1. wire' = Append(wire, m) /\ wire \in Seq(Frame)
        BY <2>4, <3>1 DEF PulseInv
      <4>2. /\ wire' \in Seq(Frame) /\ Len(wire') = Len(wire) + 1
            /\ wire'[Len(wire) + 1] = m
            /\ \A i \in 1..Len(wire) : wire'[i] = wire[i]
        <5>1. m \in Frame
          BY <2>3
        <5> HIDE DEF Frame
        <5> QED BY <4>1, <5>1
      <4>3. ASSUME NEW i \in 1..Len(wire'), wire'[i] # ForeignFrame
            PROVE  <<Remote, wire'[i].channel, Nanos(wire'[i].t)>> \in Asked'
        <5>1. CASE i = Len(wire) + 1
          <6>1. wire'[i] = m
            BY <4>2, <5>1
          <6> QED BY <2>3, <6>1
        <5>2. CASE i # Len(wire) + 1
          <6>1. i \in 1..Len(wire) /\ wire'[i] = wire[i]
            BY <4>1, <4>2, <5>2
          <6> QED BY <2>2, <4>3, <6>1 DEF PulseInv
        <5> QED BY <5>1, <5>2
      <4> QED BY <4>2, <4>3
    <3>2. CASE ~agent
      BY <2>2, <2>4, <3>2 DEF PulseInv
    <3> QED BY <3>1, <3>2
  <2>6. /\ act' \in 1..Len(ActionArgs) /\ pc' \in {"act", "wait"}
        /\ pc' = "act" => ts' = ts
    BY <1>5, NextActionType DEF RunRemote, PulseInv
  <2> QED BY <2>1, <2>2, <2>5, <2>6 DEF PulseInv
<1>6. CASE RulerExit
  <2>1. 1 \in 1..Len(ActionArgs)
    BY ActionsAssumption
  <2>2. Asked' = Asked
    BY <1>6 DEF RulerExit, Asked, histVars
  <2> QED BY <1>6, <2>1, <2>2 DEF RulerExit, PulseInv, netVars, histVars
<1>7. CASE Foreign
  <2>1. /\ wire' = Append(wire, ForeignFrame)
        /\ UNCHANGED <<now, trig, stamps, pc, act, ts, edges, pulses, wanted>>
    BY <1>7 DEF Foreign, rulerVars, histVars
  <2>2. Asked' = Asked
    BY <2>1 DEF Asked
  <2>3. ForeignFrame \in Frame
    BY NSECAssumption DEF ForeignFrame, Frame, LateTime, None, Ts
  <2>4. /\ wire' \in Seq(Frame)
        /\ \A i \in 1..Len(wire') : wire'[i] # ForeignFrame =>
             <<Remote, wire'[i].channel, Nanos(wire'[i].t)>> \in Asked'
    BY <2>1, <2>2, <2>3 DEF PulseInv
  <2> QED BY <2>1, <2>2, <2>4 DEF PulseInv
<1>8. CASE wire # << >> /\ wire' = Tail(wire)
           /\ UNCHANGED <<now, trig, stamps, pc, act, ts, edges, pulses, wanted>>
  <2>1. Asked' = Asked
    BY <1>8 DEF Asked
  <2>2. /\ wire' \in Seq(Frame)
        /\ \A i \in 1..Len(wire') : wire'[i] # ForeignFrame =>
             <<Remote, wire'[i].channel, Nanos(wire'[i].t)>> \in Asked'
    BY <1>8, <2>1 DEF PulseInv
  <2> QED BY <1>8, <2>1, <2>2 DEF PulseInv
<1>9. CASE AgentPulse
  <2> DEFINE m == Head(wire)
  <2>1. /\ wire # << >> /\ m # ForeignFrame /\ wire' = Tail(wire)
        /\ Program(Remote, m.channel, m.t)
        /\ UNCHANGED <<now, stamps, pc, act, ts, edges, pulses, wanted>>
    BY <1>9 DEF AgentPulse, wrn_dio_cmd_pulse, rulerVars, histVars
  <2>2. Asked' = Asked
    BY <2>1 DEF Asked
  <2>3. m.t \in LateTime /\ <<Remote, m.channel, Nanos(m.t)>> \in Asked'
    <3>1. 1 \in 1..Len(wire) /\ m = wire[1] /\ m \in Frame
      BY <2>1 DEF PulseInv
    <3>2. m.t \in LateTime
      BY <3>1 DEF Frame
    <3> HIDE DEF m
    <3>3. <<Remote, wire[1].channel, Nanos(wire[1].t)>> \in Asked
      BY <2>1, <3>1 DEF PulseInv
    <3> QED BY <2>2, <3>1, <3>2, <3>3
  <2>4. /\ trig' \in [Boards -> [Channels -> NormalTime]]
        /\ \A b1 \in Boards, c1 \in Channels :
             trig'[b1][c1] # None => <<b1, c1, Nanos(trig'[b1][c1]) + 1>> \in Asked'
    <3> HIDE DEF m
    <3> QED BY <2>1, <2>2, <2>3, ProgramAsked DEF PulseInv
  <2>5. /\ wire' \in Seq(Frame)
        /\ \A i \in 1..Len(wire') : wire'[i] # ForeignFrame =>
             <<Remote, wire'[i].channel, Nanos(wire'[i].t)>> \in Asked'
    BY <2>1, <2>2 DEF PulseInv
  <2> QED BY <2>1, <2>2, <2>4, <2>5 DEF PulseInv
<1>10. CASE AgentExit
  <2>1. Asked' = Asked
    BY <1>10 DEF AgentExit, Asked, histVars
  <2> QED BY <1>10, <2>1 DEF AgentExit, PulseInv, rulerVars, histVars
<1>11. CASE PulseCommand
  <2> PICK b \in Boards, p \in PulseArgs : PulseNow(b, p) \/ PulseAt(b, p)
    BY <1>11 DEF PulseCommand
  <2>1. UNCHANGED <<now, stamps, pc, act, ts, wire, edges>>
    BY <1>11 DEF PulseCommand, rulerVars, netVars
  <2>2. wanted \subseteq wanted'
    BY DEF PulseNow, PulseAt
  <2>3. Asked \subseteq Asked'
    BY <2>1, <2>2, AskedStays
  <2>4. wanted' \subseteq Asked'
    BY DEF Asked
  <2>5. CASE PulseNow(b, p)
    <3>1. pulses' \subseteq Asked'
      <4>1. /\ <<b, p.channel, now>> \in wanted'
            /\ pulses' = pulses \cup {<<b, p.channel, now>>}
        BY <2>5 DEF PulseNow
      <4> QED BY <2>3, <2>4, <4>1 DEF PulseInv
    <3> QED BY <2>1, <2>3, <2>5, <3>1 DEF PulseNow, PulseInv
  <2>6. CASE PulseAt(b, p)
    <3>1. /\ Program(b, p.channel, When(p)) /\ UNCHANGED pulses
          /\ <<b, p.channel, WantedAt(p)>> \in Asked'
      <4>1. <<b, p.channel, WantedAt(p)>> \in wanted'
        BY <2>6 DEF PulseAt
      <4> QED BY <2>6, <2>4, <4>1 DEF PulseAt, wrn_dio_cmd_pulse
    <3>2. When(p) \in LateTime /\ Nanos(When(p)) = WantedAt(p)
      <4> DEFINE t == parse_ts(p.time)
      <4>1. t \in NormalTime /\ Nanos(t) = Reading(p.time)
        BY DecimalsAssumption
      <4> HIDE DEF t
      <4>2. When(p) = IF p.when = "+" THEN Ts(t.sec + Clock(now).sec, t.nsec) ELSE t
        BY DEF When, t
      <4>3. Clock(now).sec \in Int /\ Clock(now).sec * NSEC = (now \div NSEC) * NSEC
        BY ClockExact DEF PulseInv, NormalTime
      <4>4. CASE p.when = "+"
        <5>1. When(p) = Ts(t.sec + Clock(now).sec, t.nsec) /\ When(p) \in LateTime
          BY <4>1, <4>2, <4>3, <4>4, NSECAssumption DEF Ts, LateTime, NormalTime
        <5>2. Nanos(When(p)) = (t.sec + Clock(now).sec) * NSEC + t.nsec
          BY <5>1 DEF Ts, Nanos
        <5>3. t.sec \in Int /\ t.nsec \in Int
          BY <4>1, NSECAssumption DEF NormalTime
        <5>4. Nanos(When(p)) = t.sec * NSEC + t.nsec + Clock(now).sec * NSEC
          <6>1. /\ (t.sec + Clock(now).sec) * NSEC = t.sec * NSEC + Clock(now).sec * NSEC
                /\ t.sec * NSEC \in Int /\ Clock(now).sec * NSEC \in Int
            BY <4>3, <5>3, Distributes
          <6> QED BY <5>2, <5>3, <6>1
        <5>5. Nanos(When(p)) = Nanos(t) + (now \div NSEC) * NSEC
          BY <4>3, <5>4 DEF Nanos
        <5> QED BY <4>1, <4>4, <5>1, <5>5 DEF WantedAt
      <4>5. CASE p.when # "+"
        <5>1. Reading(p.time) \in Int
          BY <4>1, NanosInt, NormalIsLate
        <5> QED BY <4>1, <4>2, <4>5, <5>1, NormalIsLate DEF WantedAt
      <4> QED BY <4>4, <4>5
    <3>3. /\ trig' \in [Boards -> [Channels -> NormalTime]]
          /\ \A b1 \in Boards, c1 \in Channels :
               trig'[b1][c1] # None => <<b1, c1, Nanos(trig'[b1][c1]) + 1>> \in Asked'
      BY <2>3, <3>1, <3>2, ProgramAsked DEF PulseInv
    <3> QED BY <2>1, <2>3, <3>1, <3>3 DEF PulseInv
  <2> QED BY <2>5, <2>6
<1>12. CASE UNCHANGED <<now, trig, stamps, pc, act, ts, wire, edges, pulses, wanted>>
  <2>1. Asked' = Asked
    BY <1>12 DEF Asked
  <2> QED BY <1>12, <2>1 DEF PulseInv
<1>13. Lose \/ AgentSkip =>
         /\ wire # << >> /\ wire' = Tail(wire)
         /\ UNCHANGED <<now, trig, stamps, pc, act, ts, edges, pulses, wanted>>
  BY DEF Lose, AgentSkip, rulerVars, histVars
<1>14. ModeCommand \/ UNCHANGED vars =>
         UNCHANGED <<now, trig, stamps, pc, act, ts, wire, edges, pulses, wanted>>
  BY DEF ModeCommand, vars, rulerVars, netVars, histVars
<1> QED
  BY <1>1, <1>2, <1>3, <1>4, <1>5, <1>6, <1>7, <1>8, <1>9, <1>10, <1>11, <1>12, <1>13, <1>14
  DEF Next

(* Whatever the ruler, the agent, the network and the user do, a pulse     *)
(* comes out only where and when the command line asked for it after an    *)
(* edge, or the user did: for seconds of any length, any number of actions *)
(* and edges, and command lines whose decimals are read right.             *)
THEOREM PulsesCorrect == Spec => []PulsesAsAsked
<1>1. PulseInv => PulsesAsAsked
  BY DEF PulseInv, PulsesAsAsked, Asked
<1> QED BY <1>1, PulseInvInit, PulseInvNext, PTL DEF Spec

-----------------------------------------------------------------------------
(* No replica is missing *)

Delay(k) == Reading(ActionArgs[k].delay)

\* A second output of the same name takes the trigger of the first, and a delay
\* of nothing is over when the trigger is programmed.
Feasible ==
  /\ \A k \in DOMAIN ActionArgs :
       ActionArgs[k].channel \in Channels /\ Delay(k) >= 1
  /\ \A j, k \in DOMAIN ActionArgs :
       /\ ActionArgs[j].where = ActionArgs[k].where
       /\ ActionArgs[j].channel = ActionArgs[k].channel
       => j = k

Out(k) == Board(Actions[k])
Chan(k) == Actions[k].channel

\* A frame for an action after an edge at the present time.
FrameOf(m, k) ==
  /\ Actions[k].isremote
  /\ m.channel = Chan(k)
  /\ Nanos(m.t) = now + Delay(k)

\* What the agent has to read is for an edge at the present time.
WireKnown ==
  \A i \in 1..Len(wire) : wire[i] # ForeignFrame =>
    now \in edges /\ \E k \in DOMAIN Actions : FrameOf(wire[i], k)

\* As long as the software keeps up it works for an edge of this very cycle.
KeepsUp ==
  ~spoilt =>
    /\ agent
    /\ \A e \in edges : e <= now
    /\ stamps # << >> => now \in edges
    /\ \A i \in 1..Len(stamps) : Nanos(stamps[i]) = now
    /\ pc = "act" => now \in edges /\ Nanos(ts) = now
    /\ WireKnown

\* The places where the replica of an edge by an action may be.
Came(e, k) == <<Out(k), Chan(k), e + Delay(k)>> \in pulses
Armed(e, k) ==
  now < e + Delay(k) /\ Nanos(trig[Out(k)][Chan(k)]) = e + Delay(k) - 1
OnWire(k) == \E i \in 1..Len(wire) : FrameOf(wire[i], k)
Planned(k) == stamps # << >> \/ (pc = "act" /\ k >= act)

OnItsWay(e, k) ==
  Came(e, k) \/ Armed(e, k) \/ (e = now /\ (OnWire(k) \/ Planned(k)))

NoneMissing ==
  ~spoilt /\ Spaced =>
    \A e \in edges, k \in DOMAIN Actions : OnItsWay(e, k)

ReplicaInv == PulseInv /\ KeepsUp /\ NoneMissing

(* What the command line says of an action.                                *)
LEMMA ActionFacts ==
  ASSUME Feasible, NEW k \in DOMAIN Actions
  PROVE  /\ k \in DOMAIN ActionArgs /\ k \in 1..Len(ActionArgs)
         /\ Delay(k) \in Int /\ Delay(k) >= 1
         /\ Chan(k) = ActionArgs[k].channel /\ Chan(k) \in Channels /\ Chan(k) \in 0..4
         /\ Out(k) \in Boards
         /\ ActionArgs[k].where \in {"L", "R"}
         /\ Actions[k].isremote = (ActionArgs[k].where = "R")
         /\ Actions[k].delay \in NormalTime
         /\ Nanos(Actions[k].delay) = Delay(k)
<1> DEFINE Arg == [where : {"L", "R"}, channel : 0..4,
                   delay : [sec : Int, digits : Seq(0..9)]]
<1>1. k \in DOMAIN ActionArgs
  BY DEF Actions
<1>2. ActionArgs \in Seq(Arg)
  BY ActionsAssumption
<1>3. ActionArgs[k] \in Arg /\ k \in 1..Len(ActionArgs)
  <2> HIDE DEF Arg
  <2> QED BY <1>1, <1>2
<1>4. /\ Actions[k].isremote = (ActionArgs[k].where = "R")
      /\ Actions[k].channel = ActionArgs[k].channel
      /\ Actions[k].delay = parse_ts(ActionArgs[k].delay)
  BY <1>1 DEF Actions
<1>5. /\ Actions[k].delay \in NormalTime
      /\ Nanos(Actions[k].delay) = Delay(k)
  BY <1>1, <1>4, DecimalsAssumption DEF Delay
<1>6. Delay(k) \in Int
  BY <1>5, NanosInt, NormalIsLate
<1>7. Out(k) \in Boards
  BY BoardsAssumption DEF Out, Board
<1>8. /\ ActionArgs[k].where \in {"L", "R"}
      /\ ActionArgs[k].channel \in 0..4
  BY <1>3
<1>9. ActionArgs[k].channel \in Channels /\ Delay(k) >= 1
  BY <1>1 DEF Feasible
<1> QED BY <1>1, <1>3, <1>4, <1>5, <1>6, <1>7, <1>8, <1>9 DEF Chan

(* No two actions have the same output.                                    *)
LEMMA DistinctOutputs ==
  ASSUME Feasible, NEW j \in DOMAIN Actions, NEW k \in DOMAIN Actions,
         Out(j) = Out(k), Chan(j) = Chan(k)
  PROVE  j = k
<1>1. /\ j \in DOMAIN ActionArgs /\ k \in DOMAIN ActionArgs
      /\ ActionArgs[j].channel = ActionArgs[k].channel
  BY ActionFacts
<1>2. Actions[j].isremote <=> Actions[k].isremote
  BY BoardsAssumption DEF Out, Board
<1>3. ActionArgs[j].where = "R" <=> ActionArgs[k].where = "R"
  BY <1>2, ActionFacts
<1>4. ActionArgs[j].where \in {"L", "R"} /\ ActionArgs[k].where \in {"L", "R"}
  BY ActionFacts
<1>5. ActionArgs[j].where = ActionArgs[k].where
  BY <1>3, <1>4
<1> QED BY <1>1, <1>5 DEF Feasible

(* A trigger compares seconds and nanoseconds: normal times are equal when *)
(* they are worth the same.                                                *)
LEMMA UniqueTime ==
  ASSUME NEW t \in NormalTime, NEW u \in NormalTime, Nanos(t) = Nanos(u)
  PROVE  t = u
<1>1. /\ t.sec \in Int /\ t.nsec \in 0..(NSEC - 1)
      /\ u.sec \in Int /\ u.nsec \in 0..(NSEC - 1)
      /\ t = [sec |-> t.sec, nsec |-> t.nsec]
      /\ u = [sec |-> u.sec, nsec |-> u.nsec]
  BY DEF NormalTime
<1>2. ASSUME NEW a \in Nat PROVE a * NSEC \in Nat
  BY NSECAssumption
<1>3. ASSUME NEW x \in Int, NEW y \in Int, NEW m \in 0..(NSEC - 1), NEW n \in 0..(NSEC - 1),
             x * NSEC + m = y * NSEC + n
      PROVE  ~(x > y)
  <2> SUFFICES ASSUME x > y PROVE FALSE
    OBVIOUS
  <2>1. x - y - 1 \in Nat
    OBVIOUS
  <2>2. (x - y - 1) * NSEC \in Nat
    BY <1>2, <2>1
  <2>3. (x - y - 1) * NSEC = x * NSEC - y * NSEC - NSEC
    <3>1. (x - y - 1) * NSEC = (x - y) * NSEC - 1 * NSEC
      BY Distributes
    <3>2. (x - y) * NSEC = x * NSEC - y * NSEC
      BY Distributes
    <3> QED BY <3>1, <3>2, NSECAssumption
  <2> QED BY <1>3, <2>2, <2>3, Distributes, NSECAssumption
<1>4. t.sec * NSEC + t.nsec = u.sec * NSEC + u.nsec
  BY DEF Nanos
<1>5. t.sec = u.sec
  <2>1. ~(t.sec > u.sec) /\ ~(u.sec > t.sec)
    BY <1>1, <1>3, <1>4
  <2> QED BY <1>1, <2>1
<1>6. t.nsec = u.nsec
  <2>1. ASSUME NEW z \in Int, NEW m \in 0..(NSEC - 1), NEW n \in 0..(NSEC - 1), z + m = z + n
        PROVE  m = n
    BY <2>1, NSECAssumption
  <2>2. t.sec * NSEC \in Int
    BY <1>1, Distributes
  <2>3. t.sec * NSEC + t.nsec = t.sec * NSEC + u.nsec
    BY <1>4, <1>5
  <2> QED BY <1>1, <2>1, <2>2, <2>3
<1> QED BY <1>1, <1>5, <1>6

(* A trigger that is programmed is a cycle early, and no other changes.    *)
LEMMA ArmedBy ==
  ASSUME NEW b \in Boards, NEW c, NEW t \in LateTime,
         trig \in [Boards -> [Channels -> NormalTime]],
         Program(b, c, t)
  PROVE  /\ c \in Channels => Nanos(trig'[b][c]) = Nanos(t) - 1
         /\ \A b1 \in Boards, c1 \in Channels :
              ~(b1 = b /\ c1 = c) => trig'[b1][c1] = trig[b1][c1]
<1> DEFINE p == wrn_ts_sub(t, 1)
<1>1. Nanos(p) = Nanos(t) - 1
  BY NormalisedExact, NSECAssumption DEF LateTime
<1>2. trig' = [trig EXCEPT ![b][c] = p]
  BY DEF Program
<1> HIDE DEF p
<1>3. c \in Channels => trig'[b][c] = p
  BY <1>2
<1>4. \A b1 \in Boards, c1 \in Channels :
        ~(b1 = b /\ c1 = c) => trig'[b1][c1] = trig[b1][c1]
  BY <1>2
<1> QED BY <1>1, <1>3, <1>4

(* The deadline of an action is its delay after the stamp.                 *)
LEMMA DeadlineOf ==
  ASSUME Feasible, PulseInv, pc = "act"
  PROVE  /\ act \in DOMAIN Actions
         /\ Deadline \in LateTime
         /\ Nanos(Deadline) = Nanos(ts) + Delay(act)
<1>1. act \in DOMAIN Actions
  BY ActionsAssumption DEF PulseInv, Actions
<1>2. Actions[act].delay \in NormalTime /\ Nanos(Actions[act].delay) = Delay(act)
  BY <1>1, ActionFacts
<1>3. ts \in NormalTime
  BY DEF PulseInv
<1> QED BY <1>1, <1>2, <1>3, DelayExact DEF Deadline, LateTime

(* While there is work for an edge of this cycle, all replicas of earlier  *)
(* ones have come out: no delay is longer than the interval.               *)
LEMMA OldDone ==
  ASSUME Feasible, ReplicaInv, ~spoilt, Spaced, now \in edges,
         NEW e \in edges, e # now, NEW k \in DOMAIN Actions
  PROVE  Came(e, k)
<1>1. e \in Nat /\ now \in Nat /\ e <= now
  BY DEF ReplicaInv, PulseInv, KeepsUp
<1>2. k \in DOMAIN ActionArgs /\ Delay(k) \in Int
  BY ActionFacts
<1>3. Delay(k) <= now - e
  BY <1>1, <1>2 DEF Spaced, Delay
<1>4. ~Armed(e, k)
  BY <1>1, <1>2, <1>3 DEF Armed
<1> QED BY <1>4 DEF ReplicaInv, NoneMissing, OnItsWay

(* Edges are only added, so that what is spaced was spaced before.         *)
LEMMA SpacedBefore ==
  ASSUME edges \subseteq edges', Spaced'
  PROVE  Spaced
  BY DEF Spaced

(* What is on the wire is for the same edge until the time changes.        *)
LEMMA WireKept ==
  ASSUME WireKnown, UNCHANGED <<now, wire, edges>>
  PROVE  WireKnown'
<1>1. ASSUME NEW i \in 1..Len(wire), wire[i] # ForeignFrame
      PROVE  now \in edges /\ \E k \in DOMAIN Actions : FrameOf(wire[i], k)
  BY <1>1 DEF WireKnown
<1> QED BY <1>1 DEF WireKnown, FrameOf

(* An empty wire has nothing unknown on it.                                *)
LEMMA NothingOnWire ==
  ASSUME Len(wire) = 0
  PROVE  WireKnown
  BY DEF WireKnown

(* Before the first edge nothing can be missing.                           *)
LEMMA ReplicaInit == Init => ReplicaInv
<1> SUFFICES ASSUME Init PROVE ReplicaInv
  OBVIOUS
<1>1. PulseInv
  BY PulseInvInit
<1>2. Len(stamps) = 0 /\ Len(wire) = 0 /\ stamps = << >> /\ wire = << >> /\ pc = "wait" /\ agent /\ edges = {}
  BY DEF Init
<1>3. KeepsUp
  BY <1>2, NothingOnWire DEF KeepsUp
<1>4. NoneMissing
  BY <1>2 DEF NoneMissing
<1> QED BY <1>1, <1>3, <1>4 DEF ReplicaInv

(* A new edge is stamped, and the ruler has its actions before it.         *)
LEMMA ReplicaEdge ==
  ASSUME Feasible, ReplicaInv, Edge
  PROVE  KeepsUp' /\ NoneMissing'
<1>1. /\ now \in Nat /\ now \notin edges /\ edges' = edges \cup {now}
      /\ stamps \in Seq(NormalTime) /\ stamps' = Append(stamps, Clock(now))
      /\ UNCHANGED <<now, trig, pc, act, ts, wire, agent, pulses, spoilt>>
  BY DEF Edge, ReplicaInv, PulseInv, rulerVars, netVars
<1>2. Clock(now) \in NormalTime /\ Nanos(Clock(now)) = now
  BY <1>1, ClockExact
<1>3. ASSUME ~spoilt'
      PROVE  /\ agent' /\ stamps = << >> /\ pc # "act"
             /\ \A e \in edges : e <= now
             /\ \A i \in 1..Len(wire) : wire[i] = ForeignFrame
  BY <1>1, <1>3 DEF ReplicaInv, KeepsUp, WireKnown
<1>4. Len(stamps') = Len(stamps) + 1 /\ stamps' # << >>
      /\ stamps'[Len(stamps) + 1] = Clock(now) /\ Len(stamps) \in Nat
  BY <1>1, <1>2
<1>5. KeepsUp'
  <2> SUFFICES ASSUME ~spoilt' PROVE KeepsUp'
    BY DEF KeepsUp
  <2>1. \A e \in edges' : e <= now'
    BY <1>1, <1>3
  <2>2. \A i \in 1..Len(stamps') : Nanos(stamps'[i]) = now'
    <3>1. Len(stamps) = 0
      BY <1>3
    <3>2. ASSUME NEW i \in 1..Len(stamps') PROVE i = Len(stamps) + 1
      BY <3>1, <3>2, <1>4
    <3> QED BY <1>1, <1>2, <1>4, <3>2
  <2>3. now' \in edges'
    BY <1>1
  <2>4. WireKnown'
    BY <1>1, <1>3 DEF WireKnown
  <2> QED BY <1>1, <1>3, <2>1, <2>2, <2>3, <2>4 DEF KeepsUp
<1>6. NoneMissing'
  <2> SUFFICES ASSUME ~spoilt', Spaced', NEW e \in edges', NEW k \in DOMAIN Actions
               PROVE  OnItsWay(e, k)'
    BY DEF NoneMissing
  <2>1. CASE e = now
    <3>1. Planned(k)'
      BY <1>4 DEF Planned
    <3> QED BY <1>1, <2>1, <3>1 DEF OnItsWay
  <2>2. CASE e # now
    <3>1. e \in edges /\ Spaced
      BY <1>1, <2>2, SpacedBefore
    <3>2. Came(e, k) \/ Armed(e, k)
      BY <1>1, <2>2, <3>1 DEF ReplicaInv, NoneMissing, OnItsWay
    <3>3. Came(e, k)' \/ Armed(e, k)'
      BY <1>1, <3>2 DEF Came, Armed
    <3> QED BY <3>3 DEF OnItsWay
  <2> QED BY <2>1, <2>2
<1> QED BY <1>5, <1>6

(* A cycle in which the software is idle: a trigger that shows the time    *)
(* makes its pulse, the others stay.                                       *)
LEMMA ReplicaTick ==
  ASSUME Feasible, ReplicaInv, Tick
  PROVE  KeepsUp' /\ NoneMissing'
<1>1. /\ now \in Nat /\ now' = now + 1 /\ edges \subseteq Nat
      /\ trig \in [Boards -> [Channels -> NormalTime]]
      /\ pulses' = pulses \cup
           {p \in Boards \X Channels \X {now'} : trig[p[1]][p[2]] = Clock(now)}
      /\ trig' = [b \in Boards |-> [c \in Channels |->
                    IF trig[b][c] = Clock(now) THEN None ELSE trig[b][c]]]
      /\ UNCHANGED <<stamps, pc, act, ts, wire, agent, edges>>
  BY DEF Tick, ReplicaInv, PulseInv, rulerVars, netVars
<1>2. Clock(now) \in NormalTime /\ Nanos(Clock(now)) = now
  BY <1>1, ClockExact
<1>3. ASSUME ~spoilt'
      PROVE  ~spoilt /\ stamps = << >> /\ pc # "act" /\ wire = << >>
  BY <1>3 DEF Tick, Busy
<1>4. KeepsUp'
  <2> SUFFICES ASSUME ~spoilt' PROVE KeepsUp'
    BY DEF KeepsUp
  <2>1. agent /\ \A e \in edges : e <= now
    BY <1>3 DEF ReplicaInv, KeepsUp
  <2>2. \A e \in edges' : e <= now'
    BY <1>1, <2>1
  <2>3. Len(stamps') = 0 /\ Len(wire') = 0 /\ stamps' = << >> /\ pc' # "act"
    BY <1>1, <1>3
  <2>4. WireKnown'
    BY <2>3 DEF WireKnown
  <2> QED BY <1>1, <2>1, <2>2, <2>3, <2>4 DEF KeepsUp
<1>5. NoneMissing'
  <2> SUFFICES ASSUME ~spoilt', Spaced', NEW e \in edges', NEW k \in DOMAIN Actions
               PROVE  OnItsWay(e, k)'
    BY DEF NoneMissing
  <2>1. e \in edges /\ Spaced /\ e \in Nat
    BY <1>1, SpacedBefore
  <2>2. ~OnWire(k) /\ ~Planned(k)
    <3>1. Len(wire) = 0
      BY <1>3
    <3> QED BY <1>3, <3>1 DEF OnWire, Planned
  <2>3. CASE Came(e, k)
    <3>1. Came(e, k)'
      BY <1>1, <2>3 DEF Came
    <3> QED BY <3>1 DEF OnItsWay
  <2>4. CASE Armed(e, k)
    <3> PICK b, c, t : b = Out(k) /\ c = Chan(k) /\ t = e + Delay(k)
      OBVIOUS
    <3>1. b \in Boards /\ c \in Channels /\ t \in Int /\ e \in Int /\ Delay(k) \in Int
      BY <2>1, ActionFacts
    <3>2. now < t /\ Nanos(trig[b][c]) = t - 1
      <4>1. now < e + Delay(k) /\ Nanos(trig[Out(k)][Chan(k)]) = e + Delay(k) - 1
        BY <2>4, Zenon DEF Armed
      <4> QED BY <3>1, <4>1
    <3>3. trig[b][c] \in NormalTime
      BY <1>1, <3>1
    <3>4. /\ <<b, c, t>> \in pulses' => OnItsWay(e, k)'
          /\ now' < t /\ Nanos(trig'[b][c]) = t - 1 => OnItsWay(e, k)'
      <4>1. <<b, c, t>> \in pulses' => OnItsWay(e, k)'
        BY DEF OnItsWay, Came
      <4>2. ASSUME now' < t, Nanos(trig'[b][c]) = t - 1 PROVE Armed(e, k)'
        <5>1. now' < e + Delay(k) /\ Nanos(trig'[Out(k)][Chan(k)]) = e + Delay(k) - 1
          BY <3>1, <4>2
        <5> QED BY <5>1, Zenon DEF Armed
      <4> QED BY <4>1, <4>2 DEF OnItsWay
    <3>5. CASE trig[b][c] = Clock(now)
      <4>1. t = now'
        BY <1>1, <1>2, <3>1, <3>2, <3>5
      <4>2. <<b, c, now'>> \in pulses'
        BY <1>1, <3>1, <3>5
      <4> QED BY <3>4, <4>1, <4>2
    <3>6. CASE trig[b][c] # Clock(now)
      <4>1. trig'[b][c] = trig[b][c]
        BY <1>1, <3>1, <3>6
      <4>2. t - 1 # now
        BY <1>2, <3>2, <3>3, <3>6, UniqueTime
      <4>3. now' < t
        <5>1. now < t /\ now \in Int /\ t \in Int /\ t - 1 # now
          BY <1>1, <3>1, <3>2, <4>2
        <5>2. now' = now + 1
          BY <1>1
        <5> QED BY <5>1, <5>2
      <4> QED BY <3>2, <3>4, <4>1, <4>3
    <3> QED BY <3>5, <3>6
  <2> QED BY <1>3, <2>1, <2>2, <2>3, <2>4 DEF ReplicaInv, NoneMissing, OnItsWay
<1> QED BY <1>4, <1>5

(* The ruler takes the stamp and has all actions before it; a second stamp *)
(* that is dropped means that it fell behind.                              *)
LEMMA ReplicaWait ==
  ASSUME Feasible, ReplicaInv, WaitEvent
  PROVE  KeepsUp' /\ NoneMissing'
<1> DEFINE n == IF Len(stamps) < NStamp THEN Len(stamps) ELSE NStamp
<1>1. /\ stamps \in Seq(NormalTime) /\ stamps # << >>
      /\ ts' = Head(stamps) /\ stamps' = SubSeq(stamps, n + 1, Len(stamps))
      /\ act' = 1 /\ pc' = "act"
      /\ spoilt' = (spoilt \/ n > 1)
      /\ UNCHANGED <<now, trig, wire, agent, edges, pulses>>
  BY DEF WaitEvent, ReplicaInv, PulseInv, netVars, histVars
<1>2. n \in Nat
  BY <1>1, NStampAssumption
<1> HIDE DEF n
<1>3. ASSUME ~spoilt'
      PROVE  /\ ~spoilt /\ agent /\ now \in edges
             /\ \A e \in edges : e <= now
             /\ \A i \in 1..Len(stamps) : Nanos(stamps[i]) = now
             /\ WireKnown
  BY <1>1, <1>3 DEF ReplicaInv, KeepsUp
<1>4. KeepsUp'
  <2> SUFFICES ASSUME ~spoilt' PROVE KeepsUp'
    BY DEF KeepsUp
  <2>1. Nanos(ts') = now'
    <3>1. 1 \in 1..Len(stamps) /\ Head(stamps) = stamps[1]
      BY <1>1
    <3> QED BY <1>1, <1>3, <3>1
  <2>2. \A i \in 1..Len(stamps') : Nanos(stamps'[i]) = now'
    <3> SUFFICES ASSUME NEW i \in 1..Len(stamps') PROVE Nanos(stamps'[i]) = now
      BY <1>1
    <3>1. n + i \in 1..Len(stamps) /\ stamps'[i] = stamps[n + i]
      BY <1>1, <1>2
    <3> QED BY <1>3, <3>1
  <2>3. WireKnown'
    BY <1>1, <1>3, WireKept
  <2> QED BY <1>1, <1>3, <2>1, <2>2, <2>3 DEF KeepsUp
<1>5. NoneMissing'
  <2> SUFFICES ASSUME ~spoilt', Spaced', NEW e \in edges', NEW k \in DOMAIN Actions
               PROVE  OnItsWay(e, k)'
    BY DEF NoneMissing
  <2>1. e \in edges /\ OnItsWay(e, k)
    BY <1>1, <1>3, SpacedBefore DEF ReplicaInv, NoneMissing
  <2>2. Planned(k)'
    <3>1. k \in 1..Len(ActionArgs)
      BY ActionFacts
    <3>2. k >= 1
      BY <3>1
    <3> QED BY <1>1, <3>2 DEF Planned
  <2>3. Came(e, k) => Came(e, k)'
    BY <1>1 DEF Came
  <2>4. Armed(e, k) => Armed(e, k)'
    BY <1>1 DEF Armed
  <2> QED BY <1>1, <2>1, <2>2, <2>3, <2>4 DEF OnItsWay
<1> QED BY <1>4, <1>5

(* The next action is the one after this, until there are no more.         *)
LEMMA NextPlanned ==
  ASSUME act \in 1..Len(ActionArgs), pc = "act", NextAction, UNCHANGED stamps,
         NEW k \in 1..Len(ActionArgs), k # act, Planned(k)
  PROVE  Planned(k)'
<1>1. CASE stamps # << >>
  BY <1>1 DEF Planned
<1>2. CASE k >= act
  <2>1. act < Len(ActionArgs) /\ k >= act + 1
    BY <1>2, ActionsAssumption
  <2> QED BY <2>1 DEF Planned, NextAction
<1> QED BY <1>1, <1>2 DEF Planned

(* The deadline of a local action goes to its trigger, which is no other   *)
(* action's and has nothing left to do.                                    *)
LEMMA ReplicaLocal ==
  ASSUME Feasible, ReplicaInv, RunLocal
  PROVE  KeepsUp' /\ NoneMissing'
<1>1. /\ pc = "act" /\ ~Actions[act].isremote /\ NextAction
      /\ Program(Local, Actions[act].channel, Deadline)
      /\ (pc' = "act" => ts' = ts)
      /\ UNCHANGED <<now, stamps, wire, agent, edges, pulses, spoilt>>
      /\ trig \in [Boards -> [Channels -> NormalTime]]
      /\ act \in 1..Len(ActionArgs) /\ now \in Nat
  BY DEF RunLocal, wrn_dio_cmd_pulse, netVars, histVars, ReplicaInv, PulseInv
<1>2. ASSUME ~spoilt'
      PROVE  /\ ~spoilt /\ agent /\ now \in edges /\ Nanos(ts) = now
  BY <1>1, <1>2 DEF ReplicaInv, KeepsUp
<1>3. KeepsUp'
  BY <1>1, WireKept DEF ReplicaInv, KeepsUp
<1>4. NoneMissing'
  <2> SUFFICES ASSUME ~spoilt', Spaced', NEW e \in edges', NEW k \in DOMAIN Actions
               PROVE  OnItsWay(e, k)'
    BY DEF NoneMissing
  <2>1. ~spoilt /\ Spaced /\ e \in edges /\ now \in edges /\ OnItsWay(e, k)
    BY <1>1, <1>2, SpacedBefore DEF ReplicaInv, NoneMissing
  <2>2. Came(e, k) => OnItsWay(e, k)'
    BY <1>1 DEF Came, OnItsWay
  <2>3. CASE e # now
    BY <2>1, <2>2, <2>3, OldDone
  <2>4. CASE e = now /\ k = act
    <3>1. /\ Deadline \in LateTime /\ Nanos(Deadline) = now + Delay(k)
      BY <1>1, <1>2, <2>4, DeadlineOf DEF ReplicaInv
    <3>2. Out(k) = Local /\ Local \in Boards /\ Chan(k) = Actions[act].channel
      BY <1>1, <2>4, BoardsAssumption DEF Out, Board, Chan
    <3>3. Chan(k) \in Channels /\ Delay(k) \in Int /\ Delay(k) >= 1
      BY ActionFacts
    <3>4. Nanos(trig'[Out(k)][Chan(k)]) = Nanos(Deadline) - 1
      BY <1>1, <3>1, <3>2, <3>3, ArmedBy
    <3>5. now' < e + Delay(k) /\ Nanos(trig'[Out(k)][Chan(k)]) = e + Delay(k) - 1
      BY <1>1, <2>4, <3>1, <3>3, <3>4
    <3>6. Armed(e, k)'
      BY <3>5, Zenon DEF Armed
    <3> QED BY <3>6 DEF OnItsWay
  <2>5. CASE e = now /\ k # act
    <3>1. act \in DOMAIN Actions /\ Deadline \in LateTime
      BY <1>1, DeadlineOf DEF ReplicaInv
    <3>2. Out(act) = Local /\ Local \in Boards /\ Chan(act) = Actions[act].channel
      BY <1>1, BoardsAssumption DEF Out, Board, Chan
    <3>3. ~(Out(k) = Local /\ Chan(k) = Actions[act].channel)
      BY <2>5, <3>1, <3>2, DistinctOutputs
    <3>4. Out(k) \in Boards /\ Chan(k) \in Channels /\ k \in 1..Len(ActionArgs)
      BY ActionFacts
    <3>5. trig'[Out(k)][Chan(k)] = trig[Out(k)][Chan(k)]
      BY <1>1, <3>1, <3>2, <3>3, <3>4, ArmedBy
    <3>6. Armed(e, k) => Armed(e, k)'
      BY <1>1, <3>5 DEF Armed
    <3>7. OnWire(k) => OnWire(k)'
      BY <1>1 DEF OnWire, FrameOf
    <3>8. Planned(k) => Planned(k)'
      BY <1>1, <2>5, <3>4, NextPlanned
    <3> QED BY <1>1, <2>1, <2>2, <3>6, <3>7, <3>8 DEF OnItsWay
  <2> QED BY <2>3, <2>4, <2>5
<1> QED BY <1>3, <1>4

(* A frame that is sent joins those on the wire.                           *)
LEMMA FrameSent ==
  ASSUME NEW m \in Frame, wire \in Seq(Frame), wire' = Append(wire, m),
         UNCHANGED <<now, edges>>, WireKnown,
         m # ForeignFrame => now \in edges /\ \E k \in DOMAIN Actions : FrameOf(m, k)
  PROVE  /\ WireKnown'
         /\ \A k \in DOMAIN Actions : OnWire(k) \/ FrameOf(m, k) => OnWire(k)'
<1>1. /\ Len(wire) \in Nat /\ Len(wire') = Len(wire) + 1
      /\ wire'[Len(wire) + 1] = m
      /\ \A i \in 1..Len(wire) : wire'[i] = wire[i]
  <2> HIDE DEF Frame
  <2> QED OBVIOUS
<1>2. WireKnown'
  <2> SUFFICES ASSUME NEW i \in 1..Len(wire'), wire'[i] # ForeignFrame
               PROVE  now' \in edges' /\ \E k \in DOMAIN Actions : FrameOf(wire[i], k)'
    BY DEF WireKnown
  <2>1. CASE i = Len(wire) + 1
    <3>1. wire'[i] = m
      BY <1>1, <2>1
    <3> QED BY <3>1 DEF FrameOf
  <2>2. CASE i # Len(wire) + 1
    <3>1. i \in 1..Len(wire) /\ wire'[i] = wire[i]
      BY <1>1, <2>2
    <3> QED BY <3>1 DEF WireKnown, FrameOf
  <2> QED BY <2>1, <2>2
<1>3. ASSUME NEW k \in DOMAIN Actions, OnWire(k) PROVE OnWire(k)'
  <2>1. PICK i \in 1..Len(wire) : FrameOf(wire[i], k)
    BY <1>3 DEF OnWire
  <2>2. i \in 1..Len(wire') /\ wire'[i] = wire[i]
    BY <1>1
  <2>3. FrameOf(wire[i], k)'
    BY <2>1, <2>2 DEF FrameOf
  <2> QED BY <2>2, <2>3 DEF OnWire
<1>4. ASSUME NEW k \in DOMAIN Actions, FrameOf(m, k) PROVE OnWire(k)'
  <2>1. PICK i : i = Len(wire) + 1
    OBVIOUS
  <2>2. i \in 1..Len(wire') /\ wire'[i] = m
    BY <1>1, <2>1
  <2>3. FrameOf(wire[i], k)'
    BY <1>4, <2>2 DEF FrameOf
  <2> QED BY <2>2, <2>3 DEF OnWire
<1> QED BY <1>2, <1>3, <1>4

(* What is left of a FIFO when its head is popped.                         *)
LEMMA TailFacts ==
  ASSUME NEW S, NEW s \in Seq(S), s # << >>
  PROVE  /\ Tail(s) \in Seq(S) /\ Head(s) \in S /\ Head(s) = s[1]
         /\ Len(s) \in Nat \ {0} /\ Len(Tail(s)) = Len(s) - 1
         /\ \A i \in 1..Len(Tail(s)) : Tail(s)[i] = s[i + 1]
  OBVIOUS

(* The agent takes the first frame, the others stay.                       *)
LEMMA FrameRead ==
  ASSUME wire \in Seq(Frame), wire # << >>, wire' = Tail(wire),
         UNCHANGED <<now, edges>>, WireKnown
  PROVE  /\ WireKnown'
         /\ \A k \in DOMAIN Actions : OnWire(k) /\ ~FrameOf(Head(wire), k) => OnWire(k)'
         /\ Head(wire) \in Frame
         /\ Head(wire) # ForeignFrame =>
              now \in edges /\ \E k \in DOMAIN Actions : FrameOf(Head(wire), k)
<1>1. /\ Head(wire) \in Frame /\ Head(wire) = wire[1]
      /\ Len(wire) \in Nat \ {0} /\ Len(wire') = Len(wire) - 1
      /\ \A i \in 1..Len(wire') : wire'[i] = wire[i + 1]
  BY TailFacts
<1>2. WireKnown'
  <2> SUFFICES ASSUME NEW i \in 1..Len(wire'), wire'[i] # ForeignFrame
               PROVE  now' \in edges' /\ \E k \in DOMAIN Actions : FrameOf(wire[i], k)'
    BY DEF WireKnown
  <2>1. PICK j : j = i + 1
    OBVIOUS
  <2>2. j \in 1..Len(wire) /\ wire'[i] = wire[j]
    BY <1>1, <2>1
  <2> QED BY <2>2 DEF WireKnown, FrameOf
<1>3. ASSUME NEW k \in DOMAIN Actions, OnWire(k), ~FrameOf(Head(wire), k)
      PROVE  OnWire(k)'
  <2>1. PICK i \in 1..Len(wire) : FrameOf(wire[i], k)
    BY <1>3 DEF OnWire
  <2>2. i # 1
    BY <1>1, <1>3, <2>1
  <2>3. PICK j : j = i - 1
    OBVIOUS
  <2>4. j \in 1..Len(wire') /\ i = j + 1
    BY <1>1, <2>2, <2>3
  <2>5. wire'[j] = wire[i]
    BY <1>1, <2>4
  <2>6. FrameOf(wire[j], k)'
    BY <2>1, <2>5 DEF FrameOf
  <2> QED BY <2>4, <2>6 DEF OnWire
<1>4. 1 \in 1..Len(wire)
  BY <1>1
<1> QED BY <1>1, <1>2, <1>3, <1>4 DEF WireKnown

(* The deadline of a remote action goes out in a frame.                    *)
LEMMA ReplicaRemote ==
  ASSUME Feasible, ReplicaInv, RunRemote
  PROVE  KeepsUp' /\ NoneMissing'
<1>1. /\ pc = "act" /\ Actions[act].isremote /\ NextAction
      /\ wire' = IF agent THEN Append(wire, [channel |-> Actions[act].channel, t |-> Deadline])
                 ELSE wire
      /\ (pc' = "act" => ts' = ts)
      /\ UNCHANGED <<now, trig, stamps, agent, edges, pulses, spoilt>>
      /\ wire \in Seq(Frame) /\ act \in 1..Len(ActionArgs) /\ now \in Nat
  BY DEF RunRemote, histVars, ReplicaInv, PulseInv
<1>2. /\ act \in DOMAIN Actions /\ Deadline \in LateTime
      /\ Nanos(Deadline) = Nanos(ts) + Delay(act)
  BY <1>1, DeadlineOf DEF ReplicaInv
<1>3. PICK m : m = [channel |-> Actions[act].channel, t |-> Deadline]
  OBVIOUS
<1>4. m \in Frame
  <2>1. Actions[act].channel \in 0..4
    BY <1>2, ActionFacts DEF Chan
  <2> QED BY <1>2, <1>3, <2>1 DEF Frame
<1>5. ASSUME ~spoilt'
      PROVE  /\ ~spoilt /\ agent /\ now \in edges /\ Nanos(ts) = now /\ WireKnown
             /\ FrameOf(m, act)
  <2>1. /\ ~spoilt /\ agent /\ now \in edges /\ Nanos(ts) = now /\ WireKnown
    BY <1>1, <1>5 DEF ReplicaInv, KeepsUp
  <2>2. m.channel = Actions[act].channel /\ m.t = Deadline
    BY <1>3
  <2>3. Nanos(m.t) = now + Delay(act)
    BY <1>2, <2>1, <2>2
  <2> QED BY <1>1, <2>1, <2>2, <2>3 DEF FrameOf, Chan
<1>6. ASSUME ~spoilt'
      PROVE  /\ WireKnown'
             /\ \A k \in DOMAIN Actions : OnWire(k) \/ FrameOf(m, k) => OnWire(k)'
  <2>1. wire' = Append(wire, m)
    BY <1>1, <1>3, <1>5, <1>6
  <2> QED BY <1>1, <1>2, <1>4, <1>5, <1>6, <2>1, FrameSent
<1>7. KeepsUp'
  BY <1>1, <1>6 DEF ReplicaInv, KeepsUp
<1>8. NoneMissing'
  <2> SUFFICES ASSUME ~spoilt', Spaced', NEW e \in edges', NEW k \in DOMAIN Actions
               PROVE  OnItsWay(e, k)'
    BY DEF NoneMissing
  <2>1. ~spoilt /\ Spaced /\ e \in edges /\ OnItsWay(e, k)
    BY <1>1, <1>5, SpacedBefore DEF ReplicaInv, NoneMissing
  <2>2. Came(e, k) => Came(e, k)'
    BY <1>1 DEF Came
  <2>3. Armed(e, k) => Armed(e, k)'
    BY <1>1 DEF Armed
  <2>4. OnWire(k) => OnWire(k)'
    BY <1>6
  <2>5. Planned(k) => Planned(k)' \/ OnWire(k)'
    <3>1. CASE k = act
      BY <1>5, <1>6, <3>1
    <3>2. CASE k # act
      BY <1>1, <3>2, NextPlanned, ActionFacts
    <3> QED BY <3>1, <3>2
  <2> QED BY <1>1, <2>1, <2>2, <2>3, <2>4, <2>5 DEF OnItsWay
<1> QED BY <1>7, <1>8

(* What is not the ruler's is sent and skipped beside it.                  *)
LEMMA ReplicaForeign ==
  ASSUME Feasible, ReplicaInv, Foreign \/ AgentSkip
  PROVE  KeepsUp' /\ NoneMissing'
<1>1. /\ UNCHANGED <<now, trig, stamps, pc, act, ts, agent, edges, pulses, spoilt>>
      /\ wire \in Seq(Frame)
      /\ \/ wire' = Append(wire, ForeignFrame)
         \/ wire # << >> /\ Head(wire) = ForeignFrame /\ wire' = Tail(wire)
  BY DEF Foreign, AgentSkip, rulerVars, histVars, ReplicaInv, PulseInv
<1>2. ForeignFrame \in Frame /\ ForeignFrame.channel = -1
  BY NSECAssumption DEF ForeignFrame, Frame, LateTime, None, Ts
<1>3. ASSUME NEW k \in DOMAIN Actions PROVE ~FrameOf(ForeignFrame, k)
  BY <1>2, ActionFacts DEF FrameOf
<1>4. ASSUME ~spoilt'
      PROVE  WireKnown' /\ \A k \in DOMAIN Actions : OnWire(k) => OnWire(k)'
  <2>1. WireKnown
    BY <1>1, <1>4 DEF ReplicaInv, KeepsUp
  <2>2. CASE wire' = Append(wire, ForeignFrame)
    BY <1>1, <1>2, <2>1, <2>2, FrameSent
  <2>3. CASE wire # << >> /\ Head(wire) = ForeignFrame /\ wire' = Tail(wire)
    BY <1>1, <1>3, <2>1, <2>3, FrameRead
  <2> QED BY <1>1, <2>2, <2>3
<1>5. KeepsUp'
  BY <1>1, <1>4 DEF ReplicaInv, KeepsUp
<1>6. NoneMissing'
  <2> SUFFICES ASSUME ~spoilt', Spaced', NEW e \in edges', NEW k \in DOMAIN Actions
               PROVE  OnItsWay(e, k)'
    BY DEF NoneMissing
  <2>1. e \in edges /\ OnItsWay(e, k)
    BY <1>1, SpacedBefore DEF ReplicaInv, NoneMissing
  <2>2. Came(e, k) => Came(e, k)'
    BY <1>1 DEF Came
  <2>3. Armed(e, k) => Armed(e, k)'
    BY <1>1 DEF Armed
  <2>4. Planned(k) => Planned(k)'
    BY <1>1 DEF Planned
  <2> QED BY <1>1, <1>4, <2>1, <2>2, <2>3, <2>4 DEF OnItsWay
<1> QED BY <1>5, <1>6

(* The agent programs what the first frame says, and nothing else.         *)
LEMMA ReplicaAgent ==
  ASSUME Feasible, ReplicaInv, AgentPulse
  PROVE  KeepsUp' /\ NoneMissing'
<1>1. PICK m : m = Head(wire)
  OBVIOUS
<1>2. /\ wire # << >> /\ m # ForeignFrame /\ wire' = Tail(wire)
      /\ Program(Remote, m.channel, m.t)
      /\ UNCHANGED <<now, stamps, pc, act, ts, agent, edges, pulses, spoilt>>
      /\ wire \in Seq(Frame) /\ now \in Nat
      /\ trig \in [Boards -> [Channels -> NormalTime]]
  BY <1>1 DEF AgentPulse, wrn_dio_cmd_pulse, rulerVars, histVars, ReplicaInv, PulseInv
<1>3. ASSUME ~spoilt'
      PROVE  /\ ~spoilt /\ WireKnown' /\ now \in edges
             /\ \A k \in DOMAIN Actions : OnWire(k) /\ ~FrameOf(m, k) => OnWire(k)'
             /\ m.t \in LateTime
             /\ \E k \in DOMAIN Actions : FrameOf(m, k)
  <2>1. ~spoilt /\ WireKnown
    BY <1>2, <1>3 DEF ReplicaInv, KeepsUp
  <2>2. m \in Frame
    BY <1>1, <1>2, <2>1, FrameRead
  <2> QED BY <1>1, <1>2, <2>1, <2>2, FrameRead DEF Frame
<1>4. KeepsUp'
  BY <1>2, <1>3 DEF ReplicaInv, KeepsUp
<1>5. NoneMissing'
  <2> SUFFICES ASSUME ~spoilt', Spaced', NEW e \in edges', NEW k \in DOMAIN Actions
               PROVE  OnItsWay(e, k)'
    BY DEF NoneMissing
  <2>1. ~spoilt /\ Spaced /\ e \in edges /\ now \in edges /\ OnItsWay(e, k)
    BY <1>2, <1>3, SpacedBefore DEF ReplicaInv, NoneMissing
  <2>2. Came(e, k) => OnItsWay(e, k)'
    BY <1>2 DEF Came, OnItsWay
  <2>3. PICK j \in DOMAIN Actions : FrameOf(m, j)
    BY <1>3
  <2>4. /\ Out(j) = Remote /\ Remote \in Boards
        /\ m.channel = Chan(j) /\ Nanos(m.t) = now + Delay(j) /\ m.t \in LateTime
    BY <1>3, <2>3, BoardsAssumption DEF FrameOf, Out, Board
  <2>5. /\ Out(k) \in Boards /\ Chan(k) \in Channels
        /\ Delay(k) \in Int /\ Delay(k) >= 1
    BY ActionFacts
  <2>6. CASE e # now
    BY <2>1, <2>2, <2>6, OldDone
  <2>7. CASE e = now /\ k = j
    <3>1. Nanos(trig'[Out(k)][Chan(k)]) = Nanos(m.t) - 1
      BY <1>2, <2>4, <2>5, <2>7, ArmedBy
    <3>2. now' < e + Delay(k) /\ Nanos(trig'[Out(k)][Chan(k)]) = e + Delay(k) - 1
      BY <1>2, <2>4, <2>5, <2>7, <3>1
    <3>3. Armed(e, k)'
      BY <3>2, Zenon DEF Armed
    <3> QED BY <3>3 DEF OnItsWay
  <2>8. CASE e = now /\ k # j
    <3>1. ~(Out(k) = Remote /\ Chan(k) = m.channel)
      BY <2>4, <2>8, DistinctOutputs
    <3>2. trig'[Out(k)][Chan(k)] = trig[Out(k)][Chan(k)]
      BY <1>2, <2>4, <2>5, <3>1, ArmedBy
    <3>3. Armed(e, k) => Armed(e, k)'
      BY <1>2, <3>2 DEF Armed
    <3>4. ~FrameOf(m, k)
      BY <3>1 DEF FrameOf, Out, Board
    <3>5. OnWire(k) => OnWire(k)'
      BY <1>3, <3>4
    <3>6. Planned(k) => Planned(k)'
      BY <1>2 DEF Planned
    <3> QED BY <1>2, <2>1, <2>2, <3>3, <3>5, <3>6 DEF OnItsWay
  <2> QED BY <2>6, <2>7, <2>8
<1> QED BY <1>4, <1>5

(* The user's pulses leave the triggers of the actions alone, or the run   *)
(* is spoilt.                                                              *)
LEMMA ReplicaCommand ==
  ASSUME Feasible, ReplicaInv, PulseCommand
  PROVE  KeepsUp' /\ NoneMissing'
<1>1. PICK b \in Boards, p \in PulseArgs : PulseNow(b, p) \/ PulseAt(b, p)
  BY DEF PulseCommand
<1>2. /\ UNCHANGED <<now, stamps, pc, act, ts, wire, agent, edges>>
      /\ now \in Nat /\ trig \in [Boards -> [Channels -> NormalTime]]
  BY DEF PulseCommand, rulerVars, netVars, ReplicaInv, PulseInv
<1>3. pulses \subseteq pulses' /\ (~spoilt' => ~spoilt)
  <2>1. pulses \subseteq pulses'
    BY <1>1 DEF PulseNow, PulseAt
  <2>2. PulseNow(b, p) => (~spoilt' => ~spoilt)
    BY Zenon DEF PulseNow
  <2>3. PulseAt(b, p) => (~spoilt' => ~spoilt)
    BY Zenon DEF PulseAt
  <2> QED BY <1>1, <2>1, <2>2, <2>3
<1>4. KeepsUp'
  BY <1>2, <1>3, WireKept DEF ReplicaInv, KeepsUp
<1>5. ASSUME ~spoilt', NEW k \in DOMAIN Actions
      PROVE  trig'[Out(k)][Chan(k)] = trig[Out(k)][Chan(k)]
  <2>1. CASE PulseNow(b, p)
    BY <2>1 DEF PulseNow
  <2>2. CASE PulseAt(b, p)
    <3>1. ~Overwrites(b, p.channel) /\ Program(b, p.channel, When(p))
      BY <1>5, <2>2 DEF PulseAt, wrn_dio_cmd_pulse
    <3>2. ~(b = Out(k) /\ p.channel = Chan(k))
      <4> SUFFICES ASSUME b = Out(k), p.channel = Chan(k) PROVE Overwrites(b, p.channel)
        BY <3>1
      <4>1. Actions[k].isremote \in BOOLEAN
        BY ActionFacts
      <4>2. (b = Remote) = Actions[k].isremote
        BY <4>1, BoardsAssumption DEF Out, Board
      <4>3. p.channel = Actions[k].channel
        BY DEF Chan
      <4> QED BY <4>2, <4>3 DEF Overwrites
    <3>3. trig' = [trig EXCEPT ![b][p.channel] = wrn_ts_sub(When(p), 1)]
      BY <3>1 DEF Program
    <3>4. Out(k) \in Boards /\ Chan(k) \in Channels
      BY ActionFacts
    <3> QED BY <1>2, <3>2, <3>3, <3>4
  <2> QED BY <1>1, <2>1, <2>2
<1>6. NoneMissing'
  <2> SUFFICES ASSUME ~spoilt', Spaced', NEW e \in edges', NEW k \in DOMAIN Actions
               PROVE  OnItsWay(e, k)'
    BY DEF NoneMissing
  <2>1. e \in edges /\ OnItsWay(e, k)
    BY <1>2, <1>3, SpacedBefore DEF ReplicaInv, NoneMissing
  <2>2. Came(e, k) => Came(e, k)'
    BY <1>3 DEF Came
  <2>3. Armed(e, k) => Armed(e, k)'
    BY <1>2, <1>5 DEF Armed
  <2>4. OnWire(k) => OnWire(k)'
    BY <1>2 DEF OnWire, FrameOf
  <2>5. Planned(k) => Planned(k)'
    BY <1>2 DEF Planned
  <2> QED BY <1>2, <2>1, <2>2, <2>3, <2>4, <2>5 DEF OnItsWay
<1> QED BY <1>4, <1>6

(* Nothing is missing after a step that changes none of these.             *)
LEMMA ReplicaStuttering ==
  ASSUME ReplicaInv,
         UNCHANGED <<now, trig, stamps, pc, act, ts, wire, agent, edges, pulses, spoilt>>
  PROVE  KeepsUp' /\ NoneMissing'
<1>1. KeepsUp'
  BY WireKept DEF ReplicaInv, KeepsUp
<1>2. NoneMissing'
  <2> SUFFICES ASSUME ~spoilt', Spaced', NEW e \in edges', NEW k \in DOMAIN Actions
               PROVE  OnItsWay(e, k)'
    BY DEF NoneMissing
  <2>1. OnItsWay(e, k)
    BY SpacedBefore DEF ReplicaInv, NoneMissing
  <2> QED BY <2>1 DEF OnItsWay, Came, Armed, OnWire, FrameOf, Planned
<1> QED BY <1>1, <1>2

(* No step loses a replica, or the run is spoilt.                          *)
LEMMA ReplicaNext == Feasible /\ ReplicaInv /\ [Next]_vars => ReplicaInv'
<1> SUFFICES ASSUME Feasible, ReplicaInv, [Next]_vars PROVE ReplicaInv'
  OBVIOUS
<1>1. PulseInv'
  BY PulseInvNext DEF ReplicaInv
<1>2. CASE RulerExit \/ Lose \/ AgentExit
  <2>1. spoilt'
    BY <1>2 DEF RulerExit, Lose, AgentExit
  <2> QED BY <1>1, <2>1 DEF ReplicaInv, KeepsUp, NoneMissing
<1>3. CASE ModeCommand \/ UNCHANGED vars
  <2>1. UNCHANGED <<now, trig, stamps, pc, act, ts, wire, agent, edges, pulses, spoilt>>
    BY <1>3 DEF ModeCommand, vars, rulerVars, netVars, histVars
  <2> QED BY <1>1, <2>1, ReplicaStuttering DEF ReplicaInv
<1>4. Edge \/ Tick \/ WaitEvent \/ RunLocal \/ RunRemote
      \/ Foreign \/ AgentSkip \/ AgentPulse \/ PulseCommand
      => KeepsUp' /\ NoneMissing'
  BY ReplicaEdge, ReplicaTick, ReplicaWait, ReplicaLocal, ReplicaRemote,
     ReplicaForeign, ReplicaAgent, ReplicaCommand
<1> QED BY <1>1, <1>2, <1>3, <1>4 DEF Next, ReplicaInv

(* While the software keeps up, no frame is lost, nobody reprograms the    *)
(* outputs and edges are no closer than the delays, every edge has come    *)
(* out on every output when its delay is over: for any number of actions,  *)
(* edges and cycles in a second, when the outputs are distinct and no      *)
(* delay is nothing.                                                       *)
THEOREM ReplicasCorrect == Feasible => (Spec => []EveryEdgeReplicated)
<1> SUFFICES ASSUME Feasible PROVE Spec => []EveryEdgeReplicated
  OBVIOUS
<1>1. ASSUME ReplicaInv PROVE EveryEdgeReplicated
  <2> SUFFICES ASSUME ~spoilt, Spaced, NEW e \in edges, NEW k \in DOMAIN Actions,
                      e + Delay(k) <= now
               PROVE  Came(e, k)
    BY DEF EveryEdgeReplicated, Replicas, Came, Out, Chan, Delay
  <2>1. OnItsWay(e, k)
    BY <1>1 DEF ReplicaInv, NoneMissing
  <2>2. /\ e \in Nat /\ now \in Nat /\ Delay(k) \in Int /\ Delay(k) >= 1
    BY <1>1, ActionFacts DEF ReplicaInv, PulseInv
  <2>3. ~(now < e + Delay(k)) /\ e # now
    BY <2>2
  <2> QED BY <2>1, <2>3 DEF OnItsWay, Armed
<1>2. ReplicaInv /\ [Next]_vars => ReplicaInv'
  BY ReplicaNext
<1> QED BY <1>1, <1>2, ReplicaInit, PTL DEF Spec

-----------------------------------------------------------------------------
(* Time stamps: the rings of DioStamp *)

\* Slots from b up to a, round the ring.
Gap(a, b) == IF b <= a THEN a - b ELSE a - b + NBuf

\* Where the filled part of a ring ends: a slot that was taken, yet not
\* filled, is behind it ...
Top(c) ==
  IF ipc \in {"compare", "drop", "fill"} /\ c = Min(imask) THEN ih ELSE bhead[c]

\* ... and where it will end when there is room for that slot.
Ahead(c) ==
  IF ipc \in {"compare", "drop"} /\ c = Min(imask) THEN ih ELSE bhead[c]

\* Readers at work hold the rtnl lock.
Inside(r) == rpc[r] \in {"check", "copy", "load", "store"}

\* The numbers after m, in order.
Counts(s, m) == \A k \in 1..Len(s) : s[k] = m + k

\* Stamps of a channel in the reply of the reader at work, and whether btail
\* does not count the last of them as read yet.
Held(c) == IF rtnl # NoOne /\ rch[rtnl] = c THEN reply[rtnl] ELSE << >>
Copied(c) == rtnl # NoOne /\ rch[rtnl] = c /\ rpc[rtnl] \in {"load", "store"}

\* The gateware's FIFO holds the edges that were not pulled.
FifoHolds(c) ==
  /\ Len(fifo[c]) <= events[c]
  /\ \A i \in 1..Len(fifo[c]) : fifo[c][i] = Pulled(c) + i

\* The ring holds the newest of those that were.
RingHolds(c) ==
  /\ Gap(Top(c), btail[c]) <= Pulled(c)
  /\ \A s \in Slot \ {Top(c)} :
       Gap(Top(c), s) <= Gap(Top(c), btail[c]) =>
         tsbuf[c][s] = Pulled(c) + 1 - Gap(Top(c), s)

\* What the interrupt knows of its channel.
IrqPlaced ==
  /\ ipc = "idle" <=> imask = {}
  /\ ipc \in {"compare", "drop", "fill"} =>
       fifo[Min(imask)] # << >> /\ bhead[Min(imask)] = NextSlot(ih)
  /\ ipc = "drop" => bhead[Min(imask)] = it /\ btail[Min(imask)] = it
  /\ ipc = "fill" =>
       bhead[Min(imask)] # btail[Min(imask)] \/ dropped[Min(imask)]

LockHeld ==
  \A r \in Readers :
    /\ Inside(r) <=> rtnl = r
    /\ ~Inside(r) => reply[r] = << >>

\* A reader between its check and its store: the ring is not empty, and when
\* the btail it stores is an old one, then the ring overflowed and is full.
MidRead(r) ==
  LET c == rch[r] IN
  /\ rpc[r] \in {"copy", "load"} => Ahead(c) # btail[c]
  /\ rpc[r] = "copy" => Len(reply[r]) < NReply
  /\ rpc[r] = "copy" => rt[r] = btail[c] \/ dropped[c]
  /\ rpc[r] = "store" => \/ rt[r] = btail[c] /\ Ahead(c) # btail[c]
                         \/ NextSlot(Ahead(c)) = btail[c] /\ dropped[c]

\* Without an overflow: returned, replied and in the ring is all that was
\* pulled, in order.
InOrder(c) ==
  ~dropped[c] =>
    /\ Counts(returned[c], 0) /\ Counts(Held(c), Len(returned[c]))
    /\ ~Copied(c) =>
         Len(returned[c]) + Len(Held(c)) + Gap(Top(c), btail[c]) = Pulled(c)
    /\ Copied(c) =>
         Len(returned[c]) + Len(Held(c)) + Gap(Top(c), btail[c]) = Pulled(c) + 1

\* The channels a call has passed hold nothing that was there when it began.
Visited(r) ==
  /\ rpc[r] # "idle" => req[r].chans \subseteq Channel /\ req[r].chans # {}
  /\ \A c \in Channel : atCall[r][c] <= Pulled(c)
  /\ Inside(r) => \A c \in req[r].chans : c < rch[r] =>
                    Gap(Top(c), btail[c]) <= Pulled(c) - atCall[r][c]

StampInv ==
  /\ TypeOK
  /\ IrqPlaced
  /\ LockHeld
  /\ \A r \in Readers : MidRead(r) /\ Visited(r)
  /\ \A c \in Channel : FifoHolds(c) /\ RingHolds(c) /\ InOrder(c)

-----------------------------------------------------------------------------
(* Arithmetic of the ring *)

(* A set of channels has a first one. *)
LEMMA MinIn ==
  ASSUME NEW S, S \subseteq Nat, S # {}
  PROVE  Min(S) \in S /\ \A x \in S : Min(S) <= x
<1> DEFINE R == OpToRel(<, Nat)
<1>1. IsWellFoundedOn(R, Nat)
  BY NatLessThanWellFounded
<1>2. \A x, y \in Nat : x < y => <<x, y>> \in R
  BY DEF OpToRel
<1> HIDE DEF R
<1>3. \E x \in S : \A y \in S : ~(<<y, x>> \in R)
  BY <1>1, WFMin
<1>4. \E x \in S : \A y \in S : x <= y
  <2>1. PICK x \in S : \A y \in S : ~(<<y, x>> \in R)
    BY <1>3
  <2>2. \A y \in S : ~(y < x)
    BY <1>2, <2>1
  <2> QED BY <2>2
<1> QED BY <1>4 DEF Min

(* The sizes, as the assumption of DioStamp gives them.                    *)
LEMMA Sizes ==
  /\ NCh \in Nat \ {0} /\ NBuf \in Nat \ {0} /\ NReply \in Nat \ {0}
  /\ MaxEvents \in Nat
  BY SizeAssumption

(* The first channel of a mask is one of it.                               *)
LEMMA MinChannel ==
  ASSUME NEW S, S \subseteq Channel, S # {}
  PROVE  Min(S) \in S /\ Min(S) \in Channel /\ \A x \in S : Min(S) <= x
<1>1. Channel \subseteq Nat
  BY Sizes DEF Channel
<1> QED BY <1>1, MinIn

(* The slot after the last is the first.                                   *)
LEMMA NextSlotStep ==
  ASSUME NEW s \in Slot
  PROVE  NextSlot(s) \in Slot /\ NextSlot(s) = IF s = NBuf - 1 THEN 0 ELSE s + 1
<1>1. CASE s = NBuf - 1
  BY <1>1, Sizes DEF Slot, NextSlot
<1>2. CASE s # NBuf - 1
  <2>1. s + 1 \in 0..(NBuf - 1)
    BY <1>2, Sizes DEF Slot
  <2>2. (s + 1) % NBuf = s + 1
    BY <2>1, Sizes
  <2> QED BY <1>2, <2>1, <2>2 DEF Slot, NextSlot
<1> QED BY <1>1, <1>2

(* Gaps are less than the ring, none from a slot to itself, one more when  *)
(* the end advances, one less when the start does, and full when the slot  *)
(* after the end is the start.                                             *)
LEMMA GapFacts ==
  ASSUME NEW a \in Slot, NEW b \in Slot
  PROVE  /\ Gap(a, b) \in 0..(NBuf - 1)
         /\ Gap(a, b) = 0 <=> a = b
         /\ NextSlot(a) # b => Gap(NextSlot(a), b) = Gap(a, b) + 1
         /\ a # b => Gap(a, NextSlot(b)) = Gap(a, b) - 1
         /\ NextSlot(a) = b => Gap(a, b) = NBuf - 1
<1>1. NBuf \in Nat \ {0} /\ a \in 0..(NBuf - 1) /\ b \in 0..(NBuf - 1)
  BY Sizes DEF Slot
<1>2. /\ NextSlot(a) = (IF a = NBuf - 1 THEN 0 ELSE a + 1)
      /\ NextSlot(b) = IF b = NBuf - 1 THEN 0 ELSE b + 1
  BY NextSlotStep
<1>3. Gap(a, b) \in 0..(NBuf - 1) /\ (Gap(a, b) = 0 <=> a = b)
  BY <1>1 DEF Gap
<1>4. NextSlot(a) # b => Gap(NextSlot(a), b) = Gap(a, b) + 1
  BY <1>1, <1>2 DEF Gap
<1>5. a # b => Gap(a, NextSlot(b)) = Gap(a, b) - 1
  BY <1>1, <1>2 DEF Gap
<1>6. NextSlot(a) = b => Gap(a, b) = NBuf - 1
  BY <1>1, <1>2 DEF Gap
<1> QED BY <1>3, <1>4, <1>5, <1>6

(* Consecutive numbers stay consecutive when the next ones are appended. *)
LEMMA OneThenOther ==
  ASSUME NEW S, NEW s \in Seq(S), NEW t \in Seq(S),
         Counts(s, 0), Counts(t, Len(s))
  PROVE  Len(s \o t) = Len(s) + Len(t) /\ Counts(s \o t, 0)
<1>1. PICK m \in Nat, n \in Nat : m = Len(s) /\ n = Len(t)
  OBVIOUS
<1>2. /\ \A k \in 1..m : s[k] = 0 + k
      /\ \A k \in 1..n : t[k] = m + k
  BY <1>1 DEF Counts
<1>3. Len(s \o t) = m + n
  BY <1>1
<1>4. ASSUME NEW k \in 1..(m + n) PROVE (s \o t)[k] = 0 + k
  <2>1. CASE k <= m
    BY <1>1, <1>2, <2>1
  <2>2. CASE k > m
    <3>1. (s \o t)[k] = t[k - m] /\ k - m \in 1..n
      BY <1>1, <2>2
    <3>2. t[k - m] = m + (k - m)
      BY <1>2, <3>1
    <3>3. m + (k - m) = 0 + k
      OBVIOUS
    <3> QED BY <3>1, <3>2, <3>3, Zenon
  <2>3. k <= m \/ k > m
    OBVIOUS
  <2> QED BY <2>1, <2>2, <2>3, Zenon
<1> QED BY <1>1, <1>3, <1>4 DEF Counts

(* So do they when the next one is appended. *)
LEMMA OneMore ==
  ASSUME NEW S, NEW s \in Seq(S), NEW m \in Nat, Counts(s, m),
         m + Len(s) + 1 \in S
  PROVE  Counts(Append(s, m + Len(s) + 1), m)
<1>1. PICK n \in Nat : n = Len(s)
  OBVIOUS
<1> DEFINE v == m + n + 1
           u == Append(s, v)
<1>2. /\ Len(u) = n + 1 /\ u[n + 1] = v
      /\ \A k \in 1..n : u[k] = s[k]
  BY <1>1
<1>3. \A k \in 1..n : s[k] = m + k
  BY <1>1 DEF Counts
<1>4. v = m + (n + 1)
  OBVIOUS
<1> HIDE DEF u, v
<1>5. ASSUME NEW k \in 1..(n + 1) PROVE u[k] = m + k
  <2>1. CASE k = n + 1
    BY <2>1, <1>2, <1>4
  <2>2. CASE k \in 1..n
    BY <2>2, <1>2, <1>3
  <2> QED BY <2>1, <2>2
<1>6. Counts(u, m)
  BY <1>2, <1>5 DEF Counts
<1> QED BY <1>1, <1>6 DEF u, v

(* An empty sequence counts from anywhere.                                 *)
LEMMA NoneCount == ASSUME NEW m PROVE Counts(<< >>, m)
  BY DEF Counts

(* The k-th slot from the start of a gap, as the ring is read.             *)
LEMMA SlotOfGap ==
  ASSUME NEW a \in Slot, NEW b \in Slot, NEW k \in 1..Gap(a, b)
  PROVE  \E s \in Slot : s = (b + k - 1) % NBuf /\ Gap(a, s) = Gap(a, b) - k + 1
<1>1. /\ NBuf \in Nat \ {0} /\ a \in 0..(NBuf - 1) /\ b \in 0..(NBuf - 1)
      /\ Gap(a, b) \in 0..(NBuf - 1) /\ k \in Nat \ {0} /\ k <= Gap(a, b)
  BY Sizes, GapFacts DEF Slot
<1>2. CASE b + k - 1 < NBuf
  <2>1. (b + k - 1) % NBuf = b + k - 1 /\ b + k - 1 \in 0..(NBuf - 1)
    BY <1>1, <1>2
  <2>2. Gap(a, b + k - 1) = Gap(a, b) - k + 1
    BY <1>1, <1>2 DEF Gap
  <2> QED BY <2>1, <2>2 DEF Slot
<1>3. CASE b + k - 1 >= NBuf
  <2>1. b + k - 1 - NBuf \in 0..(NBuf - 1)
    BY <1>1, <1>3
  <2>2. (b + k - 1 - NBuf) % NBuf = b + k - 1 - NBuf
    BY <1>1, <2>1
  <2>3. (b + k - 1) % NBuf = (b + k - 1 - NBuf) % NBuf
    BY <1>1
  <2>4. Gap(a, b + k - 1 - NBuf) = Gap(a, b) - k + 1
    BY <1>1, <1>3 DEF Gap
  <2> QED BY <2>1, <2>2, <2>3, <2>4 DEF Slot
<1> QED BY <1>1, <1>2, <1>3

(* The remainder that InRing takes is the gap.                             *)
LEMMA ModGap ==
  ASSUME NEW a \in Slot, NEW b \in Slot
  PROVE  (a - b) % NBuf = Gap(a, b)
<1>1. NBuf \in Nat \ {0} /\ a \in 0..(NBuf - 1) /\ b \in 0..(NBuf - 1)
  BY Sizes DEF Slot
<1>2. CASE b <= a
  BY <1>1, <1>2 DEF Gap
<1>3. CASE b > a
  <2>1. a - b + NBuf \in 0..(NBuf - 1)
    BY <1>1, <1>3
  <2>2. (a - b + NBuf) % NBuf = a - b + NBuf
    BY <1>1, <2>1
  <2>3. (a - b) % NBuf = (a - b + NBuf) % NBuf
    BY <1>1
  <2> QED BY <1>1, <1>3, <2>2, <2>3 DEF Gap
<1> QED BY <1>1, <1>2, <1>3

-----------------------------------------------------------------------------
(* Step by step *)

(* When the driver is loaded all rings are empty.                          *)
LEMMA StampInitInv == StampInit => StampInv
<1> SUFFICES ASSUME StampInit PROVE StampInv
  OBVIOUS
<1> USE DEF StampInit
<1>0. 0 \in Slot /\ 0 \in Channel /\ 0 \in 0..MaxEvents
  BY Sizes DEF Slot, Channel
<1>1. RingTypeOK
  BY <1>0 DEF RingTypeOK
<1>2. IrqTypeOK
  BY <1>0 DEF IrqTypeOK
<1>3. ReadTypeOK
  BY <1>0, Sizes DEF ReadTypeOK
<1>4. IrqPlaced /\ LockHeld
  BY ReadersAssumption DEF IrqPlaced, LockHeld, Inside
<1>5. \A r \in Readers : MidRead(r) /\ Visited(r)
  BY <1>0 DEF MidRead, Visited, Inside, Pulled
<1>6. \A c \in Channel : /\ Pulled(c) = 0 /\ Top(c) = 0 /\ Gap(0, 0) = 0
                         /\ Held(c) = << >> /\ ~Copied(c)
  BY DEF Pulled, Top, Gap, Held, Copied
<1>7. \A c \in Channel : FifoHolds(c) /\ InOrder(c)
  BY <1>6, NoneCount DEF FifoHolds, InOrder
<1>8. \A c \in Channel : RingHolds(c)
  BY <1>0, <1>6, GapFacts DEF RingHolds
<1> QED BY <1>1, <1>2, <1>3, <1>4, <1>5, <1>7, <1>8 DEF StampInv, TypeOK

(* What a step has to leave alone for the rings of all channels to stay as *)
(* described.                                                              *)
LEMMA ChannelsKept ==
  ASSUME StampInv,
         UNCHANGED <<events, fifo, tsbuf, btail, returned, dropped>>,
         \A c \in Channel : /\ Top(c)' = Top(c) /\ Held(c)' = Held(c)
                            /\ Pulled(c)' = Pulled(c)
                            /\ Copied(c)' <=> Copied(c)
  PROVE  \A c \in Channel : FifoHolds(c)' /\ RingHolds(c)' /\ InOrder(c)'
<1> TAKE c \in Channel
<1>1. FifoHolds(c)'
  BY DEF StampInv, FifoHolds
<1>2. RingHolds(c)'
  BY DEF StampInv, RingHolds
<1>3. InOrder(c)'
  BY DEF StampInv, InOrder
<1> QED BY <1>1, <1>2, <1>3

(* The views of a channel are slots and numbers.                           *)
LEMMA ViewTypes ==
  ASSUME TypeOK, NEW c \in Channel
  PROVE  /\ Top(c) \in Slot /\ Ahead(c) \in Slot /\ btail[c] \in Slot
         /\ bhead[c] \in Slot
         /\ Pulled(c) \in Int /\ Gap(Top(c), btail[c]) \in 0..(NBuf - 1)
         /\ events[c] \in Nat /\ fifo[c] \in Seq(1..MaxEvents)
<1> USE DEF TypeOK, RingTypeOK, IrqTypeOK
<1>1. /\ Top(c) \in Slot /\ Ahead(c) \in Slot /\ btail[c] \in Slot
      /\ bhead[c] \in Slot
  BY DEF Top, Ahead
<1>2. fifo[c] \in Seq(1..MaxEvents) /\ events[c] \in Nat
  BY Sizes
<1>3. Pulled(c) \in Int
  BY <1>2 DEF Pulled
<1> QED BY <1>1, <1>2, <1>3, GapFacts

(* An edge: its stamp goes behind the others in the FIFO, the rings stay.  *)
LEMMA EdgeInv ==
  ASSUME StampInv, NEW d \in Channel, StampEdge(d)
  PROVE  StampInv'
<1> USE DEF StampInv, StampEdge
<1>0. UNCHANGED <<tsbuf, bhead, btail, irqOn, ipc, imask, ih, it, rtnl, rpc,
                  req, rch, rt, reply, atCall, returned, dropped>>
  BY DEF ringVars, irqVars, readVars
<1>1. /\ \A c \in Channel \ {d} : events'[c] = events[c] /\ fifo'[c] = fifo[c]
      /\ events'[d] = events[d] + 1
      /\ fifo'[d] = Append(fifo[d], events[d] + 1)
      /\ fifo[d] \in Seq(1..MaxEvents)
      /\ events[d] \in Nat
  BY Sizes DEF TypeOK, RingTypeOK
<1>1a. /\ Len(fifo'[d]) = Len(fifo[d]) + 1
       /\ \A i \in 1..Len(fifo[d]) : fifo'[d][i] = fifo[d][i]
  BY <1>1
<1>1b. fifo'[d][Len(fifo[d]) + 1] = events[d] + 1
  BY <1>1
<1>2. \A c \in Channel : Pulled(c)' = Pulled(c)
  BY <1>1, <1>1a, ViewTypes DEF Pulled
<1>3. \A c \in Channel : /\ Top(c)' = Top(c) /\ Ahead(c)' = Ahead(c)
                         /\ Held(c)' = Held(c) /\ (Copied(c)' <=> Copied(c))
  BY <1>0 DEF Top, Ahead, Held, Copied
<1>4. RingTypeOK'
  BY <1>0, Sizes DEF TypeOK, RingTypeOK
<1>5. IrqTypeOK' /\ ReadTypeOK'
  BY <1>0 DEF TypeOK, IrqTypeOK, ReadTypeOK
<1>6. IrqPlaced'
  <2>1. \A c \in Channel : fifo[c] # << >> => fifo'[c] # << >>
    BY <1>1
  <2>2. ipc # "idle" => Min(imask) \in Channel
    BY MinChannel DEF IrqPlaced, TypeOK, IrqTypeOK
  <2> QED BY <1>0, <2>1, <2>2 DEF IrqPlaced
<1>7. LockHeld'
  BY <1>0 DEF LockHeld, Inside
<1>8. \A r \in Readers : MidRead(r)'
  BY <1>0, <1>3 DEF MidRead, TypeOK, ReadTypeOK
<1>9. \A r \in Readers : Visited(r)'
  BY <1>0, <1>2, <1>3 DEF Visited, Inside
<1>10. \A c \in Channel : FifoHolds(c)'
  <2>1. FifoHolds(d)'
    <3>1. PICK n \in Nat : n = Len(fifo[d]) /\ Pulled(d) = events[d] - n
      BY <1>1 DEF Pulled
    <3>2. /\ Len(fifo'[d]) = n + 1 /\ n + 1 <= events'[d]
          /\ Pulled(d)' = events[d] - n
      BY <3>1, <1>1, <1>1a, <1>2 DEF FifoHolds
    <3>3. ASSUME NEW i \in 1..(n + 1) PROVE fifo'[d][i] = events[d] - n + i
      <4>1. CASE i = n + 1
        BY <4>1, <3>1, <1>1, <1>1b
      <4>2. CASE i \in 1..n
        BY <4>2, <3>1, <1>1a DEF FifoHolds
      <4>3. i = n + 1 \/ i \in 1..n
        OBVIOUS
      <4> QED BY <4>1, <4>2, <4>3, Zenon
    <3> QED BY <3>2, <3>3 DEF FifoHolds
  <2>2. ASSUME NEW c \in Channel \ {d} PROVE FifoHolds(c)'
    BY <1>1, <1>2 DEF FifoHolds
  <2> QED BY <2>1, <2>2
<1>11. \A c \in Channel : RingHolds(c)'
  BY <1>0, <1>2, <1>3 DEF RingHolds
<1>12. \A c \in Channel : InOrder(c)'
  BY <1>0, <1>2, <1>3 DEF InOrder
<1> QED BY <1>4, <1>5, <1>6, <1>7, <1>8, <1>9, <1>10, <1>11, <1>12 DEF TypeOK

(* The interrupt comes: only its mask is new.                              *)
LEMMA EnterInv ==
  ASSUME StampInv, IrqEnter
  PROVE  StampInv'
<1> USE DEF StampInv, IrqEnter
<1>0. UNCHANGED <<events, fifo, tsbuf, bhead, btail, ih, it, rtnl, rpc, req,
                  rch, rt,
                  reply, atCall, returned, dropped>>
  BY DEF ringVars, readVars
<1>3. \A c \in Channel : /\ Top(c)' = Top(c) /\ Ahead(c)' = Ahead(c)
                         /\ Held(c)' = Held(c) /\ (Copied(c)' <=> Copied(c))
                         /\ Pulled(c)' = Pulled(c)
  BY <1>0 DEF Top, Ahead, Held, Copied, Pulled
<1>4. RingTypeOK' /\ ReadTypeOK'
  BY <1>0 DEF TypeOK, RingTypeOK, ReadTypeOK
<1>5. IrqTypeOK'
  BY <1>0 DEF TypeOK, IrqTypeOK
<1>6. IrqPlaced'
  BY <1>0 DEF IrqPlaced, TypeOK, IrqTypeOK
<1>7. LockHeld'
  BY <1>0 DEF LockHeld, Inside
<1>8. \A r \in Readers : MidRead(r)'
  BY <1>0, <1>3 DEF MidRead, TypeOK, ReadTypeOK
<1>9. \A r \in Readers : Visited(r)'
  BY <1>0, <1>3 DEF Visited, Inside
<1>10. \A c \in Channel : FifoHolds(c)' /\ RingHolds(c)' /\ InOrder(c)'
  BY <1>0, <1>3, ChannelsKept
<1> QED BY <1>4, <1>5, <1>6, <1>7, <1>8, <1>9, <1>10 DEF TypeOK

(* A slot is taken: bhead advances, the filled part stays where it ends.   *)
LEMMA TakeInv ==
  ASSUME StampInv, IrqTake
  PROVE  StampInv'
<1> DEFINE m == Min(imask)
<1> USE DEF StampInv, IrqTake
<1>0. UNCHANGED <<events, fifo, tsbuf, btail, irqOn, imask, it, rtnl, rpc,
                  req, rch, rt,
                  reply, atCall, returned, dropped>>
  BY DEF readVars
<1>1. m \in Channel /\ imask # {}
  BY MinChannel DEF TypeOK, IrqTypeOK, IrqPlaced
<1>2. /\ bhead[m] \in Slot /\ ih' = bhead[m]
      /\ bhead' = [bhead EXCEPT ![m] = NextSlot(@)]
      /\ bhead \in [Channel -> Slot]
  BY <1>1, ViewTypes DEF TypeOK, RingTypeOK
<1>3. \A c \in Channel : /\ Top(c)' = Top(c) /\ Ahead(c)' = Ahead(c)
                         /\ Held(c)' = Held(c) /\ (Copied(c)' <=> Copied(c))
                         /\ Pulled(c)' = Pulled(c)
  BY <1>0, <1>1, <1>2 DEF Top, Ahead, Held, Copied, Pulled
<1>4. RingTypeOK'
  BY <1>0, <1>1, <1>2, NextSlotStep DEF TypeOK, RingTypeOK
<1>4a. ReadTypeOK'
  BY <1>0 DEF TypeOK, ReadTypeOK
<1>5. IrqTypeOK'
  BY <1>0, <1>2 DEF TypeOK, IrqTypeOK
<1>6. IrqPlaced'
  BY <1>0, <1>1, <1>2 DEF IrqPlaced
<1>7. LockHeld'
  BY <1>0 DEF LockHeld, Inside
<1>8. \A r \in Readers : MidRead(r)'
  BY <1>0, <1>3 DEF MidRead, TypeOK, ReadTypeOK
<1>9. \A r \in Readers : Visited(r)'
  BY <1>0, <1>3 DEF Visited, Inside
<1>10. \A c \in Channel : FifoHolds(c)' /\ RingHolds(c)' /\ InOrder(c)'
  BY <1>0, <1>3, ChannelsKept
<1> QED BY <1>4, <1>4a, <1>5, <1>6, <1>7, <1>8, <1>9, <1>10 DEF TypeOK

(* bhead is compared with btail: equal, the ring is full.                  *)
LEMMA CompareInv ==
  ASSUME StampInv, IrqCompare
  PROVE  StampInv'
<1> DEFINE m == Min(imask)
<1> USE DEF StampInv, IrqCompare
<1>0. UNCHANGED <<events, fifo, tsbuf, bhead, btail, irqOn, imask, ih, rtnl,
                  rpc, req, rch, rt,
                  reply, atCall, returned, dropped>>
  BY DEF ringVars, readVars
<1>1. m \in Channel /\ imask # {}
  BY MinChannel DEF TypeOK, IrqTypeOK, IrqPlaced
<1>2. it' = btail[m] /\ it' \in Slot
  BY <1>1, ViewTypes
<1>2a. ih \in Slot
  BY DEF TypeOK, IrqTypeOK
<1>3. \A c \in Channel : /\ Top(c)' = Top(c) /\ Held(c)' = Held(c)
                         /\ (Copied(c)' <=> Copied(c))
                         /\ Pulled(c)' = Pulled(c)
  BY <1>0 DEF Top, Held, Copied, Pulled
<1>3a. /\ \A c \in Channel \ {m} : Ahead(c)' = Ahead(c)
       /\ Ahead(m)' = (IF bhead[m] = btail[m] THEN Ahead(m) ELSE bhead[m])
       /\ Ahead(m) = ih
  BY <1>0 DEF Ahead
<1>3b. bhead[m] = NextSlot(ih)
  BY <1>1 DEF IrqPlaced
<1>4. RingTypeOK'
  BY <1>0 DEF TypeOK, RingTypeOK
<1>4a. ReadTypeOK'
  BY <1>0 DEF TypeOK, ReadTypeOK
<1>5. IrqTypeOK'
  BY <1>0, <1>2 DEF TypeOK, IrqTypeOK
<1>6. IrqPlaced'
  BY <1>0, <1>1, <1>2 DEF IrqPlaced
<1>7. LockHeld'
  BY <1>0 DEF LockHeld, Inside
<1>8. \A r \in Readers : MidRead(r)'
  BY <1>0, <1>3a, <1>3b DEF MidRead, TypeOK, ReadTypeOK
<1>9. \A r \in Readers : Visited(r)'
  BY <1>0, <1>3 DEF Visited, Inside
<1>10. \A c \in Channel : FifoHolds(c)' /\ RingHolds(c)' /\ InOrder(c)'
  BY <1>0, <1>3, ChannelsKept
<1> QED BY <1>4, <1>4a, <1>5, <1>6, <1>7, <1>8, <1>9, <1>10 DEF TypeOK

(* The overflow gives up the oldest stamp: less is in the ring, and the    *)
(* ring counts as overflowed.                                              *)
LEMMA DropInv ==
  ASSUME StampInv, IrqDrop
  PROVE  StampInv'
<1> DEFINE m == Min(imask)
<1> USE DEF StampInv, IrqDrop
<1>0. UNCHANGED <<events, fifo, tsbuf, bhead, irqOn, imask, ih, it, rtnl, rpc,
                  req, rch, rt,
                  reply, atCall, returned>>
  BY DEF readVars
<1>1. m \in Channel /\ imask # {}
  BY MinChannel DEF TypeOK, IrqTypeOK, IrqPlaced
<1>2. /\ btail' = [btail EXCEPT ![m] = NextSlot(it)]
      /\ dropped' = [dropped EXCEPT ![m] = TRUE]
      /\ btail \in [Channel -> Slot] /\ dropped \in [Channel -> BOOLEAN]
      /\ it \in Slot /\ ih \in Slot
  BY <1>1, ViewTypes DEF TypeOK, RingTypeOK, IrqTypeOK
<1>3. \A c \in Channel : /\ Top(c)' = Top(c) /\ Held(c)' = Held(c)
                         /\ (Copied(c)' <=> Copied(c))
                         /\ Pulled(c)' = Pulled(c)
  BY <1>0 DEF Top, Held, Copied, Pulled
<1>3a. /\ \A c \in Channel \ {m} : /\ Ahead(c)' = Ahead(c)
                                   /\ btail'[c] = btail[c]
                                   /\ dropped'[c] = dropped[c]
       /\ Ahead(m)' = it /\ Top(m) = ih /\ Ahead(m) = ih /\ btail[m] = it
       /\ NextSlot(ih) = it /\ btail'[m] = NextSlot(it) /\ dropped'[m]
  BY <1>0, <1>1, <1>2 DEF Ahead, Top, IrqPlaced
<1>3b. NextSlot(it) # it \/ ih = it
  BY <1>2, NextSlotStep, <1>3a, Sizes DEF Slot
<1>3c. \A c \in Channel : /\ Gap(Top(c), btail[c])' \in Int
                          /\ Gap(Top(c), btail[c])' <= Gap(Top(c), btail[c])
  <2>1. Gap(ih, NextSlot(it)) \in 0..(NBuf - 1) /\ Gap(ih, it) = NBuf - 1
    BY <1>2, <1>3a, GapFacts, NextSlotStep
  <2> QED BY <2>1, <1>3, <1>3a, ViewTypes, Sizes DEF Gap
<1>4. RingTypeOK'
  BY <1>0, <1>1, <1>2, NextSlotStep DEF TypeOK, RingTypeOK
<1>4a. ReadTypeOK'
  BY <1>0 DEF TypeOK, ReadTypeOK
<1>5. IrqTypeOK'
  BY <1>0, <1>2 DEF TypeOK, IrqTypeOK
<1>6. IrqPlaced'
  BY <1>0, <1>1, <1>2 DEF IrqPlaced
<1>7. LockHeld'
  BY <1>0 DEF LockHeld, Inside
<1>8. \A r \in Readers : MidRead(r)'
  BY <1>0, <1>3a, <1>3b DEF MidRead, TypeOK, ReadTypeOK
<1>9. \A r \in Readers : Visited(r)'
  BY <1>0, <1>3, <1>3c, ViewTypes DEF Visited, Inside, TypeOK, ReadTypeOK
<1>10. \A c \in Channel : FifoHolds(c)'
  BY <1>0, <1>3 DEF FifoHolds
<1>11. \A c \in Channel : RingHolds(c)'
  <2> SUFFICES ASSUME NEW c \in Channel PROVE RingHolds(c)'
    OBVIOUS
  <2>1. Gap(Top(c), btail[c])' <= Pulled(c)'
    BY <1>3, <1>3c, ViewTypes DEF RingHolds
  <2>2. ASSUME NEW s \in Slot, s # Top(c),
               Gap(Top(c), s) <= Gap(Top(c)', btail'[c])
        PROVE  tsbuf[c][s] = Pulled(c) + 1 - Gap(Top(c), s)
    <3>1. /\ Gap(Top(c), s) \in Int /\ Gap(Top(c), btail[c]) \in Int
          /\ Gap(Top(c)', btail'[c]) \in Int
      BY <1>3c, ViewTypes, GapFacts
    <3>2. Gap(Top(c), s) <= Gap(Top(c), btail[c])
      BY <2>2, <3>1, <1>3c
    <3> QED BY <2>2, <3>2 DEF RingHolds
  <2> QED BY <2>1, <2>2, <1>0, <1>3 DEF RingHolds
<1>12. \A c \in Channel : InOrder(c)'
  BY <1>0, <1>3, <1>3a DEF InOrder
<1> QED BY <1>4, <1>4a, <1>5, <1>6, <1>7, <1>8, <1>9, <1>10, <1>11, <1>12
           DEF TypeOK

(* The slot is filled with the head of the FIFO: the newest stamp, and one *)
(* more that was pulled.                                                   *)
LEMMA FillInv ==
  ASSUME StampInv, IrqFill
  PROVE  StampInv'
<1> USE DEF StampInv, IrqFill
<1>0. UNCHANGED <<events, bhead, btail, irqOn, imask, rtnl, rpc, req, rch, rt,
                  reply, atCall, returned, dropped>>
  BY DEF readVars
<1>1. PICK m \in Channel : m = Min(imask) /\ m \in imask
  BY MinChannel DEF TypeOK, IrqTypeOK, IrqPlaced
<1>2. /\ fifo \in [Channel -> Seq(1..MaxEvents)] /\ ih \in Slot
      /\ tsbuf \in [Channel -> [Slot -> 0..MaxEvents]]
      /\ fifo[m] \in Seq(1..MaxEvents) /\ fifo[m] # << >>
      /\ bhead[m] = NextSlot(ih)
  BY <1>1 DEF TypeOK, RingTypeOK, IrqTypeOK, IrqPlaced
<1>2a. /\ fifo' = [fifo EXCEPT ![m] = Tail(fifo[m])]
       /\ tsbuf' = [tsbuf EXCEPT ![m][ih] = Head(fifo[m])]
  BY <1>1
<1>2b. /\ Len(fifo[m]) \in Nat \ {0} /\ Len(Tail(fifo[m])) = Len(fifo[m]) - 1
       /\ Head(fifo[m]) = fifo[m][1]
       /\ \A i \in 1..Len(Tail(fifo[m])) : Tail(fifo[m])[i] = fifo[m][i + 1]
  BY <1>2
<1>2c. Tail(fifo[m]) \in Seq(1..MaxEvents) /\ Head(fifo[m]) \in 0..MaxEvents
  <2>1. \A k \in 1..MaxEvents : k \in 0..MaxEvents
    BY Sizes
  <2>2. Tail(fifo[m]) \in Seq(1..MaxEvents) /\ Head(fifo[m]) \in 1..MaxEvents
    BY <1>2, TailFacts
  <2> QED BY <2>1, <2>2
<1>2d. /\ \A c \in Channel \ {m} : fifo'[c] = fifo[c] /\ tsbuf'[c] = tsbuf[c]
       /\ fifo'[m] = Tail(fifo[m])
       /\ tsbuf'[m][ih] = Head(fifo[m])
       /\ \A s \in Slot \ {ih} : tsbuf'[m][s] = tsbuf[m][s]
  BY <1>1, <1>2, <1>2a
<1>2e. events[m] \in Nat /\ Pulled(m) \in Int /\ Head(fifo[m]) = Pulled(m) + 1
  BY <1>1, <1>2b, ViewTypes DEF FifoHolds
<1>3. \A c \in Channel : /\ Ahead(c)' = Ahead(c) /\ Held(c)' = Held(c)
                         /\ (Copied(c)' <=> Copied(c))
  BY <1>0, <1>1 DEF Ahead, Held, Copied
<1>3a. \A c \in Channel \ {m} : Pulled(c)' = Pulled(c) /\ Top(c)' = Top(c)
  BY <1>0, <1>1, <1>2d DEF Top, Pulled
<1>3b. Pulled(m)' = Pulled(m) + 1
  <2>1. Len(fifo'[m]) = Len(fifo[m]) - 1 /\ events'[m] = events[m]
    BY <1>0, <1>2b, <1>2d
  <2> QED BY <2>1, <1>2b, <1>2e DEF Pulled
<1>3c. Top(m) = ih /\ Top(m)' = NextSlot(ih) /\ NextSlot(ih) \in Slot
  BY <1>0, <1>1, <1>2, NextSlotStep DEF Top
<1>3d. \A s \in Slot \ {NextSlot(ih)} : /\ Gap(NextSlot(ih), s) = Gap(ih, s) + 1
                                        /\ Gap(ih, s) \in Nat
  BY <1>2, GapFacts, Sizes
<1>3e. Gap(NextSlot(ih), NextSlot(ih)) = 0
  BY <1>3c, GapFacts
<1>3f. btail[m] \in Slot /\ Gap(ih, btail[m]) \in Nat
  <2>1. btail[m] \in Slot
    BY <1>1, ViewTypes
  <2> QED BY <1>2, <2>1, GapFacts, Sizes
<1>3g. btail[m] # NextSlot(ih) \/ dropped[m]
  BY <1>1 DEF IrqPlaced
<1>3h. /\ Gap(Top(m)', btail[m]) \in Int
       /\ Gap(Top(m)', btail[m]) <= Gap(ih, btail[m]) + 1
  BY <1>3c, <1>3d, <1>3e, <1>3f
<1>4. RingTypeOK'
  BY <1>0, <1>1, <1>2, <1>2a, <1>2c DEF TypeOK, RingTypeOK
<1>4a. ReadTypeOK'
  BY <1>0 DEF TypeOK, ReadTypeOK
<1>5. IrqTypeOK'
  <2>1. 0 \in Slot
    BY Sizes DEF Slot
  <2> QED BY <1>0, <2>1 DEF TypeOK, IrqTypeOK
<1>6. IrqPlaced'
  BY <1>0, <1>1 DEF IrqPlaced
<1>7. LockHeld'
  BY <1>0 DEF LockHeld, Inside
<1>8. \A r \in Readers : MidRead(r)'
  BY <1>0, <1>3 DEF MidRead, TypeOK, ReadTypeOK
<1>9. \A r \in Readers : Visited(r)'
  <2> SUFFICES ASSUME NEW r \in Readers PROVE Visited(r)'
    OBVIOUS
  <2>1. rpc[r] # "idle" => req[r].chans \subseteq Channel
    BY DEF Visited
  <2>1a. \A c \in Channel : atCall[r][c] \in Int
    BY Sizes DEF TypeOK, ReadTypeOK
  <2>2. \A c \in Channel : atCall[r][c] <= Pulled(c)'
    BY <2>1a, <1>3a, <1>3b, <1>2e, ViewTypes DEF Visited
  <2>3. ASSUME Inside(r), NEW c \in req[r].chans, c < rch[r]
        PROVE  Gap(Top(c)', btail[c]) <= Pulled(c)' - atCall[r][c]
    <3>1. c \in Channel /\ Gap(Top(c), btail[c]) <= Pulled(c) - atCall[r][c]
      BY <2>1, <2>3 DEF Visited, Inside
    <3>2. CASE c = m
      BY <3>1, <3>2, <2>1a, <1>3b, <1>3c, <1>3f, <1>3h, <1>2e
    <3>3. CASE c # m
      BY <3>1, <3>3, <1>3a
    <3> QED BY <3>2, <3>3
  <2> QED BY <1>0, <2>2, <2>3 DEF Visited, Inside
<1>10. \A c \in Channel : FifoHolds(c)'
  <2>1. FifoHolds(m)'
    <3>1. Len(fifo'[m]) <= events[m]
      BY <1>1, <1>2b, <1>2d, <1>2e DEF FifoHolds
    <3>2. ASSUME NEW i \in 1..Len(fifo'[m])
          PROVE  fifo'[m][i] = Pulled(m) + 1 + i
      <4>1. i + 1 \in 1..Len(fifo[m]) /\ fifo'[m][i] = fifo[m][i + 1]
        <5>1. i \in 1..(Len(fifo[m]) - 1)
          BY <1>2b, <1>2d
        <5>2. i + 1 \in 1..Len(fifo[m])
          BY <5>1, <1>2b
        <5> QED BY <5>2, <1>2b, <1>2d
      <4>2. fifo[m][i + 1] = Pulled(m) + (i + 1)
        BY <4>1, <1>1 DEF FifoHolds
      <4> QED BY <4>1, <4>2, <1>2e
    <3> QED BY <1>0, <3>1, <3>2, <1>3b DEF FifoHolds
  <2>2. ASSUME NEW c \in Channel \ {m} PROVE FifoHolds(c)'
    <3>1. fifo'[c] = fifo[c] /\ events'[c] = events[c] /\ Pulled(c)' = Pulled(c)
      BY <1>0, <1>2d, <1>3a
    <3> QED BY <3>1 DEF FifoHolds
  <2> QED BY <2>1, <2>2
<1>11. \A c \in Channel : RingHolds(c)'
  <2>1. RingHolds(m)'
    <3>1. Gap(Top(m)', btail[m]) <= Pulled(m)'
      BY <1>1, <1>3b, <1>3c, <1>3f, <1>3h, <1>2e DEF RingHolds
    <3>2. ASSUME NEW s \in Slot, s # NextSlot(ih),
                 Gap(NextSlot(ih), s) <= Gap(NextSlot(ih), btail[m])
          PROVE  tsbuf'[m][s] = Pulled(m) + 2 - Gap(NextSlot(ih), s)
      <4>1. CASE s = ih
        <5>1. Gap(ih, ih) = 0
          BY <1>2, GapFacts
        <5> QED BY <4>1, <5>1, <3>2, <1>2d, <1>2e, <1>3d
      <4>2. CASE s # ih
        <5>1. Gap(ih, s) <= Gap(ih, btail[m])
          BY <3>2, <1>3c, <1>3d, <1>3f, <1>3h
        <5>2. tsbuf[m][s] = Pulled(m) + 1 - Gap(ih, s)
          BY <4>2, <5>1, <1>1, <1>3c DEF RingHolds
        <5> QED BY <4>2, <5>2, <3>2, <1>2d, <1>2e, <1>3d
      <4> QED BY <4>1, <4>2
    <3>3. Pulled(m)' + 1 = Pulled(m) + 2
      BY <1>2e, <1>3b
    <3>4. \A s \in Slot : /\ s # NextSlot(ih)
                          /\ Gap(NextSlot(ih), s) <= Gap(NextSlot(ih), btail[m])
            => tsbuf'[m][s] = Pulled(m)' + 1 - Gap(NextSlot(ih), s)
      <4> TAKE s \in Slot
      <4>1. s # NextSlot(ih) => Gap(NextSlot(ih), s) \in Int
        BY <1>3d
      <4>2. s # NextSlot(ih) =>
              Pulled(m)' + 1 - Gap(NextSlot(ih), s)
                = Pulled(m) + 2 - Gap(NextSlot(ih), s)
        BY <1>3b, <4>1, <1>2e
      <4> QED BY <3>2, <4>2, Zenon
    <3> QED BY <3>1, <3>4, <1>0, <1>3c DEF RingHolds
  <2>2. \A c \in Channel \ {m} : RingHolds(c)'
    BY <1>0, <1>2d, <1>3a DEF RingHolds
  <2> QED BY <2>1, <2>2
<1>12. \A c \in Channel : InOrder(c)'
  <2>1. InOrder(m)'
    <3> SUFFICES ASSUME ~dropped[m] PROVE InOrder(m)'
      BY <1>0 DEF InOrder
    <3>1. Gap(Top(m)', btail[m]) = Gap(ih, btail[m]) + 1
      BY <1>3c, <1>3d, <1>3f, <1>3g
    <3>2. Len(returned[m]) \in Nat /\ Len(Held(m)) \in Nat
      BY <1>1, ViewTypes DEF TypeOK, RingTypeOK, ReadTypeOK, Held
    <3>3. /\ Counts(returned[m], 0) /\ Counts(Held(m), Len(returned[m]))
          /\ ~Copied(m) =>
               Len(returned[m]) + Len(Held(m)) + Gap(ih, btail[m]) = Pulled(m)
          /\ Copied(m) =>
               Len(returned[m]) + Len(Held(m)) + Gap(ih, btail[m])
                 = Pulled(m) + 1
      BY <1>3c DEF InOrder
    <3>4. /\ ~Copied(m) =>
               Len(returned[m]) + Len(Held(m)) + Gap(Top(m)', btail[m])
                 = Pulled(m)'
          /\ Copied(m) =>
               Len(returned[m]) + Len(Held(m)) + Gap(Top(m)', btail[m])
                 = Pulled(m)' + 1
      <4>1. CASE Copied(m)
        BY <4>1, <3>1, <3>2, <3>3, <1>3b, <1>3f, <1>2e
      <4>2. CASE ~Copied(m)
        BY <4>2, <3>1, <3>2, <3>3, <1>3b, <1>3f, <1>2e
      <4> QED BY <4>1, <4>2
    <3>5. Held(m)' = Held(m) /\ (Copied(m)' <=> Copied(m))
      BY <1>3
    <3> QED BY <1>0, <3>3, <3>4, <3>5 DEF InOrder
  <2>2. \A c \in Channel \ {m} : InOrder(c)'
    BY <1>0, <1>3, <1>3a DEF InOrder
  <2> QED BY <2>1, <2>2
<1> QED BY <1>4, <1>4a, <1>5, <1>6, <1>7, <1>8, <1>9, <1>10, <1>11, <1>12
           DEF TypeOK

(* The next channel: sleepers move, none of them at work.                  *)
LEMMA NextInv ==
  ASSUME StampInv, IrqNext
  PROVE  StampInv'
<1> USE DEF StampInv, IrqNext
<1>0. UNCHANGED <<events, fifo, tsbuf, bhead, btail, irqOn, ih, it, rtnl, req,
                  rch, rt,
                  reply, atCall, returned, dropped>>
  BY DEF ringVars
<1>1. PICK m \in Channel : m = Min(imask) /\ m \in imask /\ imask' = imask \ {m}
  BY MinChannel DEF TypeOK, IrqTypeOK, IrqPlaced
<1>2. rpc' = [r \in Readers |->
                IF rpc[r] = "asleep" /\ rch[r] = m THEN "wait" ELSE rpc[r]]
  BY <1>1
<1>2x. \A r \in Readers :
         rpc'[r] = IF rpc[r] = "asleep" /\ rch[r] = m THEN "wait" ELSE rpc[r]
  BY <1>2, Zenon
<1>2a. \A r \in Readers : \/ rpc'[r] = rpc[r]
                          \/ rpc[r] = "asleep" /\ rpc'[r] = "wait"
  <2> TAKE r \in Readers
  <2>1. CASE rpc[r] = "asleep" /\ rch[r] = m
    BY <1>2x, <2>1
  <2>2. CASE ~(rpc[r] = "asleep" /\ rch[r] = m)
    BY <1>2x, <2>2
  <2> QED BY <2>1, <2>2
<1>2b. \A r \in Readers : Inside(r)' <=> Inside(r)
  BY <1>2a DEF Inside
<1>3. \A c \in Channel : /\ Top(c)' = Top(c) /\ Ahead(c)' = Ahead(c)
                         /\ Held(c)' = Held(c) /\ Pulled(c)' = Pulled(c)
  BY <1>0 DEF Top, Ahead, Held, Pulled
<1>3a. \A c \in Channel : Copied(c)' <=> Copied(c)
  BY <1>0, <1>2a DEF Copied, TypeOK, ReadTypeOK
<1>4. RingTypeOK'
  BY <1>0 DEF TypeOK, RingTypeOK
<1>4a. ReadTypeOK'
  BY <1>0 DEF TypeOK, ReadTypeOK
<1>5. IrqTypeOK'
  BY <1>0, <1>1 DEF TypeOK, IrqTypeOK
<1>6. IrqPlaced'
  BY <1>0, <1>1 DEF IrqPlaced
<1>7. LockHeld'
  BY <1>0, <1>2b DEF LockHeld
<1>8. \A r \in Readers : MidRead(r)'
  BY <1>0, <1>2a, <1>3 DEF MidRead, TypeOK, ReadTypeOK
<1>9. \A r \in Readers : Visited(r)'
  <2> TAKE r \in Readers
  <2>1. rpc'[r] # "idle" => rpc[r] # "idle"
    BY <1>2a
  <2>2. \A c \in Channel : atCall'[r][c] <= Pulled(c)'
    BY <1>0, <1>3 DEF Visited
  <2>3. rpc[r] # "idle" => req[r].chans \subseteq Channel /\ req[r].chans # {}
    BY DEF Visited
  <2>4. ASSUME Inside(r), NEW c \in req[r].chans, c < rch[r]
        PROVE  Gap(Top(c)', btail[c]) <= Pulled(c)' - atCall[r][c]
    <3>1. c \in Channel
      BY <2>3, <2>4 DEF Inside
    <3> QED BY <2>4, <3>1, <1>3 DEF Visited
  <2> QED BY <1>0, <1>2b, <2>1, <2>2, <2>3, <2>4 DEF Visited
<1>10. \A c \in Channel : FifoHolds(c)' /\ RingHolds(c)' /\ InOrder(c)'
  BY <1>0, <1>3, <1>3a, ChannelsKept
<1> QED BY <1>4, <1>4a, <1>5, <1>6, <1>7, <1>8, <1>9, <1>10 DEF TypeOK

(* A reader at work is the only one, and holds the lock.                   *)
LEMMA AtWork ==
  ASSUME StampInv, NEW r \in Readers, Inside(r)
  PROVE  /\ rtnl = r /\ r # NoOne
         /\ \A x \in Readers \ {r} : ~Inside(x)
         /\ Held(rch[r]) = reply[r]
         /\ \A c \in Channel \ {rch[r]} : Held(c) = << >> /\ ~Copied(c)
         /\ Copied(rch[r]) <=> rpc[r] \in {"load", "store"}
<1>1. rtnl = r /\ r # NoOne /\ \A x \in Readers \ {r} : ~Inside(x)
  BY ReadersAssumption DEF StampInv, LockHeld
<1> QED BY <1>1 DEF Held, Copied

(* While the interrupt is not at work the filled part ends at bhead.       *)
LEMMA IdleViews ==
  ASSUME ipc = "idle"
  PROVE  \A c \in Channel : Top(c) = bhead[c] /\ Ahead(c) = bhead[c]
  BY DEF Top, Ahead

(* No more stamps are pulled than edges came.                              *)
LEMMA PulledBound ==
  ASSUME StampInv, NEW c \in Channel
  PROVE  Pulled(c) \in 0..MaxEvents
<1>1. /\ events[c] \in 0..MaxEvents /\ Len(fifo[c]) \in Nat
      /\ Len(fifo[c]) <= events[c]
  BY DEF StampInv, TypeOK, RingTypeOK, FifoHolds
<1> QED BY <1>1, Sizes DEF Pulled

(* A call begins: no channel is passed yet.                                *)
LEMMA CallInv ==
  ASSUME StampInv, OneCpu, NEW r \in Readers, Call(r)
  PROVE  StampInv'
<1>0. PICK q \in Request : /\ req' = [req EXCEPT ![r] = q]
                           /\ rch' = [rch EXCEPT ![r] = Min(q.chans)]
  BY DEF Call
<1> USE DEF StampInv
<1>1. /\ rpc[r] = "idle" /\ rtnl = NoOne /\ rtnl' = r /\ ipc = "idle"
      /\ rpc' = [rpc EXCEPT ![r] = "check"]
      /\ atCall' = [atCall EXCEPT ![r] = [c \in Channel |-> Pulled(c)]]
      /\ UNCHANGED <<events, fifo, tsbuf, bhead, btail, irqOn, ipc, imask, ih,
                     it, rt, reply, returned, dropped>>
  BY DEF Call, MayRun, ringVars, irqVars
<1>2. q.chans \subseteq Channel /\ q.chans # {}
  <2>1. q \in [chans : (SUBSET Channel) \ {{}}, mask : BOOLEAN, wait : BOOLEAN]
    BY DEF Request
  <2> QED BY <2>1
<1>2a. Min(q.chans) \in Channel /\ \A c \in q.chans : Min(q.chans) <= c
  BY <1>2, MinChannel
<1>2b. \A c \in Channel : Pulled(c) \in 0..MaxEvents
  BY PulledBound
<1>2c. /\ \A x \in Readers \ {r} : /\ rpc'[x] = rpc[x] /\ req'[x] = req[x]
                                   /\ rch'[x] = rch[x]
                                   /\ atCall'[x] = atCall[x]
       /\ rpc'[r] = "check" /\ req'[r] = q /\ rch'[r] = Min(q.chans)
       /\ atCall'[r] = [c \in Channel |-> Pulled(c)]
  BY <1>0, <1>1 DEF TypeOK, ReadTypeOK
<1>2d. \A x \in Readers : ~Inside(x) /\ reply[x] = << >>
  BY <1>1, ReadersAssumption DEF LockHeld
<1>3. \A c \in Channel : /\ Top(c)' = Top(c) /\ Ahead(c)' = Ahead(c)
                         /\ Held(c)' = Held(c) /\ (Copied(c)' <=> Copied(c))
                         /\ Pulled(c)' = Pulled(c)
  BY <1>1, <1>2c, <1>2d, ReadersAssumption DEF Top, Ahead, Held, Copied, Pulled
<1>4. RingTypeOK' /\ IrqTypeOK' /\ IrqPlaced'
  BY <1>1 DEF TypeOK, RingTypeOK, IrqTypeOK, IrqPlaced
<1>4a. ReadTypeOK'
  BY <1>0, <1>1, <1>2a, <1>2b DEF TypeOK, ReadTypeOK
<1>7. LockHeld'
  BY <1>1, <1>2c, <1>2d DEF LockHeld, Inside
<1>8. \A x \in Readers : MidRead(x)'
  BY <1>2c, <1>2d DEF MidRead, Inside
<1>9. \A x \in Readers : Visited(x)'
  <2>1. ASSUME NEW x \in Readers \ {r} PROVE Visited(x)'
    BY <1>2c, <1>2d, <1>3 DEF Visited, Inside
  <2>2. Visited(r)'
    <3>1. \A c \in Channel : atCall'[r][c] <= Pulled(c)'
      BY <1>2b, <1>2c, <1>3, Sizes
    <3>2. \A c \in q.chans : ~(c < Min(q.chans))
      BY <1>2, <1>2a DEF Channel
    <3> QED BY <1>2, <1>2c, <3>1, <3>2 DEF Visited
  <2> QED BY <2>1, <2>2
<1>10. \A c \in Channel : FifoHolds(c)' /\ RingHolds(c)' /\ InOrder(c)'
  BY <1>1, <1>3, ChannelsKept
<1> QED BY <1>4, <1>4a, <1>7, <1>8, <1>9, <1>10 DEF TypeOK

(* A stamp is there, and its slot is the one at btail.                     *)
LEMMA CheckMoreInv ==
  ASSUME StampInv, OneCpu, NEW r \in Readers, CheckMore(r)
  PROVE  StampInv'
<1> USE DEF StampInv
<1>1. /\ rpc[r] = "check" /\ ipc = "idle" /\ Len(reply[r]) < NReply
      /\ HasStamp(r)
      /\ rpc' = [rpc EXCEPT ![r] = "copy"]
      /\ rt' = [rt EXCEPT ![r] = btail[rch[r]]]
      /\ UNCHANGED <<events, fifo, tsbuf, bhead, btail, irqOn, ipc, imask, ih,
                     it,
                     rtnl, req, rch, reply, atCall, returned, dropped>>
  BY DEF CheckMore, MayRun, ringVars, irqVars
<1>2. /\ rtnl = r /\ r # NoOne /\ Inside(r)
      /\ \A x \in Readers \ {r} : /\ ~Inside(x) /\ rpc'[x] = rpc[x]
                                  /\ rt'[x] = rt[x]
      /\ rpc'[r] = "copy" /\ rt'[r] = btail[rch[r]] /\ rch[r] \in Channel
  BY <1>1, AtWork DEF Inside, TypeOK, ReadTypeOK
<1>3. \A c \in Channel : /\ Top(c)' = Top(c) /\ Ahead(c)' = Ahead(c)
                         /\ Held(c)' = Held(c) /\ (Copied(c)' <=> Copied(c))
                         /\ Pulled(c)' = Pulled(c)
  BY <1>1, <1>2 DEF Top, Ahead, Held, Copied, Pulled
<1>4. RingTypeOK' /\ IrqTypeOK' /\ IrqPlaced'
  BY <1>1 DEF TypeOK, RingTypeOK, IrqTypeOK, IrqPlaced
<1>4a. ReadTypeOK'
  BY <1>1, <1>2, ViewTypes DEF TypeOK, ReadTypeOK
<1>7. LockHeld'
  BY <1>1, <1>2 DEF LockHeld, Inside
<1>8. \A x \in Readers : MidRead(x)'
  <2>1. MidRead(r)'
    BY <1>1, <1>2, <1>3, IdleViews DEF MidRead, HasStamp
  <2> QED BY <2>1, <1>2 DEF MidRead, Inside
<1>9. \A x \in Readers : Visited(x)'
  BY <1>1, <1>2, <1>3 DEF Visited, Inside
<1>10. \A c \in Channel : FifoHolds(c)' /\ RingHolds(c)' /\ InOrder(c)'
  BY <1>1, <1>3, ChannelsKept
<1> QED BY <1>4, <1>4a, <1>7, <1>8, <1>9, <1>10 DEF TypeOK

(* The stamp at btail is copied: the next of its channel, unless the       *)
(* interrupt overtook the reader and the ring overflowed.                  *)
LEMMA CopyInv ==
  ASSUME StampInv, OneCpu, NEW r \in Readers, Copy(r)
  PROVE  StampInv'
<1> USE DEF StampInv
<1>0. PICK d \in Channel, v \in 0..MaxEvents :
        d = rch[r] /\ v = tsbuf[rch[r]][rt[r]]
  BY DEF TypeOK, ReadTypeOK, RingTypeOK
<1>1. /\ rpc[r] = "copy" /\ ipc = "idle"
      /\ rpc' = [rpc EXCEPT ![r] = "load"]
      /\ reply' = [reply EXCEPT ![r] = Append(@, v)]
      /\ UNCHANGED <<events, fifo, tsbuf, bhead, btail, irqOn, ipc, imask, ih,
                     it,
                     rtnl, req, rch, rt, atCall, returned, dropped>>
  BY <1>0 DEF Copy, MayRun, ringVars, irqVars
<1>2. /\ rtnl = r /\ r # NoOne /\ Inside(r) /\ rpc'[r] = "load"
      /\ \A x \in Readers \ {r} : /\ ~Inside(x) /\ rpc'[x] = rpc[x]
                                  /\ reply'[x] = reply[x]
      /\ reply'[r] = Append(reply[r], v) /\ rt[r] \in Slot
      /\ reply[r] \in Seq(0..MaxEvents)
  BY <1>1, AtWork DEF Inside, TypeOK, ReadTypeOK, RingTypeOK
<1>2a. /\ Len(reply'[r]) = Len(reply[r]) + 1 /\ Len(reply[r]) \in Nat
       /\ \A k \in 1..Len(reply[r]) : reply'[r][k] = reply[r][k]
       /\ reply'[r][Len(reply[r]) + 1] = v
  BY <1>2
<1>3. \A c \in Channel : /\ Top(c)' = Top(c) /\ Ahead(c)' = Ahead(c)
                         /\ Pulled(c)' = Pulled(c)
  BY <1>1 DEF Top, Ahead, Pulled
<1>3a. /\ \A c \in Channel \ {d} : /\ Held(c)' = Held(c)
                                   /\ (Copied(c)' <=> Copied(c))
       /\ Held(d) = reply[r] /\ Held(d)' = reply'[r] /\ ~Copied(d) /\ Copied(d)'
  BY <1>0, <1>1, <1>2 DEF Held, Copied
<1>4. RingTypeOK' /\ IrqTypeOK' /\ IrqPlaced'
  BY <1>1 DEF TypeOK, RingTypeOK, IrqTypeOK, IrqPlaced
<1>4a. ReadTypeOK'
  <2>1. Len(reply'[r]) <= NReply
    BY <1>1, <1>2a, Sizes DEF MidRead
  <2>2. reply' \in [Readers -> Seq(0..MaxEvents)]
    BY <1>1, <1>2 DEF TypeOK, ReadTypeOK
  <2> QED BY <1>1, <1>2, <2>1, <2>2 DEF TypeOK, ReadTypeOK
<1>7. LockHeld'
  BY <1>1, <1>2 DEF LockHeld, Inside
<1>8. \A x \in Readers : MidRead(x)'
  <2>1. MidRead(r)'
    BY <1>0, <1>1, <1>2, <1>3 DEF MidRead
  <2> QED BY <2>1, <1>2 DEF MidRead, Inside
<1>9. \A x \in Readers : Visited(x)'
  BY <1>1, <1>2, <1>3 DEF Visited, Inside
<1>10. \A c \in Channel : FifoHolds(c)'
  BY <1>1, <1>3 DEF FifoHolds
<1>11. \A c \in Channel : RingHolds(c)'
  BY <1>1, <1>3 DEF RingHolds
<1>12. \A c \in Channel : InOrder(c)'
  <2>1. ASSUME NEW c \in Channel \ {d} PROVE InOrder(c)'
    BY <1>1, <1>3, <1>3a DEF InOrder
  <2>2. InOrder(d)'
    <3> SUFFICES ASSUME ~dropped[d] PROVE InOrder(d)'
      BY <1>1 DEF InOrder
    <3>1. Ahead(d) # btail[d] /\ rt[r] = btail[d]
      BY <1>0, <1>1, <1>2 DEF MidRead
    <3>2. v = Pulled(d) + 1 - Gap(Top(d), btail[d])
      <4>1. /\ Top(d) # btail[d] /\ btail[d] \in Slot
            /\ Gap(Top(d), btail[d]) \in Int
        BY <1>1, <1>2, <3>1, ViewTypes, IdleViews
      <4>2. Gap(Top(d), btail[d]) <= Gap(Top(d), btail[d])
        BY <4>1
      <4> QED BY <1>0, <1>2, <3>1, <4>1, <4>2 DEF RingHolds
    <3>3. PICK m \in Nat, n \in Nat : m = Len(returned[d]) /\ n = Len(reply[r])
      BY <1>2 DEF TypeOK, RingTypeOK
    <3>4. /\ Counts(returned[d], 0) /\ Counts(reply[r], m)
          /\ m + n + Gap(Top(d), btail[d]) = Pulled(d)
      BY <1>2, <1>3a, <3>3 DEF InOrder
    <3>5. Gap(Top(d), btail[d]) \in Int /\ Pulled(d) \in Int
      BY <1>2, ViewTypes
    <3>6. m + (n + 1) + Gap(Top(d), btail[d]) = Pulled(d) + 1 /\ v = m + n + 1
      BY <3>2, <3>4, <3>5
    <3>7. Len(reply'[r]) = n + 1 /\ Counts(reply'[r], m)
      <4>1. m + Len(reply[r]) + 1 = v
        BY <3>3, <3>6
      <4> QED BY <1>2, <1>2a, <3>3, <3>4, <4>1, OneMore
    <3> QED BY <1>1, <1>3, <1>3a, <1>2, <3>3, <3>4, <3>6, <3>7 DEF InOrder
  <2> QED BY <2>1, <2>2
<1> QED BY <1>4, <1>4a, <1>7, <1>8, <1>9, <1>10, <1>11, <1>12 DEF TypeOK

(* btail is loaded anew: from here the interrupt may make it an old one,   *)
(* by an overflow only, which leaves the ring full.                        *)
LEMMA LoadInv ==
  ASSUME StampInv, OneCpu, NEW r \in Readers, Load(r)
  PROVE  StampInv'
<1> USE DEF StampInv
<1>1. /\ rpc[r] = "load" /\ ipc = "idle"
      /\ rpc' = [rpc EXCEPT ![r] = "store"]
      /\ rt' = [rt EXCEPT ![r] = btail[rch[r]]]
      /\ UNCHANGED <<events, fifo, tsbuf, bhead, btail, irqOn, ipc, imask, ih,
                     it,
                     rtnl, req, rch, reply, atCall, returned, dropped>>
  BY DEF Load, MayRun, ringVars, irqVars
<1>2. /\ rtnl = r /\ r # NoOne /\ Inside(r)
      /\ \A x \in Readers \ {r} : /\ ~Inside(x) /\ rpc'[x] = rpc[x]
                                  /\ rt'[x] = rt[x]
      /\ rpc'[r] = "store" /\ rt'[r] = btail[rch[r]] /\ rch[r] \in Channel
  BY <1>1, AtWork DEF Inside, TypeOK, ReadTypeOK
<1>3. \A c \in Channel : /\ Top(c)' = Top(c) /\ Ahead(c)' = Ahead(c)
                         /\ Held(c)' = Held(c) /\ (Copied(c)' <=> Copied(c))
                         /\ Pulled(c)' = Pulled(c)
  BY <1>1, <1>2 DEF Top, Ahead, Held, Copied, Pulled
<1>4. RingTypeOK' /\ IrqTypeOK' /\ IrqPlaced'
  BY <1>1 DEF TypeOK, RingTypeOK, IrqTypeOK, IrqPlaced
<1>4a. ReadTypeOK'
  BY <1>1, <1>2, ViewTypes DEF TypeOK, ReadTypeOK
<1>7. LockHeld'
  BY <1>1, <1>2 DEF LockHeld, Inside
<1>8. \A x \in Readers : MidRead(x)'
  <2>1. MidRead(r)'
    BY <1>1, <1>2, <1>3 DEF MidRead
  <2> QED BY <2>1, <1>2 DEF MidRead, Inside
<1>9. \A x \in Readers : Visited(x)'
  BY <1>1, <1>2, <1>3 DEF Visited, Inside
<1>10. \A c \in Channel : FifoHolds(c)' /\ RingHolds(c)' /\ InOrder(c)'
  BY <1>1, <1>3, ChannelsKept
<1> QED BY <1>4, <1>4a, <1>7, <1>8, <1>9, <1>10 DEF TypeOK

(* btail is stored: one less in the ring, or, with an old one, any newest  *)
(* part of a full ring.                                                    *)
LEMMA StoreInv ==
  ASSUME StampInv, OneCpu, NEW r \in Readers, Store(r)
  PROVE  StampInv'
<1> USE DEF StampInv
<1>0. PICK d \in Channel : d = rch[r]
  BY DEF TypeOK, ReadTypeOK
<1>1. /\ rpc[r] = "store" /\ ipc = "idle"
      /\ rpc' = [rpc EXCEPT ![r] = "check"] /\ rt' = [rt EXCEPT ![r] = 0]
      /\ btail' = [btail EXCEPT ![d] = NextSlot(rt[r])]
      /\ UNCHANGED <<events, fifo, tsbuf, bhead, irqOn, ipc, imask, ih, it,
                     rtnl, req, rch, reply, atCall, returned, dropped>>
  BY <1>0 DEF Store, MayRun, irqVars
<1>2. /\ rtnl = r /\ r # NoOne /\ Inside(r)
      /\ \A x \in Readers \ {r} : ~Inside(x) /\ rpc'[x] = rpc[x]
      /\ rpc'[r] = "check" /\ rt[r] \in Slot
  BY <1>1, AtWork DEF Inside, TypeOK, ReadTypeOK
<1>2a. /\ btail'[d] = NextSlot(rt[r]) /\ NextSlot(rt[r]) \in Slot
       /\ \A c \in Channel \ {d} : btail'[c] = btail[c]
  BY <1>1, <1>2, NextSlotStep DEF TypeOK, RingTypeOK
<1>3. \A c \in Channel : /\ Top(c)' = Top(c) /\ Ahead(c)' = Ahead(c)
                         /\ Held(c)' = Held(c) /\ Pulled(c)' = Pulled(c)
  BY <1>1 DEF Top, Ahead, Held, Pulled
<1>3a. /\ Copied(d) /\ ~Copied(d)'
       /\ \A c \in Channel \ {d} : Copied(c)' <=> Copied(c)
  BY <1>0, <1>1, <1>2 DEF Copied
<1>3b. \/ rt[r] = btail[d] /\ Top(d) # btail[d]
       \/ NextSlot(Top(d)) = btail[d] /\ dropped[d]
  BY <1>0, <1>1, IdleViews DEF MidRead
<1>3c. Top(d) \in Slot /\ btail[d] \in Slot
  BY ViewTypes
<1>3d. rt[r] = btail[d] /\ Top(d) # btail[d] =>
         Gap(Top(d), btail'[d]) = Gap(Top(d), btail[d]) - 1
  BY <1>2a, <1>3c, GapFacts
<1>3e. /\ Gap(Top(d), btail'[d]) \in Int /\ Gap(Top(d), btail[d]) \in Int
       /\ Gap(Top(d), btail'[d]) <= Gap(Top(d), btail[d])
  <2>1. /\ Gap(Top(d), btail'[d]) \in 0..(NBuf - 1)
        /\ Gap(Top(d), btail[d]) \in 0..(NBuf - 1)
    BY <1>2a, <1>3c, GapFacts
  <2>2. NextSlot(Top(d)) = btail[d] => Gap(Top(d), btail[d]) = NBuf - 1
    BY <1>3c, GapFacts
  <2> QED BY <1>3b, <1>3d, <2>1, <2>2, Sizes
<1>4. RingTypeOK'
  BY <1>1, <1>2a DEF TypeOK, RingTypeOK
<1>4a. ReadTypeOK'
  <2>1. 0 \in Slot
    BY Sizes DEF Slot
  <2> QED BY <1>1, <2>1 DEF TypeOK, ReadTypeOK
<1>5. IrqTypeOK'
  BY <1>1 DEF TypeOK, IrqTypeOK
<1>6. IrqPlaced'
  BY <1>1 DEF IrqPlaced
<1>7. LockHeld'
  BY <1>1, <1>2 DEF LockHeld, Inside
<1>8. \A x \in Readers : MidRead(x)'
  BY <1>2 DEF MidRead, Inside
<1>9. \A x \in Readers : Visited(x)'
  <2>1. ASSUME NEW x \in Readers \ {r} PROVE Visited(x)'
    BY <2>1, <1>1, <1>2, <1>3 DEF Visited, Inside
  <2>2. Visited(r)'
    <3>1. /\ req[r].chans \subseteq Channel /\ req[r].chans # {}
          /\ \A c \in Channel : atCall[r][c] <= Pulled(c)
      BY <1>1 DEF Visited
    <3>2. ASSUME NEW c \in req[r].chans, c < rch[r] PROVE c # d /\ c \in Channel
      BY <1>0, <3>1, <3>2, Sizes DEF Channel
    <3>3. \A c \in req[r].chans :
            c < rch[r] => Gap(Top(c), btail[c]) <= Pulled(c) - atCall[r][c]
      BY <1>2 DEF Visited
    <3>4. ASSUME NEW c \in req[r].chans, c < rch[r]
          PROVE  Gap(Top(c)', btail'[c]) <= Pulled(c)' - atCall[r][c]
      BY <1>2a, <1>3, <3>2, <3>3, <3>4
    <3> QED BY <1>1, <1>3, <3>1, <3>4 DEF Visited
  <2> QED BY <2>1, <2>2
<1>10. \A c \in Channel : FifoHolds(c)'
  BY <1>1, <1>3 DEF FifoHolds
<1>11. \A c \in Channel : RingHolds(c)'
  <2>1. ASSUME NEW c \in Channel \ {d} PROVE RingHolds(c)'
    BY <1>1, <1>2a, <1>3 DEF RingHolds
  <2>2. RingHolds(d)'
    <3>1. Gap(Top(d), btail'[d]) <= Pulled(d)
      BY <1>3e, ViewTypes DEF RingHolds
    <3>2. ASSUME NEW s \in Slot, s # Top(d),
                 Gap(Top(d), s) <= Gap(Top(d), btail'[d])
          PROVE  tsbuf[d][s] = Pulled(d) + 1 - Gap(Top(d), s)
      <4>1. Gap(Top(d), s) \in Int
        BY <1>3c, GapFacts
      <4>2. Gap(Top(d), s) <= Gap(Top(d), btail[d])
        BY <3>2, <4>1, <1>3e
      <4> QED BY <3>2, <4>2 DEF RingHolds
    <3> QED BY <1>1, <1>3, <3>1, <3>2 DEF RingHolds
  <2> QED BY <2>1, <2>2
<1>12. \A c \in Channel : InOrder(c)'
  <2>1. ASSUME NEW c \in Channel \ {d} PROVE InOrder(c)'
    BY <1>1, <1>2a, <1>3, <1>3a DEF InOrder
  <2>2. InOrder(d)'
    <3> SUFFICES ASSUME ~dropped[d] PROVE InOrder(d)'
      BY <1>1 DEF InOrder
    <3>1. Gap(Top(d), btail'[d]) = Gap(Top(d), btail[d]) - 1
      BY <1>3b, <1>3d
    <3>2. PICK m \in Nat, n \in Nat : m = Len(returned[d]) /\ n = Len(Held(d))
      BY <1>0, <1>2 DEF TypeOK, RingTypeOK, ReadTypeOK, Held
    <3>3. /\ Counts(returned[d], 0) /\ Counts(Held(d), m)
          /\ m + n + Gap(Top(d), btail[d]) = Pulled(d) + 1
      BY <3>2, <1>3a DEF InOrder
    <3>4. m + n + Gap(Top(d), btail'[d]) = Pulled(d)
      <4>1. m + n + Gap(Top(d), btail[d]) = Pulled(d) + 1 /\ Pulled(d) \in Int
        BY <3>3, ViewTypes
      <4> QED BY <3>1, <4>1, <1>3e
    <3> QED BY <1>1, <1>3, <1>3a, <3>2, <3>3, <3>4 DEF InOrder
  <2> QED BY <2>1, <2>2
<1> QED BY <1>4, <1>4a, <1>5, <1>6, <1>7, <1>8, <1>9, <1>10, <1>11, <1>12
           DEF TypeOK

(* The reply is returned behind what was returned before.                  *)
LEMMA ReturnInv ==
  ASSUME StampInv, OneCpu, NEW r \in Readers, ReturnStamps(r)
  PROVE  StampInv'
<1> USE DEF StampInv
<1>0. PICK d \in Channel : d = rch[r]
  BY DEF TypeOK, ReadTypeOK
<1>1. /\ rpc[r] = "check" /\ ipc = "idle" /\ rtnl' = NoOne
      /\ rpc' = [rpc EXCEPT ![r] = "idle"]
      /\ req' = [req EXCEPT ![r] = NoRequest]
      /\ rch' = [rch EXCEPT ![r] = 0] /\ rt' = [rt EXCEPT ![r] = 0]
      /\ reply' = [reply EXCEPT ![r] = << >>]
      /\ atCall' = [atCall EXCEPT ![r] = [c \in Channel |-> 0]]
      /\ returned' = [returned EXCEPT ![d] = returned[d] \o reply[r]]
      /\ UNCHANGED <<events, fifo, tsbuf, bhead, btail, irqOn, ipc, imask, ih,
                     it, dropped>>
  BY <1>0 DEF ReturnStamps, Leave, MayRun, ringVars, irqVars, TypeOK, RingTypeOK
<1>2. /\ rtnl = r /\ r # NoOne /\ Inside(r)
      /\ \A x \in Readers \ {r} : /\ ~Inside(x) /\ rpc'[x] = rpc[x]
                                  /\ req'[x] = req[x] /\ atCall'[x] = atCall[x]
                                  /\ reply'[x] = reply[x]
      /\ rpc'[r] = "idle" /\ reply'[r] = << >>
      /\ atCall'[r] = [c \in Channel |-> 0]
  BY <1>1, AtWork DEF Inside, TypeOK, ReadTypeOK
<1>2a. /\ returned'[d] = returned[d] \o reply[r]
       /\ \A c \in Channel \ {d} : returned'[c] = returned[c]
       /\ returned[d] \in Seq(0..MaxEvents) /\ reply[r] \in Seq(0..MaxEvents)
  BY <1>1 DEF TypeOK, RingTypeOK, ReadTypeOK
<1>3. \A c \in Channel : /\ Top(c)' = Top(c) /\ Ahead(c)' = Ahead(c)
                         /\ Pulled(c)' = Pulled(c)
  BY <1>1 DEF Top, Ahead, Pulled
<1>3a. /\ \A c \in Channel : ~Copied(c) /\ ~Copied(c)' /\ Held(c)' = << >>
       /\ \A c \in Channel \ {d} : Held(c) = << >>
       /\ Held(d) = reply[r]
  BY <1>0, <1>1, <1>2 DEF Held, Copied
<1>4. RingTypeOK'
  BY <1>1, <1>2a DEF TypeOK, RingTypeOK
<1>4a. ReadTypeOK'
  <2>1. /\ 0 \in Slot /\ 0 \in Channel /\ 0 \in 0..MaxEvents
        /\ Len(<< >>) <= NReply
    BY Sizes DEF Slot, Channel
  <2> QED BY <1>1, <1>2, <2>1 DEF TypeOK, ReadTypeOK
<1>5. IrqTypeOK'
  BY <1>1 DEF TypeOK, IrqTypeOK
<1>6. IrqPlaced'
  BY <1>1 DEF IrqPlaced
<1>7. LockHeld'
  BY <1>1, <1>2, ReadersAssumption DEF LockHeld, Inside
<1>8. \A x \in Readers : MidRead(x)'
  BY <1>2 DEF MidRead, Inside
<1>9. \A x \in Readers : Visited(x)'
  <2>1. ASSUME NEW x \in Readers \ {r} PROVE Visited(x)'
    BY <2>1, <1>1, <1>2, <1>3 DEF Visited, Inside
  <2>2. Visited(r)'
    BY <1>2, <1>3, PulledBound, Sizes DEF Visited, Inside
  <2> QED BY <2>1, <2>2
<1>10. \A c \in Channel : FifoHolds(c)'
  BY <1>1, <1>3 DEF FifoHolds
<1>11. \A c \in Channel : RingHolds(c)'
  BY <1>1, <1>3 DEF RingHolds
<1>12. \A c \in Channel : InOrder(c)'
  <2>1. ASSUME NEW c \in Channel \ {d} PROVE InOrder(c)'
    <3>1. /\ Held(c)' = Held(c) /\ ~Copied(c) /\ ~Copied(c)'
          /\ returned'[c] = returned[c]
      BY <1>2a, <1>3a
    <3> QED BY <1>1, <1>3, <3>1 DEF InOrder
  <2>2. InOrder(d)'
    <3> SUFFICES ASSUME ~dropped[d] PROVE InOrder(d)'
      BY <1>1 DEF InOrder
    <3>2. PICK m \in Nat, n \in Nat : m = Len(returned[d]) /\ n = Len(reply[r])
      BY <1>2a
    <3>3. /\ Counts(returned[d], 0) /\ Counts(reply[r], Len(returned[d]))
          /\ m + n + Gap(Top(d), btail[d]) = Pulled(d)
      BY <3>2, <1>3a DEF InOrder
    <3>4. Len(returned'[d]) = m + n /\ Counts(returned'[d], 0)
      BY <1>2a, <3>2, <3>3, OneThenOther
    <3>5. m + n + 0 + Gap(Top(d), btail[d]) = Pulled(d) /\ Len(<< >>) = 0
      BY <3>3
    <3>6. Counts(Held(d)', m + n)
      BY <1>3a, NoneCount
    <3> QED BY <1>1, <1>3, <1>3a, <3>4, <3>5, <3>6 DEF InOrder
  <2> QED BY <2>1, <2>2
<1> QED BY <1>4, <1>4a, <1>5, <1>6, <1>7, <1>8, <1>9, <1>10, <1>11, <1>12
           DEF TypeOK

(* What a step has to leave alone for the channels a call has passed to    *)
(* stay as described.                                                      *)
LEMMA VisitedKept ==
  ASSUME StampInv, NEW x \in Readers, req'[x] = req[x], atCall'[x] = atCall[x],
         Inside(x)' => Inside(x) /\ rch'[x] = rch[x],
         rpc'[x] # "idle" => rpc[x] # "idle",
         btail' = btail,
         \A c \in Channel : Top(c)' = Top(c) /\ Pulled(c)' = Pulled(c)
  PROVE  Visited(x)'
<1>1. rpc[x] # "idle" => req[x].chans \subseteq Channel /\ req[x].chans # {}
  BY DEF StampInv, Visited
<1>2. \A c \in Channel : atCall'[x][c] <= Pulled(c)'
  BY DEF StampInv, Visited
<1>3. ASSUME Inside(x)', NEW c \in req[x].chans, c < rch'[x]
      PROVE  Gap(Top(c)', btail'[c]) <= Pulled(c)' - atCall'[x][c]
  <2>1. c \in Channel
    BY <1>1, <1>3 DEF Inside
  <2> QED BY <1>3, <2>1 DEF StampInv, Visited
<1> QED BY <1>1, <1>2, <1>3 DEF Visited

(* A channel is empty: passed, with nothing left of what was there.        *)
LEMMA CheckNoneInv ==
  ASSUME StampInv, OneCpu, NEW r \in Readers, CheckNone(r)
  PROVE  StampInv'
<1> DEFINE later == {c \in req[r].chans : c > rch[r]}
<1> USE DEF StampInv
<1>1. /\ rpc[r] = "check" /\ ipc = "idle" /\ reply[r] = << >> /\ ~HasStamp(r)
      /\ UNCHANGED <<events, fifo, tsbuf, bhead, btail, irqOn, ipc, imask, ih,
                     it, returned, dropped>>
  BY DEF CheckNone, MayRun, ringVars, irqVars
<1>1a. \/ /\ later # {} /\ rch' = [rch EXCEPT ![r] = Min(later)]
          /\ UNCHANGED <<rtnl, rpc, req, rt, reply, atCall>>
       \/ /\ rch' \in [Readers -> Channel] /\ rtnl' = NoOne
          /\ rpc' = [rpc EXCEPT ![r] = "wait"]
          /\ UNCHANGED <<req, rt, reply, atCall>>
       \/ /\ rtnl' = NoOne
          /\ rpc' = [rpc EXCEPT ![r] = "idle"]
          /\ req' = [req EXCEPT ![r] = NoRequest]
          /\ rch' = [rch EXCEPT ![r] = 0] /\ rt' = [rt EXCEPT ![r] = 0]
          /\ reply' = [reply EXCEPT ![r] = << >>]
          /\ atCall' = [atCall EXCEPT ![r] = [c \in Channel |-> 0]]
  <2>1. NCh - 1 \in Channel /\ rch \in [Readers -> Channel]
    BY Sizes DEF Channel, TypeOK, ReadTypeOK
  <2> QED BY <2>1 DEF CheckNone, Leave
<1>2. /\ rtnl = r /\ r # NoOne /\ Inside(r) /\ rch[r] \in Channel
      /\ \A x \in Readers \ {r} : ~Inside(x)
      /\ \A c \in Channel : Held(c) = << >> /\ ~Copied(c)
  BY <1>1, AtWork DEF Inside, TypeOK, ReadTypeOK
<1>2a. /\ \A x \in Readers \ {r} : /\ rpc'[x] = rpc[x] /\ req'[x] = req[x]
                                   /\ atCall'[x] = atCall[x]
                                   /\ reply'[x] = reply[x]
       /\ reply'[r] = << >>
  BY <1>1, <1>1a DEF TypeOK, ReadTypeOK
<1>3. \A c \in Channel : /\ Top(c)' = Top(c) /\ Ahead(c)' = Ahead(c)
                         /\ Pulled(c)' = Pulled(c)
  BY <1>1 DEF Top, Ahead, Pulled
<1>3a. \A c \in Channel : Held(c)' = << >> /\ ~Copied(c)'
  BY <1>1, <1>1a, <1>2 DEF Held, Copied
<1>3b. \A c \in Channel : c = rch[r] => Gap(Top(c), btail[c]) = 0
  BY <1>1, IdleViews, ViewTypes, GapFacts DEF HasStamp
<1>3c. req[r].chans \subseteq Channel /\ req[r].chans # {}
  BY <1>1 DEF Visited
<1>3d. later # {} => Min(later) \in Channel /\ \A c \in later : Min(later) <= c
  BY <1>3c, MinChannel
<1>4. RingTypeOK' /\ IrqTypeOK' /\ IrqPlaced'
  BY <1>1 DEF TypeOK, RingTypeOK, IrqTypeOK, IrqPlaced
<1>4a. ReadTypeOK'
  <2>1. /\ 0 \in Slot /\ 0 \in Channel /\ 0 \in 0..MaxEvents
        /\ Len(<< >>) <= NReply
    BY Sizes DEF Slot, Channel
  <2> HIDE DEF later
  <2>2. CASE /\ later # {} /\ rch' = [rch EXCEPT ![r] = Min(later)]
             /\ UNCHANGED <<rtnl, rpc, req, rt, reply, atCall>>
    BY <2>2, <1>3d DEF TypeOK, ReadTypeOK
  <2>3. CASE /\ rch' \in [Readers -> Channel]
             /\ rpc' = [rpc EXCEPT ![r] = "wait"] /\ rtnl' = NoOne
             /\ UNCHANGED <<req, rt, reply, atCall>>
    BY <2>3 DEF TypeOK, ReadTypeOK
  <2>4. CASE /\ rtnl' = NoOne
             /\ rpc' = [rpc EXCEPT ![r] = "idle"]
             /\ req' = [req EXCEPT ![r] = NoRequest]
             /\ rch' = [rch EXCEPT ![r] = 0] /\ rt' = [rt EXCEPT ![r] = 0]
             /\ reply' = [reply EXCEPT ![r] = << >>]
             /\ atCall' = [atCall EXCEPT ![r] = [c \in Channel |-> 0]]
    BY <2>1, <2>4, <1>2a DEF TypeOK, ReadTypeOK
  <2> QED BY <1>1a, <2>2, <2>3, <2>4
<1>7. LockHeld'
  BY <1>1, <1>1a, <1>2, <1>2a, ReadersAssumption DEF LockHeld, Inside, TypeOK,
     ReadTypeOK
<1>8. \A x \in Readers : MidRead(x)'
  BY <1>1, <1>1a, <1>2, <1>2a DEF MidRead, Inside, TypeOK, ReadTypeOK
<1>9. \A x \in Readers : Visited(x)'
  <2>1. ASSUME NEW x \in Readers \ {r} PROVE Visited(x)'
    BY <2>1, <1>1, <1>2, <1>2a, <1>3 DEF Visited, Inside
  <2>2. Visited(r)'
    <3>1. CASE /\ later # {} /\ rch' = [rch EXCEPT ![r] = Min(later)]
               /\ UNCHANGED <<rtnl, rpc, req, rt, reply, atCall>>
      <4>1. rch'[r] = Min(later)
        BY <3>1 DEF TypeOK, ReadTypeOK
      <4>2. ASSUME NEW c \in req[r].chans, c < Min(later)
            PROVE  Gap(Top(c)', btail'[c]) <= Pulled(c)' - atCall'[r][c]
        <5>1. c \in Channel /\ c <= rch[r]
          <6>1. c \in Channel /\ Min(later) \in Channel
            BY <4>2, <3>1, <1>3c, <1>3d
          <6>2. ~(Min(later) <= c)
            BY <4>2, <6>1, Sizes DEF Channel
          <6>3. c \notin later
            BY <6>2, <3>1, <1>3d
          <6> QED BY <4>2, <6>1, <6>3, <1>2, Sizes DEF Channel
        <5>2. atCall[r][c] <= Pulled(c) /\ atCall[r][c] \in Int
          BY <5>1, Sizes DEF Visited, TypeOK, ReadTypeOK
        <5>3. CASE c = rch[r]
          BY <5>1, <5>2, <5>3, <3>1, <1>1, <1>3, <1>3b, ViewTypes
        <5>4. CASE c # rch[r]
          <6>1. c < rch[r]
            BY <5>1, <5>4, <1>2, Sizes DEF Channel
          <6> QED BY <6>1, <5>1, <3>1, <1>1, <1>2, <1>3 DEF Visited
        <5> QED BY <5>3, <5>4
      <4>3. \A c \in Channel : atCall'[r][c] <= Pulled(c)'
        BY <3>1, <1>3 DEF Visited
      <4> QED BY <4>1, <4>2, <4>3, <3>1, <1>3c DEF Visited
    <3>2. CASE /\ rpc' = [rpc EXCEPT ![r] = "wait"]
               /\ UNCHANGED <<req, rt, reply, atCall>>
      <4>1. rpc'[r] = "wait" /\ \A c \in Channel : atCall'[r][c] <= Pulled(c)'
        BY <3>2, <1>3 DEF Visited, TypeOK, ReadTypeOK
      <4> QED BY <4>1, <3>2, <1>3c DEF Visited, Inside
    <3>3. CASE /\ rpc' = [rpc EXCEPT ![r] = "idle"]
               /\ atCall' = [atCall EXCEPT ![r] = [c \in Channel |-> 0]]
      <4>1. /\ rpc'[r] = "idle"
            /\ \A c \in Channel : atCall'[r][c] = 0 /\ 0 <= Pulled(c)'
        BY <3>3, <1>3, PulledBound, Sizes DEF TypeOK, ReadTypeOK
      <4> QED BY <4>1 DEF Visited, Inside
    <3> QED BY <1>1a, <3>1, <3>2, <3>3
  <2> QED BY <2>1, <2>2
<1>10. \A c \in Channel : FifoHolds(c)'
  BY <1>1, <1>3 DEF FifoHolds
<1>11. \A c \in Channel : RingHolds(c)'
  BY <1>1, <1>3 DEF RingHolds
<1>12. \A c \in Channel : InOrder(c)'
  <2> TAKE c \in Channel
  <2>1. Held(c)' = Held(c) /\ ~Copied(c) /\ ~Copied(c)'
    BY <1>2, <1>3a
  <2> QED BY <1>1, <1>3, <2>1 DEF InOrder
<1> QED BY <1>4, <1>4a, <1>7, <1>8, <1>9, <1>10, <1>11, <1>12 DEF TypeOK

(* A reader looks again, and sleeps or goes for the lock.                  *)
LEMMA WaitInv ==
  ASSUME StampInv, OneCpu, NEW r \in Readers, Wait(r)
  PROVE  StampInv'
<1> USE DEF StampInv
<1>1. /\ rpc[r] = "wait"
      /\ rpc' = [rpc EXCEPT ![r] = IF HasStamp(r) THEN "lock" ELSE "asleep"]
      /\ UNCHANGED <<events, fifo, tsbuf, bhead, btail, irqOn, ipc, imask, ih,
                     it, rtnl, req, rch, rt, reply, atCall, returned,
                     dropped>>
  BY DEF Wait, ringVars, irqVars
<1>2. /\ \A x \in Readers \ {r} : rpc'[x] = rpc[x]
      /\ rpc'[r] \in {"lock", "asleep"}
  BY <1>1 DEF TypeOK, ReadTypeOK
<1>2a. \A x \in Readers : Inside(x)' <=> Inside(x)
  BY <1>1, <1>2 DEF Inside
<1>3. \A c \in Channel : /\ Top(c)' = Top(c) /\ Ahead(c)' = Ahead(c)
                         /\ Held(c)' = Held(c) /\ Pulled(c)' = Pulled(c)
  BY <1>1 DEF Top, Ahead, Held, Pulled
<1>3a. \A c \in Channel : Copied(c)' <=> Copied(c)
  BY <1>1, <1>2 DEF Copied, TypeOK, ReadTypeOK
<1>4. RingTypeOK' /\ IrqTypeOK' /\ IrqPlaced'
  BY <1>1 DEF TypeOK, RingTypeOK, IrqTypeOK, IrqPlaced
<1>4a. ReadTypeOK'
  BY <1>1 DEF TypeOK, ReadTypeOK
<1>7. LockHeld'
  BY <1>1, <1>2a DEF LockHeld
<1>8. \A x \in Readers : MidRead(x)'
  BY <1>1, <1>2, <1>3 DEF MidRead, TypeOK, ReadTypeOK
<1>9. \A x \in Readers : Visited(x)'
  BY <1>1, <1>2, <1>2a, <1>3, VisitedKept
<1>10. \A c \in Channel : FifoHolds(c)' /\ RingHolds(c)' /\ InOrder(c)'
  BY <1>1, <1>3, <1>3a, ChannelsKept
<1> QED BY <1>4, <1>4a, <1>7, <1>8, <1>9, <1>10 DEF TypeOK

(* The lock is taken again, and the mask starts over.                      *)
LEMMA AgainInv ==
  ASSUME StampInv, OneCpu, NEW r \in Readers, Again(r)
  PROVE  StampInv'
<1> USE DEF StampInv
<1>1. /\ rpc[r] = "lock" /\ rtnl = NoOne /\ rtnl' = r
      /\ rpc' = [rpc EXCEPT ![r] = "check"]
      /\ rch' = [rch EXCEPT ![r] = Min(req[r].chans)]
      /\ UNCHANGED <<events, fifo, tsbuf, bhead, btail, irqOn, ipc, imask, ih,
                     it, req, rt, reply, atCall, returned, dropped>>
  BY DEF Again, ringVars, irqVars
<1>2. /\ \A x \in Readers \ {r} : rpc'[x] = rpc[x] /\ rch'[x] = rch[x]
      /\ rpc'[r] = "check" /\ rch'[r] = Min(req[r].chans)
      /\ \A x \in Readers : ~Inside(x) /\ reply[x] = << >>
  BY <1>1, ReadersAssumption DEF TypeOK, ReadTypeOK, LockHeld
<1>2b. req[r].chans \subseteq Channel /\ req[r].chans # {}
  BY <1>1 DEF Visited
<1>2c. /\ Min(req[r].chans) \in Channel
       /\ \A c \in req[r].chans : Min(req[r].chans) <= c
  BY <1>2b, MinChannel
<1>3. \A c \in Channel : /\ Top(c)' = Top(c) /\ Ahead(c)' = Ahead(c)
                         /\ Held(c)' = Held(c) /\ (Copied(c)' <=> Copied(c))
                         /\ Pulled(c)' = Pulled(c)
  BY <1>1, <1>2, ReadersAssumption DEF Top, Ahead, Held, Copied, Pulled
<1>4. RingTypeOK' /\ IrqTypeOK' /\ IrqPlaced'
  BY <1>1 DEF TypeOK, RingTypeOK, IrqTypeOK, IrqPlaced
<1>4a. ReadTypeOK'
  BY <1>1, <1>2c DEF TypeOK, ReadTypeOK
<1>7. LockHeld'
  BY <1>1, <1>2, ReadersAssumption DEF LockHeld, Inside
<1>8. \A x \in Readers : MidRead(x)'
  BY <1>2 DEF MidRead, Inside
<1>9. \A x \in Readers : Visited(x)'
  <2>1. ASSUME NEW x \in Readers \ {r} PROVE Visited(x)'
    BY <2>1, <1>1, <1>2, <1>3 DEF Visited, Inside
  <2>2. Visited(r)'
    <3>1. \A c \in req[r].chans : ~(c < Min(req[r].chans))
      BY <1>2b, <1>2c, Sizes DEF Channel
    <3>2. \A c \in Channel : atCall'[r][c] <= Pulled(c)'
      BY <1>1, <1>3 DEF Visited
    <3> QED BY <1>1, <1>2, <1>2b, <3>1, <3>2 DEF Visited
  <2> QED BY <2>1, <2>2
<1>10. \A c \in Channel : FifoHolds(c)' /\ RingHolds(c)' /\ InOrder(c)'
  BY <1>1, <1>3, ChannelsKept
<1> QED BY <1>4, <1>4a, <1>7, <1>8, <1>9, <1>10 DEF TypeOK

(* A signal ends the wait of a reader that is not at work.                 *)
LEMMA SignalInv ==
  ASSUME StampInv, OneCpu, NEW r \in Readers, Signal(r)
  PROVE  StampInv'
<1> USE DEF StampInv
<1>1. /\ rpc[r] \in {"wait", "asleep", "lock"} /\ rtnl' = rtnl
      /\ rpc' = [rpc EXCEPT ![r] = "idle"]
      /\ req' = [req EXCEPT ![r] = NoRequest]
      /\ rch' = [rch EXCEPT ![r] = 0] /\ rt' = [rt EXCEPT ![r] = 0]
      /\ reply' = [reply EXCEPT ![r] = << >>]
      /\ atCall' = [atCall EXCEPT ![r] = [c \in Channel |-> 0]]
      /\ UNCHANGED <<events, fifo, tsbuf, bhead, btail, irqOn, ipc, imask, ih,
                     it, returned, dropped>>
  BY DEF Signal, Leave, ringVars, irqVars
<1>2. /\ \A x \in Readers \ {r} : /\ rpc'[x] = rpc[x] /\ req'[x] = req[x]
                                  /\ rch'[x] = rch[x] /\ rt'[x] = rt[x]
                                  /\ reply'[x] = reply[x]
                                  /\ atCall'[x] = atCall[x]
      /\ rpc'[r] = "idle" /\ reply'[r] = << >>
      /\ atCall'[r] = [c \in Channel |-> 0]
      /\ ~Inside(r) /\ rtnl # r
  BY <1>1 DEF TypeOK, ReadTypeOK, LockHeld, Inside
<1>2a. \A x \in Readers : Inside(x)' <=> Inside(x)
  BY <1>2 DEF Inside
<1>3. \A c \in Channel : /\ Top(c)' = Top(c) /\ Ahead(c)' = Ahead(c)
                         /\ Held(c)' = Held(c) /\ (Copied(c)' <=> Copied(c))
                         /\ Pulled(c)' = Pulled(c)
  BY <1>1, <1>2 DEF Top, Ahead, Held, Copied, Pulled, TypeOK, ReadTypeOK
<1>4. RingTypeOK' /\ IrqTypeOK' /\ IrqPlaced'
  BY <1>1 DEF TypeOK, RingTypeOK, IrqTypeOK, IrqPlaced
<1>4a. ReadTypeOK'
  <2>1. /\ 0 \in Slot /\ 0 \in Channel /\ 0 \in 0..MaxEvents
        /\ Len(<< >>) <= NReply
    BY Sizes DEF Slot, Channel
  <2> QED BY <1>1, <1>2, <2>1 DEF TypeOK, ReadTypeOK
<1>7. LockHeld'
  BY <1>1, <1>2, <1>2a DEF LockHeld
<1>8. \A x \in Readers : MidRead(x)'
  BY <1>1, <1>2, <1>3 DEF MidRead, TypeOK, ReadTypeOK
<1>9. \A x \in Readers : Visited(x)'
  <2>1. ASSUME NEW x \in Readers \ {r} PROVE Visited(x)'
    BY <2>1, <1>1, <1>2, <1>2a, <1>3, VisitedKept
  <2>2. Visited(r)'
    BY <1>2, <1>3, PulledBound, Sizes DEF Visited, Inside
  <2> QED BY <2>1, <2>2
<1>10. \A c \in Channel : FifoHolds(c)' /\ RingHolds(c)' /\ InOrder(c)'
  BY <1>1, <1>3, ChannelsKept
<1> QED BY <1>4, <1>4a, <1>7, <1>8, <1>9, <1>10 DEF TypeOK

(* Every step, on one processor.                                           *)
LEMMA StampNextInv ==
  ASSUME OneCpu, StampInv, [StampNext]_stampVars
  PROVE  StampInv'
<1>1. CASE \E c \in Channel : StampEdge(c)
  BY <1>1, EdgeInv
<1>2. CASE IrqEnter \/ IrqRest
  BY <1>2, EnterInv, TakeInv, CompareInv, DropInv, FillInv, NextInv DEF IrqRest
<1>3. CASE \E r \in Readers : Call(r) \/ Signal(r)
  BY <1>3, CallInv, SignalInv
<1>4. CASE \E r \in Readers : ReadRest(r)
  BY <1>4, CheckMoreInv, CopyInv, LoadInv, StoreInv, ReturnInv, CheckNoneInv,
     WaitInv,
     AgainInv DEF ReadRest
<1>5. CASE UNCHANGED stampVars
  <2>1. UNCHANGED <<events, fifo, tsbuf, bhead, btail, irqOn, ipc, imask, ih,
                    it, rtnl,
                    rpc, req, rch, rt, reply, atCall, returned, dropped>>
    BY <1>5 DEF stampVars, ringVars, irqVars, readVars
  <2>2. TypeOK' /\ IrqPlaced' /\ LockHeld'
    BY <2>1 DEF StampInv, TypeOK, RingTypeOK, IrqTypeOK, ReadTypeOK,
       IrqPlaced, LockHeld, Inside
  <2>3. \A c \in Channel : /\ Top(c)' = Top(c) /\ Ahead(c)' = Ahead(c)
                           /\ Held(c)' = Held(c)
                           /\ (Copied(c)' <=> Copied(c))
                           /\ Pulled(c)' = Pulled(c)
    BY <2>1 DEF Top, Ahead, Held, Copied, Pulled
  <2>4. ASSUME NEW r \in Readers PROVE MidRead(r)' /\ Visited(r)'
    <3>1. rch[r] \in Channel
      BY DEF StampInv, TypeOK, ReadTypeOK
    <3>2. MidRead(r)'
      BY <2>1, <2>3, <3>1 DEF StampInv, MidRead
    <3>3. Visited(r)'
      BY <2>1, <2>3, VisitedKept DEF Inside
    <3> QED BY <3>2, <3>3
  <2>5. ASSUME NEW c \in Channel
        PROVE  FifoHolds(c)' /\ RingHolds(c)' /\ InOrder(c)'
    <3>1. FifoHolds(c)'
      BY <2>1, <2>3 DEF StampInv, FifoHolds
    <3>2. RingHolds(c)'
      BY <2>1, <2>3 DEF StampInv, RingHolds
    <3>3. InOrder(c)'
      BY <2>1, <2>3 DEF StampInv, InOrder
    <3> QED BY <3>1, <3>2, <3>3
  <2> QED BY <2>2, <2>4, <2>5 DEF StampInv
<1> QED BY <1>1, <1>2, <1>3, <1>4, <1>5 DEF StampNext

(* The invariant of the stamp rings, on one processor.                     *)
LEMMA StampInvariant == OneCpu => (StampSpec => []StampInv)
<1> SUFFICES ASSUME OneCpu PROVE StampSpec => []StampInv
  OBVIOUS
<1>1. StampInv /\ [StampNext]_stampVars => StampInv'
  BY StampNextInv
<1> QED BY <1>1, StampInitInv, PTL DEF StampSpec

(* The part of it that a reader sees.                                      *)
LEMMA RingOfInv == OneCpu /\ StampInv => RingIsSuffix
<1> SUFFICES ASSUME OneCpu, StampInv, ipc = "idle", NEW c \in Channel
             PROVE  /\ InRing(c) <= Pulled(c)
                    /\ \A k \in 1..InRing(c) :
                         tsbuf[c][(btail[c] + k - 1) % NBuf]
                           = Pulled(c) - InRing(c) + k
  BY DEF RingIsSuffix
<1> DEFINE n == Gap(bhead[c], btail[c])
<1>1. /\ Top(c) = bhead[c] /\ bhead[c] \in Slot /\ btail[c] \in Slot
      /\ Pulled(c) \in Int
      /\ n \in 0..(NBuf - 1) /\ InRing(c) = n
  BY IdleViews, ViewTypes, ModGap DEF StampInv, InRing
<1>2. n <= Pulled(c)
  BY <1>1 DEF StampInv, RingHolds
<1>3. ASSUME NEW k \in 1..n
      PROVE  tsbuf[c][(btail[c] + k - 1) % NBuf] = Pulled(c) - n + k
  <2>1. PICK s \in Slot : /\ s = (btail[c] + k - 1) % NBuf
                          /\ Gap(bhead[c], s) = n - k + 1
    BY <1>1, SlotOfGap
  <2>2. s # bhead[c] /\ Gap(bhead[c], s) <= n
    <3>1. k \in Int /\ n \in Int /\ n - k + 1 # 0 /\ n - k + 1 <= n
      BY <1>1, <1>3, Sizes
    <3> QED BY <2>1, <3>1, <1>1, GapFacts
  <2>3. tsbuf[c][s] = Pulled(c) + 1 - Gap(bhead[c], s)
    BY <1>1, <2>2 DEF StampInv, RingHolds
  <2>4. Pulled(c) + 1 - (n - k + 1) = Pulled(c) - n + k
    BY <1>1, <1>3, Sizes
  <2> QED BY <2>1, <2>3, <2>4
<1> QED BY <1>1, <1>2, <1>3

(* What was returned and what is in the reply, in one count.               *)
LEMMA OrderOfInv == StampInv => InOrderUntilOverflow
<1> SUFFICES ASSUME StampInv, NEW c \in Channel, ~dropped[c]
             PROVE  \A k \in 1..Len(returned[c] \o Held(c)) :
                      (returned[c] \o Held(c))[k] = k
  BY DEF InOrderUntilOverflow, Held
<1> DEFINE s == returned[c]
           t == Held(c)
<1>1. s \in Seq(0..MaxEvents) /\ t \in Seq(0..MaxEvents)
  <2>1. s \in Seq(0..MaxEvents)
    BY DEF StampInv, TypeOK, RingTypeOK
  <2>2. rtnl # NoOne => reply[rtnl] \in Seq(0..MaxEvents)
    BY DEF StampInv, TypeOK, ReadTypeOK
  <2>3. t = << >> \/ (rtnl # NoOne /\ t = reply[rtnl])
    BY DEF Held
  <2>4. << >> \in Seq(0..MaxEvents)
    OBVIOUS
  <2> HIDE DEF t
  <2> QED BY <2>1, <2>2, <2>3, <2>4
<1>2. Counts(s, 0) /\ Counts(t, Len(s))
  BY DEF StampInv, InOrder
<1> HIDE DEF s, t
<1>3. Counts(s \o t, 0)
  BY <1>1, <1>2, OneThenOther
<1>4. \A k \in 1..Len(s \o t) : (s \o t)[k] = k
  <2>1. \A k \in 1..Len(s \o t) : (s \o t)[k] = 0 + k /\ k \in Nat
    BY <1>3 DEF Counts
  <2> QED BY <2>1
<1> QED BY <1>4 DEF s, t

(* struct dio_channel, shared with no lock: whenever the interrupt is not  *)
(* at work, the ring holds the newest stamps without a gap, for a ring of  *)
(* any length and any number of channels, readers and edges. A btail that  *)
(* wrn_dio_cmd_stamp stores over the one an overflow in wrn_dio_interrupt  *)
(* advanced does no harm: the ring is full then, so that wherever btail    *)
(* lands, what lies between it and bhead are the newest stamps (those      *)
(* before it are lost).                                                    *)
THEOREM RingCorrect == StampSpec => []RingIsSuffix
<1>1. CASE OneCpu
  <2>1. StampInv => RingIsSuffix
    BY <1>1, RingOfInv
  <2> QED BY <1>1, <2>1, StampInvariant, PTL
<1>2. CASE ~OneCpu
  <2>1. RingIsSuffix
    BY <1>2 DEF RingIsSuffix
  <2> QED BY <2>1, PTL
<1> QED BY <1>1, <1>2

(* wrn_dio_cmd_stamp returns the stamps of a channel in order, each once,  *)
(* none left out, until its ring overflows.                                *)
THEOREM OrderCorrect == StampSpec => []InOrderUntilOverflow
<1>1. CASE OneCpu
  BY <1>1, OrderOfInv, StampInvariant, PTL
<1>2. CASE ~OneCpu
  <2>1. InOrderUntilOverflow
    BY <1>2 DEF InOrderUntilOverflow
  <2> QED BY <2>1, PTL
<1> QED BY <1>1, <1>2

(* Only the last empty channel of a mask ends a call with nothing.         *)
LEMMA FlushStep ==
  ASSUME OneCpu, StampInv, [StampNext]_stampVars, NEW r \in Readers,
         rpc[r] = "check", rpc'[r] = "idle", reply[r] = << >>,
         NEW c \in req[r].chans
  PROVE  InRing(c) <= Pulled(c) - atCall[r][c]
<1>0. rpc \in [Readers -> {"idle", "check", "copy", "load", "store", "wait",
                          "asleep", "lock"}]
  BY DEF StampInv, TypeOK, ReadTypeOK
<1>1. CheckNone(r)
  <2>1. rpc' # rpc
    OBVIOUS
  <2>2. ~(\E d \in Channel : StampEdge(d)) /\ ~UNCHANGED stampVars /\ ~IrqEnter
        /\ ~IrqTake /\ ~IrqCompare /\ ~IrqDrop /\ ~IrqFill
    BY <2>1 DEF stampVars, readVars, StampEdge, IrqEnter, IrqTake, IrqCompare,
       IrqDrop, IrqFill
  <2>3. ~IrqNext
    BY <1>0 DEF IrqNext
  <2>4. ASSUME NEW x \in Readers, Call(x) \/ Signal(x) PROVE FALSE
    <3>1. x = r
      BY <1>0, <2>4 DEF Call, Signal, Leave
    <3> QED BY <2>4, <3>1 DEF Call, Signal
  <2>5. ASSUME NEW x \in Readers, ReadRest(x) PROVE CheckNone(r)
    <3>1. x = r
      BY <1>0, <2>5 DEF ReadRest, CheckMore, Copy, Load, Store, ReturnStamps,
         CheckNone, Wait,
         Again, Leave
    <3>2. ~CheckMore(r)
      BY <1>0 DEF CheckMore
    <3>3. /\ ~Copy(r) /\ ~Load(r) /\ ~Store(r) /\ ~ReturnStamps(r) /\ ~Wait(r)
          /\ ~Again(r)
      BY DEF Copy, Load, Store, ReturnStamps, Wait, Again
    <3> QED BY <2>5, <3>1, <3>2, <3>3 DEF ReadRest
  <2> QED BY <2>2, <2>3, <2>4, <2>5 DEF StampNext, IrqRest
<1>2. ipc = "idle" /\ ~HasStamp(r) /\ {d \in req[r].chans : d > rch[r]} = {}
  BY <1>0, <1>1 DEF CheckNone, MayRun
<1>3. c \in Channel /\ rch[r] \in Channel
  BY DEF StampInv, Visited, TypeOK, ReadTypeOK
<1>4. atCall[r][c] <= Pulled(c) /\ atCall[r][c] \in Int
  BY <1>3, Sizes DEF StampInv, Visited, TypeOK, ReadTypeOK
<1>5. /\ InRing(c) = Gap(Top(c), btail[c]) /\ Top(c) = bhead[c]
      /\ Top(c) \in Slot /\ btail[c] \in Slot /\ Pulled(c) \in Int
  BY <1>2, <1>3, IdleViews, ViewTypes, ModGap DEF StampInv, InRing
<1>6. CASE c = rch[r]
  BY <1>2, <1>4, <1>5, <1>6, GapFacts DEF HasStamp
<1>7. CASE c # rch[r]
  <2>1. c < rch[r]
    BY <1>2, <1>3, <1>7, Sizes DEF Channel
  <2> QED BY <2>1, <1>5 DEF StampInv, Visited, Inside
<1> QED BY <1>6, <1>7

(* On one processor, when wrn_dio_cmd_stamp returns -EAGAIN, no channel of *)
(* the mask holds a stamp that was in its ring when the call began.        *)
THEOREM FlushCorrect == OneCpu => (StampSpec => FlushedAtEagain)
<1> SUFFICES ASSUME OneCpu PROVE StampSpec => FlushedAtEagain
  OBVIOUS
<1>1. StampInv /\ [StampNext]_stampVars =>
        [\A r \in Readers :
           rpc[r] = "check" /\ rpc'[r] = "idle" /\ reply[r] = << >> =>
             \A c \in req[r].chans :
               InRing(c) <= Pulled(c) - atCall[r][c]]_stampVars
  BY FlushStep
<1> QED BY <1>1, StampInvariant, PTL DEF StampSpec, FlushedAtEagain

-----------------------------------------------------------------------------
(* The rings on any number of processors: much of the above is lost, but   *)
(* types stay, and no stamp is slept over.                                 *)

\* Readers between their check and their store.
Between(r) == rpc[r] \in {"copy", "load", "store"}

\* A ring with a stamp, or one that the interrupt has just filled up and is
\* about to make room in.
Filled(c) ==
  bhead[c] # btail[c] \/ (ipc \in {"compare", "drop"} /\ c = Min(imask))

\* What the interrupt knows of its channel.
IrqShared ==
  /\ ipc = "idle" <=> imask = {}
  /\ ipc \in {"compare", "drop", "fill"} => fifo[Min(imask)] # << >>
  /\ ipc = "drop" => bhead[Min(imask)] = it

\* What a reader knows: nobody else empties a ring it found filled.
ReaderShared(r) ==
  /\ rpc[r] # "idle" => req[r].chans \subseteq Channel /\ req[r].chans # {}
  /\ Between(r) => NBuf # 1 /\ Filled(rch[r])
  /\ rpc[r] = "copy" => Len(reply[r]) < NReply

SmpInv ==
  /\ TypeOK
  /\ IrqShared
  /\ LockHeld
  /\ \A c \in Channel : Len(fifo[c]) <= events[c]
  /\ \A r \in Readers : ReaderShared(r)
  /\ NoSleepOverStamp

LEMMA SmpInit == StampInit => SmpInv
<1> SUFFICES ASSUME StampInit PROVE SmpInv
  OBVIOUS
<1>1. TypeOK /\ LockHeld
  BY StampInitInv DEF StampInv
<1>2. /\ IrqShared /\ NoSleepOverStamp
      /\ \A r \in Readers : ReaderShared(r)
  BY DEF StampInit, IrqShared, NoSleepOverStamp, ReaderShared, Between
<1>3. \A c \in Channel : Len(fifo[c]) <= events[c]
  BY DEF StampInit
<1> QED BY <1>1, <1>2, <1>3 DEF SmpInv

(* What the interrupt or an edge has to leave alone for the readers.       *)
LEMMA ReadersKept ==
  ASSUME SmpInv,
         UNCHANGED <<rtnl, rpc, req, rch, rt, reply, atCall>>,
         \A c \in Channel : Filled(c) /\ NBuf # 1 => Filled(c)'
  PROVE  ReadTypeOK' /\ LockHeld' /\ \A r \in Readers : ReaderShared(r)'
<1>1. ReadTypeOK'
  BY DEF SmpInv, TypeOK, ReadTypeOK
<1>2. LockHeld'
  BY DEF SmpInv, LockHeld, Inside
<1>3. ASSUME NEW r \in Readers PROVE ReaderShared(r)'
  <2>1. rch[r] \in Channel
    BY DEF SmpInv, TypeOK, ReadTypeOK
  <2> QED BY <2>1 DEF SmpInv, ReaderShared, Between
<1> QED BY <1>1, <1>2, <1>3

LEMMA SmpEdge ==
  ASSUME SmpInv, NEW d \in Channel, StampEdge(d)
  PROVE  SmpInv'
<1> USE DEF StampEdge
<1>0. UNCHANGED <<tsbuf, bhead, btail, irqOn, ipc, imask, ih, it, rtnl, rpc,
                  req, rch, rt, reply, atCall, returned, dropped>>
  BY DEF ringVars, irqVars, readVars
<1>1. /\ \A c \in Channel \ {d} : events'[c] = events[c] /\ fifo'[c] = fifo[c]
      /\ events'[d] = events[d] + 1
      /\ fifo'[d] = Append(fifo[d], events[d] + 1)
      /\ fifo[d] \in Seq(1..MaxEvents)
      /\ events[d] \in Nat
  BY Sizes DEF SmpInv, TypeOK, RingTypeOK
<1>2. RingTypeOK' /\ IrqTypeOK'
  BY <1>0, Sizes DEF SmpInv, TypeOK, RingTypeOK, IrqTypeOK
<1>3. IrqShared'
  <2>1. \A c \in Channel : fifo[c] # << >> => fifo'[c] # << >>
    BY <1>1
  <2>2. ipc # "idle" => Min(imask) \in Channel
    BY MinChannel DEF SmpInv, IrqShared, TypeOK, IrqTypeOK
  <2> QED BY <1>0, <2>1, <2>2 DEF SmpInv, IrqShared
<1>4. \A c \in Channel : Len(fifo'[c]) <= events'[c]
  BY <1>1 DEF SmpInv
<1>5. NoSleepOverStamp'
  BY <1>0 DEF SmpInv, NoSleepOverStamp, HasStamp
<1>6. \A c \in Channel : Filled(c) => Filled(c)'
  BY <1>0 DEF Filled
<1> QED BY <1>0, <1>2, <1>3, <1>4, <1>5, <1>6, ReadersKept DEF SmpInv, TypeOK

(* A sleeper whose ring holds a stamp waits for an interrupt that is at    *)
(* work: none begins.                                                      *)
LEMMA SmpEnter ==
  ASSUME SmpInv, IrqEnter
  PROVE  SmpInv'
<1> USE DEF IrqEnter
<1>0. UNCHANGED <<events, fifo, tsbuf, bhead, btail, ih, it, rtnl, rpc, req,
                  rch, rt, reply, atCall, returned, dropped>>
  BY DEF ringVars, readVars
<1>1. RingTypeOK' /\ IrqTypeOK'
  BY <1>0 DEF SmpInv, TypeOK, RingTypeOK, IrqTypeOK
<1>2. IrqShared' /\ \A c \in Channel : Len(fifo'[c]) <= events'[c]
  BY <1>0 DEF SmpInv, IrqShared
<1>3. NoSleepOverStamp'
  BY <1>0 DEF SmpInv, NoSleepOverStamp, HasStamp
<1>4. \A c \in Channel : Filled(c) => Filled(c)'
  BY <1>0 DEF Filled
<1> QED BY <1>0, <1>1, <1>2, <1>3, <1>4, ReadersKept DEF SmpInv, TypeOK

(* The channel an interrupt at work is at.                                 *)
LEMMA ChannelServed ==
  ASSUME SmpInv, ipc # "idle"
  PROVE  Min(imask) \in Channel /\ Min(imask) \in imask
  BY MinChannel DEF SmpInv, IrqShared, TypeOK, IrqTypeOK

(* The ring may look empty from here until the interrupt has made room.    *)
LEMMA SmpTake ==
  ASSUME SmpInv, IrqTake
  PROVE  SmpInv'
<1> USE DEF IrqTake
<1>0. UNCHANGED <<events, fifo, tsbuf, btail, irqOn, imask, it, rtnl, rpc,
                  req, rch, rt, reply, atCall, returned, dropped>>
  BY DEF readVars
<1>1. PICK m \in Channel : m = Min(imask) /\ m \in imask
  BY ChannelServed
<1>2. /\ bhead[m] \in Slot /\ ih' = bhead[m] /\ NextSlot(bhead[m]) \in Slot
      /\ bhead' = [bhead EXCEPT ![m] = NextSlot(bhead[m])]
      /\ \A c \in Channel \ {m} : bhead'[c] = bhead[c]
      /\ ipc = "pull" /\ ipc' = "compare" /\ fifo[m] # << >>
  BY <1>1, NextSlotStep DEF SmpInv, TypeOK, RingTypeOK
<1>3. RingTypeOK' /\ IrqTypeOK'
  <2>1. bhead' \in [Channel -> Slot]
    BY <1>2 DEF SmpInv, TypeOK, RingTypeOK
  <2>2. RingTypeOK'
    BY <1>0, <2>1 DEF SmpInv, TypeOK, RingTypeOK
  <2> QED BY <1>0, <1>2, <2>2 DEF SmpInv, TypeOK, IrqTypeOK
<1>4. IrqShared' /\ \A c \in Channel : Len(fifo'[c]) <= events'[c]
  BY <1>0, <1>1, <1>2 DEF SmpInv, IrqShared
<1>5. NoSleepOverStamp'
  <2> SUFFICES ASSUME NEW r \in Readers, rpc[r] = "asleep", HasStamp(r)'
               PROVE  rch[r] \in imask
    BY <1>0, <1>2 DEF NoSleepOverStamp
  <2>1. CASE rch[r] = m
    BY <2>1, <1>1
  <2>2. CASE rch[r] # m
    <3>1. HasStamp(r)
      BY <2>2, <1>0, <1>2 DEF HasStamp, SmpInv, TypeOK, ReadTypeOK
    <3> QED BY <3>1 DEF SmpInv, NoSleepOverStamp
  <2> QED BY <2>1, <2>2
<1>6. \A c \in Channel : Filled(c) => Filled(c)'
  BY <1>0, <1>1, <1>2 DEF Filled
<1> QED BY <1>0, <1>3, <1>4, <1>5, <1>6, ReadersKept DEF SmpInv, TypeOK

LEMMA SmpCompare ==
  ASSUME SmpInv, IrqCompare
  PROVE  SmpInv'
<1> USE DEF IrqCompare
<1>0. UNCHANGED <<events, fifo, tsbuf, bhead, btail, irqOn, imask, ih, rtnl,
                  rpc, req, rch, rt, reply, atCall, returned, dropped>>
  BY DEF ringVars, readVars
<1>1. PICK m \in Channel : m = Min(imask) /\ m \in imask
  BY ChannelServed
<1>2. /\ it' = btail[m] /\ btail[m] \in Slot /\ ipc = "compare"
      /\ ipc' = IF bhead[m] = btail[m] THEN "drop" ELSE "fill"
  BY <1>1 DEF SmpInv, TypeOK, RingTypeOK
<1>3. RingTypeOK' /\ IrqTypeOK'
  BY <1>0, <1>2 DEF SmpInv, TypeOK, RingTypeOK, IrqTypeOK
<1>4. IrqShared' /\ \A c \in Channel : Len(fifo'[c]) <= events'[c]
  BY <1>0, <1>1, <1>2 DEF SmpInv, IrqShared
<1>5. NoSleepOverStamp'
  BY <1>0, <1>2 DEF SmpInv, NoSleepOverStamp, HasStamp
<1>6. \A c \in Channel : Filled(c) => Filled(c)'
  BY <1>0, <1>1, <1>2 DEF Filled
<1> QED BY <1>0, <1>3, <1>4, <1>5, <1>6, ReadersKept DEF SmpInv, TypeOK

(* Room is made after the slot that was taken, so that the ring is not     *)
(* empty, wherever a reader has stored btail in between.                   *)
LEMMA SmpDrop ==
  ASSUME SmpInv, IrqDrop
  PROVE  SmpInv'
<1> USE DEF IrqDrop
<1>0. UNCHANGED <<events, fifo, tsbuf, bhead, irqOn, imask, ih, it, rtnl,
                  rpc, req, rch, rt, reply, atCall, returned>>
  BY DEF readVars
<1>1. PICK m \in Channel : m = Min(imask) /\ m \in imask
  BY ChannelServed
<1>2. /\ it \in Slot /\ NextSlot(it) \in Slot /\ bhead[m] = it
      /\ btail' = [btail EXCEPT ![m] = NextSlot(it)]
      /\ btail'[m] = NextSlot(it)
      /\ \A c \in Channel \ {m} : btail'[c] = btail[c]
      /\ ipc = "drop" /\ ipc' = "fill" /\ fifo[m] # << >>
  BY <1>1, NextSlotStep
     DEF SmpInv, IrqShared, TypeOK, RingTypeOK, IrqTypeOK
<1>2a. NBuf # 1 => NextSlot(it) # it
  BY <1>2, NextSlotStep, Sizes DEF Slot
<1>3. RingTypeOK' /\ IrqTypeOK'
  BY <1>0, <1>1, <1>2 DEF SmpInv, TypeOK, RingTypeOK, IrqTypeOK
<1>4. IrqShared' /\ \A c \in Channel : Len(fifo'[c]) <= events'[c]
  BY <1>0, <1>1, <1>2 DEF SmpInv, IrqShared
<1>5. NoSleepOverStamp'
  <2> SUFFICES ASSUME NEW r \in Readers, rpc[r] = "asleep", HasStamp(r)'
               PROVE  rch[r] \in imask
    BY <1>0, <1>2 DEF NoSleepOverStamp
  <2>1. CASE rch[r] = m
    BY <2>1, <1>1
  <2>2. CASE rch[r] # m
    <3>1. HasStamp(r)
      BY <2>2, <1>0, <1>2 DEF HasStamp, SmpInv, TypeOK, ReadTypeOK
    <3> QED BY <3>1 DEF SmpInv, NoSleepOverStamp
  <2> QED BY <2>1, <2>2
<1>6. \A c \in Channel : Filled(c) /\ NBuf # 1 => Filled(c)'
  BY <1>0, <1>1, <1>2, <1>2a DEF Filled
<1> QED BY <1>0, <1>3, <1>4, <1>5, <1>6, ReadersKept DEF SmpInv, TypeOK

LEMMA SmpFill ==
  ASSUME SmpInv, IrqFill
  PROVE  SmpInv'
<1> USE DEF IrqFill
<1>0. UNCHANGED <<events, bhead, btail, irqOn, imask, rtnl, rpc, req, rch, rt,
                  reply, atCall, returned, dropped>>
  BY DEF readVars
<1>1. PICK m \in Channel : m = Min(imask) /\ m \in imask
  BY ChannelServed
<1>2. fifo[m] \in Seq(1..MaxEvents) /\ fifo[m] # << >> /\ ih \in Slot
  BY <1>1 DEF SmpInv, IrqShared, TypeOK, RingTypeOK, IrqTypeOK
<1>3. PICK v, t : v = Head(fifo[m]) /\ t = Tail(fifo[m])
  OBVIOUS
<1>4. /\ v \in 0..MaxEvents /\ t \in Seq(1..MaxEvents)
      /\ Len(t) = Len(fifo[m]) - 1 /\ Len(fifo[m]) \in Nat
  <2>1. /\ Tail(fifo[m]) \in Seq(1..MaxEvents) /\ Head(fifo[m]) \in 1..MaxEvents
        /\ Len(fifo[m]) \in Nat \ {0} /\ Len(Tail(fifo[m])) = Len(fifo[m]) - 1
    BY <1>2, TailFacts
  <2>2. 1..MaxEvents \subseteq 0..MaxEvents
    BY Sizes
  <2> QED BY <2>1, <2>2, <1>3
<1>5. /\ tsbuf' = [tsbuf EXCEPT ![m][ih] = v] /\ fifo' = [fifo EXCEPT ![m] = t]
      /\ ih' = 0 /\ it' = 0 /\ ipc = "fill" /\ ipc' = "pull"
  BY <1>1, <1>3
<1>6. /\ fifo'[m] = t /\ \A c \in Channel \ {m} : fifo'[c] = fifo[c]
      /\ fifo' \in [Channel -> Seq(1..MaxEvents)]
  BY <1>4, <1>5 DEF SmpInv, TypeOK, RingTypeOK
<1>7. tsbuf' \in [Channel -> [Slot -> 0..MaxEvents]]
  <2>1. tsbuf[m] \in [Slot -> 0..MaxEvents]
    BY DEF SmpInv, TypeOK, RingTypeOK
  <2>2. [tsbuf[m] EXCEPT ![ih] = v] \in [Slot -> 0..MaxEvents]
    BY <2>1, <1>4
  <2> QED BY <2>2, <1>5 DEF SmpInv, TypeOK, RingTypeOK
<1>8. RingTypeOK'
  BY <1>0, <1>6, <1>7 DEF SmpInv, TypeOK, RingTypeOK
<1>9. IrqTypeOK'
  BY <1>0, <1>5, Sizes DEF SmpInv, TypeOK, IrqTypeOK, Slot
<1>10. IrqShared'
  BY <1>0, <1>5 DEF SmpInv, IrqShared
<1>11. \A c \in Channel : Len(fifo'[c]) <= events'[c]
  <2> TAKE c \in Channel
  <2>1. events[c] \in Nat /\ Len(fifo[c]) <= events[c]
    BY Sizes DEF SmpInv, TypeOK, RingTypeOK
  <2> QED BY <2>1, <1>0, <1>4, <1>6
<1>12. NoSleepOverStamp'
  BY <1>0, <1>5 DEF SmpInv, NoSleepOverStamp, HasStamp
<1>13. \A c \in Channel : Filled(c) => Filled(c)'
  BY <1>0, <1>5 DEF Filled
<1> QED BY <1>0, <1>8, <1>9, <1>10, <1>11, <1>12, <1>13, ReadersKept
           DEF SmpInv, TypeOK

(* The sleepers of the channel are woken; the others wait for theirs,      *)
(* which are still in the mask.                                            *)
LEMMA SmpNext ==
  ASSUME SmpInv, IrqNext
  PROVE  SmpInv'
<1> USE DEF IrqNext
<1>0. UNCHANGED <<events, fifo, tsbuf, bhead, btail, irqOn, ih, it, rtnl, req,
                  rch, rt, reply, atCall, returned, dropped>>
  BY DEF ringVars
<1>1. PICK m \in Channel : m = Min(imask) /\ m \in imask /\ imask' = imask \ {m}
  BY ChannelServed
<1>2. rpc' = [r \in Readers |->
                IF rpc[r] = "asleep" /\ rch[r] = m THEN "wait" ELSE rpc[r]]
  BY <1>1
<1>3. \A r \in Readers :
         rpc'[r] = IF rpc[r] = "asleep" /\ rch[r] = m THEN "wait" ELSE rpc[r]
  BY <1>2, Zenon
<1>4. \A r \in Readers : \/ rpc'[r] = rpc[r]
                         \/ rpc[r] = "asleep" /\ rpc'[r] = "wait"
  <2> TAKE r \in Readers
  <2>1. CASE rpc[r] = "asleep" /\ rch[r] = m
    BY <1>3, <2>1
  <2>2. CASE ~(rpc[r] = "asleep" /\ rch[r] = m)
    BY <1>3, <2>2
  <2> QED BY <2>1, <2>2
<1>5. ipc = "pull" /\ ipc' = (IF imask' = {} THEN "idle" ELSE "pull")
  OBVIOUS
<1>6. RingTypeOK' /\ IrqTypeOK'
  BY <1>0, <1>1, <1>5 DEF SmpInv, TypeOK, RingTypeOK, IrqTypeOK
<1>7. ReadTypeOK'
  BY <1>0, <1>2 DEF SmpInv, TypeOK, ReadTypeOK
<1>8. IrqShared' /\ \A c \in Channel : Len(fifo'[c]) <= events'[c]
  BY <1>0, <1>5 DEF SmpInv, IrqShared
<1>9. LockHeld'
  <2>1. \A r \in Readers : Inside(r)' <=> Inside(r)
    BY <1>4 DEF Inside
  <2> QED BY <1>0, <2>1 DEF SmpInv, LockHeld
<1>10. ASSUME NEW r \in Readers PROVE ReaderShared(r)'
  <2>1. /\ Between(r)' <=> Between(r)
        /\ rpc'[r] = "copy" <=> rpc[r] = "copy"
        /\ rpc'[r] # "idle" => rpc[r] # "idle"
    BY <1>4 DEF Between
  <2>2. Filled(rch[r]) => Filled(rch[r])'
    BY <1>0, <1>5 DEF Filled
  <2> QED BY <1>0, <2>1, <2>2 DEF SmpInv, ReaderShared
<1>11. NoSleepOverStamp'
  <2> SUFFICES ASSUME NEW r \in Readers, rpc'[r] = "asleep", HasStamp(r)
               PROVE  ipc' # "idle" /\ rch[r] \in imask'
    BY <1>0 DEF NoSleepOverStamp, HasStamp
  <2>1. rpc[r] = "asleep" /\ rch[r] # m
    BY <1>3
  <2>2. rch[r] \in imask
    BY <2>1 DEF SmpInv, NoSleepOverStamp
  <2> QED BY <2>1, <2>2, <1>1, <1>5
<1> QED BY <1>6, <1>7, <1>8, <1>9, <1>10, <1>11 DEF SmpInv, TypeOK

(* A reader at work alone changes reply, request and lock; the others do   *)
(* not notice, nor does a sleeper.                                         *)
LEMMA OthersKept ==
  ASSUME SmpInv, NEW r \in Readers,
         UNCHANGED <<events, fifo, bhead, btail, ipc, imask, it>>,
         \A x \in Readers \ {r} : /\ rpc'[x] = rpc[x] /\ req'[x] = req[x]
                                  /\ rch'[x] = rch[x] /\ reply'[x] = reply[x],
         rpc'[r] = "asleep" => ~HasStamp(r)'
  PROVE  /\ IrqShared' /\ \A c \in Channel : Len(fifo'[c]) <= events'[c]
         /\ \A x \in Readers \ {r} : ReaderShared(x)'
         /\ NoSleepOverStamp'
<1>1. IrqShared' /\ \A c \in Channel : Len(fifo'[c]) <= events'[c]
  BY DEF SmpInv, IrqShared
<1>2. \A c : Filled(c)' <=> Filled(c)
  BY DEF Filled
<1>3. ASSUME NEW x \in Readers \ {r} PROVE ReaderShared(x)'
  BY <1>2 DEF SmpInv, ReaderShared, Between
<1>4. NoSleepOverStamp'
  BY DEF SmpInv, NoSleepOverStamp, HasStamp
<1> QED BY <1>1, <1>3, <1>4

(* The reader at work holds the lock, the others are outside.              *)
LEMMA AloneInside ==
  ASSUME LockHeld, NEW r \in Readers, Inside(r)
  PROVE  rtnl = r /\ r # NoOne /\ \A x \in Readers \ {r} : ~Inside(x)
  BY ReadersAssumption DEF LockHeld

LEMMA SmpCall ==
  ASSUME SmpInv, NEW r \in Readers, Call(r)
  PROVE  SmpInv'
<1>0. PICK q \in Request : /\ req' = [req EXCEPT ![r] = q]
                           /\ rch' = [rch EXCEPT ![r] = Min(q.chans)]
  BY DEF Call
<1>1. /\ rpc[r] = "idle" /\ rtnl = NoOne /\ rtnl' = r
      /\ rpc' = [rpc EXCEPT ![r] = "check"]
      /\ atCall' = [atCall EXCEPT ![r] = [c \in Channel |-> Pulled(c)]]
      /\ UNCHANGED <<events, fifo, tsbuf, bhead, btail, irqOn, ipc, imask, ih,
                     it, rt, reply, returned, dropped>>
  BY DEF Call, ringVars, irqVars
<1>2. q.chans \subseteq Channel /\ q.chans # {}
  <2>1. q \in [chans : (SUBSET Channel) \ {{}}, mask : BOOLEAN, wait : BOOLEAN]
    BY DEF Request
  <2> QED BY <2>1
<1>3. Min(q.chans) \in Channel
  BY <1>2, MinChannel
<1>4. \A c \in Channel : Pulled(c) \in 0..MaxEvents
  <2> TAKE c \in Channel
  <2>1. /\ events[c] \in 0..MaxEvents /\ Len(fifo[c]) \in Nat
        /\ Len(fifo[c]) <= events[c]
    BY DEF SmpInv, TypeOK, RingTypeOK
  <2> QED BY <2>1, Sizes DEF Pulled
<1>5. /\ \A x \in Readers \ {r} : /\ rpc'[x] = rpc[x] /\ req'[x] = req[x]
                                  /\ rch'[x] = rch[x] /\ reply'[x] = reply[x]
      /\ rpc'[r] = "check" /\ req'[r] = q
  BY <1>0, <1>1 DEF SmpInv, TypeOK, ReadTypeOK
<1>6. RingTypeOK' /\ IrqTypeOK'
  BY <1>1 DEF SmpInv, TypeOK, RingTypeOK, IrqTypeOK
<1>7. ReadTypeOK'
  BY <1>0, <1>1, <1>3, <1>4 DEF SmpInv, TypeOK, ReadTypeOK
<1>8. LockHeld'
  <2>1. \A x \in Readers : ~Inside(x) /\ reply[x] = << >>
    BY <1>1, ReadersAssumption DEF SmpInv, LockHeld
  <2> QED BY <1>1, <1>5, <2>1 DEF LockHeld, Inside
<1>9. ReaderShared(r)'
  BY <1>2, <1>5 DEF ReaderShared, Between
<1> QED BY <1>1, <1>5, <1>6, <1>7, <1>8, <1>9, OthersKept DEF SmpInv, TypeOK

LEMMA SmpCheckMore ==
  ASSUME SmpInv, NEW r \in Readers, CheckMore(r)
  PROVE  SmpInv'
<1>1. /\ rpc[r] = "check" /\ Len(reply[r]) < NReply /\ HasStamp(r)
      /\ rpc' = [rpc EXCEPT ![r] = "copy"]
      /\ rt' = [rt EXCEPT ![r] = btail[rch[r]]]
      /\ UNCHANGED <<events, fifo, tsbuf, bhead, btail, irqOn, ipc, imask, ih,
                     it, rtnl, req, rch, reply, atCall, returned, dropped>>
  BY DEF CheckMore, ringVars, irqVars
<1>2. /\ \A x \in Readers \ {r} : rpc'[x] = rpc[x]
      /\ rpc'[r] = "copy" /\ rch[r] \in Channel /\ btail[rch[r]] \in Slot
      /\ bhead[rch[r]] \in Slot
  BY <1>1 DEF SmpInv, TypeOK, ReadTypeOK, RingTypeOK
<1>3. RingTypeOK' /\ IrqTypeOK'
  BY <1>1 DEF SmpInv, TypeOK, RingTypeOK, IrqTypeOK
<1>4. ReadTypeOK'
  BY <1>1, <1>2 DEF SmpInv, TypeOK, ReadTypeOK
<1>5. LockHeld'
  <2>1. \A x \in Readers : Inside(x)' <=> Inside(x)
    BY <1>1, <1>2 DEF Inside
  <2> QED BY <1>1, <2>1 DEF SmpInv, LockHeld
<1>6. ReaderShared(r)'
  <2>1. NBuf # 1 /\ Filled(rch[r])'
    BY <1>1, <1>2 DEF HasStamp, Filled, Slot
  <2>2. req[r].chans \subseteq Channel /\ req[r].chans # {}
    BY <1>1 DEF SmpInv, ReaderShared
  <2> QED BY <1>1, <2>1, <2>2 DEF ReaderShared
<1> QED BY <1>1, <1>2, <1>3, <1>4, <1>5, <1>6, OthersKept DEF SmpInv, TypeOK

LEMMA SmpCopy ==
  ASSUME SmpInv, NEW r \in Readers, Copy(r)
  PROVE  SmpInv'
<1>0. PICK v \in 0..MaxEvents : v = tsbuf[rch[r]][rt[r]]
  BY DEF SmpInv, TypeOK, ReadTypeOK, RingTypeOK
<1>1. /\ rpc[r] = "copy" /\ rpc' = [rpc EXCEPT ![r] = "load"]
      /\ reply' = [reply EXCEPT ![r] = Append(reply[r], v)]
      /\ UNCHANGED <<events, fifo, tsbuf, bhead, btail, irqOn, ipc, imask, ih,
                     it, rtnl, req, rch, rt, atCall, returned, dropped>>
  BY <1>0 DEF Copy, ringVars, irqVars
<1>2. /\ \A x \in Readers \ {r} : rpc'[x] = rpc[x] /\ reply'[x] = reply[x]
      /\ rpc'[r] = "load" /\ reply'[r] = Append(reply[r], v)
      /\ reply[r] \in Seq(0..MaxEvents) /\ Len(reply[r]) < NReply
  BY <1>1 DEF SmpInv, TypeOK, ReadTypeOK, ReaderShared
<1>3. RingTypeOK' /\ IrqTypeOK'
  BY <1>1 DEF SmpInv, TypeOK, RingTypeOK, IrqTypeOK
<1>4. ReadTypeOK'
  <2>1. Len(reply'[r]) <= NReply
    BY <1>2, Sizes
  <2>2. reply' \in [Readers -> Seq(0..MaxEvents)]
    BY <1>1, <1>2 DEF SmpInv, TypeOK, ReadTypeOK
  <2> QED BY <1>1, <1>2, <2>1, <2>2 DEF SmpInv, TypeOK, ReadTypeOK
<1>5. LockHeld'
  <2>1. \A x \in Readers : Inside(x)' <=> Inside(x)
    BY <1>1, <1>2 DEF Inside
  <2>2. Inside(r)
    BY <1>1 DEF Inside
  <2> QED BY <1>1, <1>2, <2>1, <2>2 DEF SmpInv, LockHeld
<1>6. ReaderShared(r)'
  <2>1. Filled(rch[r])' <=> Filled(rch[r])
    BY <1>1 DEF Filled
  <2> QED BY <1>1, <1>2, <2>1 DEF SmpInv, ReaderShared, Between
<1> QED BY <1>1, <1>2, <1>3, <1>4, <1>5, <1>6, OthersKept DEF SmpInv, TypeOK

LEMMA SmpLoad ==
  ASSUME SmpInv, NEW r \in Readers, Load(r)
  PROVE  SmpInv'
<1>1. /\ rpc[r] = "load" /\ rpc' = [rpc EXCEPT ![r] = "store"]
      /\ rt' = [rt EXCEPT ![r] = btail[rch[r]]]
      /\ UNCHANGED <<events, fifo, tsbuf, bhead, btail, irqOn, ipc, imask, ih,
                     it, rtnl, req, rch, reply, atCall, returned, dropped>>
  BY DEF Load, ringVars, irqVars
<1>2. /\ \A x \in Readers \ {r} : rpc'[x] = rpc[x]
      /\ rpc'[r] = "store" /\ btail[rch[r]] \in Slot
  BY <1>1 DEF SmpInv, TypeOK, ReadTypeOK, RingTypeOK
<1>3. RingTypeOK' /\ IrqTypeOK'
  BY <1>1 DEF SmpInv, TypeOK, RingTypeOK, IrqTypeOK
<1>4. ReadTypeOK'
  BY <1>1, <1>2 DEF SmpInv, TypeOK, ReadTypeOK
<1>5. LockHeld'
  <2>1. \A x \in Readers : Inside(x)' <=> Inside(x)
    BY <1>1, <1>2 DEF Inside
  <2> QED BY <1>1, <2>1 DEF SmpInv, LockHeld
<1>6. ReaderShared(r)'
  <2>1. Filled(rch[r])' <=> Filled(rch[r])
    BY <1>1 DEF Filled
  <2> QED BY <1>1, <1>2, <2>1 DEF SmpInv, ReaderShared, Between
<1> QED BY <1>1, <1>2, <1>3, <1>4, <1>5, <1>6, OthersKept DEF SmpInv, TypeOK

(* The ring was filled before btail is stored: nobody sleeps on it unless  *)
(* the interrupt is at work there.                                         *)
LEMMA SmpStore ==
  ASSUME SmpInv, NEW r \in Readers, Store(r)
  PROVE  SmpInv'
<1>0. PICK d \in Channel : d = rch[r]
  BY DEF SmpInv, TypeOK, ReadTypeOK
<1>1. /\ rpc[r] = "store"
      /\ rpc' = [rpc EXCEPT ![r] = "check"] /\ rt' = [rt EXCEPT ![r] = 0]
      /\ btail' = [btail EXCEPT ![d] = NextSlot(rt[r])]
      /\ UNCHANGED <<events, fifo, tsbuf, bhead, irqOn, ipc, imask, ih, it,
                     rtnl, req, rch, reply, atCall, returned, dropped>>
  BY <1>0 DEF Store, irqVars
<1>2. /\ \A x \in Readers \ {r} : rpc'[x] = rpc[x] /\ ~Between(x)
      /\ rpc'[r] = "check" /\ rt[r] \in Slot /\ NextSlot(rt[r]) \in Slot
  <2>1. Inside(r)
    BY <1>1 DEF Inside
  <2>2. \A x \in Readers \ {r} : ~Between(x)
    BY <2>1, AloneInside DEF SmpInv, Inside, Between
  <2> QED BY <1>1, <2>2, NextSlotStep DEF SmpInv, TypeOK, ReadTypeOK
<1>3. /\ \A c \in Channel \ {d} : btail'[c] = btail[c]
      /\ btail' \in [Channel -> Slot]
  BY <1>1, <1>2 DEF SmpInv, TypeOK, RingTypeOK
<1>4. RingTypeOK'
  BY <1>1, <1>3 DEF SmpInv, TypeOK, RingTypeOK
<1>5. IrqTypeOK'
  BY <1>1 DEF SmpInv, TypeOK, IrqTypeOK
<1>6. ReadTypeOK'
  <2>1. 0 \in Slot
    BY Sizes DEF Slot
  <2> QED BY <1>1, <2>1 DEF SmpInv, TypeOK, ReadTypeOK
<1>7. LockHeld'
  <2>1. \A x \in Readers : Inside(x)' <=> Inside(x)
    BY <1>1, <1>2 DEF Inside
  <2> QED BY <1>1, <2>1 DEF SmpInv, LockHeld
<1>8. IrqShared' /\ \A c \in Channel : Len(fifo'[c]) <= events'[c]
  BY <1>1 DEF SmpInv, IrqShared
<1>9. ASSUME NEW x \in Readers PROVE ReaderShared(x)'
  <2>1. /\ ~Between(x)' /\ rpc'[x] # "copy"
        /\ rpc'[x] # "idle" => rpc[x] # "idle"
    BY <1>1, <1>2 DEF Between
  <2> QED BY <1>1, <2>1 DEF SmpInv, ReaderShared
<1>10. NoSleepOverStamp'
  <2> SUFFICES ASSUME NEW x \in Readers, rpc[x] = "asleep", HasStamp(x)'
               PROVE  ipc # "idle" /\ rch[x] \in imask
    BY <1>1, <1>2 DEF NoSleepOverStamp
  <2>1. CASE rch[x] # d
    <3>1. HasStamp(x)
      BY <2>1, <1>1, <1>3 DEF HasStamp, SmpInv, TypeOK, ReadTypeOK
    <3> QED BY <3>1 DEF SmpInv, NoSleepOverStamp
  <2>2. CASE rch[x] = d
    <3>1. Filled(d)
      BY <1>0, <1>1 DEF SmpInv, ReaderShared, Between
    <3>2. CASE bhead[d] # btail[d]
      BY <2>2, <3>2 DEF SmpInv, NoSleepOverStamp, HasStamp
    <3>3. CASE ipc \in {"compare", "drop"} /\ d = Min(imask)
      BY <2>2, <3>3, ChannelServed
    <3> QED BY <3>1, <3>2, <3>3 DEF Filled
  <2> QED BY <2>1, <2>2
<1> QED BY <1>4, <1>5, <1>6, <1>7, <1>8, <1>9, <1>10 DEF SmpInv, TypeOK

(* The call of a reader ends.                                              *)
LEMMA LeaveTypes ==
  ASSUME ReadTypeOK, NEW r \in Readers, Leave(r), rtnl' \in {rtnl, NoOne}
  PROVE  /\ ReadTypeOK'
         /\ \A x \in Readers \ {r} : /\ rpc'[x] = rpc[x] /\ req'[x] = req[x]
                                     /\ rch'[x] = rch[x] /\ reply'[x] = reply[x]
         /\ rpc'[r] = "idle" /\ reply'[r] = << >> /\ ReaderShared(r)'
<1>1. /\ 0 \in Slot /\ 0 \in Channel /\ 0 \in 0..MaxEvents
      /\ Len(<< >>) <= NReply
  BY Sizes DEF Slot, Channel
<1>2. /\ rpc' = [rpc EXCEPT ![r] = "idle"]
      /\ req' = [req EXCEPT ![r] = NoRequest]
      /\ rch' = [rch EXCEPT ![r] = 0] /\ rt' = [rt EXCEPT ![r] = 0]
      /\ reply' = [reply EXCEPT ![r] = << >>]
      /\ atCall' = [atCall EXCEPT ![r] = [c \in Channel |-> 0]]
  BY DEF Leave
<1>3. /\ \A x \in Readers \ {r} : /\ rpc'[x] = rpc[x] /\ req'[x] = req[x]
                                  /\ rch'[x] = rch[x] /\ reply'[x] = reply[x]
      /\ rpc'[r] = "idle" /\ reply'[r] = << >>
  BY <1>2 DEF ReadTypeOK
<1>4. ReadTypeOK'
  BY <1>1, <1>2, <1>3 DEF ReadTypeOK
<1>5. ReaderShared(r)'
  BY <1>3 DEF ReaderShared, Between
<1> QED BY <1>3, <1>4, <1>5

LEMMA SmpReturn ==
  ASSUME SmpInv, NEW r \in Readers, ReturnStamps(r)
  PROVE  SmpInv'
<1>1. /\ rpc[r] = "check" /\ rtnl' = NoOne /\ Leave(r)
      /\ returned' = [returned EXCEPT ![rch[r]] = @ \o reply[r]]
      /\ UNCHANGED <<events, fifo, tsbuf, bhead, btail, irqOn, ipc, imask, ih,
                     it, dropped>>
  BY DEF ReturnStamps, ringVars, irqVars
<1>2. /\ ReadTypeOK'
      /\ \A x \in Readers \ {r} : /\ rpc'[x] = rpc[x] /\ req'[x] = req[x]
                                  /\ rch'[x] = rch[x] /\ reply'[x] = reply[x]
      /\ rpc'[r] = "idle" /\ reply'[r] = << >> /\ ReaderShared(r)'
  BY <1>1, LeaveTypes DEF SmpInv, TypeOK
<1>3. RingTypeOK'
  <2>1. PICK d \in Channel : d = rch[r]
    BY DEF SmpInv, TypeOK, ReadTypeOK
  <2>2. returned[d] \in Seq(0..MaxEvents) /\ reply[r] \in Seq(0..MaxEvents)
    BY DEF SmpInv, TypeOK, RingTypeOK, ReadTypeOK
  <2>3. returned[d] \o reply[r] \in Seq(0..MaxEvents)
    BY <2>2
  <2>4. returned' \in [Channel -> Seq(0..MaxEvents)]
    BY <1>1, <2>1, <2>3 DEF SmpInv, TypeOK, RingTypeOK
  <2> QED BY <1>1, <2>4 DEF SmpInv, TypeOK, RingTypeOK
<1>4. IrqTypeOK'
  BY <1>1 DEF SmpInv, TypeOK, IrqTypeOK
<1>5. LockHeld'
  <2>1. \A x \in Readers \ {r} : ~Inside(x)
    BY <1>1, AloneInside DEF SmpInv, Inside
  <2> QED BY <1>1, <1>2, <2>1, ReadersAssumption DEF SmpInv, LockHeld, Inside
<1> QED BY <1>1, <1>2, <1>3, <1>4, <1>5, OthersKept DEF SmpInv, TypeOK

LEMMA SmpCheckNone ==
  ASSUME SmpInv, NEW r \in Readers, CheckNone(r)
  PROVE  SmpInv'
<1> DEFINE later == {c \in req[r].chans : c > rch[r]}
<1>1. /\ rpc[r] = "check" /\ reply[r] = << >>
      /\ UNCHANGED <<events, fifo, tsbuf, bhead, btail, irqOn, ipc, imask, ih,
                     it, returned, dropped>>
  BY DEF CheckNone, ringVars, irqVars
<1>2. \/ /\ later # {} /\ rch' = [rch EXCEPT ![r] = Min(later)]
         /\ UNCHANGED <<rtnl, rpc, req, rt, reply, atCall>>
      \/ /\ rch' = (IF req[r].mask THEN [rch EXCEPT ![r] = NCh - 1] ELSE rch)
         /\ rtnl' = NoOne /\ rpc' = [rpc EXCEPT ![r] = "wait"]
         /\ UNCHANGED <<req, rt, reply, atCall>>
      \/ rtnl' = NoOne /\ Leave(r)
  BY DEF CheckNone
<1>3. /\ Inside(r) /\ rtnl = r /\ r # NoOne
      /\ \A x \in Readers \ {r} : ~Inside(x)
      /\ req[r].chans \subseteq Channel /\ req[r].chans # {}
  BY <1>1, AloneInside DEF SmpInv, Inside, ReaderShared
<1>4. RingTypeOK' /\ IrqTypeOK'
  BY <1>1 DEF SmpInv, TypeOK, RingTypeOK, IrqTypeOK
<1>5. later # {} => Min(later) \in Channel
  BY <1>3, MinChannel
<1> HIDE DEF later
<1>6. CASE /\ later # {} /\ rch' = [rch EXCEPT ![r] = Min(later)]
           /\ UNCHANGED <<rtnl, rpc, req, rt, reply, atCall>>
  <2>1. ReadTypeOK'
    BY <1>5, <1>6 DEF SmpInv, TypeOK, ReadTypeOK
  <2>2. LockHeld'
    BY <1>6 DEF SmpInv, LockHeld, Inside
  <2>3. \A x \in Readers \ {r} : rch'[x] = rch[x]
    BY <1>6 DEF SmpInv, TypeOK, ReadTypeOK
  <2>4. ReaderShared(r)'
    BY <1>1, <1>3, <1>6 DEF ReaderShared, Between
  <2> QED BY <1>1, <1>4, <1>6, <2>1, <2>2, <2>3, <2>4, OthersKept
             DEF SmpInv, TypeOK
<1>7. CASE /\ rch' = (IF req[r].mask THEN [rch EXCEPT ![r] = NCh - 1] ELSE rch)
           /\ rtnl' = NoOne /\ rpc' = [rpc EXCEPT ![r] = "wait"]
           /\ UNCHANGED <<req, rt, reply, atCall>>
  <2>1. NCh - 1 \in Channel
    BY Sizes DEF Channel
  <2>2. /\ rch' \in [Readers -> Channel]
        /\ \A x \in Readers \ {r} : rch'[x] = rch[x] /\ rpc'[x] = rpc[x]
        /\ rpc'[r] = "wait"
    BY <1>7, <2>1 DEF SmpInv, TypeOK, ReadTypeOK
  <2>3. ReadTypeOK'
    BY <1>7, <2>2 DEF SmpInv, TypeOK, ReadTypeOK
  <2>4. LockHeld'
    BY <1>1, <1>3, <1>7, <2>2, ReadersAssumption DEF SmpInv, LockHeld, Inside
  <2>5. ReaderShared(r)'
    BY <1>3, <1>7, <2>2 DEF ReaderShared, Between
  <2> QED BY <1>1, <1>4, <1>7, <2>2, <2>3, <2>4, <2>5, OthersKept
             DEF SmpInv, TypeOK
<1>8. CASE rtnl' = NoOne /\ Leave(r)
  <2>1. /\ ReadTypeOK'
        /\ \A x \in Readers \ {r} : /\ rpc'[x] = rpc[x] /\ req'[x] = req[x]
                                    /\ rch'[x] = rch[x] /\ reply'[x] = reply[x]
        /\ rpc'[r] = "idle" /\ reply'[r] = << >> /\ ReaderShared(r)'
    BY <1>8, LeaveTypes DEF SmpInv, TypeOK
  <2>2. LockHeld'
    BY <1>3, <1>8, <2>1, ReadersAssumption DEF SmpInv, LockHeld, Inside
  <2> QED BY <1>1, <1>4, <2>1, <2>2, OthersKept DEF SmpInv, TypeOK
<1> QED BY <1>2, <1>6, <1>7, <1>8

(* Who falls asleep has looked.                                            *)
LEMMA SmpWait ==
  ASSUME SmpInv, NEW r \in Readers, Wait(r)
  PROVE  SmpInv'
<1>1. /\ rpc[r] = "wait"
      /\ rpc' = [rpc EXCEPT ![r] = IF HasStamp(r) THEN "lock" ELSE "asleep"]
      /\ UNCHANGED <<events, fifo, tsbuf, bhead, btail, irqOn, ipc, imask, ih,
                     it, rtnl, req, rch, rt, reply, atCall, returned,
                     dropped>>
  BY DEF Wait, ringVars, irqVars
<1>2. /\ \A x \in Readers \ {r} : rpc'[x] = rpc[x]
      /\ rpc'[r] \in {"lock", "asleep"}
      /\ rpc'[r] = "asleep" => ~HasStamp(r)'
  BY <1>1 DEF HasStamp, SmpInv, TypeOK, ReadTypeOK
<1>3. TypeOK'
  BY <1>1 DEF SmpInv, TypeOK, RingTypeOK, IrqTypeOK, ReadTypeOK
<1>4. LockHeld'
  <2>1. \A x \in Readers : Inside(x)' <=> Inside(x)
    BY <1>1, <1>2 DEF Inside
  <2> QED BY <1>1, <2>1 DEF SmpInv, LockHeld
<1>5. ReaderShared(r)'
  BY <1>1, <1>2 DEF SmpInv, ReaderShared, Between
<1> QED BY <1>1, <1>2, <1>3, <1>4, <1>5, OthersKept DEF SmpInv

LEMMA SmpAgain ==
  ASSUME SmpInv, NEW r \in Readers, Again(r)
  PROVE  SmpInv'
<1>1. /\ rpc[r] = "lock" /\ rtnl = NoOne /\ rtnl' = r
      /\ rpc' = [rpc EXCEPT ![r] = "check"]
      /\ rch' = [rch EXCEPT ![r] = Min(req[r].chans)]
      /\ UNCHANGED <<events, fifo, tsbuf, bhead, btail, irqOn, ipc, imask, ih,
                     it, req, rt, reply, atCall, returned, dropped>>
  BY DEF Again, ringVars, irqVars
<1>2. /\ \A x \in Readers \ {r} : rpc'[x] = rpc[x] /\ rch'[x] = rch[x]
      /\ rpc'[r] = "check"
      /\ \A x \in Readers : ~Inside(x) /\ reply[x] = << >>
      /\ req[r].chans \subseteq Channel /\ req[r].chans # {}
  BY <1>1, ReadersAssumption
     DEF SmpInv, TypeOK, ReadTypeOK, LockHeld, ReaderShared
<1>3. Min(req[r].chans) \in Channel
  BY <1>2, MinChannel
<1>4. TypeOK'
  BY <1>1, <1>3 DEF SmpInv, TypeOK, RingTypeOK, IrqTypeOK, ReadTypeOK
<1>5. LockHeld'
  BY <1>1, <1>2 DEF LockHeld, Inside
<1>6. ReaderShared(r)'
  BY <1>1, <1>2 DEF ReaderShared, Between
<1> QED BY <1>1, <1>2, <1>4, <1>5, <1>6, OthersKept DEF SmpInv

LEMMA SmpSignal ==
  ASSUME SmpInv, NEW r \in Readers, Signal(r)
  PROVE  SmpInv'
<1>1. /\ rpc[r] \in {"wait", "asleep", "lock"} /\ rtnl' = rtnl /\ Leave(r)
      /\ UNCHANGED <<events, fifo, tsbuf, bhead, btail, irqOn, ipc, imask, ih,
                     it, returned, dropped>>
  BY DEF Signal, ringVars, irqVars
<1>2. /\ ReadTypeOK'
      /\ \A x \in Readers \ {r} : /\ rpc'[x] = rpc[x] /\ req'[x] = req[x]
                                  /\ rch'[x] = rch[x] /\ reply'[x] = reply[x]
      /\ rpc'[r] = "idle" /\ reply'[r] = << >> /\ ReaderShared(r)'
  BY <1>1, LeaveTypes DEF SmpInv, TypeOK
<1>3. RingTypeOK' /\ IrqTypeOK'
  BY <1>1 DEF SmpInv, TypeOK, RingTypeOK, IrqTypeOK
<1>4. LockHeld'
  <2>1. \A x \in Readers : Inside(x)' <=> Inside(x)
    BY <1>1, <1>2 DEF Inside
  <2> QED BY <1>1, <1>2, <2>1 DEF SmpInv, LockHeld
<1> QED BY <1>1, <1>2, <1>3, <1>4, OthersKept DEF SmpInv, TypeOK

(* Every step, on any number of processors.                                *)
LEMMA SmpStep ==
  ASSUME SmpInv, [StampNext]_stampVars
  PROVE  SmpInv'
<1>1. CASE \E c \in Channel : StampEdge(c)
  BY <1>1, SmpEdge
<1>2. CASE IrqEnter \/ IrqRest
  BY <1>2, SmpEnter, SmpTake, SmpCompare, SmpDrop, SmpFill, SmpNext DEF IrqRest
<1>3. CASE \E r \in Readers : Call(r) \/ Signal(r)
  BY <1>3, SmpCall, SmpSignal
<1>4. CASE \E r \in Readers : ReadRest(r)
  BY <1>4, SmpCheckMore, SmpCopy, SmpLoad, SmpStore, SmpReturn, SmpCheckNone,
     SmpWait, SmpAgain DEF ReadRest
<1>5. CASE UNCHANGED stampVars
  <2>1. UNCHANGED <<events, fifo, tsbuf, bhead, btail, irqOn, ipc, imask, ih,
                    it, rtnl, rpc, req, rch, rt, reply, atCall, returned,
                    dropped>>
    BY <1>5 DEF stampVars, ringVars, irqVars, readVars
  <2>2. RingTypeOK' /\ IrqTypeOK'
    BY <2>1 DEF SmpInv, TypeOK, RingTypeOK, IrqTypeOK
  <2>3. IrqShared' /\ \A c \in Channel : Len(fifo'[c]) <= events'[c]
    BY <2>1 DEF SmpInv, IrqShared
  <2>4. \A c \in Channel : Filled(c) => Filled(c)'
    BY <2>1 DEF Filled
  <2>5. NoSleepOverStamp'
    BY <2>1 DEF SmpInv, NoSleepOverStamp, HasStamp
  <2> QED BY <2>1, <2>2, <2>3, <2>4, <2>5, ReadersKept DEF SmpInv, TypeOK
<1> QED BY <1>1, <1>2, <1>3, <1>4, <1>5 DEF StampNext

(* Every variable keeps its type, on any number of processors: the indexes *)
(* of wrn_dio_cmd_stamp and wrn_dio_interrupt stay in tsbuf[], and         *)
(* cmd->t[] never gets more than WR_DIO_N_STAMP stamps.                    *)
THEOREM StampTypeCorrect == StampSpec => []TypeOK
<1>1. SmpInv => TypeOK
  BY DEF SmpInv
<1> QED BY <1>1, SmpInit, SmpStep, PTL DEF StampSpec

(* wait_event_interruptible in wrn_dio_cmd_stamp, with the lock dropped,   *)
(* against wrn_dio_interrupt and other readers, which share the ring with  *)
(* no lock on any number of processors: whoever sleeps has an empty ring,  *)
(* or the interrupt that filled it is still to wake the sleepers.          *)
THEOREM SleepCorrect == StampSpec => []NoSleepOverStamp
<1>1. SmpInv => NoSleepOverStamp
  BY DEF SmpInv
<1> QED BY <1>1, SmpInit, SmpStep, PTL DEF StampSpec
=============================================================================
