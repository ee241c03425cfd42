----------------------------- MODULE MCDioRuler -----------------------------
(***************************************************************************)
(* The command lines of DioRuler's run.                                    *)
(***************************************************************************)
EXTENDS DioRuler

Decimal(s, d) == [sec |-> s, digits |-> d]

\* L1+.02 R1+.05
MCActionArgs == <<
  [where |-> "L", channel |-> 1, delay |-> Decimal(0, <<0, 2>>)],
  [where |-> "R", channel |-> 1, delay |-> Decimal(0, <<0, 5>>)]>>

\* Channels left out or named twice, letters of every core, and an error.
MCModeArgs == {
  <<<<0, "P">>, <<1, "D">>>>,
  <<<<0, "I">>, <<1, "1">>>>,
  <<<<1, "i">>, <<1, "C">>>>,
  <<<<1, "c">>, <<0, "-">>>>,
  <<<<1, "I">>, <<0, "d">>>>}

\* Now, at 1.1, late in this second.
MCPulseArgs == {
  [channel |-> 1, when |-> "now", time |-> Decimal(0, << >>)],
  [channel |-> 1, when |-> "at", time |-> Decimal(1, <<1>>)],
  [channel |-> 0, when |-> "+", time |-> Decimal(0, <<9, 9>>)]}
=============================================================================
