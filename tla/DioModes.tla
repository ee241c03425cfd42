------------------------------ MODULE DioModes ------------------------------
(***************************************************************************)
(* Modes of the DIO channels: what "wr-dio-cmd mode" makes of its          *)
(* arguments (wr-dio-cmd.c), what the driver writes for it to IOMODE and   *)
(* to the GPIO block (wrn_dio_cmd_inout), and what a pulse does to IOMODE. *)
(* An ioctl runs under the rtnl lock: it is one step.                      *)
(*                                                                         *)
(* A command is a sequence of pairs, channel and letter; the form with     *)
(* five letters is the one with the five channels in order.  cmd->value    *)
(* is kept as the set of bits that each channel gets.                      *)
(***************************************************************************)
EXTENDS Integers, Sequences

CONSTANTS
  Boards,    \* carriers with a DIO mezzanine
  Channels,  \* channels of each
  ModeArgs,  \* arguments that the user may give to "mode"
  MaxCommands  \* bound on the user's commands in a run

ASSUME ChannelsAssumption == Channels \subseteq 0..4
ASSUME CommandsAssumption == MaxCommands \in Nat

VARIABLES
  iomode,  \* IOMODE of each channel: core selected, input only, termination
  gpio,    \* level of each channel in the GPIO block
  commands,  \* commands so far
  asked,   \* history: letters that the last command gave a channel
  pulsed   \* history: was there a pulse ioctl since?

modeVars == <<iomode, gpio, asked, pulsed>>

Letters == {"I", "i", "0", "1", "D", "d", "P", "p", "C", "c"}
Bits == {"dio", "value", "output", "term"}

\* "By default as mode p00ic": the gateware's reset values (external).
AtReset(c) == <<"p", "0", "0", "i", "c">>[c + 1]

\* Mutant: the capital letters do not fall through.
one_mode_break(l) ==
  (IF l \in {"D", "C", "P", "I"} THEN {"term"} ELSE {})
    \cup (IF l \in {"d", "c", "p"} THEN {"dio"} ELSE {})
    \cup (IF l \in {"c", "p", "1"} THEN {"value"} ELSE {})
    \cup (IF l \in {"d", "p", "1", "0"} THEN {"output"} ELSE {})

one_mode(l) ==
  (IF l \in {"D", "C", "P", "I"} THEN {"term"} ELSE {})
    \cup (IF l \in {"D", "d", "C", "c", "P", "p"} THEN {"dio"} ELSE {})
    \cup (IF l \in {"C", "c", "P", "p", "1"} THEN {"value"} ELSE {})
    \cup (IF l \in {"D", "d", "P", "p", "1", "0"} THEN {"output"} ELSE {})

\* Channel 0 is no general output; any error is met before the ioctl.
Refused(args) ==
  \E k \in DOMAIN args : LET c == args[k][1]  l == args[k][2] IN
    \/ c \notin 0..4
    \/ l # "-" /\ l \notin Letters
    \/ c = 0 /\ l \in {"d", "D", "0", "1"}

LettersFor(args, c) == {args[k][2] : k \in {j \in DOMAIN args : args[j][1] = c}} \ {"-"}

\* The bits of a channel named twice are or'ed.
ValueFor(args, c) == UNION {one_mode(l) : l \in LettersFor(args, c)}

ModeReg(bits) ==
  [sel  |-> IF "dio" \notin bits THEN 0 ELSE IF "value" \in bits THEN 2 ELSE 1,
   oen  |-> "output" \notin bits,
   term |-> "term" \in bits]

ModeInit ==
  /\ iomode = [b \in Boards |-> [c \in Channels |-> ModeReg(one_mode(AtReset(c)))]]
  /\ gpio = [b \in Boards |-> [c \in Channels |-> 0]]
  /\ commands = 0
  /\ asked = [b \in Boards |-> [c \in Channels |-> {AtReset(c)}]]
  /\ pulsed = [b \in Boards |-> [c \in Channels |-> FALSE]]

\* wr-dio-cmd mode, and the ioctl.
Mode(b, args) ==
  /\ commands < MaxCommands
  /\ commands' = commands + 1
  /\ ~Refused(args)
  /\ LET mask == {c \in Channels : LettersFor(args, c) # {}} IN
       /\ iomode' = [iomode EXCEPT ![b] = [c \in Channels |->
            IF c \in mask THEN ModeReg(ValueFor(args, c)) ELSE @[c]]]
       /\ gpio' = [gpio EXCEPT ![b] = [c \in Channels |->
            IF c \notin mask \/ "dio" \in ValueFor(args, c) THEN @[c]
            ELSE IF "value" \in ValueFor(args, c) THEN 1 ELSE 0]]
       /\ asked' = [asked EXCEPT ![b] = [c \in Channels |->
            IF c \in mask THEN LettersFor(args, c) ELSE @[c]]]
       /\ pulsed' = [pulsed EXCEPT ![b] = [c \in Channels |->
            c \notin mask /\ @[c]]]

\* A refused command does not get as far as the ioctl.
ModeRefused(args) ==
  /\ commands < MaxCommands
  /\ commands' = commands + 1
  /\ Refused(args)
  /\ UNCHANGED <<iomode, gpio, asked, pulsed>>

\* "First, configure this bit as DIO output": one bit is or'ed in, the output
\* enable is left as it is.
SelectDio(b, c) ==
  /\ iomode' = [iomode EXCEPT ![b][c].sel = IF @ % 2 = 0 THEN @ + 1 ELSE @]
  /\ pulsed' = [pulsed EXCEPT ![b][c] = TRUE]
  /\ UNCHANGED <<gpio, asked>>

-----------------------------------------------------------------------------
(* What the manual says of the modes (spec-sw.in, "list of supported       *)
(* modes"): who drives or reads the channel, direction and termination.    *)
Manual(l) ==
  [core |-> CASE l \in {"I", "i", "0", "1"} -> "gpio"
              [] l \in {"D", "d"} -> "dio"
              [] l \in {"P", "p", "C", "c"} -> "wr",
   input |-> l \in {"I", "i", "C", "c"},
   term |-> l \in {"I", "D", "P", "C"}]

CoreOf(sel) == <<"gpio", "dio", "wr", "none">>[sel + 1]

(* Whatever commands came, a channel that the last one named once is in    *)
(* the mode of the manual: the letter goes through the bits of cmd->value, *)
(* shifts and masks to the register.  A pulse since may have taken the     *)
(* channel from GPIO to DIO, and touches nothing else of it.               *)
ModeHolds ==
  \A b \in Boards, c \in Channels : \A l \in Letters :
    asked[b][c] = {l} =>
      /\ iomode[b][c].oen = Manual(l).input
      /\ iomode[b][c].term = Manual(l).term
      /\ ~pulsed[b][c] => CoreOf(iomode[b][c].sel) = Manual(l).core
      /\ pulsed[b][c] /\ Manual(l).core # "wr" => CoreOf(iomode[b][c].sel) = "dio"
      /\ l \in {"0", "1"} => gpio[b][c] = IF l = "1" THEN 1 ELSE 0
=============================================================================
