----------------------------- MODULE Lm32Tools ------------------------------
(***************************************************************************)
(* The tools that work on the soft processor of the gateware through the   *)
(* BARs they map: spec-cl loads a program into its memory, spec-vuart is a *)
(* terminal on its virtual UART, specmem writes one word of it.  None of   *)
(* them knows of the others.  Left out: command lines, the search for the  *)
(* card, the mapping and printing.                                         *)
(*                                                                         *)
(* A word is <<program, index>>; a key is its number.                      *)
(***************************************************************************)
EXTENDS Integers, Sequences

CONSTANTS
  MemWords,   \* words of memory of the processor
  Loaders,    \* runs of spec-cl that may be under way at a time
  Terms,      \* runs of spec-vuart that may be under way at a time
  MaxProgs,   \* bound on the programs loaded
  MaxKeys,    \* bound on the keys typed
  MaxSaid,    \* bound on the bytes the processor sends
  MaxPokes    \* bound on the words written with specmem

ASSUME LmAssumption ==
  {MemWords, MaxProgs, MaxKeys, MaxSaid, MaxPokes} \subseteq Nat /\ MemWords > 0

VARIABLES
  lmem,       \* memory of the processor
  askHeld,    \* the reset bit as written last
  held,       \* is the processor in reset? (bit 28 reads back)
  clpc, prog, len, at,  \* per spec-cl: where it is, its program, length, word
  progs,      \* programs loaded so far
  poked,      \* words changed with specmem and not verified since
  pokes,
  tdr, rdr,   \* registers of the UART, to and from the processor; 0 is empty
  tpc, key,   \* per terminal: where it is, the byte it transfers
  leaving,    \* per terminal: need_exit
  stdin,      \* per terminal: keys to read; 0 is C-a or the end of the input
  typed,      \* keys typed so far
  heard,      \* bytes the processor received
  said, seen  \* bytes it sent, and those that were printed

clVars == <<clpc, prog, len, at, progs>>
memVars == <<lmem, askHeld, held, poked, pokes>>
termVars == <<tpc, key, leaving, stdin, typed, seen>>
uartVars == <<tdr, rdr, heard, said>>
lmVars == <<clVars, memVars, termVars, uartVars>>

Quit == 0
Boot == [i \in 1..MemWords |-> <<0, i>>]

LmInit ==
  /\ lmem = Boot /\ askHeld = FALSE /\ held = FALSE
  /\ clpc = [l \in Loaders |-> "idle"]
  /\ prog = [l \in Loaders |-> 0]
  /\ len = [l \in Loaders |-> 0]
  /\ at = [l \in Loaders |-> 0]
  /\ progs = 0
  /\ poked = {} /\ pokes = 0
  /\ tdr = 0 /\ rdr = 0
  /\ tpc = [t \in Terms |-> "off"]
  /\ key = [t \in Terms |-> 0]
  /\ leaving = [t \in Terms |-> FALSE]
  /\ stdin = [t \in Terms |-> << >>]
  /\ typed = 0 /\ heard = << >> /\ said = 0 /\ seen = << >>

-----------------------------------------------------------------------------
(* spec-cl: spec_load_lm32                                                 *)

Goto(l, pc) == clpc' = [clpc EXCEPT ![l] = pc]

\* The file may be longer than the memory: addresses wrap there.
Cell(i) == 1 + ((i - 1) % MemWords)

\* The file was read; "0x1deadbee".
LmHold(l, n) ==
  /\ clpc[l] = "idle"
  /\ progs < MaxProgs
  /\ progs' = progs + 1
  /\ prog' = [prog EXCEPT ![l] = progs']
  /\ len' = [len EXCEPT ![l] = n]
  /\ at' = [at EXCEPT ![l] = 1]
  /\ askHeld' = TRUE
  /\ Goto(l, "held?")
  /\ UNCHANGED <<lmem, held, poked, pokes, termVars, uartVars>>

LmIsHeld(l) ==
  /\ clpc[l] = "held?"
  /\ held
  /\ Goto(l, "write")
  /\ UNCHANGED <<prog, len, at, progs, memVars, termVars, uartVars>>

LmWrite(l) ==
  /\ clpc[l] = "write"
  /\ at[l] <= len[l]
  /\ lmem' = [lmem EXCEPT ![Cell(at[l])] = <<prog[l], at[l]>>]
  /\ poked' = poked \ {Cell(at[l])}
  /\ at' = [at EXCEPT ![l] = @ + 1]
  /\ UNCHANGED <<clpc, prog, len, progs, askHeld, held, pokes, termVars, uartVars>>

LmWritten(l) ==
  /\ clpc[l] = "write"
  /\ at[l] > len[l]
  /\ at' = [at EXCEPT ![l] = 1]
  /\ Goto(l, "verify")
  /\ UNCHANGED <<prog, len, progs, memVars, termVars, uartVars>>

\* Mutant: a word that differs is reported, and the next one is verified.
LmVerifyGoesOn(l) ==
  /\ clpc[l] = "verify"
  /\ at[l] <= len[l]
  /\ at' = [at EXCEPT ![l] = @ + 1]
  /\ UNCHANGED <<clpc, prog, len, progs, memVars, termVars, uartVars>>

\* "programming error": the processor is left in reset.
LmVerify(l) ==
  /\ clpc[l] = "verify"
  /\ at[l] <= len[l]
  /\ IF lmem[Cell(at[l])] = <<prog[l], at[l]>>
     THEN /\ at' = [at EXCEPT ![l] = @ + 1]
          /\ UNCHANGED clpc
     ELSE /\ at' = [at EXCEPT ![l] = 1]
          /\ Goto(l, "idle")
  /\ UNCHANGED <<prog, len, progs, memVars, termVars, uartVars>>

\* "0x0deadbee"
LmRelease(l) ==
  /\ clpc[l] = "verify"
  /\ at[l] > len[l]
  /\ askHeld' = FALSE
  /\ at' = [at EXCEPT ![l] = 1]
  /\ Goto(l, "idle")
  /\ UNCHANGED <<prog, len, progs, lmem, held, poked, pokes, termVars, uartVars>>

\* spec-cl is interrupted.
LmKill(l) ==
  /\ clpc[l] # "idle"
  /\ at' = [at EXCEPT ![l] = 1]
  /\ Goto(l, "idle")
  /\ UNCHANGED <<prog, len, progs, memVars, termVars, uartVars>>

\* specmem writes a word.
Poke(i) ==
  /\ pokes < MaxPokes
  /\ pokes' = pokes + 1
  /\ lmem' = [lmem EXCEPT ![i] = <<-1, i>>]
  /\ poked' = IF \E l \in Loaders : clpc[l] = "write" \/ (clpc[l] = "verify" /\ at[l] <= i)
              THEN poked ELSE poked \cup {i}
  /\ UNCHANGED <<clVars, askHeld, held, termVars, uartVars>>

\* The gateware (external): the processor enters and leaves its reset.
LmObey ==
  /\ held # askHeld
  /\ held' = askHeld
  /\ UNCHANGED <<clVars, lmem, askHeld, poked, pokes, termVars, uartVars>>

-----------------------------------------------------------------------------
(* spec-vuart: term_main                                                   *)

Step(t, pc) == tpc' = [tpc EXCEPT ![t] = pc]

TermStart(t) ==
  /\ tpc[t] = "off"
  /\ leaving' = [leaving EXCEPT ![t] = FALSE]
  /\ Step(t, "select")
  /\ UNCHANGED <<clVars, memVars, uartVars, key, stdin, typed, seen>>

\* The user (external): a key, C-a or the end of the input.
Type(t, quit) ==
  /\ tpc[t] # "off"
  /\ typed < MaxKeys
  /\ \A k \in 1..Len(stdin[t]) : stdin[t][k] # Quit
  /\ typed' = IF quit THEN typed ELSE typed + 1
  /\ stdin' = [stdin EXCEPT ![t] = Append(@, IF quit THEN Quit ELSE typed')]
  /\ UNCHANGED <<clVars, memVars, uartVars, tpc, key, leaving, seen>>

\* select: a key is there ...
TermKey(t) ==
  /\ tpc[t] = "select"
  /\ stdin[t] # << >>
  /\ stdin' = [stdin EXCEPT ![t] = Tail(@)]
  /\ IF Head(stdin[t]) = Quit
     THEN leaving' = [leaving EXCEPT ![t] = TRUE] /\ Step(t, "drain") /\ UNCHANGED key
     ELSE key' = [key EXCEPT ![t] = Head(stdin[t])] /\ Step(t, "tx") /\ UNCHANGED leaving
  /\ UNCHANGED <<clVars, memVars, uartVars, typed, seen>>

\* ... or ten milliseconds are over.
TermTimeout(t) ==
  /\ tpc[t] = "select"
  /\ stdin[t] = << >>
  /\ Step(t, "drain")
  /\ UNCHANGED <<clVars, memVars, uartVars, key, leaving, stdin, typed, seen>>

\* Mutant: the byte is written without waiting for the register.
TxReadyAlways(t) ==
  /\ tpc[t] = "tx"
  /\ Step(t, "txw")
  /\ UNCHANGED <<clVars, memVars, uartVars, key, leaving, stdin, typed, seen>>

\* vuart_tx: the register must be empty ...
TxReady(t) ==
  /\ tpc[t] = "tx"
  /\ tdr = 0
  /\ Step(t, "txw")
  /\ UNCHANGED <<clVars, memVars, uartVars, key, leaving, stdin, typed, seen>>

\* ... and is written.
TxWrite(t) ==
  /\ tpc[t] = "txw"
  /\ tdr' = key[t]
  /\ key' = [key EXCEPT ![t] = 0]
  /\ Step(t, "drain")
  /\ UNCHANGED <<clVars, memVars, rdr, heard, said, leaving, stdin, typed, seen>>

\* vuart_rx until there is nothing; reading the register empties it.
Drain(t) ==
  /\ tpc[t] = "drain"
  /\ IF rdr # 0
     THEN seen' = Append(seen, rdr) /\ rdr' = 0 /\ UNCHANGED tpc
     ELSE Step(t, IF leaving[t] THEN "off" ELSE "select") /\ UNCHANGED <<seen, rdr>>
  /\ UNCHANGED <<clVars, memVars, tdr, heard, said, key, leaving, stdin, typed>>

\* The program on the processor (external).
LmHears ==
  /\ ~held
  /\ tdr # 0
  /\ heard' = Append(heard, tdr)
  /\ tdr' = 0
  /\ UNCHANGED <<clVars, memVars, termVars, rdr, said>>

LmSays ==
  /\ ~held
  /\ rdr = 0
  /\ said < MaxSaid
  /\ said' = said + 1
  /\ rdr' = said'
  /\ UNCHANGED <<clVars, memVars, termVars, tdr, heard>>

-----------------------------------------------------------------------------
LmLoad(l) == LmIsHeld(l) \/ LmWrite(l) \/ LmWritten(l) \/ LmVerify(l) \/ LmRelease(l)
Term(t) == TermKey(t) \/ TermTimeout(t) \/ TxReady(t) \/ TxWrite(t) \/ Drain(t)
LmUser ==
  \/ \E l \in Loaders, n \in 1..MemWords + 1 : LmHold(l, n)
  \/ \E l \in Loaders : LmKill(l)
  \/ \E i \in 1..MemWords : Poke(i)
  \/ \E t \in Terms, quit \in BOOLEAN : Type(t, quit)
  \/ \E t \in Terms : TermStart(t)
LmTools == (\E l \in Loaders : LmLoad(l)) \/ (\E t \in Terms : Term(t))
LmHardware == LmObey \/ LmHears \/ LmSays

-----------------------------------------------------------------------------
(* Properties *)

(* The processor never runs a mixture: unless specmem changed it, its      *)
(* memory begins with a whole program, whatever load failed, did not fit   *)
(* or was interrupted before.                                              *)
Whole(p, n) == \A i \in 1..n : lmem[i] = <<p, i>>
NoMixture ==
  ~held /\ poked = {} =>
    \E p \in 0..progs : \E n \in 1..MemWords :
      /\ Whole(p, n)
      /\ \A i \in n + 1..MemWords : lmem[i][1] # p
      /\ \A l \in Loaders : prog[l] = p /\ p # 0 => n = len[l]

(* What was typed reaches the processor once and in order, and what it     *)
(* sent is printed so (one terminal).                                      *)
OneTo(n) == [i \in 1..n |-> i]
One(b) == IF b = 0 THEN << >> ELSE <<b>>
Keys(s) == IF s # << >> /\ s[Len(s)] = Quit THEN SubSeq(s, 1, Len(s) - 1) ELSE s
SerialLine ==
  /\ \A t \in Terms :
       heard \o One(tdr) \o One(key[t]) \o Keys(stdin[t]) = OneTo(typed)
  /\ seen \o One(rdr) = OneTo(said)

(* The same of what was typed, for several terminals: no byte is lost.     *)
NoKeyLost ==
  \A k \in 1..typed :
    \/ k = tdr \/ \E i \in DOMAIN heard : heard[i] = k
    \/ \E t \in Terms : k = key[t] \/ \E i \in DOMAIN stdin[t] : stdin[t][i] = k

(* C-a ends a terminal, whatever the processor does.                       *)
QuitQuits ==
  \A t \in Terms : (\E k \in DOMAIN stdin[t] : stdin[t][k] = Quit) ~> tpc[t] = "off"
=============================================================================
