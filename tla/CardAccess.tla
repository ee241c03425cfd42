----------------------------- MODULE CardAccess -----------------------------
(***************************************************************************)
(* A card from its load to its use: a load of the FPGA by the driver or by *)
(* spec-fwloader, and on a gateware that answers either the EEPROM as the  *)
(* driver reads and writes it or the tools that work on the LM32; then,    *)
(* maybe, the next load.  The parts follow each other: what a writer does  *)
(* to the EEPROM accesses of another is in SpecLifecycle.                  *)
(***************************************************************************)
EXTENDS FpgaLoader, FmcEeprom, Lm32Tools

VARIABLE stage   \* "load", "eeprom" or "tools"
vars == <<stage, loaderVars, eepromVars, lmVars>>

Init ==
  /\ LoaderInit
  /\ EepromInit /\ present /\ chip.mem = [o \in Offset |-> 0]
  /\ LmInit
  /\ stage = "load"

Load ==
  /\ stage = "load"
  /\ \/ \E who \in {"driver", "tool"} : LoadEnter(who) \/ LoadNoFile(who)
     \/ LoaderStep
     \/ Fpga
  /\ UNCHANGED <<stage, eepromVars, lmVars>>

\* The load has returned, and what the software knew of it is forgotten.
Forget ==
  /\ stage = "load"
  /\ lpc = "idle"
  /\ result = "ok"
  /\ fpga = "configured"
  /\ caller' = "driver"
  /\ size32' = 0
  /\ wrote' = 0
  /\ burst' = 0
  /\ done' = FALSE
  /\ lowRet' = TRUE
  /\ result' = "none"
  /\ fifo' = << >>
  /\ got' = 0
  /\ file' = NoFile
  /\ UNCHANGED <<lpc, loads, bootsel, irq, fpga, inReset>>

\* check_golden found the gateware: spec_i2c_init is next.  Whether there is a
\* mezzanine, and what its EEPROM holds, is chosen only now.
ToEeprom ==
  /\ caller = "driver"
  /\ epc = "start"
  /\ Forget
  /\ stage' = "eeprom"
  /\ present' \in BOOLEAN
  /\ \E m \in Image : chip' = [chip EXCEPT !.mem = m]
  /\ UNCHANGED <<driverVars, sda, scl, lmVars>>

ToTools ==
  /\ Forget
  /\ stage' = "tools"
  /\ UNCHANGED <<eepromVars, lmVars>>

Eeprom ==
  /\ stage = "eeprom"
  /\ EepromStep \/ EepromCall \/ ChipWritten
  /\ UNCHANGED <<stage, loaderVars, lmVars>>

Tools ==
  /\ stage = "tools"
  /\ LmUser \/ LmTools \/ LmHardware
  /\ UNCHANGED <<stage, loaderVars, eepromVars>>

\* Another load: the LM32 and its memory go with the gateware they are in.
Reload ==
  /\ stage = "tools"
  /\ loads < MaxLoads
  /\ \A l \in Loaders : clpc[l] = "idle"
  /\ \A t \in Terms : tpc[t] = "off"
  /\ stage' = "load"
  /\ lmem' = Boot /\ askHeld' = FALSE /\ held' = FALSE
  /\ prog' = [l \in Loaders |-> 0] /\ len' = [l \in Loaders |-> 0]
  /\ progs' = 0 /\ poked' = {} /\ pokes' = 0
  /\ tdr' = 0 /\ rdr' = 0
  /\ stdin' = [t \in Terms |-> << >>]
  /\ typed' = 0 /\ heard' = << >> /\ said' = 0 /\ seen' = << >>
  /\ UNCHANGED <<clpc, at, tpc, key, leaving, loaderVars, eepromVars>>

Next == Load \/ ToEeprom \/ ToTools \/ Eeprom \/ Tools \/ Reload

\* The routines go on, a write cycle of the EEPROM and the FPGA as well; no
\* call has to be made.
During(s, A) == stage = s /\ A /\ UNCHANGED stage
Fairness ==
  /\ WF_vars(During("load", LoaderStep /\ UNCHANGED <<eepromVars, lmVars>>))
  /\ WF_vars(During("load", FpgaTake /\ UNCHANGED <<eepromVars, lmVars>>))
  /\ WF_vars(During("eeprom", EepromStep /\ UNCHANGED <<loaderVars, lmVars>>))
  /\ WF_vars(During("eeprom", ChipWritten /\ UNCHANGED <<loaderVars, lmVars>>))
  /\ WF_vars(During("tools", LmTools /\ UNCHANGED <<loaderVars, eepromVars>>))
  /\ WF_vars(During("tools", LmHardware /\ UNCHANGED <<loaderVars, eepromVars>>))

Spec == Init /\ [][Next]_vars
FairSpec == Spec /\ Fairness
=============================================================================
