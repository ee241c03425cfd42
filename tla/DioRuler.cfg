\* "wr-dio-ruler wr1 IN0 L1+.02 R1+.05", two edges around the end of a second
\* of 100 ticks, a mode command and a pulse command at any moment.
SPECIFICATION Spec
CONSTANTS
  NSEC = 100
  Digits = 2
  Local = Local
  Remote = Remote
  Boards = {Local, Remote}
  Channels = {0, 1}
  InCh = 0
  ActionArgs <- MCActionArgs
  ModeArgs <- MCModeArgs
  PulseArgs <- MCPulseArgs
  MaxCommands = 1
  NStamp = 1
  Start = 98
  MaxTicks = 10
  MaxEdges = 2
  LastEdge = 5
  MaxForeign = 1
INVARIANTS
  PulsesAsAsked
  
  ModeHolds
CHECK_DEADLOCK FALSE
