\* Three cycles in a second and four seconds: every register read may fall on
\* either side of a roll-over, and the driver may be more than a second late.
SPECIFICATION PpsSpec
CONSTANTS
  Cycles = 3
  MaxSec = 4
INVARIANTS
  ReadBetween
  StampSecond
CHECK_DEADLOCK FALSE
