\* Two channels with rings of two slots, three edges: one overflows the
\* ring of a channel while the reader, alone or with a mask, is in the middle
\* of it, and replies fill up.
SPECIFICATION FairSpec
CONSTANTS
  NCh = 2
  NBuf = 2
  NReply = 1
  MaxEvents = 3
  Readers = {r1}
  NoOne = NoOne
  OneCpu = TRUE
INVARIANTS
  RingIsSuffix
  InOrderUntilOverflow
PROPERTIES
  SleeperWoken
  FlushedAtEagain
CHECK_DEADLOCK FALSE
