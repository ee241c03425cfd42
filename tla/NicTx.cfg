\* Two descriptors and four frames: the ring is full, wraps and is refused;
\* IdSpace 3 makes the frame ids wrap too.
SPECIFICATION FairSpec
CONSTANTS
  NDesc = 2
  MaxFrames = 4
  IdSpace = 3
  Stamping = {TRUE, FALSE}
INVARIANTS
  RingInv
  SkbOwnership
PROPERTIES
  ImplementsFifo
  EveryAcceptedSent
CHECK_DEADLOCK FALSE
