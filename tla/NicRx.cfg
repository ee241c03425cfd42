\* Three descriptors and five frames: the ring wraps, fills up, and the NIC
\* refills a descriptor while the frame it held is still being delivered.
SPECIFICATION FairSpec
CONSTANTS
  NDesc = 3
  MaxFrames = 5
INVARIANTS
  RingInv
  NoLostWakeup
PROPERTIES
  ImplementsFifo
  EveryFrameHandled
CHECK_DEADLOCK FALSE
