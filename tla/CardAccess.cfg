\* Two loads of files of up to six words through a FIFO of four; an EEPROM of
\* two bytes of two bits, read and written twice; one spec-cl, one terminal.
\* A card that was loaded as often as it may be, or failed to, is at rest.
SPECIFICATION FairSpec
CONSTANTS
  Burst = 2
  Depth = 4
  MaxWords = 6
  MaxLoads = 2
  MayRefuse = TRUE
  Bits = 2
  SIZE = 2
  MaxCalls = 2
  MinRead = 1
  MemWords = 2
  Loaders = {l1}
  Terms = {t1}
  MaxProgs = 2
  MaxKeys = 2
  MaxSaid = 1
  MaxPokes = 1
INVARIANTS
  FileArrives
  CacheIsChip
  NoMixture
  
PROPERTIES
  EepromCallEnds
CHECK_DEADLOCK FALSE
