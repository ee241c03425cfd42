\* One card, every way to load, unload, probe and remove.
SPECIFICATION LifeSpec
CONSTANTS
  NTx = 2
INVARIANTS
  
  WiredUp
  NothingLeft
