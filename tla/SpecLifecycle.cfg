\* One caller at a time, one device, drivers that come and go beside it.
SPECIFICATION CardSpec
CONSTANTS
  Caller = {c1}
  Dev = {d1}
  NoDev = NoDev
  NFiles = 1
INVARIANTS
  ActsUnderGolden
  KnowsFpga
  NoLoadUnderDriver
  OneStory
PROPERTIES
  EveryCallReturns
