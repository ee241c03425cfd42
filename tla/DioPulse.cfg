\* Up to three requests of every kind, the next one at any moment.
SPECIFICATION Spec
CONSTANTS
  MaxValue = 3
  MaxCalls = 3
  MaxPulses = 6
  None = None
  OneCpu = TRUE
INVARIANTS
  TrainExact
  CountObeyed
CHECK_DEADLOCK FALSE
