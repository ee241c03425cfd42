\* One sender and one listener, each started up to three times.  Stamps do not
\* come; besides, senders are killed, or listeners, or frames are lost, or are
\* not sent, or stamps come late, or others use the network.
SPECIFICATION Spec
CONSTANTS
  Senders = {spusa}
  Listeners = {tornado}
  MaxRuns = 3
  MaxSent = 6
  FaultSets = {{"stampLost", "kill"}, {"stampLost", "stop"},
               {"stampLost", "frameLost"}, {"stampLost", "sendFails"},
               {"stampLost", "stampLate"}, {"stampLost", "foreign"}}
INVARIANTS
  OneExchange
  OneSpoiltPerKill
PROPERTIES
  EveryExchangeEnds
CHECK_DEADLOCK FALSE
