\* All three sources of wr-nic, with messages, an INTx line of its own and one
\* that is shared with another board, which may then have the handler called at
\* any time.  Four events: several sources pending, two events of one source.
SPECIFICATION FairDeliverySpec
CONSTANTS
  Sources = {txtsu, nic, dio}
  None = None
  MaxEvents = 4
INVARIANTS
  
  VicNotForgotten
PROPERTIES
  EveryEventServed
CHECK_DEADLOCK FALSE
