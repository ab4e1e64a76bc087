\* Two hooks, a scatter-gather consumer that may be killed and run again, the first lap
\* of two slots.  The system stops when the client is done and the last packet has passed.
CONSTANTS
  h1 = h1
  h2 = h2
  c1 = c1
  c2 = c2
  None = None
  Hooks = {h1, h2}
  Clients = {c1}
  Fields <- MCNoFields
  Slots = 3
  TicketMod = 16
  Modes <- MCScatter
  MaxPackets = 3
  MaxStarts = 2
SPECIFICATION FairSpec
INVARIANT NothingSkipped
PROPERTIES DrainsFirstLap ShutsDown
CHECK_DEADLOCK FALSE
