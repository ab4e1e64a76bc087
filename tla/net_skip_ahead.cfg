\* Two hooks, a skip-ahead consumer, one packet past the first lap of three slots.
\* The system stops when the client has exited and the last packet has passed.
CONSTANTS
  h1 = h1
  h2 = h2
  c1 = c1
  c2 = c2
  None = None
  Hooks = {h1, h2}
  Clients = {c1}
  Fields <- MCOneField
  Slots = 3
  TicketMod = 16
  Modes <- MCSkip
  MaxPackets = 4
  MaxStarts = 1
SPECIFICATION FairSpec
INVARIANTS TypeOK FirstLapFaithful
PROPERTIES Log ShutsDown
CHECK_DEADLOCK FALSE
