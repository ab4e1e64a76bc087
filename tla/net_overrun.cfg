\* A skip-ahead consumer once the ring is lapped: wr_idx has started again from 1.
CONSTANTS
  h1 = h1
  h2 = h2
  c1 = c1
  c2 = c2
  None = None
  Hooks = {h1, h2}
  Clients = {c1}
  Fields <- MCOneField
  Slots = 2
  TicketMod = 16
  Modes <- MCSkip
  MaxPackets = 3
  MaxStarts = 1
SPECIFICATION FairSpec
PROPERTY RollsForward
CHECK_DEADLOCK FALSE
