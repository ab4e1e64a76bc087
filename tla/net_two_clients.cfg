\* Two clients started against one lane.
CONSTANTS
  h1 = h1
  h2 = h2
  c1 = c1
  c2 = c2
  None = None
  Hooks = {h1, h2}
  Clients = {c1, c2}
  Fields <- MCOneField
  Slots = 2
  TicketMod = 16
  Modes <- MCSkip
  MaxPackets = 2
  MaxStarts = 1
SPECIFICATION FairSpec
PROPERTY Log
CHECK_DEADLOCK FALSE
