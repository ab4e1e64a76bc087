\* A scatter-gather snapshot taken while a hook fills its slot.
CONSTANTS
  h1 = h1
  h2 = h2
  c1 = c1
  c2 = c2
  None = None
  Hooks = {h1, h2}
  Clients = {c1}
  Fields <- MCOneField
  Slots = 2
  TicketMod = 16
  Modes <- MCScatter
  MaxPackets = 2
  MaxStarts = 1
SPECIFICATION Spec
INVARIANT SnapshotFaithful
CHECK_DEADLOCK FALSE
