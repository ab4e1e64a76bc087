\* Two CPUs in the submit_bio probe, either engine, one bio more than there are slots.
\* The system stops when the client has exited and the last bio has passed.
CONSTANTS
  p1 = p1
  p2 = p2
  c1 = c1
  None = None
  Cpus = {p1, p2}
  Clients = {c1}
  Fields <- MCFields
  Slots = 2
  TicketMod = 8
  Modes <- MCBoth
  MaxBios = 3
  MaxStarts = 1
SPECIFICATION FairSpec
INVARIANTS TypeOK FirstLapFaithful
PROPERTIES Log SettledIsPassed
CHECK_DEADLOCK FALSE
