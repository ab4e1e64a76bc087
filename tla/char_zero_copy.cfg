\* One dev_write thread and a pusher against the zero-copy consumer.
CONSTANTS
  w1 = w1
  w2 = w2
  p1 = p1
  r1 = r1
  r2 = r2
  z1 = z1
  Free = Free
  Zero = Zero
  Writers = {w1}
  Pushers = {p1}
  Readers = {}
  ZeroCopy = {z1}
  Byte <- MCByte
  Msg <- MCLongMsg
  Metric <- MCMetric
  Capacity = 3
  ReadLen = 2
  KickPeriod = 3
  MaxCalls = 2
  MaxPushes = 1
SPECIFICATION FairSpec
INVARIANTS IndInv MetricFramed SleeperFlagged
PROPERTIES WriteReturns ConsumersStop
