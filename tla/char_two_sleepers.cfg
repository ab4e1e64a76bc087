\* Two dev_write threads against the zero-copy consumer: one WRITER_ASLEEP bit.
CONSTANTS
  w1 = w1
  w2 = w2
  p1 = p1
  r1 = r1
  r2 = r2
  z1 = z1
  Free = Free
  Zero = Zero
  Writers = {w1, w2}
  Pushers = {}
  Readers = {}
  ZeroCopy = {z1}
  Byte <- MCByte
  Msg <- MCMsg
  Metric <- MCMetric
  Capacity = 3
  ReadLen = 2
  KickPeriod = 2
  MaxCalls = 1
  MaxPushes = 0
SPECIFICATION FairSpec
PROPERTY WriteReturns
