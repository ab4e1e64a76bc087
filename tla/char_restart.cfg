\* A write() that a signal interrupts after it has published bytes, and that is restarted.
CONSTANTS
  w1 = w1
  w2 = w2
  p1 = p1
  r1 = r1
  r2 = r2
  z1 = z1
  Free = Free
  Zero = Zero
  Writers = {w1}
  Pushers = {}
  Readers = {r1}
  ZeroCopy = {}
  Byte <- MCByte
  Msg <- MCLongMsg
  Metric <- MCMetric
  Capacity = 3
  ReadLen = 2
  KickPeriod = 2
  MaxCalls = 2
  MaxPushes = 0
SPECIFICATION FairSpec
PROPERTY NoResend
