\* Two dev_write threads that outrun one dev_read thread: what the ring holds, and
\* that every call returns.
CONSTANTS
  w1 = w1
  w2 = w2
  p1 = p1
  r1 = r1
  r2 = r2
  z1 = z1
  Free = Free
  Zero = Zero
  Writers = {w1, w2}
  Pushers = {}
  Readers = {r1}
  ZeroCopy = {}
  Byte <- MCByte
  Msg <- MCMsg
  Metric <- MCMetric
  Capacity = 3
  ReadLen = 2
  KickPeriod = 2
  MaxCalls = 1
  MaxPushes = 0
SPECIFICATION FairSpec
INVARIANTS TypeOK IndInv NoLostWakeup
PROPERTIES Stream WriteReturns ConsumersStop
