SPECIFICATION FairSpec
CONSTANTS
  p1 = p1
  p2 = p2
  NoProc = NoProc
  a = a
  b = b
  c = c
  Procs = {p1, p2}
  Payloads = {a, b, c}
  Size <- MCSize
  DigestOrder <- MCDigestOrder
  MaxEntries = 2
  MaxTotalBytes = 3
  MaxItemBytes = 2
  MaxAgeTicks = 1
  Ticks = {0, 1}
  Batches <- MCBatches
  MaxCalls = 2
  MaxFailures = 1
INVARIANTS LiveBatchesWhole
PROPERTIES PutAllOrNothing LiveBatchLostOnlyForRoom EveryCallReturns
CHECK_DEADLOCK FALSE
