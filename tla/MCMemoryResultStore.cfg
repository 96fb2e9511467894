SPECIFICATION Spec
CONSTANTS
  none = none
  a = a
  b = b
  c = c
  d = d
  huge = huge
  Payloads = {none, a, b, c, d, huge}
  Size <- MCSize
  MaxEntries = 2
  MaxTotalBytes = 4
  MaxItemBytes = 3
  MaxAgeTicks = 2
  Ticks = {0, 1, 2}
  MaxOrder = 3
  Batches <- MCBatches
INVARIANTS IndexesAgree LimitsKept
PROPERTIES FreshBatchAccepted ImplementsContract
