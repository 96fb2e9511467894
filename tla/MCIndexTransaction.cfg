SPECIFICATION Spec
CONSTANTS
  a = a
  b = b
  bad = bad
  none = none
  second = second
  Absent = Absent
  Opaque = Opaque
  Directory = Directory
  Paths = {1, 2, 3}
  Evidence <- MCEvidence
  Texts = {a, b, bad}
  Size <- MCSize
  Rejected = {}
  Ungraphable = {bad}
  IgnoreFiles = {none, second}
  Ignored <- MCIgnored
  MaxFiles = 2
  MaxTotalBytes = 3
  MaxEdits = 3
  MaxRefreshes = 2
  MaxFailures = 1
INVARIANTS IndexIsCurrent ReplicaAgrees
CHECK_DEADLOCK FALSE
