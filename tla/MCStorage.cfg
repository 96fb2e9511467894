SPECIFICATION MCSpec
CONSTANTS
  a = a
  b = b
  c = c
  h1 = h1
  NoWriter = NoWriter
  Damaged = Damaged
  Handles = {h1}
  Objects = {a, b, c}
  Size <- Lengths
  Quota = 4
  MaxTemps = 3
  MaxDamages = 2
  MaxFailures = 3
  m1 = m1
  m2 = m2
  r1 = r1
  r2 = r2
  Absent = Absent
  Torn = Torn
  Maintainers = {m1}
  Replacement <- Proposed
  Original = original
  Edits = {edit}
  MaxApplies = 2
  MaxEdits = 2
  MaxFaults = 2
  Unset = Unset
  Names = {"orders"}
  Paths = {"data/orders"}
  ValidParts = {"main", "orders", "secret", "id", "other"}
  DefaultRows = 3
  MostRows = 4
  DefaultBytes = 6
  MostBytes = 9
  MaxTokens = 40
  MaxColumns = 2
  Table <- MCTable
  CatalogOf <- MCCatalog
  DatabaseRequests <- MCDatabaseRequests
INVARIANTS ObjectsSurvive RepairIsHonest ExtractionIsHonest
PROPERTIES OnlySnapshotReplaced
CHECK_DEADLOCK FALSE
