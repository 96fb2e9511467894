SPECIFICATION MCSpec
CONSTANTS
  NodeCount = 4
  MaxEdges = 3
  Depths = {0, 1, 2}
  Results = {0, 1, 2, 4}
  NoCeiling = NoCeiling
  Graphs <- MCGraphs
  Calls <- MCCalls
  RenderedBytes <- MCRenderedBytes
  Evidence <- MCEvidence
  SnapshotCandidates <- MCCandidates
  Later <- MCLater
  Requests <- MCRequests
  LocatorBytes <- MCLocatorBytes
  Edits = {"select omitted", "hide conflicts", "swap paths", "claim visit"}
  MaxNodes = 3
  MaxSelection = 8
  MaxDomains = 3
  FrequencyCap = 5
  WalkDepth = 4
  WalkNodes = 4
  WalkEdges = 8
  NoValue = NoValue
INVARIANTS AnswersAreExact PackingIsExact WalkIsHonest PacketIsEarned
CHECK_DEADLOCK FALSE
