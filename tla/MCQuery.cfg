SPECIFICATION MCSpec
CONSTANTS
  Procs = {p1, p2}
  p1 = p1
  p2 = p2
  Roots = {1, 2}
  StopWords = {"the"}
  ResultLimit = 2
  MaxRecords = 2
  MaxTreeEdits = 1
  MaxQueries = 3
  Requests <- MCRequests
  Forms <- MCForms
  StartTree <- MCStart
  Office <- MCOffice
  MaxSymbols = 3
  MaxCandidates = 6
  MaxCoordinate = 9
  Groups = 3
  SymbolText <- MCSymbolText
  MaxPaths = 2
  MaxLines = 2
  Numbers <- MCNumbers
  Digests <- MCDigests
  PathOrder <- MCPathOrder
  OtherFiles = {"x.rs"}
  HelperNames = {"helper"}
SYMMETRY Symmetry
INVARIANTS RecordsSurvive RecordsAreHonest RankingIsHonest SymbolsAreExact
           StrictMeansChecked PortableProfilesAgree PolicyReadsBack
CHECK_DEADLOCK FALSE
