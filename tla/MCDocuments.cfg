SPECIFICATION MCSpec
CONSTANTS
  Scenarios <- MCScenarios
  Documents <- MCDocuments
  PathOrder <- MCPathOrder
  MaxFiles = 3
  MaxMatches = 3
  MaxDepth = 1
  MaxTries = 2
  MaxPackageBytes = 264
  MaxParts = 4
  MaxPartBytes = 8
  MaxTotalBytes = 12
  MaxRatio = 2
  MaxXmlDepth = 2
  MaxXmlNodes = 6
  MaxAnchors = 2
  MaxTextBytes = 5
  MaxEnvelopeBytes = 14
  MaxOriginalBytes = 30
  MaxOmittedBytes = 10
  PdfDepth = 4
  MaxNodes = 9
  MaxPages = 3
  MaxRevisions = 2
  Graphs <- MCGraphs
  Shapes <- MCShapes
  Replacements <- MCReplacements
INVARIANTS ExportIsAtomic EvidenceIsHonest PackagesAreSafe PdfIsReadAsWritten
