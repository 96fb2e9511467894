SPECIFICATION Spec
CONSTANTS
  Scenarios <- MCScenarios
  MaxModelBytes = 12
  MaxBlockNesting = 2
  MaxNesting = 2
  MaxRow = 3
  MaxColumn = 2
  MaxLabelWork = 4
  MaxDepth = 2
  MaxTextBytes = 400
  MaxCidWidths = 4
  Tiny = 5
  Short = 6
  Long = 8
INVARIANTS RoundTrip NothingIsLostSilently AnchorsAndExportAreSafe
