SPECIFICATION MCSpec
CONSTANTS
  MaxDepth = 4
  MaxNodes = 9
  MaxPages = 3
  MaxRevisions = 2
  Graphs <- MCGraphs
  Shapes <- MCShapes
  Replacements <- MCReplacements
INVARIANT RepairKeepsNewest
