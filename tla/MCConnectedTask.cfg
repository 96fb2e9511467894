SPECIFICATION FairSpec
CONSTANTS
  SourceLimit = 4
  MaxTasks = 2
  MaxHolds = 2
INVARIANTS OneWinner ReportsAgree NoOrphan
PROPERTIES EveryTaskEnds
CHECK_DEADLOCK FALSE
