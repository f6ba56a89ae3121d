SPECIFICATION Spec
CONSTANTS
  EntriesPerBlock = 3
  CommitEvery = 2
  CancelEvery = 2
  MaxStamp = 3
  MaxLaunches = 3
  Disks <- MCDisks
INVARIANTS
  DataSurvives
  SchemaComplete
  ItemsWhole
  AskedOrCurrent
PROPERTIES
  StartEnds
CHECK_DEADLOCK FALSE
