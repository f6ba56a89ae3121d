SPECIFICATION Spec
CONSTANTS
  Inputs <- MCInputs
  Records <- MCRecords
INVARIANT HandlersAgree
INVARIANT ContentsRead
INVARIANT SyncReadWhole
INVARIANT RecordRead
CHECK_DEADLOCK FALSE
