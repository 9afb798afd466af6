SPECIFICATION Spec
CHECK_DEADLOCK FALSE
CONSTANTS
  Texts <- MCTexts
  Edited <- MCEdited
  Insertions <- MCInsertions
  MaxDeleted = 1
  MinIncremental = 4
INVARIANTS
  TypeOK
  BytesOnce
  InOrder
  BlocksBalance
  LogicalLines
  RelexAgrees
  RegionIsSlice
  EveryTextIsRead
