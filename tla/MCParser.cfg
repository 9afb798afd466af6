SPECIFICATION Spec
CHECK_DEADLOCK FALSE
CONSTANTS
  Sources <- MCSources
  Programs <- MCPrograms
  LastLine <- MCLastLine
  MaxErrors = 3
  Modes = {"strict", "recovering"}
INVARIANTS
  TypeOK
  RangesNest
  AcceptsPrograms
  LastLineSurvives
PROPERTIES
  MovesOn
