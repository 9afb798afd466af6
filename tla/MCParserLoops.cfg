SPECIFICATION Spec
CHECK_DEADLOCK FALSE
CONSTANTS
  Sources <- MCLoops
  Programs <- MCLoops
  LastLine <- MCLastLine
  MaxErrors = 3
  Modes = {"strict", "recovering"}
INVARIANTS
  AcceptsPrograms
