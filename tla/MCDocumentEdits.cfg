SPECIFICATION Spec
CONSTANTS
  Visible = x
  Binding = y
  Newline = nl
  Inserts <- MCInserts
  MaxLength = 3
  MaxBatch = 2
  MinIncremental = 2
  Part = 2
  Mixed = Mixed
  NoIndex = NoIndex
  NoRange = NoRange
INVARIANTS
  TypeOK
  ContentIsBuffer
  PositionsResolve
  TokensAreOfContent
  DirtyIsUnanalysed
