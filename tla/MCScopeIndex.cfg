SPECIFICATION Spec
CHECK_DEADLOCK FALSE
CONSTANTS
  Names <- MCNames
  Within <- MCWithin
  Exprs <- MCExprs
  Targets <- MCTargets
  Signatures <- MCSignatures
  Headers <- MCHeaders
  Builtins <- MCBuiltins
  Selves <- MCSelves
  MaxStatements = 4
  MaxWords = 6
INVARIANTS
  TypeOK
  FindsInnermost
  ResolutionStands
  
  
  ColoursAreOfIndex
