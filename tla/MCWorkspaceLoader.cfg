SPECIFICATION FairSpec
CONSTANTS
  init = init
  p = p
  q = q
  pkg_mod = pkg_mod
  mod = mod
  File = {init, p, q}
  Name = {pkg_mod, mod}
  ModuleOf <- NestedNames
  Roots <- NestedRoots
  Text = {t}
  NoName = NoName
  NoText = NoText
  NoFile = NoFile
  NoMsg = NoMsg
INVARIANTS
  TypeOK
  SendNeverBlocks
  FinishedIsExhausted
  ReadIsAccountedFor
  ResolutionAgrees
PROPERTIES
  LoadingFinishes
