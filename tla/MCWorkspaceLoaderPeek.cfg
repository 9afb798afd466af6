SPECIFICATION Spec
CONSTANTS
  init = init
  p = p
  q = q
  pkg_mod = pkg_mod
  mod = mod
  File = {p, q}
  Name = {mod}
  ModuleOf <- OneRootNames
  Roots <- OneRoot
  Text = {t}
  NoName = NoName
  NoText = NoText
  NoFile = NoFile
  NoMsg = NoMsg
INVARIANT NothingLost
