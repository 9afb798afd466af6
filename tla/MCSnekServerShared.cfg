SPECIFICATION Spec
CONSTANTS
  u1 = u1
  u2 = u2
  f1 = f1
  f2 = f2
  s = s
  r = r
  b = b
  Uri = {u1, u2}
  File = {f1}
  FileOf <- SharedFile
  Text = {s, b}
  ParseClass <- MCParseClass
  Broken = {b}
  MaxVersion = 2
  WorkspaceFiles = {f1}
  NoDoc = NoDoc
  NoText = NoText
  NoIndex = NoIndex
  NoWork = NoWork
  Cleared = Cleared
PROPERTY EventsReadDisk
