SPECIFICATION FairSpec
CONSTANTS
  u1 = u1
  u2 = u2
  f1 = f1
  f2 = f2
  s = s
  r = r
  b = b
  Uri = {u1}
  File = {f1}
  FileOf <- DistinctFiles
  Text = {s, r, b}
  ParseClass <- MCParseClass
  Broken = {b}
  MaxVersion = 2
  WorkspaceFiles = {f1}
  NoDoc = NoDoc
  NoText = NoText
  NoIndex = NoIndex
  NoWork = NoWork
  Cleared = Cleared
INVARIANTS
  TypeOK
  DueWorkIsCurrent
  PublishedIsCurrent
  IndexIsOfText
  PublishedIsCoherent
  ClosedIsCleared
PROPERTIES
  OpenContentIsOwned
  ImplementsService
  EventuallyPublished
