SPECIFICATION Spec
CONSTANTS
  None = None
  Node <- Nodes
  Prefix <- PrefixNames
  Uri <- Uris
  QName <- QNames
  Heads <- HeadsOfNames
  PrefixOf <- PrefixOfNames
  Document = {"Shadowing", "Default", "Memo", "Broken", "Mended", "Truncated", "Trailing", "Hopeless"}
  Content <- Texts
  Tidied <- TidiedTexts
  ErrorHandlers <- WithAndWithout
  Refusals = TRUE
  MaxStale = 2
INVARIANTS
  TypeOK
  RefCounts
  ScopedUri
  OneEndDocument
  ParsedWholeOrMark
  FailureExplained
PROPERTIES
  EndReportsStart
