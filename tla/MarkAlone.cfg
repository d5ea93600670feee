SPECIFICATION Spec
CONSTANTS
  None = None
  Node <- Nodes
  Prefix <- PrefixNames
  Uri <- Uris
  QName <- QNames
  Heads <- HeadsOfNames
  PrefixOf <- PrefixOfNames
  Document = {"Default", "Mended"}
  Content <- Texts
  Tidied <- TidiedTexts
  ErrorHandlers <- WithAndWithout
  Refusals = FALSE
  MaxStale = 2
INVARIANT
  ParsedWhole
