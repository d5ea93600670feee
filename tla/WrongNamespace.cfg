SPECIFICATION Spec
CONSTANTS
  None = None
  Node <- Nodes
  Prefix <- PrefixNames
  Uri <- Uris
  QName <- QNames
  Heads <- HeadsOfNames
  PrefixOf <- PrefixOfNames
  Document = {"Memo", "Truncated"}
  Content <- Texts
  Tidied <- TidiedTexts
  ErrorHandlers <- WithAndWithout
  Refusals = FALSE
  MaxStale = 2
INVARIANT
  ElementUri
