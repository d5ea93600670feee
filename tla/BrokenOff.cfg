SPECIFICATION Spec
CONSTANTS
  None = None
  Node <- Nodes
  Prefix <- PrefixNames
  Uri <- Uris
  QName <- QNames
  Heads <- HeadsOfNames
  PrefixOf <- PrefixOfNames
  Document = {"Truncated"}
  Content <- Texts
  Tidied <- TidiedTexts
  ErrorHandlers <- WithAndWithout
  Refusals = TRUE
  MaxStale = 2
INVARIANT
  ParsedComplete
  ContextFreed
  NoLostNamespaces
