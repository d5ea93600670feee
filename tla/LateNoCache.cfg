SPECIFICATION Spec
CONSTANTS
  None = None
  o1 = o1  o2 = o2  o3 = o3  o4 = o4
  h1 = h1  h2 = h2  h3 = h3
  s1 = s1  s2 = s2
  Url <- OneUrl
  Obj <- Objects
  Handle <- Handles
  MAX_CACHE_SIZE = 9
  Stream <- OneStream
  Target <- NoRedirects
  BodyLen <- TwoPieces
  NoiseLen = 0
  MaxVer = 1
  Framing <- Length
  Validators = TRUE
  Faults <- Reliable
  Modes <- AllModes
  Shared = FALSE
  MaxRead = 2
SYMMETRY Symmetry
INVARIANTS
  WholeAtEnd
