SPECIFICATION Spec
CONSTANTS
  None = None
  o1 = o1  o2 = o2  o3 = o3  o4 = o4
  h1 = h1  h2 = h2  h3 = h3
  s1 = s1  s2 = s2
  Url <- TwoUrls
  Obj <- Objects3
  Handle <- Handles
  MAX_CACHE_SIZE = 9
  Stream <- OneStream
  Target <- OneRedirect
  BodyLen <- TwoPieces
  NoiseLen = 0
  MaxVer = 2
  Framing <- Sized
  Validators = TRUE
  Faults <- Reliable
  Modes <- Caching
  Shared = FALSE
  MaxRead = 2
SYMMETRY Symmetry
INVARIANTS
  MapIntact
