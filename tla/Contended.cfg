SPECIFICATION Contending
CONSTANTS
  None = None
  o1 = o1  o2 = o2  o3 = o3  o4 = o4
  h1 = h1  h2 = h2  h3 = h3
  s1 = s1  s2 = s2
  Url <- TwoUrls
  Obj <- Objects3
  Handle <- Handles
  MAX_CACHE_SIZE = 1
  Stream <- TwoStreams
  Target <- NoRedirects
  BodyLen <- OnePiece
  NoiseLen = 0
  MaxVer = 2
  Framing <- Length
  Validators = TRUE
  Faults <- Reliable
  Modes <- Caching
  Shared = TRUE
  MaxRead = 1
SYMMETRY Symmetry
INVARIANTS
  HandleOwnership
PROPERTIES
  WorkSpared
  EvictionReachesLimit
