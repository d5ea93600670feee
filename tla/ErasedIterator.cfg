SPECIFICATION Spec
CONSTANTS
  None = None
  o1 = o1  o2 = o2  o3 = o3  o4 = o4
  h1 = h1  h2 = h2  h3 = h3
  s1 = s1  s2 = s2
  Url <- ThreeUrls
  Obj <- Objects4
  Handle <- Handles
  MAX_CACHE_SIZE = 2
  Stream <- OneStream
  Target <- NoRedirects
  BodyLen <- LastIsLong
  NoiseLen = 0
  MaxVer = 1
  Framing <- Length
  Validators = TRUE
  Faults <- Reliable
  Modes <- Caching
  Shared = FALSE
  MaxRead = 2
SYMMETRY Symmetry
INVARIANTS
  NoErasedIterator
