SPECIFICATION Spec
CONSTANTS
  None = None
  o1 = o1  o2 = o2  o3 = o3  o4 = o4
  h1 = h1  h2 = h2  h3 = h3
  s1 = s1  s2 = s2
  Url <- TwoUrls
  Obj <- Objects4
  Handle <- Handles3
  MAX_CACHE_SIZE = 9
  Stream <- TwoStreams
  Target <- NoRedirects
  BodyLen <- LastIsLong
  NoiseLen = 0
  MaxVer = 1
  Framing <- Sized
  Validators = FALSE
  Faults <- Reliable
  Modes <- CacheOrNot
  Shared = FALSE
  MaxRead = 2
SYMMETRY Symmetry
INVARIANTS
  PoolBound
  EntriesComplete
  NoStaleWrite
PROPERTIES
  ImplementsDocument
