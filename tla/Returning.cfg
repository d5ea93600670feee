SPECIFICATION LiveSpec
CONSTANTS
  None = None
  o1 = o1  o2 = o2  o3 = o3  o4 = o4
  h1 = h1  h2 = h2  h3 = h3
  s1 = s1  s2 = s2
  Url <- TwoUrls
  Obj <- Objects
  Handle <- Handles
  MAX_CACHE_SIZE = 9
  Stream <- TwoStreams
  Target <- OneRedirect
  BodyLen <- OnePiece
  NoiseLen = 0
  MaxVer = 1
  Framing <- Sized
  Validators = FALSE
  Faults <- Drops
  Modes <- NoCaching
  Shared = FALSE
  MaxRead = 1
PROPERTIES
  ReadReturns
