SPECIFICATION TidySpec
CONSTANTS
  None = None
  o1 = o1  o2 = o2  o3 = o3
  h1 = h1  h2 = h2
  s1 = s1  s2 = s2
  Url <- FourUrls
  Obj <- Objects3
  Handle <- Handles
  MAX_CACHE_SIZE = 9
  Stream <- TwoStreams
  Target <- NoRedirects
  BodyLen <- TwoPieces
  NoiseLen = 0
  MaxVer = 2
  Framing <- Length
  Validators = TRUE
  Faults <- Reliable
  Modes <- Caching
  Shared = FALSE
  MaxRead = 2
  File <- Files
  FileFaults = TRUE
  Openings <- UncachedUse
  Smil <- TheFourth
  UrlLength <- LongNames
  SizeMax = 15
  Changing <- TheSecond
  Abandons = FALSE
SYMMETRY Symmetry
INVARIANT
  NotCachedUnasked
CHECK_DEADLOCK FALSE
