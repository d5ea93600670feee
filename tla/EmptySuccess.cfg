SPECIFICATION HtmlSpec
CONSTANTS
  None = None
  o1 = o1  o2 = o2  o3 = o3
  h1 = h1
  s1 = s1
  Url <- FourUrls
  Obj <- Objects
  Handle <- Handles
  MAX_CACHE_SIZE = 4
  Stream <- OneStream
  Target <- NoRedirects
  BodyLen <- TwoPieces
  NoiseLen = 0
  MaxVer = 2
  Framing <- Length
  Validators = TRUE
  Faults <- Reliable
  Modes <- Caching
  Shared = FALSE
  MaxRead = 1
  File <- TheSecond
  FileFaults = TRUE
  Openings <- Nothing
  Smil <- Nothing
  UrlLength <- LongNames
  SizeMax = 15
  Changing <- TheSecond
  Abandons = FALSE
  FlawAt <- Flaws
  ReaderCaches <- Never
INVARIANT
  SuccessIsWhole
CHECK_DEADLOCK FALSE
