SPECIFICATION Spec
CONSTANTS
  h1 = h1
  h2 = h2
  k1 = k1
  k2 = k2
  None = None
  Handles = {h1, h2}
  Keys = {k1, k2}
  HttpUrls = {"ksi+http"}
  TcpUrls = {"ksi+tcp"}
  BadUrls = {"no port"}
  PublicationsUrl = "publications"
  MaxPieces = 1
  MaxSettings = 3
SYMMETRY MCSymmetry
INVARIANTS
  TypeOK
  RoutedAsWanted
  AnswerIsOwn
  ResponseIsWhole
  GoodAnswerAccepted
PROPERTY ResponseKept
