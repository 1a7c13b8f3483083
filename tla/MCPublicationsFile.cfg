SPECIFICATION Spec
CONSTANTS
  Contents <- MCContents
  Given <- MCGiven
  Times = {0, 1, 2, 3}
  Imprints <- MCImprints
  a = a
  b = b
  root = root
  other = other
  CertIds = {a, b}
  Printed <- MCPrinted
  Emails = {"p"}
  DefaultEmail = "p"
  Stores <- MCStores
  SystemRoots <- MCSystemRoots
  TimeLen = 1
  CrcLen = 2
  Polynomial <- MCPolynomial
  GroupLen = 6
  HashLength <- MCHashLength
  None = None
INVARIANTS
  TypeOK
  ParsedWhole
  GenuineVerifies
  SearchesFind
