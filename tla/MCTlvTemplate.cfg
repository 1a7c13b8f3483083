SPECIFICATION TSpec
CONSTANTS
  Templates <- MCTemplates
  Elements <- MCElements
  MaxValues = 2
  Bad = Bad
  Null = Null
  MaxElements = 4
INVARIANTS
  TTypeOK
  CopiedAsShaped
PROPERTIES
  ReadAsShaped
