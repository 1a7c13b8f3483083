SPECIFICATION Spec
CONSTANTS
  c1 = c1
  c2 = c2
  Contexts <- MCContexts
  Codes <- MCCodes
  Size = 3
  MaxErrors <- MCMaxErrors
  CountRange = 8
  Serialised = FALSE
  None = None
INVARIANT
  OwnContextIsEnough
