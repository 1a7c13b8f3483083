SPECIFICATION Spec
CONSTANTS
  c1 = c1
  c2 = c2
  Contexts <- MCContexts
  Codes <- MCCodes
  Size = 3
  MaxErrors <- MCMaxErrors
  CountRange = 8
  Serialised = TRUE
  None = None
INVARIANTS
  TypeOK
  ReliedOnIsThere
  ResourcesBalanced
PROPERTY
  ErrorsAreLogged
