SPECIFICATION Spec
CONSTANTS
  h1 = h1
  h2 = h2
  doc = doc
  mid = mid
  root = root
  other = other
  p1 = p1
  p2 = p2
  None = None
  Incomplete = Incomplete
  Garbled = Garbled
  Handles <- Handle2
  Inputs <- MCInputs
  Responses <- MCResponses
  Answers <- MCAnswers
  Publications <- MCPublications
PROPERTIES
  ExtendedReachesPublication
