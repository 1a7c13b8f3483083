SPECIFICATION Spec
CONSTANTS
  Algorithms = {1, 2, 3}
  Supported = {1, 2}
  Jobs <- MCJobs
  DigestLen <- MCDigestLen
  InputBlock <- MCInputBlock
  BlockLen = 4
  KeyMax = 6
  ByteMax = 3
  IntBytes = 3
  Letters = {"a", "b", "c", "x"}
  IntRange = 16
  TimeBits = 5
  None = None
  MaxLinks = 3
  MaxTimeLinks = 5
  MaxNames = 3
  MaxText = 4
  Key = Key
INVARIANTS
  TypeOK
  ComputesAsDefined
  ReadsAsDefined
  TimeIsPosition
PROPERTIES
  Returns
