SPECIFICATION Spec
CONSTANTS
  Increment = 2
  Null = 0
  TypeSpan = 1
  MaxTlvs = 4
  MaxCalls = 6
  MaxHeld = 2
  Made <- MCMade
  RawValues <- MCRawValues
  UintValues <- MCUintValues
  Blobs <- MCBlobs
  Shared <- MCShared
  Streams <- MCStreams
INVARIANTS
  TypeOK
  RefsBalanced
  MemoryAlive
  ReadsBack
PROPERTIES
  CloneIsCopy
  ValueKept
  NestedIsSequence
CHECK_DEADLOCK FALSE
VIEW Seen
