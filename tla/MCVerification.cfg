SPECIFICATION FairSpec
CONSTANTS
  h1 = h1
  h2 = h2
  c1 = c1
  c2 = c2
  f1 = f1
  f2 = f2
  None = None
  Inconsistent = Inconsistent
  Uncomputable = Uncomputable
  Hashes <- MCHashes
  Times <- MCTimes
  Levels <- MCLevels
  Certs <- MCCerts
  Files <- MCFiles
  FileCerts <- MCFileCerts
  FilePubs <- MCFilePubs
  Chains <- MCChains
  Signatures <- MCSignatures
INVARIANTS
  TypeOK
  LogFits
  AnchorsAfterInternalSteps
  BorrowedFileAlive
  VerdictSound
  FailureJustified
PROPERTIES
  EveryCallReturns
