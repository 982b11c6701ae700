CONSTANTS
  NUrls = 2
  Reassignable = {1, 2}
  MaxResumes = 1
  MaxNoProgress = 1
  FileSize = 4
  Segmented = TRUE
  Start = 1
  End = 3
  ExpectedTotal = 4
  MirrorFaults = {"ignoresRange", "wrongStart", "short"}
  DiskFaults = {}
  MaxStrays = 1
SPECIFICATION FairSpec
INVARIANTS
  ResumeBacked
  AttemptsBounded
  LastResortTried
PROPERTIES
  NoRefetch
  Terminates
  ImplementsContract
