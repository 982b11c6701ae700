CONSTANTS
  NUrls = 2
  Reassignable = {1}
  MaxResumes = 1
  MaxNoProgress = 1
  FileSize = 2
  Segmented = FALSE
  Start = 0
  End = 2
  ExpectedTotal = 2
  MirrorFaults = {"ignoresRange", "short", "unsized"}
  DiskFaults = {"error", "short"}
  MaxStrays = 1
SPECIFICATION FairSpec
INVARIANTS
  NoSilentGap
PROPERTIES
  ImplementsContract
