CONSTANTS
  RangeThreshold = 1
  Concurrency = 2
  NUrls = 2
  FileSize = 2
  ExpectedTotal = 2
  MirrorFaults = {"ignoresRange", "unsized", "misplaced", "short"}
  DiskFaults = {"error", "short", "stuck"}
SPECIFICATION FairSpec
INVARIANTS
  FileOnDisk
  EveryUrlTried
  AbortReachesAll
PROPERTIES
  Returns
  ImplementsContract
