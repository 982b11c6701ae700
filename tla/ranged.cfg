CONSTANTS
  FileSize = 3
  ExpectedTotal = 3
  SplitThreshold = 2
  Concurrency = 2
  MaxRequests = 2
  RangeRefused = TRUE
  MaxLost = 1
  MaxZombies = 1
SPECIFICATION Spec
INVARIANTS
  FileComplete
  SiblingsCancelled
PROPERTIES
  ImplementsDownload
