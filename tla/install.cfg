CONSTANTS
  Files = {"f", "g"}
  Versions = {"v1", "v2", "x1"}
  Manifest <- MCManifest
  Held = {}
  Locked = TRUE
  Foreign = {"x1"}
  Installed = "v2"
  MaxCalls = 2
  MaxEdits = 1
  MaxCrashes = 1
SPECIFICATION FairSpec
INVARIANTS
  UserContentKept
  FailureRestoresUser
  Delivered
  LockTruthful
  DeletedStaysGone
PROPERTY EveryoneServed
CHECK_DEADLOCK FALSE
