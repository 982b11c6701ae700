CONSTANTS
  Files = {"f", "g"}
  Versions = {"v1", "v2"}
  Manifest <- MCManifest
  Held = {}
  Locked = TRUE
  Foreign = {}
  Installed = "v1"
  MaxCalls = 2
  MaxEdits = 1
  MaxCrashes = 1
SPECIFICATION FairSpec
INVARIANTS
  UserFilesSurvive
CHECK_DEADLOCK FALSE
