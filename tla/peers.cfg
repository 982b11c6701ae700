CONSTANTS
  Peers = {"p", "q"}
  NCalls = 2
  Attempts = 2
  MaxRevision = 3
  MaxFaults = 1
SPECIFICATION FairSpec
INVARIANTS
  OneLiveRoom
  LinksFollowTopology
PROPERTIES
  CallsReturn
  
CHECK_DEADLOCK FALSE
