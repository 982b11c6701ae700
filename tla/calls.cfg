CONSTANTS
  Calls <- FabricCalls
  Keys <- MCKeys
  Singles <- MCSingles
  LockKeys <- FabricLocks
  SingleOf <- FabricSingles
  Body <- FabricBody
SPECIFICATION FairSpec
INVARIANTS
  MutualExclusion
PROPERTIES
  NoOvertaking
  Served
