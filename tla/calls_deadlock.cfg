CONSTANTS
  Calls <- NeoCalls
  Keys <- MCKeys
  Singles <- MCSingles
  LockKeys <- NeoLocks
  SingleOf <- NeoSingles
  Body <- NeoBody
SPECIFICATION FairSpec
PROPERTIES
  Served
CHECK_DEADLOCK FALSE
