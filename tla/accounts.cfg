CONSTANTS
  a = a
  b = b
  Accounts = {a, b}
  Nameless = {a}
  Unknown = {}
  Imported = {a}
  FaultKinds = {"read", "write"}
  MaxFaults = 1
  MaxDamages = 1
  MaxLogins = 1
  MaxStarts = 2
  MaxQueue = 2
SPECIFICATION FairSpec
INVARIANTS RemovalStands
PROPERTIES NoAutomaticErase ReplacedKept ImplementsStore EventuallySaved
