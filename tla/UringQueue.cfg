SPECIFICATION FairSpec
CONSTANTS
  Depth = 1
  CqSize = 2
  Addrs = {1, 2}
  Files = {"f", "g"}
  Groups = 2
  MaxGen = 3
  MaxCq = 2
INVARIANTS TypeOK RefersToSame OneCompletion
PROPERTIES Resumed
CHECK_DEADLOCK FALSE
