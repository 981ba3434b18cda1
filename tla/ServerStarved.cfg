SPECIFICATION FairSpec
CONSTANTS
  Backends = {"libc"}
  Threads = 1
  Conns = {"c1"}
  Limit = 1
PROPERTY NeverStarved
CHECK_DEADLOCK FALSE
