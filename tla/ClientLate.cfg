SPECIFICATION FairSpec
CONSTANTS
  Backends = {"libc"}
  MaxReqs = 1
  ReqLen = 1
  Kinds = {"read"}
PROPERTY EveryCallbackFires
CHECK_DEADLOCK FALSE
