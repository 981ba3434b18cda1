SPECIFICATION FairSpec
CONSTANTS
  Backends = {"libc", "uring"}
  MaxReqs = 2
  ReqLen = 2
  Kinds = {"read", "write"}
INVARIANTS TypeOK CallbackOnce BodyHasTarget RequestsWhole
PROPERTIES PendingFires
CHECK_DEADLOCK FALSE
