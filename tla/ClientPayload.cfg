SPECIFICATION Spec
CONSTANTS
  Backends = {"uring"}
  MaxReqs = 1
  ReqLen = 1
  Kinds = {"write"}
PROPERTY PayloadValid
CHECK_DEADLOCK FALSE
