SPECIFICATION FairSpec
CONSTANTS
  Backends = {"libc", "uring"}
  MaxReqs = 3
  Workloads <- MCWorkloads
  HeaderLen = 1
  PayloadLen = 2
  AllocMayFail = TRUE
INVARIANTS TypeOK MutexCorrect FramesWhole FinishedAnswered AcknowledgedStored TeardownSafe
PROPERTIES HandlersEnd ConnectionCloses
CHECK_DEADLOCK FALSE
