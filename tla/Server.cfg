SPECIFICATION FairSpec
CONSTANTS
  Backends = {"libc", "uring"}
  Threads = 2
  Conns = {"c1", "c2"}
  Limit = 2
INVARIANTS TypeOK KeepsAccepting EndsAfterWorkers
PROPERTIES ShutdownCompletes ConnectionsServed
CHECK_DEADLOCK FALSE
