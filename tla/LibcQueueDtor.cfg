SPECIFICATION Spec
CONSTANTS
  Listen = l
  Conns = {c1}
  MaxAddr = 3
  MaxGen = 2
  MaxSends = 2
INVARIANT DtorEntryAlive
CHECK_DEADLOCK FALSE
