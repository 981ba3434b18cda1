SPECIFICATION Spec
CONSTANTS
  Listen = l
  Conns = {c1, c2}
  MaxAddr = 3
  MaxGen = 2
  MaxSends = 2
INVARIANTS NoDangling NoOrphan
CHECK_DEADLOCK FALSE
