SPECIFICATION FairSpec
CONSTANTS
  MaxBytes = 5
  MaxCap = 2
  MaxWant = 3
INVARIANTS ReadsExact
PROPERTIES ReadCompletes
CHECK_DEADLOCK FALSE
