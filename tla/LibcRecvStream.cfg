SPECIFICATION FairSpec
CONSTANTS
  Entries = 2
  EntrySize = 2
  MaxBytes = 4
  MaxCap = 2
  MaxWant = 3
INVARIANTS TypeOK LiveIntact NoLostWakeup EndAfterData
PROPERTIES Refines EverythingDelivered
CHECK_DEADLOCK FALSE
