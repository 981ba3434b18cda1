SPECIFICATION FairSpec
CONSTANTS
  Modes = {TRUE, FALSE}
  Buffers = {b1, b2}
  EntrySize = 2
  MaxBytes = 4
  MaxCap = 2
  MaxWant = 2
INVARIANTS TypeOK BuffersConserved SinkSafe WaiterHasOp EndAfterData
PROPERTIES Refines EveryByteDelivered OrphanFreed
CHECK_DEADLOCK FALSE
