CONSTANTS
  BufferCap = 1
  MaxVersion = 3
  InboxCap = 1
  LocalCap = 1
  MaxFaults = 1
  MaxOther = 1
SPECIFICATION Spec
INVARIANTS ClientTypeOK OfflineHasCause
PROPERTIES DeliveredInOrder NothingElseLostSilently Recovers
CHECK_DEADLOCK FALSE
