SPECIFICATION FairSpec
CONSTANTS
  Player = {p1}
  Call = {c1, c2}
  Full = 4
  RejectPenalty = 1
  TimeoutPenalty = 3
  Minimum = 2
  RecoveryMatches = 2
  Suspension = 1
  MaxChanges = 3
  MaxTime = 3
  MaxFaults = 2
INVARIANTS StandingTypeOK LowCreditHasDeadline StoreAgrees
PROPERTIES SuspensionHolds StoreCatchesUp
CHECK_DEADLOCK FALSE
