CONSTANTS
  InitialDelta = 100
  DeltaStep = 50
  StepSeconds = 5
  MaximumDelta = 600
  TeamSize = 5
  FfaSeats = 8
  FfaParty = 4
  Budget = 1024
  MirrorSeconds = 60
  PartyBonus <- MCPartyBonus
  SizeAdjustment = 10
  SpreadAdjustment = 1
  MaxSpread = 600
  Shapes <- SoloShapes
  MaxTicket <- SoloMaxTicket
  Pauses = {}
  MaxWait = 60
  Doubles <- SoloDoubles
  MaxUnfit <- SoloMaxUnfit
SPECIFICATION Spec
INVARIANTS MirroredQueueServed
CHECK_DEADLOCK FALSE
