CONSTANTS
  InitialDelta = 100
  DeltaStep = 50
  StepSeconds = 5
  MaximumDelta = 600
  TeamSize = 2
  FfaSeats = 3
  FfaParty = 2
  Budget = 128
  MirrorSeconds = 60
  PartyBonus <- MCPartyBonus
  SizeAdjustment = 10
  SpreadAdjustment = 1
  MaxSpread = 600
  Shapes <- MCShapes
  MaxTicket <- MCMaxTicket
  Pauses = {60}
  MaxWait = 60
  Doubles <- MCDoubles
  MaxUnfit <- MCMaxUnfit
SPECIFICATION Spec
INVARIANTS MatchingTypeOK FairMatches DisjointMatches OldestServed
CHECK_DEADLOCK FALSE
