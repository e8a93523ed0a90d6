CONSTANTS
  p1 = p1  p2 = p2  p3 = p3
  Player <- MCPlayer
  PartyId = {1, 2, 3}
  Invite = {1}
  MaxUses = 2
  MaxRevision <- MCMaxRevision
  Proposal = {1, 2}
  Sizes = {1, 2}
  Seats = 3
  NoPlayer = NoPlayer
SPECIFICATION Spec
SYMMETRY Symmetry
INVARIANTS PartyTypeOK LeaderLeads IndexIsMembership QueuedWellFormed RosterFrozen PlayersHeldOnce
PROPERTIES RevisionTellsRoster
CHECK_DEADLOCK FALSE
