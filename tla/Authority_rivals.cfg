CONSTANTS
  a = a  b = b  c = c  d = d  p1 = p1  p2 = p2  p3 = p3  p4 = p4  s1 = s1  s2 = s2
  Server <- OneServer
  FirstRegion <- OneServer
  Eligible <- EligibleOne
  Match <- TwoMatches
  Cost <- UnitCost
  Capacities = {1}
  MaxInstances = 2
  MaxGeneration = 1
  Party <- Solos
  Player <- MCPlayer
  MemberOf <- SoloMembers
  Candidate <- SoloCandidates
  Ticket = {1, 2, 3, 4}
  Proposal = {1, 2}
  CompletedCap = 1
  Dropping = {}
  Cancelling = {a}
  NoServer = NoServer
SPECIFICATION Spec
INVARIANTS TicketsConserved
PROPERTIES LaunchedUnanimously InnocentRequeued ImplementsLedger
