CONSTANTS
  s1 = s1
  s2 = s2
  Server <- MCServer
  Match <- MCMatch
  Cost <- MCCost
  Eligible <- MCEligible
  Capacities <- MCCapacities
  MaxInstances = 2
  MaxGeneration = 2
SPECIFICATION RegistrySpec
INVARIANTS RegistryTypeOK LedgerExact LedgerNeverAhead
PROPERTIES LifecycleForward
