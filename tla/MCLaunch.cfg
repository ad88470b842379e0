SPECIFICATION FairLaunchSpec
CONSTANTS
  World <- MCWorld
  MaxFacts = 2
  MaxBypass = 1
  NConfigs = 3
  MaxOffers = 2
  MaxAttempts = 2
  Reattach = 2
  RunTimeout = 4
  Backoff = 1
INVARIANTS
  LaunchTypeOK
  NothingUnreported
  
  
  RecordsAreThisHosts
  RefusalIsNoSurprise
PROPERTIES
  MendingLeadsToGreen
  EverySliceEnds
CHECK_DEADLOCK FALSE
