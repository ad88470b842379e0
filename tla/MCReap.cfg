SPECIFICATION FairReapSpec
CONSTANTS
  Renters = {r1}
  Ids = {i1, i2}
  Foreign = {i2}
  None = None
  Vendors = {"vast"}
  FaultModes <- MCListingLags
  MaxCreateTries = 1
  MaxDestroyTries = 2
  FlagSets <- MCFlagSets
  ReapRetries = 2
  MaxReapKills = 1
  SlowReap = FALSE

  
PROPERTIES
  DriversUnaware
  NoPhantomSurvives
  StrangersNeedAll
  EveryOpenRowCloses
