SPECIFICATION MultiSpec
CONSTANTS
  Renters = {1, 2}
  NExecutors = 3
  NConfigs = 3
  Weightings <- MCWeightings
  MaxWorkers = 2
  MaxAttempts = 2
  Cap = 2
  MaxRun = 2
  Leftovers = {"open"}
INVARIANTS
  MultiTypeOK
  OvershootIsBounded
  HarvestIsWhole
  NothingRunsOn
PROPERTY EveryCampaignEnds
CHECK_DEADLOCK FALSE
