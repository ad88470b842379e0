SPECIFICATION FairSpec
CONSTANTS
  Workers = {w1, w2}
  LastStep = 3
  Stores = {"file", "object"}
  MaxKills = 3
INVARIANTS
  CampaignTypeOK
  DoneIsFullyRecorded
PROPERTIES
  ProgressIsKept
  ObjectRunFinishes
CHECK_DEADLOCK FALSE
