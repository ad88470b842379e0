SPECIFICATION FairSpec
CONSTANTS
  Workers = {w1, w2}
  LastStep = 3
  Stores = {"file"}
  MaxKills = 3
PROPERTIES
  PreemptedRunFinishes
CHECK_DEADLOCK FALSE
