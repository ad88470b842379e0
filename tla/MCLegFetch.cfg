SPECIFICATION Spec
CONSTANTS
  Layouts <- MCLayouts
  AtomicWriters = {TRUE, FALSE}
  CutTransfers = {TRUE, FALSE}
  JoinTimesOut = FALSE
INVARIANTS
  MarkerLast
  
PROPERTIES
  BankedSurvives
  
