SPECIFICATION Spec
CONSTANTS
  Layouts <- MCLayouts
  AtomicWriters = {TRUE}
  CutTransfers = {TRUE}
  JoinTimesOut = FALSE
INVARIANTS
  MarkerMeansPayload
