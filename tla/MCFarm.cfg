SPECIFICATION Spec
CONSTANTS
  Rids = {r1, r2}
  Contents = {a, b}
  Defects = {"malformed", "tampered", "unhashable"}
  None = None
  MaxFailures = 1
  MaxCalls = 4
SYMMETRY Symmetry
INVARIANTS
  EveryDropHasReason
  
  OnlyClearedLegsAreDispatched
CHECK_DEADLOCK FALSE
