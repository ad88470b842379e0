SPECIFICATION Spec
CONSTANTS
  Legs = {l1, l2}
  MaxParallel = 2
  MaxRefills = 1
  MaxOffers = 1
  MaxSignals = 1
  Wrappings = {TRUE}
PROPERTIES
  SignalReachesTracked
