SPECIFICATION FairRentalSpec
CONSTANTS
  Renters = {r1, r2}
  Ids = {i1, i2}
  None = None
  Vendors = {"vast", "runpod"}
  FaultModes <- MCFaults
  MaxCreateTries = 2
  MaxDestroyTries = 2
INVARIANTS
  RentalTypeOK
  LedgerCoversBilling
  NoSilentLeak
PROPERTIES
  
  EveryRentEnds
