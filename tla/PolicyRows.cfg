SPECIFICATION PrSpec
CONSTANTS
  u1 = u1
  u2 = u2
  Admin = Admin
  Owners <- MCOwners
  InitRows <- MCInitRows
  InitSeq <- MCInitSeq
  Inputs <- MCInputs
  ServiceInputs <- MCServiceInputs
  MaxRequests = 3
  Capacity <- MCCapacity
  DevmapSize = 2
INVARIANTS PrTypeOK OwnRowsVerify OrderIrrelevant NothingWithdrawnIsPublished
PROPERTIES SharedChangesReachAll
CHECK_DEADLOCK FALSE
