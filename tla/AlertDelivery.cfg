SPECIFICATION AdSpec
CONSTANTS
  Applies = {a1, a2}
  Listings = {l1}
  Creators = {c1}
  Conns = 2
  MaxAttempts = 2
  PolicyEnabled = TRUE
  MaxAlerts = 2
  MaxChanges = 1
INVARIANTS AdTypeOK LogTellsStatus
PROPERTIES DedupeHolds RequestsEnd
CHECK_DEADLOCK FALSE
