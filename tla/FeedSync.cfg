SPECIFICATION FsSpec
CONSTANTS
  AddrBits = 2
  Sources = {s1, s2}
  Manual = {m1}
  Editors = {e1, e2}
  Payloads <- MCPayloads
  Whitelists <- MCWhitelists
  MaxEvents = 3
INVARIANTS FsTypeOK ConflictsOfActiveEntries AggregationIsExact DisabledFeedWithdrawn
PROPERTIES NewestFetchStays DueIsSynced
CHECK_DEADLOCK FALSE
