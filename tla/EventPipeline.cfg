SPECIFICATION EpSpec
CONSTANTS
  RingSize = 2
  QueueSize = 2
  BatchSize = 2
  MaxIngest = 3
  MaxEvents = 5
INVARIANTS EveryEventCounted StoredInOrder
PROPERTIES EventsMoveOn
CHECK_DEADLOCK FALSE
