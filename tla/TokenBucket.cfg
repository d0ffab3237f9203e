SPECIFICATION BSpec
CONSTANTS
  k1 = k1
  k2 = k2
  CPU = {0, 1}
  Key = {k1, k2}
  Packet <- MCPacket
  MaxRateState = 1
  Second = 4
  Word = 65536
  MaxClock = 5
  MaxSeen = 3
  ThresholdPPS = 2
  ThresholdBPS = 56
  ThresholdCPS = 1
  BurstPackets = 2
  BurstBytes = 0
INVARIANTS TokensBounded ExactRefill RateConformsInOrder
PROPERTIES StateKept
