SPECIFICATION Spec
CONSTANTS
  w1 = w1
  b1 = b1
  s1 = s1
  s2 = s2
  r1 = r1
  Version = {1, 2, 3, 4}
  Entry <- MCEntry
  TableOf <- MCTableOf
  Policy <- MCPolicy
  Compatible = {1, 2, 3, 4}
  Expiring = {3}
  DevKey = {10, 20}
  KeysOf <- MCKeysOf
  Ifindex = {5}
  Bootstrap = {0}
  Faults = {}
INVARIANTS FailClosed
