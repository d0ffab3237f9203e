SPECIFICATION DPSpec
CONSTANTS
  w1 = w1
  w2 = w2
  b1 = b1
  b2 = b2
  u1 = u1
  u2 = u2
  s1 = s1
  s2 = s2
  r1 = r1
  r2 = r2
  guest = guest
  bot = bot
  vip = vip
  friend = friend
  reflector = reflector
  stray = stray
  arp = arp
  broken = broken
  fragment = fragment
  NoEntry = NoEntry
  Version = {2, 3}
  Entry <- MCEntry
  TableOf <- MCTableOf
  Policy <- MCPolicy
  Compatible = {2, 3}
  Expiring = {}
  DevKey = {10, 20}
  KeysOf <- MCKeysOf
  Ifindex = {5}
  Bootstrap = {0}
  Faults = {}
  Packet <- MCPacket
  Parse <- MCParse
  UDP <- MCUDP
  Row <- MCRow
PROPERTIES SinglePolicyVerdict
