SPECIFICATION AcSpec
CONSTANTS
  a = a
  b = b
  c = c
  t1 = t1
  t2 = t2
  t3 = t3
  r1 = r1
  r2 = r2
  Name <- MCName
  Token <- MCToken
  Request <- MCRequest
  Founders = {a, b}
  Members = {c}
  NoName = NoName
  MaxRequests = 2
SYMMETRY MCSymmetry
PROPERTIES LastAdminPrevented
CHECK_DEADLOCK FALSE
