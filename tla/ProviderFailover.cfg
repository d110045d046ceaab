CONSTANTS
  r1 = r1  r2 = r2
  t1 = t1  t2 = t2
  k1 = k1  k2 = k2  k3 = k3  k4 = k4
  Request = {r1, r2}
  Target = {t1, t2}
  Order <- MCOrder
  Weight <- MCWeight
  Strategy = "round-robin"
  StickyLimit = 2
  Key = {k1, k2, k3, k4}
  Keys <- MCKeys
  None = None
SPECIFICATION MCSpec
PROPERTIES KeyMovesForCause FailoverEnds
CHECK_DEADLOCK FALSE
