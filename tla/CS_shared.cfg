SPECIFICATION Spec
CONSTANTS
  Proc = {p1, p2}
  Key = {k1, k2, k3}
  TTL = 1
  MaxEntries <- Capacity
  Bound <- Bounds
PROPERTIES RemovesOldest
