SPECIFICATION Spec
CONSTANTS
  Proc = {p1, p2}
  Key = {k1, k2, k3}
  TTL = 1
  MaxEntries <- Capacity
  Bound <- Bounds
SYMMETRY Symmetry
INVARIANTS TypeOK HeapExact HeapBounded CapacityKept
PROPERTIES BoundedRefined
