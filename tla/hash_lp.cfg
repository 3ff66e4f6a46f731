CONSTANTS
  k1 = k1
  k2 = k2
  k3 = k3
  v1 = v1
  v2 = v2
  EMPTY = EMPTY
  TOMB = TOMB
  Item <- MCItem
  HashFns <- MCHashFns
  Capacities = {1, 3, 9, 16}
SPECIFICATION Spec
INVARIANTS
  Findable
  Load
PROPERTIES
  Implements
  ReturnsIfEmpty
