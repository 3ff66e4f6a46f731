CONSTANTS
  k1 = k1
  k2 = k2
  k3 = k3
  v1 = v1
  v2 = v2
  EMPTY = EMPTY
  TOMB = TOMB
  Item <- MCItem
  HashFns <- MCHashFns
  Capacities = {2}
SPECIFICATION Spec
PROPERTIES
  Returns
