CONSTANTS
  k1 = k1
  k2 = k2
  k3 = k3
  v1 = v1
  v2 = v2
  Item <- MCItem
  HashFns <- MCHashFns
  Capacities = {1, 9, 12}
  CopyMayFail = TRUE
SPECIFICATION Spec
PROPERTIES
  NothingLost
