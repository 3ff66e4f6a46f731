\* Two vertices and the edge between them are enough.
CONSTANTS
  FREE = FREE
  Key = {0, 1}
  Capacities = {2}
  HashFns <- MCHashFns
  Weight <- MCWeight
  DBL_MAX = 50
  LinkedKeys = {0}
  GraphKeys = {0, 1}
  AnyOrder = 4
  MaxArcs = 1
SPECIFICATION MCSpec
INVARIANTS
  PrimConnected
\* Callers stop at the bounds.
CHECK_DEADLOCK FALSE
