\* Four keys make a graph created with room for one grow twice, its map thrice.
\* Four vertices are the fewest with two trees of two to join.
CONSTANTS
  FREE = FREE
  Key = {0, 1, 2, 3}
  Capacities = {1, 3}
  HashFns <- MCHashFns
  Weight <- MCWeight
  DBL_MAX = 50
  LinkedKeys = {0, 1}
  GraphKeys = {0, 1, 2, 3}
  AnyOrder = 4
  MaxArcs = 5
SPECIFICATION MCSpec
INVARIANTS
  Lookups
  Searching
  SpanningTrees
  Cycles
PROPERTIES
  Implements
\* Callers stop at the bounds.
CHECK_DEADLOCK FALSE
