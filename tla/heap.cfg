\* Eight items fill three levels of the heap and begin a fourth.
\* A capacity of 1 grows to 2, 4 and 8; a capacity of 0 starts with 8.
CONSTANTS
  JUNK = JUNK
  Item <- MCItem
  Capacities = {0, 1, 3}
  MaxSize = 8
SPECIFICATION Spec
INVARIANTS
  TypeOK
  HeapOrder
PROPERTIES
  Implements
