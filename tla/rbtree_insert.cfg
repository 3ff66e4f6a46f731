\* Memory may run out for any node.
CONSTANTS
  Heights = {4}
  NIL = NIL
  Keys = {1, 2, 3}
  BSTKeys = {}
  Impls = {"rbtree"}
  Item <- MCItem
  NodeMayFail = TRUE
SPECIFICATION MCSpec
INVARIANTS
  Stored
