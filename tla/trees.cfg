\* Up to five keys are 188 shapes of a bst.c tree.  Seven keys are the fewest
\* with which rbtree.c's delete_min borrows a red on its own way down.
CONSTANTS
  Heights = {7}
  NIL = NIL
  Keys = {1, 2, 3, 4, 5, 6, 7}
  BSTKeys = {1, 2, 3, 4, 5}
  Impls = {"bst", "rbtree"}
  Item <- MCItem
  NodeMayFail = FALSE
SPECIFICATION MCSpec
INVARIANTS
  TypeOK
  SearchTree
  BSTTraversals
  Balanced
PROPERTIES
  Implements
