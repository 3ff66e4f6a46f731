\* Four nodes make chains with a middle, and every order of reuse.
CONSTANTS
  Item = {a, b}
  Node = {n1, n2, n3, n4}
  NULL = NULL
  Kinds = {"list", "stack", "queue"}
SPECIFICATION Spec
SYMMETRY Names
INVARIANTS
  TypeOK
  Linked
PROPERTIES
  Implements
