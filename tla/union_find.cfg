\* Four elements: two classes of two can be joined, so a link can go between
\* trees that both have something to move.
CONSTANTS
  N = 4
  Index <- MCIndex
SPECIFICATION MCSpec
INVARIANTS
  QFTypeOK
  ScanInv
  Idempotent
  Connectivity
  TypeOK
  ForestInv
  Weights
  FlatTrees
PROPERTIES
  QFImplements
  QFReturns
  Implements
  Returns
