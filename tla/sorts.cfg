\* Shell sort has a gap other than 1 from six items on, and of seven items with
\* three keys some are equal.
CONSTANTS
  Key = {1, 2, 3}
  MaxLen = 7
SPECIFICATION Spec
INVARIANTS
  QuickInv
  Sorts
PROPERTIES
  Terminates
\* Behaviours end when the array is sorted.
CHECK_DEADLOCK FALSE
