\* Four servers, any of which may lack the rule.
CONSTANTS
  s1 = s1  s2 = s2  s3 = s3  s4 = s4  NULL = NULL
  Server = {s1, s2, s3, s4}
  Value = {1, 2, 3, 4}
SPECIFICATION Spec
INVARIANTS
  NoServerIsLost
  IndicesInBounds
PROPERTIES
  Sorted
  KeyedSortReturns
