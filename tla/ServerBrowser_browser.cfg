\* Three servers with one rule, whose list changes three times; replies that overtake
\* each other.
CONSTANTS
  s1 = s1  s2 = s2  s3 = s3  k1 = k1  v1 = v1  NULL = NULL
  ServerID = {s1, s2, s3}
  Key = {k1}
  Value = {v1}
  MaxChanges = 3
  MaxQuery = 1
  MaxQueries = 1
  MaxReplies = 2
SPECIFICATION Spec
SYMMETRY Symmetry
INVARIANT
  NoRuleIsInvented
PROPERTY
  FullQueryShowsTheList
