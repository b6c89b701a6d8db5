SPECIFICATION Spec
CONSTANTS
  maxInt = 127
  maxInt32 = 7
  BatchSizes = {1}
  RoleValues = {"empty", "x", "y", "z"}
  Symmetric = {"HS256", "hs256"}
  Asymmetric = {"RS256"}
  MaxAlgs = 2
  Customers = {c1}
  Subjects = {"uuid"}
  OtherValue = "w"
  MaxValues = 3
  None = None
INVARIANTS Inv RoleUnambiguous OnlyProven Attributable
