SPECIFICATION Spec
CONSTANTS
  maxInt = 127
  maxInt32 = 7
  BatchSizes = {1, 7, 8, 16, 17}
  RoleValues = {"empty", "x", "y", "z"}
  Symmetric = {"HS256", "hs256"}
  Asymmetric = {"RS256"}
  MaxAlgs = 1
  Customers = {c1}
  Subjects = {"uuid"}
  OtherValue = "w"
  MaxValues = 1
  None = None
INVARIANTS BatchAsAsked
