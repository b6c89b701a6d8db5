SPECIFICATION FairSpec
CONSTANTS
  Orders = {1, 2, 3}
  Customers = {c1, c2}
  customer = c1
  Times = {2, 3}
  Filters = {"NONE", "PROCESSING"}
  NoLimit = NoLimit
  Limits = {NoLimit, 0, 3}
  defaultListLimit = 2
  maxListLimit = 2
  MaxFaults = 1
INVARIANTS Inv NewestFirst NothingSkipped ShownHonestly
PROPERTIES ListingEnds
