SPECIFICATION FairSpec
CONSTANTS
  limit = 4
  Sizes = {0, 1, 4, 5, 7}
  MaxBuf = 6
  Timeouts = {0, 1}
INVARIANTS Inv LimitExact OnlyWholeDocuments
PROPERTIES FetchEnds
