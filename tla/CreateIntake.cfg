SPECIFICATION Spec
CONSTANTS
  maxBytes = 3
  Sizes = {0, 3, 4, 6}
  maxInt64 = 15
  maxInt32 = 7
  Prices <- MCPrices
  Quantities <- MCQuantities
  MaxItems = 3
INVARIANTS WholeBody TotalExact OverflowReal ChecksHold
