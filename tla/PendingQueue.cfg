SPECIFICATION FairQueueSpec
CONSTANTS
  RunIds = {g1, g2}
  BatchSizes = {1, 2}
  Orders = {o1, o2, o3}
  MaxFaults = 1
INVARIANTS Inv NoOverlap QueueInv HeldOnce
PROPERTIES CancelStops KeepsRunning NobodyStarves
