SPECIFICATION Spec
CONSTANTS
  Requests = {q1, q2}
  RunIds = {g1, g2}
  BatchSizes = {1}
INVARIANT WorkerStopsOnSignal
