SPECIFICATION FairSpec
CONSTANTS
  Requests = {q1, q2}
  RunIds = {g1, g2}
  BatchSizes = {0, 1}
INVARIANTS Inv CleanMeansStopped NoCallCutOff
PROPERTIES SignalEnds FailureEnds
