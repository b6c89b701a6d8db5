SPECIFICATION FairSpec
CONSTANTS
  alice = alice
  bob = bob
  admin = admin
  k1 = k1
  None = None
  Customers = {alice, bob}
  Subjects = {admin}
  Keys = {k1}
  Requests = {q1, q2, q3}
  Runs = {w1}
  Faulty = {q1, q2, q3, w1}
  Orders = {1, 2}
  Inputs <- FaultInputs
  BatchSize = 2
PROPERTY EveryoneFinishes
