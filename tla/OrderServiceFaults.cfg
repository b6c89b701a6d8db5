SPECIFICATION Spec
CONSTANTS
  alice = alice
  bob = bob
  admin = admin
  k1 = k1
  None = None
  Customers = {alice, bob}
  Subjects = {admin}
  Keys = {k1}
  Requests = {q1, q2, q3, q4}
  Runs = {w1, w2}
  Faulty = {q1, q2, q3, q4, w1, w2}
  Orders = {1, 2}
  Inputs <- FaultInputs
  BatchSize = 2
SYMMETRY Interchangeable
INVARIANTS Inv AnswerInv SuccessIsDurable RejectionHasNoEffect NobodyStuck
PROPERTY ImplementsLifecycle
