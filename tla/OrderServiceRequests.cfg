SPECIFICATION Spec
CONSTANTS
  alice = alice
  bob = bob
  admin = admin
  k1 = k1
  None = None
  Customers = {alice, bob}
  Subjects = {admin}
  Keys = {k1}
  Requests = {q1, q2, q3, q4}
  Runs = {w1}
  Faulty = {}
  Orders = {1, 2}
  Inputs <- RequestInputs
  BatchSize = 1
SYMMETRY InterchangeableRequests
INVARIANTS AuditTrail OneOrderPerKey ServerErrorsExplained AnswersAreTruthful
