CONSTANTS
  Users = {u1, u2, u3}
  Requests = {q1, q2}
  Failures = FALSE
SPECIFICATION Spec
PROPERTIES
  OwnerNotRemoved
SYMMETRY Interchangeable
CHECK_DEADLOCK FALSE
