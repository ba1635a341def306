CONSTANTS
  Users = {u1, u2, u3}
  Requests = {q1, q2}
  Failures = TRUE
SPECIFICATION Spec
INVARIANTS
  TypeOK
  MembersExist
  DeletionAnnounced
  OneOwner
PROPERTIES
  OwnershipKept
SYMMETRY Interchangeable
CHECK_DEADLOCK FALSE
