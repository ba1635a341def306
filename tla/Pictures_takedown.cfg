CONSTANTS
  Users = {u1}
  Client = Client
  Names = {n1, n2}
  FixedName = FixedName
  Requests = {q1}
  Failures = FALSE
SPECIFICATION Spec
PROPERTIES
  UserPictureTakenDown
SYMMETRY Interchangeable
CHECK_DEADLOCK FALSE
