CONSTANTS
  Users = {u1, u2}
  Client = Client
  Names = {n1, n2}
  FixedName = FixedName
  Requests = {q1, q2}
  Failures = TRUE
SPECIFICATION Spec
INVARIANTS
  TypeOK
  NoDanglingPicture
  LinkFitsRow
PROPERTIES
  ClientPictureTakenDown
  ImplementsGallery
SYMMETRY Interchangeable
CHECK_DEADLOCK FALSE
