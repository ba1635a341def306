CONSTANTS
  Users = {u1, u2}
  Passwords = {p1, p2, p3}
  Keys = {k1, k2}
  Challenges = {c1, c2}
  Names = {n1, n2}
  Requests = {q1, q2}
  NoPassword = NoPassword
  Failures = TRUE
SPECIFICATION Spec
INVARIANTS
  TypeOK
  NeverLockedOut
  NewestPasswordWorks
  PasskeysAnswerOwnChallenge
  OnePasskeyPerChallenge
PROPERTIES
  PasswordAskedFor
  ChallengeKept
  PasskeysTouchedByOwner
SYMMETRY Interchangeable
CONSTRAINT OneConcern
CHECK_DEADLOCK FALSE
