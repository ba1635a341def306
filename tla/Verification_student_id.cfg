CONSTANTS
  Users = {u1, u2}
  Emails = {e1, e2}
  StudentEmails = {e1}
  Phones = {p1, p2}
  KoreanPhones = {p1}
  StudentIds = {i1}
  Values = {v1}
  Requests = {q1, q2}
  TokenTTL = 1
  MaxSends = 1
  Failures = TRUE
SPECIFICATION Spec
INVARIANT StudentIdFlagProven
SYMMETRY Interchangeable
CHECK_DEADLOCK FALSE
