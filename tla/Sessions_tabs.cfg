CONSTANTS
  Users = {u1}
  Browsers = {b1}
  Requests = {q1, q2}
  Tokens = {t1, t2, t3}
  Logins = {l1}
  Keys = {k1}
  MaxCount = 1
  SessionTTL = 1
  CookieTTL = 1
  ChallengeTTL = 1
  Failures = TRUE
SPECIFICATION FairSpec
INVARIANTS
  TypeOK
  OneSessionPerLogin
  LogoutEndsSession
  HeldSessionsAlive
PROPERTIES
  CounterNeverFalls
  DeletedUsersSignedOut
ACTION_CONSTRAINT OneFails
CHECK_DEADLOCK FALSE
