CONSTANTS
  NoUser = NoUser
  Users = {u1}
  Clients = {c1, c2}
  Verifiers = {v1}
  Uris = {uri}
  ClientScopes = {"profile"}
  Codes = {k1}
  AccessTokens = {a1, a2}
  RefreshTokens = {t1, t2, t3}
  Requests = {q1, q2}
  Asks <- RacingAsks
  ClientConfs <- PlainConf
  Failures = TRUE
  CodeTTL = 1
  AccessTTL = 1
  ClientTTL = 1
  RefreshAge = 1
SPECIFICATION Spec
INVARIANTS
  CredentialsBacked
  RowsReferenceUsers
  DisclosureConsented
  OneRefreshPerRedemption
PROPERTIES
  NoLockout
SYMMETRY Interchangeable
CHECK_DEADLOCK FALSE
