CONSTANTS
  NoUser = NoUser
  Users = {u1}
  Clients = {c1}
  Verifiers = {v1}
  Uris = {uri}
  ClientScopes = {"profile", "email"}
  Codes = {k1}
  AccessTokens = {a1, a2}
  RefreshTokens = {t1, t2}
  Requests = {q1}
  Asks <- MixedAsks
  ClientConfs <- ChangingConfs
  Failures = TRUE
  CodeTTL = 1
  AccessTTL = 2
  ClientTTL = 1
  RefreshAge = 1
SPECIFICATION FairSpec
INVARIANTS
  TypeOK
PROPERTIES
  ImplementsDelegation
  DeletedUserForgotten
CHECK_DEADLOCK FALSE
