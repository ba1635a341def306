CONSTANTS
  NoUser = NoUser
  Users = {u1}
  Clients = {c1}
  Verifiers = {v1}
  Uris = {uri}
  ClientScopes = {"profile"}
  Codes = {k1}
  AccessTokens = {a1, a2}
  RefreshTokens = {t1, t2}
  Requests = {q1}
  Asks <- OpenidAsks
  ClientConfs <- PlainConf
  Failures = FALSE
  CodeTTL = 1
  AccessTTL = 1
  ClientTTL = 1
  RefreshAge = 1
SPECIFICATION Spec
PROPERTIES
  RefreshAnswersIdToken
SYMMETRY Interchangeable
CHECK_DEADLOCK FALSE
