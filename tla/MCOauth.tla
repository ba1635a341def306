------------------------------ MODULE MCOauth ------------------------------
(***************************************************************************)
(* Small instances of Oauth for TLC.  The configurations pick one of each: *)
(* the scopes /authorize is asked for, and the settings clients can have.  *)
(***************************************************************************)
EXTENDS Oauth, TLC

Conf(required, optional, idToken) ==
  [scopes |-> required, optionalScopes |-> optional, idTokenAllowed |-> idToken,
   urls |-> Uris]

\* Long-lived access, without and with an id token, and an id token alone.
OfflineAsks == {{"profile", "offline_access"}}
OpenidAsks == {{"profile", "openid", "offline_access"}}
RacingAsks == OfflineAsks \cup {{"openid", "offline_access"}}
MixedAsks == {{"email", "offline_access"}, {"openid"}}

\* A client that requires profile.
PlainConf == {Conf({"profile"}, {}, TRUE)}
\* A client that changes its mind on the scopes it requires and on id tokens.
ChangingConfs == {Conf({"profile"}, {"email"}, TRUE), Conf({}, {"email"}, FALSE)}

\* Tokens are interchangeable, and so are request slots and clients (whose settings
\* are from one set).
Interchangeable ==
  Permutations(RefreshTokens) \cup Permutations(AccessTokens)
  \cup Permutations(Requests) \cup Permutations(Clients)
=============================================================================
