------------------------------- MODULE Oauth -------------------------------
(***************************************************************************)
(* The OAuth 2.1 authorization server: OauthService and OauthRepository    *)
(* (src/src/oauth) over PostgreSQL (users, consents, refresh tokens and    *)
(* client settings, through Prisma) and Redis (authorization codes and     *)
(* access tokens, with a time to live).                                    *)
(*                                                                         *)
(* Every HTTP request is a slot of Requests.  A handler runs without       *)
(* interruption between two awaits, so one action is one store call with   *)
(* the synchronous code that follows it; req[r].at names the store call    *)
(* the request is waiting for.  A handler that throws goes back to Idle    *)
(* and undoes nothing: no call is made in a transaction.                   *)
(***************************************************************************)
EXTENDS Naturals, Functions

CONSTANTS
  Users, Clients, Verifiers, Uris,
  ClientScopes,      \* what clients can ask about a user: profile, email, ...
  Codes, AccessTokens, RefreshTokens,    \* the opaque tokens that can be drawn
  Requests,          \* the requests that can be in flight together
  Asks,              \* the scope lists /authorize is called with
  ClientConfs,       \* the settings a client can have
  CodeTTL, AccessTTL, ClientTTL, RefreshAge,   \* lifetimes, in ticks
  Failures,          \* TRUE: store calls may fail and replies may get lost
  NoUser             \* the subject of a client-credentials token

TokenScopes == {"openid", "offline_access"}

ASSUME ScopesAssumption ==
  /\ ClientScopes \cap TokenScopes = {}
  /\ Asks \subseteq (SUBSET (ClientScopes \cup TokenScopes)) \ {{}}

ASSUME LifetimesAssumption ==
  {CodeTTL, AccessTTL, ClientTTL, RefreshAge} \subseteq Nat \ {0}

ASSUME ConfsAssumption ==
  ClientConfs \subseteq [scopes : SUBSET ClientScopes, optionalScopes : SUBSET ClientScopes,
                         idTokenAllowed : BOOLEAN, urls : SUBSET Uris]

ASSUME IdsAssumption ==
  NoUser \notin Users /\ AccessTokens \cap RefreshTokens = {} /\ Failures \in BOOLEAN

VARIABLES
  users,      \* users that have a row
  conf,       \* client -> its settings
  consents,   \* <<user, client>> -> scopes; the rows of Consent
  refresh,    \* token -> row of RefreshToken
  codes,      \* code -> Redis entry under the code prefix
  access,     \* token -> Redis entry under the token prefix
  req,        \* what each request is waiting for, with its local variables
  agreed      \* history: every consent that was ever recorded

vars == <<users, conf, consents, refresh, codes, access, req, agreed>>

-----------------------------------------------------------------------------
(* Types.                                                                  *)

Grants == [user : Users \cup {NoUser}, client : Clients,
           scope : SUBSET (ClientScopes \cup TokenScopes)]

\* What a user can agree to.
ConsentGrants == [user : Users, client : Clients, scope : SUBSET ClientScopes]

\* AuthorizeCacheType; S256 and plain both come down to "the verifier fits".
CodeEntries == [grant : Grants, challenge : Verifiers, ttl : 1..CodeTTL]

\* TokenCacheType; "held" says that the answer carrying the token arrived.
AccessEntries == [grant : Grants, ttl : 1..(AccessTTL + ClientTTL), held : BOOLEAN]

\* A redemption: an authorization code and the request that presented it.
Redemptions == [code : Codes, by : Requests]

\* A row of RefreshToken; "age" is the time left until expiresAt, "nonce" whether
\* the column is set, "root" the redemption the row descends from (history), and
\* "held" says that the answer carrying the token arrived.
RefreshRows == [grant : Grants, nonce : BOOLEAN, age : 0..RefreshAge,
                root : Redemptions, held : BOOLEAN]

Idle == [at |-> "Idle"]

\* A request that waits for a store call, with the variables it still needs.
ConsentJobs == [at : {"UpsertConsent"}, grant : ConsentGrants]
InfoJobs == [at : {"InfoConsent", "InfoUser"}, grant : Grants]
AuthorizeJobs == [at : {"FindConsent", "SetCode"}, grant : Grants,
                  challenge : Verifiers, code : Codes]
RedeemJobs == [at : {"DelCode"}, grant : Grants, challenge : Verifiers, code : Codes,
               client : Clients, verifier : Verifiers,
               token : AccessTokens, new : RefreshTokens]
CodeJobs == [at : {"CodeSetToken", "CodeCreateRefresh", "CodeIdToken"}, grant : Grants,
             client : Clients, code : Codes, token : AccessTokens, new : RefreshTokens]
RotateJobs == [at : {"RotSetToken", "RotCreateRefresh", "RotDelete"}, grant : Grants,
               nonce : BOOLEAN, root : Redemptions, old : RefreshTokens,
               token : AccessTokens, new : RefreshTokens]
ClientJobs == [at : {"ClientSetToken"}, token : AccessTokens,
               grant : [user : {NoUser}, client : Clients, scope : SUBSET ClientScopes]]
ReplyJobs == [at : {"Reply"}, ids : SUBSET (AccessTokens \cup RefreshTokens)]

Jobs == {Idle} \cup ConsentJobs \cup InfoJobs \cup AuthorizeJobs \cup RedeemJobs
        \cup CodeJobs \cup RotateJobs \cup ClientJobs \cup ReplyJobs

TypeOK ==
  /\ users \subseteq Users
  /\ conf \in [Clients -> ClientConfs]
  /\ DOMAIN consents \subseteq Users \X Clients
  /\ \A k \in DOMAIN consents : consents[k] \subseteq ClientScopes
  /\ DOMAIN refresh \subseteq RefreshTokens
  /\ \A t \in DOMAIN refresh : refresh[t] \in RefreshRows
  /\ DOMAIN codes \subseteq Codes
  /\ \A k \in DOMAIN codes : codes[k] \in CodeEntries
  /\ DOMAIN access \subseteq AccessTokens
  /\ \A t \in DOMAIN access : access[t] \in AccessEntries
  /\ req \in [Requests -> Jobs]
  /\ agreed \subseteq ConsentGrants

Init ==
  /\ users = Users
  /\ conf \in [Clients -> ClientConfs]
  /\ consents = <<>> /\ refresh = <<>> /\ codes = <<>> /\ access = <<>>
  /\ req = [r \in Requests |-> Idle]
  /\ agreed = {}

-----------------------------------------------------------------------------
(* Helpers.                                                                *)

\* Writing and deleting a key, or a row by its key.
Put(store, k, v) == [x \in DOMAIN store \cup {k} |-> IF x = k THEN v ELSE store[x]]

Del(store, k) == Restrict(store, DOMAIN store \ {k})

Grant(u, c, s) == [user |-> u, client |-> c, scope |-> s]

Waits(r, call) == req[r].at = call
Goto(r, job) == req' = [req EXCEPT ![r] = job]
Go(r, call) == Goto(r, [req[r] EXCEPT !.at = call])
Answer(r, ids) == Goto(r, [at |-> "Reply", ids |-> ids])

\* The tokens and codes that request r draws and has not handed out, and the
\* old token or code it will still delete.
DrawnBy(r) ==
  LET job == req[r] IN
  CASE job.at \in {"DelCode", "CodeSetToken", "CodeCreateRefresh", "CodeIdToken"} ->
         {job.code, job.token, job.new}
    [] job.at \in {"RotSetToken", "RotCreateRefresh", "RotDelete"} ->
         {job.root.code, job.old, job.token, job.new}
    [] job.at \in {"FindConsent", "SetCode"} -> {job.code}
    [] job.at = "ClientSetToken" -> {job.token}
    [] job.at = "Reply" -> job.ids
    [] OTHER -> {}

Drawn == UNION {DrawnBy(r) : r \in Requests}

\* generateOpaqueToken never repeats itself.  The pools are finite, so a dead
\* token is drawn again once nothing in the system refers to it.
FreshCodes == Codes \ (DOMAIN codes \cup Drawn \cup {refresh[t].root.code : t \in DOMAIN refresh})
FreshAccess == AccessTokens \ (DOMAIN access \cup Drawn)
FreshRefresh == RefreshTokens \ (DOMAIN refresh \cup Drawn)

-----------------------------------------------------------------------------
(* Consent and authorization: a logged-in user agrees, then gets a code.   *)

\* POST /oauth/consent up to the read of the client; UserGuard has just found
\* the user.  The scopes must hold the client's required ones and no others
\* than its required and optional ones.
Consent(r, u, c, S) ==
  /\ Waits(r, "Idle")
  /\ u \in users
  /\ conf[c].scopes \subseteq S
  /\ S \subseteq conf[c].scopes \cup conf[c].optionalScopes
  /\ Goto(r, [at |-> "UpsertConsent", grant |-> Grant(u, c, S)])
  /\ UNCHANGED <<users, conf, consents, refresh, codes, access, agreed>>

\* The upsert fails on the foreign key when the user is gone by now.
UpsertConsent(r) ==
  LET g == req[r].grant IN
  /\ Waits(r, "UpsertConsent")
  /\ IF g.user \in users
       THEN /\ consents' = Put(consents, <<g.user, g.client>>, g.scope)
            /\ agreed' = agreed \cup {g}
       ELSE UNCHANGED <<consents, agreed>>
  /\ Goto(r, Idle)
  /\ UNCHANGED <<users, conf, refresh, codes, access>>

\* GET /oauth/authorize up to the read of the client.  The checks of the
\* redirect URI and of openid come after the next await in the code, but look
\* only at the client that was read here.
Authorize(r, u, c, S, v, uri, k) ==
  /\ Waits(r, "Idle")
  /\ u \in users
  /\ uri \in conf[c].urls
  /\ "openid" \in S => conf[c].idTokenAllowed
  /\ Goto(r, [at |-> "FindConsent", grant |-> Grant(u, c, S), challenge |-> v, code |-> k])
  /\ UNCHANGED <<users, conf, consents, refresh, codes, access, agreed>>

\* Mutant: what the client may ask for is taken for what the user agreed to.
CoveredByClient(g) ==
  /\ <<g.user, g.client>> \in DOMAIN consents
  /\ g.scope \subseteq conf[g.client].scopes \cup conf[g.client].optionalScopes \cup TokenScopes

\* Every asked scope is one the user consents to, or a token scope.
Covered(g) ==
  /\ <<g.user, g.client>> \in DOMAIN consents
  /\ g.scope \subseteq consents[<<g.user, g.client>>] \cup TokenScopes

FindConsent(r) ==
  /\ Waits(r, "FindConsent")
  /\ IF Covered(req[r].grant) THEN Go(r, "SetCode") ELSE Goto(r, Idle)
  /\ UNCHANGED <<users, conf, consents, refresh, codes, access, agreed>>

SetCode(r) ==
  LET job == req[r] IN
  /\ Waits(r, "SetCode")
  /\ codes' = Put(codes, job.code,
                  [grant |-> job.grant, challenge |-> job.challenge, ttl |-> CodeTTL])
  /\ Goto(r, Idle)
  /\ UNCHANGED <<users, conf, consents, refresh, access, agreed>>

-----------------------------------------------------------------------------
(* POST /oauth/token, authorization_code.                                  *)

\* The read of the code, which must still be there; whoever presents it.
CodeGrant(r, k, c, v, t, n) ==
  /\ Waits(r, "Idle")
  /\ k \in DOMAIN codes
  /\ Goto(r, [at |-> "DelCode", grant |-> codes[k].grant, challenge |-> codes[k].challenge,
              code |-> k, client |-> c, verifier |-> v, token |-> t, new |-> n])
  /\ UNCHANGED <<users, conf, consents, refresh, codes, access, agreed>>

\* Mutant: only the verifier is compared.
FitsVerifier(job) == job.verifier = job.challenge

\* The client and the PKCE verifier are those of the code.
Fits(job) == job.client = job.grant.client /\ job.verifier = job.challenge

\* Redis does not say whether there was a code to delete.  Only now are the
\* client and the verifier compared with the entry that was read.
DelCode(r) ==
  LET job == req[r] IN
  /\ Waits(r, "DelCode")
  /\ codes' = Del(codes, job.code)
  /\ IF Fits(job)
       THEN Goto(r, [at |-> "CodeSetToken", grant |-> job.grant, client |-> job.client,
                     code |-> job.code, token |-> job.token, new |-> job.new])
       ELSE Goto(r, Idle)
  /\ UNCHANGED <<users, conf, consents, refresh, access, agreed>>

AccessEntry(g, ttl) == [grant |-> g, ttl |-> ttl, held |-> FALSE]

\* The access token takes its client from the request, the rest from the entry.
CodeSetToken(r) ==
  LET job == req[r] IN
  /\ Waits(r, "CodeSetToken")
  /\ access' = Put(access, job.token,
                   AccessEntry([job.grant EXCEPT !.client = job.client], AccessTTL))
  /\ IF "offline_access" \in job.grant.scope THEN Go(r, "CodeCreateRefresh")
     ELSE IF "openid" \in job.grant.scope THEN Go(r, "CodeIdToken")
     ELSE Answer(r, {job.token})
  /\ UNCHANGED <<users, conf, consents, refresh, codes, agreed>>

\* createRefreshToken has an optional fifth parameter, the nonce.
RefreshRow(g, root, nonce) ==
  [grant |-> g, nonce |-> nonce, age |-> RefreshAge, root |-> root, held |-> FALSE]

\* The insert fails on the foreign key when the user is gone.  No nonce is passed.
CodeCreateRefresh(r) ==
  LET job == req[r] IN
  /\ Waits(r, "CodeCreateRefresh")
  /\ IF job.grant.user \in users
       THEN /\ refresh' = Put(refresh, job.new,
                          RefreshRow(job.grant, [code |-> job.code, by |-> r], FALSE))
            /\ IF "openid" \in job.grant.scope THEN Go(r, "CodeIdToken")
               ELSE Answer(r, {job.token, job.new})
       ELSE Goto(r, Idle) /\ UNCHANGED refresh
  /\ UNCHANGED <<users, conf, consents, codes, access, agreed>>

\* The read of the user whose attributes go into the signed id token.
CodeIdToken(r) ==
  LET job == req[r] IN
  /\ Waits(r, "CodeIdToken")
  /\ IF job.grant.user \in users THEN Answer(r, {job.token, job.new}) ELSE Goto(r, Idle)
  /\ UNCHANGED <<users, conf, consents, refresh, codes, access, agreed>>

-----------------------------------------------------------------------------
(* POST /oauth/token, refresh_token: a new access token and a new refresh  *)
(* token first, the old refresh token is deleted last.                     *)

\* The read of the row: it must exist, not be expired, and be the caller's.
RefreshGrant(r, t, c, a, n) ==
  /\ Waits(r, "Idle")
  /\ refresh[t].age > 0
  /\ refresh[t].grant.client = c
  /\ Goto(r, [at |-> "RotSetToken", grant |-> refresh[t].grant, nonce |-> refresh[t].nonce,
              root |-> refresh[t].root, old |-> t, token |-> a, new |-> n])
  /\ UNCHANGED <<users, conf, consents, refresh, codes, access, agreed>>

\* Mutant: the old row is deleted first.
RotSetTokenDeleting(r) ==
  LET job == req[r] IN
  /\ Waits(r, "RotSetToken")
  /\ access' = Put(access, job.token, AccessEntry(job.grant, AccessTTL))
  /\ refresh' = Del(refresh, job.old)
  /\ Go(r, IF "offline_access" \in job.grant.scope THEN "RotCreateRefresh" ELSE "RotDelete")
  /\ UNCHANGED <<users, conf, consents, codes, agreed>>

\* The new access token is stored.
RotSetToken(r) ==
  LET job == req[r] IN
  /\ Waits(r, "RotSetToken")
  /\ access' = Put(access, job.token, AccessEntry(job.grant, AccessTTL))
  /\ Go(r, IF "offline_access" \in job.grant.scope THEN "RotCreateRefresh" ELSE "RotDelete")
  /\ UNCHANGED <<users, conf, consents, refresh, codes, agreed>>

\* Again no nonce is passed, and the request is refused when the scope holds
\* openid and the old row has no nonce.  (With a nonce the user would be read
\* for the id token; when the user is gone so is the old row, and the deletion
\* that follows is refused instead.)
RotCreateRefresh(r) ==
  LET job == req[r] IN
  /\ Waits(r, "RotCreateRefresh")
  /\ IF job.grant.user \in users
       THEN /\ refresh' = Put(refresh, job.new, RefreshRow(job.grant, job.root, FALSE))
            /\ IF "openid" \in job.grant.scope => job.nonce
                 THEN Go(r, "RotDelete") ELSE Goto(r, Idle)
       ELSE Goto(r, Idle) /\ UNCHANGED refresh
  /\ UNCHANGED <<users, conf, consents, codes, access, agreed>>

\* Mutant: deleteMany, which finds nothing to complain about.
RotDeleteMany(r) ==
  LET job == req[r] IN
  /\ Waits(r, "RotDelete")
  /\ refresh' = Del(refresh, job.old)
  /\ Answer(r, {job.token, job.new})
  /\ UNCHANGED <<users, conf, consents, codes, access, agreed>>

\* Prisma refuses to delete a row that is gone: the request fails.
RotDelete(r) ==
  LET job == req[r] IN
  /\ Waits(r, "RotDelete")
  /\ IF job.old \in DOMAIN refresh
       THEN refresh' = Del(refresh, job.old) /\ Answer(r, {job.token, job.new})
       ELSE Goto(r, Idle) /\ UNCHANGED refresh
  /\ UNCHANGED <<users, conf, consents, codes, access, agreed>>

-----------------------------------------------------------------------------
(* POST /oauth/token, client_credentials; DELETE /oauth/token; userinfo.   *)

\* The caller knows the secret; the scopes are among the client's.
ClientCredentials(r, c, S, t) ==
  /\ Waits(r, "Idle")
  /\ S \subseteq conf[c].scopes \cup conf[c].optionalScopes
  /\ Goto(r, [at |-> "ClientSetToken", grant |-> Grant(NoUser, c, S), token |-> t])
  /\ UNCHANGED <<users, conf, consents, refresh, codes, access, agreed>>

ClientSetToken(r) ==
  LET job == req[r] IN
  /\ Waits(r, "ClientSetToken")
  /\ access' = Put(access, job.token, AccessEntry(job.grant, ClientTTL))
  /\ Answer(r, {job.token})
  /\ UNCHANGED <<users, conf, consents, refresh, codes, agreed>>

\* The answer to a token request arrives.
Reply(r) ==
  LET Deliver(store) ==
        [t \in DOMAIN store |-> [store[t] EXCEPT !.held = @ \/ t \in req[r].ids]] IN
  /\ Waits(r, "Reply")
  /\ access' = Deliver(access)
  /\ refresh' = Deliver(refresh)
  /\ Goto(r, Idle)
  /\ UNCHANGED <<users, conf, consents, codes, agreed>>

RevokeAccess(t) ==
  /\ access' = Del(access, t)
  /\ UNCHANGED <<users, conf, consents, refresh, codes, req, agreed>>

RevokeRefresh(t) ==
  /\ refresh' = Del(refresh, t)
  /\ UNCHANGED <<users, conf, consents, codes, access, req, agreed>>

\* The read of the access token.  A user's token is followed by the read of the
\* user, a client's token by the read of the consent of the user it names.
Userinfo(r, t, sub) ==
  LET g == access[t].grant IN
  /\ Waits(r, "Idle")
  /\ IF g.user = NoUser
       THEN Goto(r, [at |-> "InfoConsent", grant |-> [g EXCEPT !.user = sub]])
       ELSE Goto(r, [at |-> "InfoUser", grant |-> g])
  /\ UNCHANGED <<users, conf, consents, refresh, codes, access, agreed>>

\* Mutant: the consent is not looked at.
InfoConsentAny(r) ==
  /\ Waits(r, "InfoConsent")
  /\ Go(r, "InfoUser")
  /\ UNCHANGED <<users, conf, consents, refresh, codes, access, agreed>>

InfoConsent(r) ==
  LET g == req[r].grant
      who == <<g.user, g.client>> IN
  /\ Waits(r, "InfoConsent")
  /\ IF who \in DOMAIN consents /\ consents[who] \subseteq g.scope
       THEN Go(r, "InfoUser")
       ELSE Goto(r, Idle)
  /\ UNCHANGED <<users, conf, consents, refresh, codes, access, agreed>>

\* The read of the user: the attributes of the grant's scopes are answered, or
\* an error when the user is gone.
InfoUser(r) ==
  /\ Waits(r, "InfoUser")
  /\ Goto(r, Idle)
  /\ UNCHANGED <<users, conf, consents, refresh, codes, access, agreed>>

-----------------------------------------------------------------------------
(* What happens around the requests.                                       *)

\* Mutant: the relation of RefreshToken does not cascade.
OrphansKept(u) == {}

\* The refresh tokens that reference the user.
RowsOf(u) == {t \in DOMAIN refresh : refresh[t].grant.user = u}

\* UserService.deleteUser: one DELETE; the rows that reference the user go
\* with it (onDelete: Cascade), the Redis entries stay.
DeleteUser(u) ==
  /\ users' = users \ {u}
  /\ consents' = Restrict(consents, {k \in DOMAIN consents : k[1] # u})
  /\ refresh' = Restrict(refresh, DOMAIN refresh \ RowsOf(u))
  /\ UNCHANGED <<conf, codes, access, req, agreed>>

\* ClientService.updateClient: any fields may be given; optional scopes that
\* are also required are dropped when both lists are given.
UpdateClient(c, new) ==
  /\ new # conf[c]
  /\ \/ new.scopes = conf[c].scopes
     \/ new.optionalScopes = conf[c].optionalScopes
     \/ new.scopes \cap new.optionalScopes = {}
  /\ conf' = [conf EXCEPT ![c] = new]
  /\ UNCHANGED <<users, consents, refresh, codes, access, req, agreed>>

\* Mutant: an entry lives one tick too long.
OlderLate(store) ==
  [k \in {x \in DOMAIN store : store[x].ttl > 0} |-> [store[k] EXCEPT !.ttl = @ - 1]]

\* An entry is gone when its time to live has passed (SET ... EX).
Older(store) ==
  [k \in {x \in DOMAIN store : store[x].ttl > 1} |-> [store[k] EXCEPT !.ttl = @ - 1]]

\* Time passes: Redis drops what has no time left, PostgreSQL drops nothing.
Tick ==
  /\ codes' = Older(codes)
  /\ access' = Older(access)
  /\ refresh' = [t \in DOMAIN refresh |->
                   [refresh[t] EXCEPT !.age = IF @ > 0 THEN @ - 1 ELSE 0]]
  /\ UNCHANGED <<users, conf, consents, req, agreed>>

\* A store call fails, the process dies, or the answer is lost.
Abort(r) ==
  /\ Failures
  /\ ~Waits(r, "Idle")
  /\ Goto(r, Idle)
  /\ UNCHANGED <<users, conf, consents, refresh, codes, access, agreed>>

\* A caller only presents a token that it was given; a code is known to the
\* client as soon as the browser is redirected.
HeldAccess == {t \in DOMAIN access : access[t].held}
HeldRefresh == {t \in DOMAIN refresh : refresh[t].held}

Arrive(r) ==
  \/ \E u \in Users, c \in Clients, S \in (SUBSET ClientScopes) \ {{}} : Consent(r, u, c, S)
  \/ \E u \in Users, c \in Clients, S \in Asks, v \in Verifiers, uri \in Uris, k \in FreshCodes :
       Authorize(r, u, c, S, v, uri, k)
  \/ \E k \in Codes, c \in Clients, v \in Verifiers, t \in FreshAccess, n \in FreshRefresh :
       CodeGrant(r, k, c, v, t, n)
  \/ \E t \in HeldRefresh, c \in Clients, a \in FreshAccess, n \in FreshRefresh :
       RefreshGrant(r, t, c, a, n)
  \/ \E c \in Clients, S \in (SUBSET ClientScopes) \ {{}}, t \in FreshAccess :
       ClientCredentials(r, c, S, t)
  \/ \E t \in HeldAccess, sub \in Users : Userinfo(r, t, sub)

Continue(r) ==
  \/ UpsertConsent(r) \/ FindConsent(r) \/ SetCode(r)
  \/ DelCode(r) \/ CodeSetToken(r) \/ CodeCreateRefresh(r) \/ CodeIdToken(r)
  \/ RotSetToken(r) \/ RotCreateRefresh(r) \/ RotDelete(r)
  \/ ClientSetToken(r) \/ InfoConsent(r) \/ InfoUser(r) \/ Reply(r)

Around ==
  \/ \E t \in HeldAccess : RevokeAccess(t)
  \/ \E t \in HeldRefresh : RevokeRefresh(t)
  \/ \E u \in users : DeleteUser(u)
  \/ \E c \in Clients, new \in ClientConfs : UpdateClient(c, new)
  \/ Tick

Next ==
  \/ \E r \in Requests : Arrive(r) \/ Continue(r) \/ Abort(r)
  \/ Around

Spec == Init /\ [][Next]_vars

\* A store call is answered in the end, and time passes; nobody has to call.
Fairness == WF_vars(Tick) /\ \A r \in Requests : WF_vars(Continue(r))

FairSpec == Spec /\ Fairness

-----------------------------------------------------------------------------
(* Correctness.                                                            *)

\* The steps on which a request holds a user's grant that it may still put into
\* a code, an access token or a refresh token.
IssuingSteps == {"SetCode", "DelCode", "CodeSetToken", "CodeCreateRefresh",
                 "RotSetToken", "RotCreateRefresh", "RotDelete"}

JobGrants == {req[r].grant : r \in {q \in Requests : req[q].at \in IssuingSteps}}

GrantsOf(store) == {store[k].grant : k \in DOMAIN store}

\* The rights over a user's data that exist anywhere: stored or in flight.
LiveGrants == GrantsOf(codes) \cup {g \in GrantsOf(access) : g.user # NoUser}
              \cup GrantsOf(refresh) \cup JobGrants

Agreed(g) ==
  \E a \in agreed : /\ a.user = g.user /\ a.client = g.client
                    /\ g.scope \subseteq a.scope \cup TokenScopes

\* Every right over a user's data that a client holds, through whatever chain
\* of code, access token and refreshed tokens it got it and whatever ran in
\* between, was agreed by that user for that client in one consent
\* (OauthService.consent, authorize, codeGrant, refreshTokenGrant).
CredentialsBacked == \A g \in LiveGrants : Agreed(g)

\* Delegation is also what the whole service implements: a right appears only
\* while the consent covers it, and no interleaving of redemption, rotation,
\* revocation, expiry and user deletion brings a lapsed one back.
Delegated == INSTANCE Delegation WITH consent <- consents, live <- LiveGrants
ImplementsDelegation == Delegated!Spec

\* Refresh tokens and consents belong to users that exist, although requests
\* that read the user or the code earlier insert rows after the user's deletion
\* (schema.prisma: the relations of RefreshToken and Consent).
RowsReferenceUsers ==
  /\ \A t \in DOMAIN refresh : refresh[t].grant.user \in users
  /\ \A k \in DOMAIN consents : k[1] \in users

\* Userinfo answers about users only to clients that they once agreed to give
\* something to, whomever a client asks about and whatever happened to consent
\* and token meanwhile (userinfo: the consent stands for the user's agreement
\* when the token is the client's own).
DisclosureConsented ==
  \A r \in Requests : Waits(r, "InfoUser") =>
    \E a \in agreed : a.user = req[r].grant.user /\ a.client = req[r].grant.client

\* The refresh tokens a client has, or is about to get with an answer that is on
\* its way.  A row outside Owned is one whose token nobody was given.
Owned ==
  {t \in DOMAIN refresh :
     refresh[t].held \/ \E r \in Requests : Waits(r, "Reply") /\ t \in req[r].ids}

\* The answer that carried the token never arrives.
LostAnswer(t) == \E r \in Requests : Waits(r, "Reply") /\ t \in req[r].ids /\ Abort(r)

\* Rotation does not multiply what a client has: one redemption of a code leaves
\* it at most one refresh token, however many rotations of the same token overlap,
\* are refused for a missing nonce after the new row is stored, or fail halfway.
\* Rows do pile up, but only such as nobody was given (refreshTokenGrant: the
\* answer is given only after the old row was there to delete).
OneRefreshPerRedemption ==
  \A s, t \in Owned : refresh[s].root = refresh[t].root => s = t

\* A client does not lose its long-lived access by a rotation, whatever races
\* with it, is refused or fails: a refresh token it has goes by revocation, with
\* its user, or when the client has, or is being sent, another one of the same
\* redemption with the same grant and no less time to live (refreshTokenGrant:
\* create first, delete last).  A lost answer is the one thing that does cost the
\* client its access: the old row is gone and the new token never arrives.
NoLockout ==
  [][\A t \in Owned \ Owned' :
       \/ RevokeRefresh(t)
       \/ refresh[t].grant.user \notin users'
       \/ LostAnswer(t)
       \/ \E s \in Owned' : /\ refresh'[s].grant = refresh[t].grant
                            /\ refresh'[s].root = refresh[t].root
                            /\ refresh'[s].age >= refresh[t].age]_vars

Forgotten(u) ==
  /\ \A g \in LiveGrants : g.user # u
  /\ \A k \in DOMAIN consents : k[1] # u

\* Once a user is deleted, every right over the user's data ends for good in the
\* end, the Redis entries that the deletion leaves behind and the tokens that
\* requests in flight still create included (deleteUser, the TTLs of codes and
\* access tokens, the foreign key of RefreshToken).
DeletedUserForgotten == \A u \in Users : <>[](u \in users \/ Forgotten(u))

-----------------------------------------------------------------------------
(* What the documentation or a comment says and the code does not do.      *)

\* "delete the code after the first use" (oauth.service.ts:206): no two
\* requests get tokens for the same code.
CodeRedeemedOnce ==
  \A q, r \in Requests :
    /\ {req[q].at, req[r].at} \subseteq {"CodeSetToken", "CodeCreateRefresh", "CodeIdToken"}
    /\ req[q].code = req[r].code
    => q = r

\* The refresh-token answer holds an id token for openid grants (README, the
\* refresh token grant): once such a request has stored its new refresh token
\* it goes on to its last step instead of being refused.
RefreshAnswersIdToken ==
  [][\A r \in Requests :
       /\ req[r].at = "RotCreateRefresh" /\ "openid" \in req[r].grant.scope
       /\ refresh' # refresh
       /\ req'[r] # req[r]
       => req'[r].at = "RotDelete"]_vars
=============================================================================
