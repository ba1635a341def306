---------------------------- MODULE OauthProofs ----------------------------
(***************************************************************************)
(* Theorems about Oauth, for every value of its constants.                 *)
(***************************************************************************)
EXTENDS Oauth, TLAPS

\* The label of a request tells its variables.
LEMMA JobShapes ==
  ASSUME NEW j \in Jobs
  PROVE  /\ j.at = "UpsertConsent" => j \in ConsentJobs
         /\ j.at \in {"InfoConsent", "InfoUser"} => j \in InfoJobs
         /\ j.at \in {"FindConsent", "SetCode"} => j \in AuthorizeJobs
         /\ j.at = "DelCode" => j \in RedeemJobs
         /\ j.at \in {"CodeSetToken", "CodeCreateRefresh", "CodeIdToken"} => j \in CodeJobs
         /\ j.at \in {"RotSetToken", "RotCreateRefresh", "RotDelete"} => j \in RotateJobs
         /\ j.at = "ClientSetToken" => j \in ClientJobs
         /\ j.at = "Reply" => j \in ReplyJobs
  BY DEF Jobs, Idle, ConsentJobs, InfoJobs, AuthorizeJobs, RedeemJobs, CodeJobs, RotateJobs,
         ClientJobs, ReplyJobs

\* A store after a key is written or deleted.
LEMMA PutGet ==
  ASSUME NEW f, NEW k, NEW v
  PROVE  /\ DOMAIN Put(f, k, v) = DOMAIN f \cup {k}
         /\ Put(f, k, v)[k] = v
         /\ \A x \in DOMAIN f : x # k => Put(f, k, v)[x] = f[x]
  BY DEF Put

LEMMA DelGet ==
  ASSUME NEW f, NEW k
  PROVE  /\ DOMAIN Del(f, k) = DOMAIN f \ {k}
         /\ \A x \in DOMAIN f \ {k} : Del(f, k)[x] = f[x]
  BY DEF Del, Restrict

LEMMA InitTypeOK == Init => TypeOK
  BY DEF Init, TypeOK, Jobs, Idle

LEMMA GotoType ==
  ASSUME TypeOK, NEW r \in Requests, NEW j \in Jobs, Goto(r, j)
  PROVE  req' \in [Requests -> Jobs]
  BY DEF TypeOK, Goto

\* A request that only moves on to another job leaves everything well-typed.
LEMMA MoveType ==
  ASSUME TypeOK, NEW r \in Requests, NEW j \in Jobs, Goto(r, j),
         UNCHANGED <<users, conf, consents, refresh, codes, access, agreed>>
  PROVE  TypeOK'
  BY GotoType DEF TypeOK

LEMMA ConsentType ==
  ASSUME TypeOK, NEW r \in Requests, NEW u \in Users, NEW c \in Clients,
         NEW S \in SUBSET ClientScopes, Consent(r, u, c, S)
  PROVE  TypeOK'
<1>1. [at |-> "UpsertConsent", grant |-> Grant(u, c, S)] \in Jobs
  BY DEF Jobs, ConsentJobs, ConsentGrants, Grant
<1> QED
  BY <1>1, MoveType DEF Consent

LEMMA UpsertConsentType ==
  ASSUME TypeOK, NEW r \in Requests, UpsertConsent(r)
  PROVE  TypeOK'
<1>1. req[r] \in ConsentJobs
  BY JobShapes DEF TypeOK, UpsertConsent, Waits
<1>2. req[r].grant \in ConsentGrants
  BY <1>1 DEF ConsentJobs
<1>3. req' \in [Requests -> Jobs]
  BY GotoType DEF UpsertConsent, Jobs
<1> QED
  BY <1>2, <1>3 DEF UpsertConsent, TypeOK, Put, ConsentGrants

LEMMA AuthorizeType ==
  ASSUME TypeOK, NEW r \in Requests, NEW u \in Users, NEW c \in Clients, NEW S \in Asks,
         NEW v \in Verifiers, NEW uri \in Uris, NEW k \in FreshCodes,
         Authorize(r, u, c, S, v, uri, k)
  PROVE  TypeOK'
<1>1. k \in Codes
  BY DEF FreshCodes
<1>2. [at |-> "FindConsent", grant |-> Grant(u, c, S), challenge |-> v, code |-> k] \in Jobs
  BY <1>1, ScopesAssumption DEF Jobs, AuthorizeJobs, Grants, Grant
<1> QED
  BY <1>2, MoveType DEF Authorize

LEMMA FindConsentType ==
  ASSUME TypeOK, NEW r \in Requests, FindConsent(r)
  PROVE  TypeOK'
<1>1. req[r] \in AuthorizeJobs
  BY JobShapes DEF TypeOK, FindConsent, Waits
<1>2. [req[r] EXCEPT !.at = "SetCode"] \in Jobs /\ Idle \in Jobs
  BY <1>1 DEF Jobs, AuthorizeJobs
<1> QED
  BY <1>2, MoveType DEF FindConsent, Go

LEMMA SetCodeType ==
  ASSUME TypeOK, NEW r \in Requests, SetCode(r)
  PROVE  TypeOK'
<1>1. req[r] \in AuthorizeJobs
  BY JobShapes DEF TypeOK, SetCode, Waits
<1>2. /\ req[r].code \in Codes
      /\ [grant |-> req[r].grant, challenge |-> req[r].challenge, ttl |-> CodeTTL] \in CodeEntries
  BY <1>1, LifetimesAssumption DEF AuthorizeJobs, CodeEntries
<1>3. req' \in [Requests -> Jobs]
  BY GotoType DEF SetCode, Jobs
<1> QED
  BY <1>2, <1>3 DEF SetCode, TypeOK, Put

LEMMA CodeGrantType ==
  ASSUME TypeOK, NEW r \in Requests, NEW k \in Codes, NEW c \in Clients, NEW v \in Verifiers,
         NEW t \in FreshAccess, NEW n \in FreshRefresh, CodeGrant(r, k, c, v, t, n)
  PROVE  TypeOK'
<1>1. codes[k] \in CodeEntries /\ t \in AccessTokens /\ n \in RefreshTokens
  BY DEF TypeOK, CodeGrant, FreshAccess, FreshRefresh
<1>2. [at |-> "DelCode", grant |-> codes[k].grant, challenge |-> codes[k].challenge,
       code |-> k, client |-> c, verifier |-> v, token |-> t, new |-> n] \in Jobs
  BY <1>1 DEF Jobs, RedeemJobs, CodeEntries
<1> QED
  BY <1>2, MoveType DEF CodeGrant

LEMMA DelCodeType ==
  ASSUME TypeOK, NEW r \in Requests, DelCode(r)
  PROVE  TypeOK'
<1> DEFINE job == req[r]
<1>1. job \in RedeemJobs
  BY JobShapes DEF TypeOK, DelCode, Waits
<1>2. /\ Idle \in Jobs
      /\ [at |-> "CodeSetToken", grant |-> job.grant, client |-> job.client,
          code |-> job.code, token |-> job.token, new |-> job.new] \in Jobs
  BY <1>1 DEF Jobs, RedeemJobs, CodeJobs
<1>3. req' \in [Requests -> Jobs]
  BY <1>2, GotoType DEF DelCode
<1> QED
  BY <1>3 DEF DelCode, TypeOK, Del, Restrict

LEMMA AccessEntryType ==
  ASSUME NEW g \in Grants, NEW ttl \in {AccessTTL, ClientTTL}
  PROVE  AccessEntry(g, ttl) \in AccessEntries
  BY LifetimesAssumption DEF AccessEntry, AccessEntries

LEMMA RefreshRowType ==
  ASSUME NEW g \in Grants, NEW k \in Redemptions, NEW nonce \in BOOLEAN
  PROVE  RefreshRow(g, k, nonce) \in RefreshRows
  BY LifetimesAssumption DEF RefreshRow, RefreshRows

LEMMA CodeSetTokenType ==
  ASSUME TypeOK, NEW r \in Requests, CodeSetToken(r)
  PROVE  TypeOK'
<1> DEFINE job == req[r]
<1>1. job \in CodeJobs
  BY JobShapes DEF TypeOK, CodeSetToken, Waits
<1>2. /\ [job EXCEPT !.at = "CodeCreateRefresh"] \in Jobs
      /\ [job EXCEPT !.at = "CodeIdToken"] \in Jobs
      /\ [at |-> "Reply", ids |-> {job.token}] \in Jobs
  BY <1>1 DEF Jobs, CodeJobs, ReplyJobs
<1>3. req' \in [Requests -> Jobs]
  BY <1>2, GotoType DEF CodeSetToken, Go, Answer
<1>4. [job.grant EXCEPT !.client = job.client] \in Grants
  BY <1>1 DEF CodeJobs, Grants
<1>5. AccessEntry([job.grant EXCEPT !.client = job.client], AccessTTL) \in AccessEntries
  BY <1>4, AccessEntryType
<1>6. job.token \in AccessTokens
  BY <1>1 DEF CodeJobs
<1>7. access' = Put(access, job.token,
                    AccessEntry([job.grant EXCEPT !.client = job.client], AccessTTL))
  BY DEF CodeSetToken
<1> HIDE DEF job
<1> QED
  BY <1>3, <1>5, <1>6, <1>7 DEF CodeSetToken, TypeOK, Put

LEMMA CodeCreateRefreshType ==
  ASSUME TypeOK, NEW r \in Requests, CodeCreateRefresh(r)
  PROVE  TypeOK'
<1> DEFINE job == req[r]
<1>1. job \in CodeJobs
  BY JobShapes DEF TypeOK, CodeCreateRefresh, Waits
<1>2. /\ [job EXCEPT !.at = "CodeIdToken"] \in Jobs
      /\ [at |-> "Reply", ids |-> {job.token, job.new}] \in Jobs
      /\ Idle \in Jobs
  BY <1>1 DEF Jobs, CodeJobs, ReplyJobs
<1>3. req' \in [Requests -> Jobs]
  BY <1>2, GotoType DEF CodeCreateRefresh, Go, Answer
<1>4. RefreshRow(job.grant, [code |-> job.code, by |-> r], FALSE) \in RefreshRows
  BY <1>1, RefreshRowType DEF CodeJobs, Redemptions
<1>5. job.new \in RefreshTokens
  BY <1>1 DEF CodeJobs
<1>6. \/ refresh' = Put(refresh, job.new,
                       RefreshRow(job.grant, [code |-> job.code, by |-> r], FALSE))
      \/ UNCHANGED refresh
  BY DEF CodeCreateRefresh
<1>7. UNCHANGED <<users, conf, consents, codes, access, agreed>>
  BY DEF CodeCreateRefresh
<1> HIDE DEF job
<1> QED
  BY <1>3, <1>4, <1>5, <1>6, <1>7 DEF TypeOK, Put

LEMMA CodeIdTokenType ==
  ASSUME TypeOK, NEW r \in Requests, CodeIdToken(r)
  PROVE  TypeOK'
<1> DEFINE job == req[r]
<1>1. job \in CodeJobs
  BY JobShapes DEF TypeOK, CodeIdToken, Waits
<1>2. [at |-> "Reply", ids |-> {job.token, job.new}] \in Jobs /\ Idle \in Jobs
  BY <1>1 DEF Jobs, CodeJobs, ReplyJobs
<1> QED
  BY <1>2, MoveType DEF CodeIdToken, Answer

LEMMA RefreshGrantType ==
  ASSUME TypeOK, NEW r \in Requests, NEW t \in HeldRefresh, NEW c \in Clients,
         NEW a \in FreshAccess, NEW n \in FreshRefresh, RefreshGrant(r, t, c, a, n)
  PROVE  TypeOK'
<1>1. /\ refresh[t] \in RefreshRows /\ t \in RefreshTokens
      /\ a \in AccessTokens /\ n \in RefreshTokens
  BY DEF TypeOK, HeldRefresh, FreshAccess, FreshRefresh
<1>2. [at |-> "RotSetToken", grant |-> refresh[t].grant, nonce |-> refresh[t].nonce,
       root |-> refresh[t].root, old |-> t, token |-> a, new |-> n] \in Jobs
  BY <1>1 DEF Jobs, RotateJobs, RefreshRows
<1> QED
  BY <1>2, MoveType DEF RefreshGrant

LEMMA RotSetTokenType ==
  ASSUME TypeOK, NEW r \in Requests, RotSetToken(r)
  PROVE  TypeOK'
<1> DEFINE job == req[r]
<1>1. job \in RotateJobs
  BY JobShapes DEF TypeOK, RotSetToken, Waits
<1>2. /\ [job EXCEPT !.at = "RotCreateRefresh"] \in Jobs
      /\ [job EXCEPT !.at = "RotDelete"] \in Jobs
  BY <1>1 DEF Jobs, RotateJobs
<1>3. req' \in [Requests -> Jobs]
  BY <1>2, GotoType DEF RotSetToken, Go
<1>4. job.token \in AccessTokens /\ AccessEntry(job.grant, AccessTTL) \in AccessEntries
  BY <1>1, AccessEntryType DEF RotateJobs
<1>5. access' = Put(access, job.token, AccessEntry(job.grant, AccessTTL))
  BY DEF RotSetToken
<1> HIDE DEF job
<1> QED
  BY <1>3, <1>4, <1>5 DEF RotSetToken, TypeOK, Put

LEMMA RotCreateRefreshType ==
  ASSUME TypeOK, NEW r \in Requests, RotCreateRefresh(r)
  PROVE  TypeOK'
<1> DEFINE job == req[r]
<1>1. job \in RotateJobs
  BY JobShapes DEF TypeOK, RotCreateRefresh, Waits
<1>2. [job EXCEPT !.at = "RotDelete"] \in Jobs /\ Idle \in Jobs
  BY <1>1 DEF Jobs, RotateJobs
<1>3. req' \in [Requests -> Jobs]
  BY <1>2, GotoType DEF RotCreateRefresh, Go
<1>4. job.new \in RefreshTokens /\ RefreshRow(job.grant, job.root, FALSE) \in RefreshRows
  BY <1>1, RefreshRowType DEF RotateJobs
<1>5. \/ refresh' = Put(refresh, job.new, RefreshRow(job.grant, job.root, FALSE))
      \/ UNCHANGED refresh
  BY DEF RotCreateRefresh
<1>6. UNCHANGED <<users, conf, consents, codes, access, agreed>>
  BY DEF RotCreateRefresh
<1> HIDE DEF job
<1> QED
  BY <1>3, <1>4, <1>5, <1>6 DEF TypeOK, Put

LEMMA RotDeleteType ==
  ASSUME TypeOK, NEW r \in Requests, RotDelete(r)
  PROVE  TypeOK'
<1> DEFINE job == req[r]
<1>1. job \in RotateJobs
  BY JobShapes DEF TypeOK, RotDelete, Waits
<1>2. [at |-> "Reply", ids |-> {job.token, job.new}] \in Jobs /\ Idle \in Jobs
  BY <1>1 DEF Jobs, RotateJobs, ReplyJobs
<1>3. req' \in [Requests -> Jobs]
  BY <1>2, GotoType DEF RotDelete, Answer
<1>4. refresh' = Del(refresh, job.old) \/ UNCHANGED refresh
  BY DEF RotDelete
<1>5. UNCHANGED <<users, conf, consents, codes, access, agreed>>
  BY DEF RotDelete
<1> HIDE DEF job
<1> QED
  BY <1>3, <1>4, <1>5 DEF TypeOK, Del, Restrict

LEMMA ClientCredentialsType ==
  ASSUME TypeOK, NEW r \in Requests, NEW c \in Clients, NEW S \in SUBSET ClientScopes,
         NEW t \in FreshAccess, ClientCredentials(r, c, S, t)
  PROVE  TypeOK'
<1>1. t \in AccessTokens
  BY DEF FreshAccess
<1>2. [at |-> "ClientSetToken", grant |-> Grant(NoUser, c, S), token |-> t] \in Jobs
  BY <1>1 DEF Jobs, ClientJobs, Grants, Grant
<1> QED
  BY <1>2, MoveType DEF ClientCredentials

LEMMA ClientSetTokenType ==
  ASSUME TypeOK, NEW r \in Requests, ClientSetToken(r)
  PROVE  TypeOK'
<1> DEFINE job == req[r]
<1>1. job \in ClientJobs
  BY JobShapes DEF TypeOK, ClientSetToken, Waits
<1>2. [at |-> "Reply", ids |-> {job.token}] \in Jobs
  BY <1>1 DEF Jobs, ClientJobs, ReplyJobs
<1>3. req' \in [Requests -> Jobs]
  BY <1>2, GotoType DEF ClientSetToken, Answer
<1>4. job.token \in AccessTokens /\ AccessEntry(job.grant, ClientTTL) \in AccessEntries
  BY <1>1, AccessEntryType DEF ClientJobs, Grants
<1>5. access' = Put(access, job.token, AccessEntry(job.grant, ClientTTL))
  BY DEF ClientSetToken
<1> HIDE DEF job
<1> QED
  BY <1>3, <1>4, <1>5 DEF ClientSetToken, TypeOK, Put

LEMMA UserinfoType ==
  ASSUME TypeOK, NEW r \in Requests, NEW t \in HeldAccess, NEW sub \in Users,
         Userinfo(r, t, sub)
  PROVE  TypeOK'
<1> DEFINE g == access[t].grant
<1>1. g \in Grants
  BY DEF TypeOK, HeldAccess, AccessEntries
<1>2. /\ [at |-> "InfoConsent", grant |-> [g EXCEPT !.user = sub]] \in Jobs
      /\ [at |-> "InfoUser", grant |-> g] \in Jobs
  BY <1>1 DEF Jobs, InfoJobs, Grants
<1> QED
  BY <1>2, MoveType DEF Userinfo

LEMMA InfoType ==
  ASSUME TypeOK, NEW r \in Requests, InfoConsent(r) \/ InfoUser(r)
  PROVE  TypeOK'
<1>1. req[r] \in InfoJobs
  BY JobShapes DEF TypeOK, InfoConsent, InfoUser, Waits
<1>2. [req[r] EXCEPT !.at = "InfoUser"] \in Jobs /\ Idle \in Jobs
  BY <1>1 DEF Jobs, InfoJobs
<1> QED
  BY <1>2, MoveType DEF InfoConsent, InfoUser, Go

LEMMA ReplyType ==
  ASSUME TypeOK, NEW r \in Requests, Reply(r)
  PROVE  TypeOK'
<1>1. req' \in [Requests -> Jobs]
  BY GotoType DEF Reply, Jobs
<1>2. /\ DOMAIN access' = DOMAIN access
      /\ \A t \in DOMAIN access : \E b \in BOOLEAN : access'[t] = [access[t] EXCEPT !.held = b]
  BY DEF Reply, TypeOK, AccessEntries
<1>3. /\ DOMAIN refresh' = DOMAIN refresh
      /\ \A t \in DOMAIN refresh : \E b \in BOOLEAN : refresh'[t] = [refresh[t] EXCEPT !.held = b]
  BY DEF Reply, TypeOK, RefreshRows
<1>4. \A t \in DOMAIN access' : access'[t] \in AccessEntries
  BY <1>2 DEF TypeOK, AccessEntries
<1>5. \A t \in DOMAIN refresh' : refresh'[t] \in RefreshRows
  BY <1>3 DEF TypeOK, RefreshRows
<1> QED
  BY <1>1, <1>2, <1>3, <1>4, <1>5 DEF Reply, TypeOK

LEMMA AroundType ==
  ASSUME TypeOK, Around
  PROVE  TypeOK'
<1>1. ASSUME NEW t \in HeldAccess, RevokeAccess(t) PROVE TypeOK'
  BY <1>1 DEF RevokeAccess, TypeOK, Del, Restrict
<1>2. ASSUME NEW t \in HeldRefresh, RevokeRefresh(t) PROVE TypeOK'
  BY <1>2 DEF RevokeRefresh, TypeOK, Del, Restrict
<1>3. ASSUME NEW u \in users, DeleteUser(u) PROVE TypeOK'
  BY <1>3 DEF DeleteUser, TypeOK, RowsOf, Restrict
<1>4. ASSUME NEW c \in Clients, NEW new \in ClientConfs, UpdateClient(c, new) PROVE TypeOK'
  BY <1>4 DEF UpdateClient, TypeOK
<1>5. ASSUME Tick PROVE TypeOK'
  <2>1. DOMAIN codes' \subseteq Codes /\ \A k \in DOMAIN codes' : codes'[k] \in CodeEntries
    <3>1. ASSUME NEW k \in DOMAIN codes, codes[k].ttl > 1
          PROVE  [codes[k] EXCEPT !.ttl = @ - 1] \in CodeEntries
      BY <3>1, LifetimesAssumption DEF TypeOK, CodeEntries
    <3> QED
      BY <1>5, <3>1 DEF Tick, Older, TypeOK
  <2>2. DOMAIN access' \subseteq AccessTokens /\ \A t \in DOMAIN access' : access'[t] \in AccessEntries
    <3>1. ASSUME NEW t \in DOMAIN access, access[t].ttl > 1
          PROVE  [access[t] EXCEPT !.ttl = @ - 1] \in AccessEntries
      BY <3>1, LifetimesAssumption DEF TypeOK, AccessEntries
    <3> QED
      BY <1>5, <3>1 DEF Tick, Older, TypeOK
  <2>3. DOMAIN refresh' \subseteq RefreshTokens /\ \A t \in DOMAIN refresh' : refresh'[t] \in RefreshRows
    BY <1>5, LifetimesAssumption DEF Tick, TypeOK, RefreshRows
  <2> QED
    BY <1>5, <2>1, <2>2, <2>3 DEF Tick, TypeOK
<1> QED
  BY <1>1, <1>2, <1>3, <1>4, <1>5 DEF Around

LEMMA ArriveType ==
  ASSUME TypeOK, NEW r \in Requests, Arrive(r)
  PROVE  TypeOK'
  BY ConsentType, AuthorizeType, CodeGrantType, RefreshGrantType, ClientCredentialsType,
     UserinfoType DEF Arrive

LEMMA ContinueType ==
  ASSUME TypeOK, NEW r \in Requests, Continue(r)
  PROVE  TypeOK'
  BY UpsertConsentType, FindConsentType, SetCodeType, DelCodeType, CodeSetTokenType,
     CodeCreateRefreshType, CodeIdTokenType, RotSetTokenType, RotCreateRefreshType,
     RotDeleteType, ClientSetTokenType, InfoType, ReplyType DEF Continue

LEMMA AbortType ==
  ASSUME TypeOK, NEW r \in Requests, Abort(r)
  PROVE  TypeOK'
<1>1. Idle \in Jobs
  BY DEF Jobs
<1> QED
  BY <1>1, MoveType DEF Abort

LEMMA TypeStep == TypeOK /\ [Next]_vars => TypeOK'
<1> SUFFICES ASSUME TypeOK, [Next]_vars PROVE TypeOK'
  OBVIOUS
<1>1. CASE UNCHANGED vars
  BY <1>1 DEF vars, TypeOK
<1>2. CASE Next
  BY <1>2, ArriveType, ContinueType, AbortType, AroundType DEF Next
<1> QED
  BY <1>1, <1>2

\* The state always has its type: no step of any request, and nothing that
\* happens around the requests, stores an entry, a row or a job of another shape
\* (the stores and handlers of OauthService).
THEOREM TypeCorrect == Spec => []TypeOK
<1> QED
  BY InitTypeOK, TypeStep, PTL DEF Spec

-----------------------------------------------------------------------------
(* Rows reference users that exist.                                        *)

LEMMA RowsInit == Init => RowsReferenceUsers
  BY DEF Init, RowsReferenceUsers

\* Most steps leave the tables alone.
LEMMA RowsFrame ==
  ASSUME RowsReferenceUsers, UNCHANGED <<users, consents, refresh>>
  PROVE  RowsReferenceUsers'
  BY DEF RowsReferenceUsers

LEMMA RowsContinue ==
  ASSUME TypeOK, RowsReferenceUsers, NEW r \in Requests, Continue(r)
  PROVE  RowsReferenceUsers'
<1>1. CASE UpsertConsent(r)
  BY <1>1 DEF UpsertConsent, RowsReferenceUsers, Put
<1>2. CASE CodeCreateRefresh(r)
  BY <1>2 DEF CodeCreateRefresh, RowsReferenceUsers, Put, RefreshRow
<1>3. CASE RotCreateRefresh(r)
  BY <1>3 DEF RotCreateRefresh, RowsReferenceUsers, Put, RefreshRow
<1>4. CASE RotDelete(r)
  BY <1>4 DEF RotDelete, RowsReferenceUsers, Del, Restrict
<1>5. CASE Reply(r)
  <2>1. \A t \in DOMAIN refresh' : t \in DOMAIN refresh /\ refresh'[t].grant = refresh[t].grant
    BY <1>5 DEF Reply, TypeOK, RefreshRows
  <2> QED
    BY <1>5, <2>1 DEF Reply, RowsReferenceUsers
<1>6. CASE \/ FindConsent(r) \/ SetCode(r) \/ DelCode(r) \/ CodeSetToken(r) \/ CodeIdToken(r)
           \/ RotSetToken(r) \/ ClientSetToken(r) \/ InfoConsent(r) \/ InfoUser(r)
  BY <1>6, RowsFrame DEF FindConsent, SetCode, DelCode, CodeSetToken, CodeIdToken, RotSetToken,
     ClientSetToken, InfoConsent, InfoUser
<1> QED
  BY <1>1, <1>2, <1>3, <1>4, <1>5, <1>6 DEF Continue

LEMMA RowsArrive ==
  ASSUME RowsReferenceUsers, NEW r \in Requests, Arrive(r) \/ Abort(r)
  PROVE  RowsReferenceUsers'
<1>1. UNCHANGED <<users, consents, refresh>>
  BY DEF Arrive, Abort, Consent, Authorize, CodeGrant, RefreshGrant, ClientCredentials, Userinfo
<1> QED
  BY <1>1, RowsFrame

LEMMA RowsAround ==
  ASSUME TypeOK, RowsReferenceUsers, Around
  PROVE  RowsReferenceUsers'
<1>1. ASSUME NEW u \in users, DeleteUser(u) PROVE RowsReferenceUsers'
  BY <1>1 DEF DeleteUser, RowsReferenceUsers, RowsOf, Restrict
<1>2. ASSUME NEW t \in HeldRefresh, RevokeRefresh(t) PROVE RowsReferenceUsers'
  BY <1>2 DEF RevokeRefresh, RowsReferenceUsers, Del, Restrict
<1>3. ASSUME Tick PROVE RowsReferenceUsers'
  <2>1. \A t \in DOMAIN refresh' : t \in DOMAIN refresh /\ refresh'[t].grant = refresh[t].grant
    BY <1>3 DEF Tick, TypeOK, RefreshRows
  <2> QED
    BY <1>3, <2>1 DEF Tick, RowsReferenceUsers
<1>4. ASSUME NEW t, RevokeAccess(t) PROVE RowsReferenceUsers'
  BY <1>4, RowsFrame DEF RevokeAccess
<1>5. ASSUME NEW c, NEW new, UpdateClient(c, new) PROVE RowsReferenceUsers'
  BY <1>5, RowsFrame DEF UpdateClient
<1> QED
  BY <1>1, <1>2, <1>3, <1>4, <1>5 DEF Around

\* Refresh tokens and consents always belong to existing users, whatever
\* requests were in flight when a user was deleted (deleteUser's cascade, and
\* the foreign keys that createRefreshToken and upsertConsent run into).
THEOREM RowsCorrect == Spec => []RowsReferenceUsers
<1>1. TypeOK /\ RowsReferenceUsers /\ [Next]_vars => RowsReferenceUsers'
  <2> SUFFICES ASSUME TypeOK, RowsReferenceUsers, [Next]_vars PROVE RowsReferenceUsers'
    OBVIOUS
  <2>1. CASE UNCHANGED vars
    BY <2>1, RowsFrame DEF vars
  <2>2. CASE Next
    BY <2>2, RowsArrive, RowsContinue, RowsAround DEF Next
  <2> QED
    BY <2>1, <2>2
<1> QED
  BY <1>1, RowsInit, TypeCorrect, PTL DEF Spec

-----------------------------------------------------------------------------
(* The rights that are live: only FindConsent adds one.                    *)

LEMMA GrantsPut ==
  ASSUME NEW store, NEW k, NEW v
  PROVE  GrantsOf(Put(store, k, v)) \subseteq GrantsOf(store) \cup {v.grant}
  BY DEF GrantsOf, Put

LEMMA GrantsRestrict ==
  ASSUME NEW store, NEW D, D \subseteq DOMAIN store
  PROVE  GrantsOf(Restrict(store, D)) \subseteq GrantsOf(store)
  BY DEF GrantsOf, Restrict

\* A request that moves on adds at most the grant of its new job.
LEMMA JobGrantsGoto ==
  ASSUME TypeOK, NEW r \in Requests, NEW j, Goto(r, j), NEW L, JobGrants \subseteq L,
         j.at \in IssuingSteps => j.grant \in L
  PROVE  JobGrants' \subseteq L
<1>1. \A q \in Requests : q # r => req'[q] = req[q]
  BY DEF Goto, TypeOK
<1>2. req'[r] = j
  BY DEF Goto, TypeOK
<1> QED
  BY <1>1, <1>2 DEF JobGrants

\* A request that moves to a job without a live grant, and stores nothing.
LEMMA LiveMove ==
  ASSUME TypeOK, NEW r \in Requests, NEW j, Goto(r, j),
         UNCHANGED <<refresh, codes, access>>,
         j.at \in IssuingSteps => j.grant \in LiveGrants
  PROVE  LiveGrants' \subseteq LiveGrants
<1>1. JobGrants' \subseteq LiveGrants
  BY JobGrantsGoto DEF LiveGrants
<1> QED
  BY <1>1 DEF LiveGrants

LEMMA LiveArrive ==
  ASSUME TypeOK, NEW r \in Requests, Arrive(r) \/ Abort(r)
  PROVE  LiveGrants' \subseteq LiveGrants
<1>1. ASSUME NEW k \in Codes, NEW c, NEW v, NEW t, NEW n, CodeGrant(r, k, c, v, t, n)
      PROVE  LiveGrants' \subseteq LiveGrants
  <2>1. codes[k].grant \in LiveGrants
    BY <1>1 DEF CodeGrant, LiveGrants, GrantsOf
  <2> QED
    BY <1>1, <2>1, LiveMove DEF CodeGrant
<1>2. ASSUME NEW t \in HeldRefresh, NEW c, NEW a, NEW n, RefreshGrant(r, t, c, a, n)
      PROVE  LiveGrants' \subseteq LiveGrants
  <2>1. refresh[t].grant \in LiveGrants
    BY <1>2 DEF HeldRefresh, LiveGrants, GrantsOf
  <2> QED
    BY <1>2, <2>1, LiveMove DEF RefreshGrant
<1>3. ASSUME NEW u, NEW c, NEW S, Consent(r, u, c, S)
      PROVE  LiveGrants' \subseteq LiveGrants
  BY <1>3, LiveMove DEF Consent, IssuingSteps
<1>4. ASSUME NEW u, NEW c, NEW S, NEW v, NEW uri, NEW k, Authorize(r, u, c, S, v, uri, k)
      PROVE  LiveGrants' \subseteq LiveGrants
  BY <1>4, LiveMove DEF Authorize, IssuingSteps
<1>5. ASSUME NEW c, NEW S, NEW t, ClientCredentials(r, c, S, t)
      PROVE  LiveGrants' \subseteq LiveGrants
  BY <1>5, LiveMove DEF ClientCredentials, IssuingSteps
<1>6. ASSUME NEW t, NEW sub, Userinfo(r, t, sub)
      PROVE  LiveGrants' \subseteq LiveGrants
  BY <1>6, LiveMove DEF Userinfo, IssuingSteps
<1>7. ASSUME Abort(r) PROVE LiveGrants' \subseteq LiveGrants
  BY <1>7, LiveMove DEF Abort, Idle, IssuingSteps
<1> QED
  BY <1>1, <1>2, <1>3, <1>4, <1>5, <1>6, <1>7 DEF Arrive

\* After the check in DelCode, the client of the request is the code's client.
OwnClient ==
  \A r \in Requests :
    req[r].at \in {"CodeSetToken", "CodeCreateRefresh", "CodeIdToken"} =>
      req[r].client = req[r].grant.client

LEMMA LiveJob ==
  ASSUME NEW r \in Requests, req[r].at \in IssuingSteps
  PROVE  req[r].grant \in LiveGrants
  BY DEF LiveGrants, JobGrants

\* A request that was issuing and goes on with the same grant.
LEMMA LiveGo ==
  ASSUME TypeOK, NEW r \in Requests, req[r].at \in IssuingSteps, NEW j, Goto(r, j),
         j.at \in IssuingSteps => j.grant = req[r].grant
  PROVE  JobGrants' \subseteq LiveGrants
  BY LiveJob, JobGrantsGoto DEF LiveGrants

LEMMA LiveCodeGrant ==
  ASSUME TypeOK, OwnClient, NEW r \in Requests,
         DelCode(r) \/ CodeSetToken(r) \/ CodeCreateRefresh(r) \/ CodeIdToken(r)
  PROVE  LiveGrants' \subseteq LiveGrants
<1> DEFINE job == req[r]
<1>1. CASE DelCode(r)
  <2>1. JobGrants' \subseteq LiveGrants
    BY <1>1, LiveGo DEF DelCode, Waits, IssuingSteps, Idle
  <2>2. GrantsOf(codes') \subseteq GrantsOf(codes)
    BY <1>1, GrantsRestrict DEF DelCode, Del
  <2> QED
    BY <1>1, <2>1, <2>2 DEF DelCode, LiveGrants
<1>2. CASE CodeSetToken(r)
  <2>1. job \in CodeJobs /\ job.client = job.grant.client
    BY <1>2, JobShapes DEF CodeSetToken, Waits, TypeOK, OwnClient
  <2>2. [job.grant EXCEPT !.client = job.client] = job.grant
    BY <2>1 DEF CodeJobs, Grants
  <2>3. JobGrants' \subseteq LiveGrants
    <3>1. /\ [job EXCEPT !.at = "CodeCreateRefresh"].grant = job.grant
          /\ [job EXCEPT !.at = "CodeIdToken"].at = "CodeIdToken"
      BY <2>1 DEF CodeJobs
    <3> QED
      BY <1>2, <3>1, LiveGo DEF CodeSetToken, Waits, IssuingSteps, Go, Answer
  <2>4. GrantsOf(access') \subseteq GrantsOf(access) \cup {job.grant}
    BY <1>2, <2>2, GrantsPut DEF CodeSetToken, AccessEntry
  <2>5. job.grant \in LiveGrants
    BY <1>2, LiveJob DEF CodeSetToken, Waits, IssuingSteps
  <2> QED
    BY <1>2, <2>3, <2>4, <2>5 DEF CodeSetToken, LiveGrants
<1>3. CASE CodeCreateRefresh(r)
  <2>1. job \in CodeJobs
    BY <1>3, JobShapes DEF CodeCreateRefresh, Waits, TypeOK
  <2>2. JobGrants' \subseteq LiveGrants
    <3>1. [job EXCEPT !.at = "CodeIdToken"].at = "CodeIdToken"
      BY <2>1 DEF CodeJobs
    <3> QED
      BY <1>3, <3>1, LiveGo DEF CodeCreateRefresh, Waits, IssuingSteps, Go, Answer, Idle
  <2>3. GrantsOf(refresh') \subseteq GrantsOf(refresh) \cup {job.grant}
    BY <1>3, GrantsPut DEF CodeCreateRefresh, RefreshRow
  <2>4. job.grant \in LiveGrants
    BY <1>3, LiveJob DEF CodeCreateRefresh, Waits, IssuingSteps
  <2> QED
    BY <1>3, <2>2, <2>3, <2>4 DEF CodeCreateRefresh, LiveGrants
<1>4. CASE CodeIdToken(r)
  BY <1>4, LiveMove DEF CodeIdToken, Answer, Idle, IssuingSteps
<1> QED
  BY <1>1, <1>2, <1>3, <1>4

LEMMA LiveRotate ==
  ASSUME TypeOK, NEW r \in Requests, RotSetToken(r) \/ RotCreateRefresh(r) \/ RotDelete(r)
  PROVE  LiveGrants' \subseteq LiveGrants
<1> DEFINE job == req[r]
<1>1. job \in RotateJobs
  BY JobShapes DEF RotSetToken, RotCreateRefresh, RotDelete, Waits, TypeOK
<1>2. job.grant \in LiveGrants
  BY LiveJob DEF RotSetToken, RotCreateRefresh, RotDelete, Waits, IssuingSteps
<1>3. /\ [job EXCEPT !.at = "RotCreateRefresh"].grant = job.grant
      /\ [job EXCEPT !.at = "RotDelete"].grant = job.grant
  BY <1>1 DEF RotateJobs
<1>4. JobGrants' \subseteq LiveGrants
  BY <1>3, LiveGo DEF RotSetToken, RotCreateRefresh, RotDelete, Waits, IssuingSteps, Go, Answer, Idle
<1>5. CASE RotSetToken(r)
  <2>1. GrantsOf(access') \subseteq GrantsOf(access) \cup {job.grant}
    BY <1>5, GrantsPut DEF RotSetToken, AccessEntry
  <2> QED
    BY <1>2, <1>4, <1>5, <2>1 DEF RotSetToken, LiveGrants
<1>6. CASE RotCreateRefresh(r)
  <2>1. GrantsOf(refresh') \subseteq GrantsOf(refresh) \cup {job.grant}
    BY <1>6, GrantsPut DEF RotCreateRefresh, RefreshRow
  <2> QED
    BY <1>2, <1>4, <1>6, <2>1 DEF RotCreateRefresh, LiveGrants
<1>7. CASE RotDelete(r)
  <2>1. GrantsOf(refresh') \subseteq GrantsOf(refresh)
    BY <1>7, GrantsRestrict DEF RotDelete, Del
  <2> QED
    BY <1>4, <1>7, <2>1 DEF RotDelete, LiveGrants
<1> QED
  BY <1>5, <1>6, <1>7

LEMMA LiveOther ==
  ASSUME TypeOK, NEW r \in Requests,
         UpsertConsent(r) \/ SetCode(r) \/ ClientSetToken(r) \/ InfoConsent(r) \/ InfoUser(r)
           \/ Reply(r)
  PROVE  LiveGrants' \subseteq LiveGrants
<1>1. CASE UpsertConsent(r)
  BY <1>1, LiveMove DEF UpsertConsent, Idle, IssuingSteps
<1>2. CASE SetCode(r)
  <2>1. JobGrants' \subseteq LiveGrants
    BY <1>2, LiveGo DEF SetCode, Waits, IssuingSteps, Idle
  <2>2. req[r].grant \in LiveGrants
    BY <1>2, LiveJob DEF SetCode, Waits, IssuingSteps
  <2>3. GrantsOf(codes') \subseteq GrantsOf(codes) \cup {req[r].grant}
    BY <1>2, GrantsPut DEF SetCode
  <2> QED
    BY <1>2, <2>1, <2>2, <2>3 DEF SetCode, LiveGrants
<1>3. CASE ClientSetToken(r)
  <2>1. JobGrants' \subseteq LiveGrants
    BY <1>3, JobGrantsGoto DEF ClientSetToken, Answer, IssuingSteps, LiveGrants
  <2>2. GrantsOf(access') \subseteq GrantsOf(access) \cup {req[r].grant}
    BY <1>3, GrantsPut DEF ClientSetToken, AccessEntry
  <2>3. req[r].grant.user = NoUser
    BY <1>3, JobShapes DEF ClientSetToken, Waits, TypeOK, ClientJobs
  <2> QED
    BY <1>3, <2>1, <2>2, <2>3 DEF ClientSetToken, LiveGrants
<1>4. CASE InfoConsent(r) \/ InfoUser(r)
  <2>1. req[r] \in InfoJobs
    BY <1>4, JobShapes DEF InfoConsent, InfoUser, Waits, TypeOK
  <2>2. [req[r] EXCEPT !.at = "InfoUser"].at = "InfoUser"
    BY <2>1 DEF InfoJobs
  <2> QED
    BY <1>4, <2>2, LiveMove DEF InfoConsent, InfoUser, Go, Idle, IssuingSteps
<1>5. CASE Reply(r)
  <2>1. JobGrants' \subseteq LiveGrants
    <3>1. Goto(r, Idle) /\ Idle.at \notin IssuingSteps /\ JobGrants \subseteq LiveGrants
      BY <1>5 DEF Reply, Idle, IssuingSteps, LiveGrants
    <3> QED
      BY <3>1, JobGrantsGoto
  <2>2. GrantsOf(access') \subseteq GrantsOf(access)
    BY <1>5 DEF Reply, GrantsOf, TypeOK, AccessEntries
  <2>3. GrantsOf(refresh') \subseteq GrantsOf(refresh)
    BY <1>5 DEF Reply, GrantsOf, TypeOK, RefreshRows
  <2> QED
    BY <1>5, <2>1, <2>2, <2>3 DEF Reply, LiveGrants
<1> QED
  BY <1>1, <1>2, <1>3, <1>4, <1>5

LEMMA LiveAround ==
  ASSUME TypeOK, Around
  PROVE  LiveGrants' \subseteq LiveGrants
<1>1. ASSUME NEW t, RevokeAccess(t) PROVE LiveGrants' \subseteq LiveGrants
  BY <1>1, GrantsRestrict DEF RevokeAccess, Del, LiveGrants, JobGrants
<1>2. ASSUME NEW t, RevokeRefresh(t) PROVE LiveGrants' \subseteq LiveGrants
  BY <1>2, GrantsRestrict DEF RevokeRefresh, Del, LiveGrants, JobGrants
<1>3. ASSUME NEW u, DeleteUser(u) PROVE LiveGrants' \subseteq LiveGrants
  BY <1>3, GrantsRestrict DEF DeleteUser, LiveGrants, JobGrants
<1>4. ASSUME NEW c, NEW new, UpdateClient(c, new) PROVE LiveGrants' \subseteq LiveGrants
  BY <1>4 DEF UpdateClient, LiveGrants, JobGrants
<1>5. ASSUME Tick PROVE LiveGrants' \subseteq LiveGrants
  <2>1. GrantsOf(codes') \subseteq GrantsOf(codes)
    BY <1>5 DEF Tick, Older, GrantsOf, TypeOK, CodeEntries
  <2>2. GrantsOf(access') \subseteq GrantsOf(access)
    BY <1>5 DEF Tick, Older, GrantsOf, TypeOK, AccessEntries
  <2>3. GrantsOf(refresh') \subseteq GrantsOf(refresh)
    BY <1>5 DEF Tick, GrantsOf, TypeOK, RefreshRows
  <2> QED
    BY <1>5, <2>1, <2>2, <2>3 DEF Tick, LiveGrants, JobGrants
<1> QED
  BY <1>1, <1>2, <1>3, <1>4, <1>5 DEF Around

\* The one step that adds a right, and only one that the consent covers.
LEMMA LiveFindConsent ==
  ASSUME TypeOK, NEW r \in Requests, FindConsent(r)
  PROVE  \/ LiveGrants' \subseteq LiveGrants
         \/ Covered(req[r].grant) /\ LiveGrants' = LiveGrants \cup {req[r].grant}
<1> DEFINE job == req[r]
<1>1. job \in AuthorizeJobs /\ job.at = "FindConsent"
  BY JobShapes DEF FindConsent, Waits, TypeOK
<1>2. CASE Covered(job.grant)
  <2>1. /\ req'[r].at = "SetCode" /\ req'[r].grant = job.grant
        /\ \A q \in Requests \ {r} : req'[q] = req[q]
    BY <1>1, <1>2 DEF FindConsent, Go, Goto, AuthorizeJobs, TypeOK
  <2>2. JobGrants' = JobGrants \cup {job.grant}
    BY <1>1, <2>1 DEF JobGrants, IssuingSteps
  <2> QED
    BY <1>2, <2>2 DEF LiveGrants, FindConsent
<1>3. CASE ~Covered(job.grant)
  BY <1>3, LiveMove DEF FindConsent, Idle, IssuingSteps
<1> QED
  BY <1>2, <1>3

LEMMA LiveStep ==
  ASSUME TypeOK, OwnClient, [Next]_vars
  PROVE  \/ LiveGrants' \subseteq LiveGrants
         \/ \E r \in Requests : /\ FindConsent(r) /\ Covered(req[r].grant)
                                /\ LiveGrants' = LiveGrants \cup {req[r].grant}
<1>1. CASE UNCHANGED vars
  BY <1>1 DEF vars, LiveGrants, JobGrants
<1>2. CASE Next
  BY <1>2, LiveArrive, LiveFindConsent, LiveCodeGrant, LiveRotate, LiveOther, LiveAround
     DEF Next, Continue
<1> QED
  BY <1>1, <1>2

-----------------------------------------------------------------------------
(* Everything delegated was agreed.                                        *)

\* Every consent row was recorded.
ConsentsAgreed ==
  \A k \in DOMAIN consents :
    \E a \in agreed : a.user = k[1] /\ a.client = k[2] /\ a.scope = consents[k]

LEMMA OwnClientGoto ==
  ASSUME TypeOK, OwnClient, NEW r \in Requests, NEW j, Goto(r, j),
         j.at \in {"CodeSetToken", "CodeCreateRefresh", "CodeIdToken"} =>
           j.client = j.grant.client
  PROVE  OwnClient'
<1>1. req'[r] = j /\ \A q \in Requests \ {r} : req'[q] = req[q]
  BY DEF Goto, TypeOK
<1> QED
  BY <1>1 DEF OwnClient

LEMMA OwnClientArrive ==
  ASSUME TypeOK, OwnClient, NEW r \in Requests, Arrive(r) \/ Abort(r)
  PROVE  OwnClient'
<1>1. ASSUME NEW u, NEW c, NEW S, Consent(r, u, c, S) PROVE OwnClient'
  BY <1>1, OwnClientGoto DEF Consent
<1>2. ASSUME NEW u, NEW c, NEW S, NEW v, NEW uri, NEW k, Authorize(r, u, c, S, v, uri, k)
      PROVE  OwnClient'
  BY <1>2, OwnClientGoto DEF Authorize
<1>3. ASSUME NEW k, NEW c, NEW v, NEW t, NEW n, CodeGrant(r, k, c, v, t, n) PROVE OwnClient'
  BY <1>3, OwnClientGoto DEF CodeGrant
<1>4. ASSUME NEW t, NEW c, NEW a, NEW n, RefreshGrant(r, t, c, a, n) PROVE OwnClient'
  BY <1>4, OwnClientGoto DEF RefreshGrant
<1>5. ASSUME NEW c, NEW S, NEW t, ClientCredentials(r, c, S, t) PROVE OwnClient'
  BY <1>5, OwnClientGoto DEF ClientCredentials
<1>6. ASSUME NEW t, NEW sub, Userinfo(r, t, sub) PROVE OwnClient'
  BY <1>6, OwnClientGoto DEF Userinfo
<1>7. CASE Abort(r)
  BY <1>7, OwnClientGoto DEF Abort, Idle
<1> QED
  BY <1>1, <1>2, <1>3, <1>4, <1>5, <1>6, <1>7 DEF Arrive

LEMMA OwnClientContinue ==
  ASSUME TypeOK, OwnClient, NEW r \in Requests, Continue(r)
  PROVE  OwnClient'
<1> DEFINE job == req[r]
           Labels == {"CodeSetToken", "CodeCreateRefresh", "CodeIdToken"}
<1>1. CASE CodeSetToken(r) \/ CodeCreateRefresh(r) \/ CodeIdToken(r)
  <2>1. job \in CodeJobs /\ job.client = job.grant.client
    BY <1>1, JobShapes DEF CodeSetToken, CodeCreateRefresh, CodeIdToken, Waits, TypeOK, OwnClient
  <2>2. /\ [job EXCEPT !.at = "CodeCreateRefresh"].client = [job EXCEPT !.at = "CodeCreateRefresh"].grant.client
        /\ [job EXCEPT !.at = "CodeIdToken"].client = [job EXCEPT !.at = "CodeIdToken"].grant.client
    BY <2>1 DEF CodeJobs
  <2>3. CASE CodeSetToken(r)
    BY <2>2, <2>3, OwnClientGoto DEF CodeSetToken, Go, Answer
  <2>4. CASE CodeCreateRefresh(r)
    BY <2>2, <2>4, OwnClientGoto DEF CodeCreateRefresh, Go, Answer, Idle
  <2>5. CASE CodeIdToken(r)
    BY <2>5, OwnClientGoto DEF CodeIdToken, Answer, Idle
  <2> QED
    BY <1>1, <2>3, <2>4, <2>5
<1>2. CASE DelCode(r)
  BY <1>2, OwnClientGoto DEF DelCode, Fits, Idle
<1>3. CASE RotSetToken(r) \/ RotCreateRefresh(r) \/ RotDelete(r)
  <2>1. job \in RotateJobs
    BY <1>3, JobShapes DEF RotSetToken, RotCreateRefresh, RotDelete, Waits, TypeOK
  <2>2. /\ [job EXCEPT !.at = "RotCreateRefresh"].at = "RotCreateRefresh"
        /\ [job EXCEPT !.at = "RotDelete"].at = "RotDelete"
    BY <2>1 DEF RotateJobs
  <2>3. PICK j : Goto(r, j) /\ j.at \notin Labels
    BY <1>3, <2>2 DEF RotSetToken, RotCreateRefresh, RotDelete, Go, Answer, Idle
  <2> QED
    BY <2>3, OwnClientGoto
<1>4. CASE FindConsent(r) \/ InfoConsent(r)
  <2>1. job \in AuthorizeJobs \cup InfoJobs
    BY <1>4, JobShapes DEF FindConsent, InfoConsent, Waits, TypeOK
  <2>2. /\ [job EXCEPT !.at = "SetCode"].at = "SetCode"
        /\ [job EXCEPT !.at = "InfoUser"].at = "InfoUser"
    BY <2>1 DEF AuthorizeJobs, InfoJobs
  <2>3. PICK j : Goto(r, j) /\ j.at \notin Labels
    BY <1>4, <2>2 DEF FindConsent, InfoConsent, Go, Idle
  <2> QED
    BY <2>3, OwnClientGoto
<1>5. CASE UpsertConsent(r) \/ SetCode(r) \/ ClientSetToken(r) \/ InfoUser(r) \/ Reply(r)
  <2>1. PICK j : Goto(r, j) /\ j.at \notin Labels
    BY <1>5 DEF UpsertConsent, SetCode, ClientSetToken, InfoUser, Reply, Answer, Idle
  <2> QED
    BY <2>1, OwnClientGoto
<1> QED
  BY <1>1, <1>2, <1>3, <1>4, <1>5 DEF Continue

LEMMA OwnClientStep ==
  ASSUME TypeOK, OwnClient, [Next]_vars
  PROVE  OwnClient'
<1>1. CASE UNCHANGED req
  BY <1>1 DEF OwnClient
<1>2. Around \/ UNCHANGED vars => UNCHANGED req
  BY DEF Around, RevokeAccess, RevokeRefresh, DeleteUser, UpdateClient, Tick, vars
<1> QED
  BY <1>1, <1>2, OwnClientArrive, OwnClientContinue DEF Next

\* What a step does to the consents and to their history.
LEMMA ConsentsStep ==
  ASSUME TypeOK, [Next]_vars
  PROVE  \/ UNCHANGED <<consents, agreed>>
         \/ \E r \in Requests :
              /\ UpsertConsent(r) /\ req[r].grant \in ConsentGrants
              /\ consents' = Put(consents, <<req[r].grant.user, req[r].grant.client>>,
                                 req[r].grant.scope)
              /\ agreed' = agreed \cup {req[r].grant}
         \/ \E u \in users : DeleteUser(u)
<1>1. ASSUME NEW r \in Requests, UpsertConsent(r)
      PROVE  req[r].grant \in ConsentGrants
  BY <1>1, JobShapes DEF UpsertConsent, Waits, TypeOK, ConsentJobs
<1>2. ASSUME NEW r \in Requests, Arrive(r) \/ Abort(r)
      PROVE  UNCHANGED <<consents, agreed>>
  BY <1>2 DEF Arrive, Abort, Consent, Authorize, CodeGrant, RefreshGrant, ClientCredentials,
     Userinfo
<1>3. ASSUME NEW r \in Requests, Continue(r)
      PROVE  UpsertConsent(r) \/ UNCHANGED <<consents, agreed>>
  BY <1>3 DEF Continue, FindConsent, SetCode, DelCode, CodeSetToken, CodeCreateRefresh,
     CodeIdToken, RotSetToken, RotCreateRefresh, RotDelete, ClientSetToken, InfoConsent,
     InfoUser, Reply
<1>4. ASSUME Around
      PROVE  (\E u \in users : DeleteUser(u)) \/ UNCHANGED <<consents, agreed>>
  BY <1>4 DEF Around, RevokeAccess, RevokeRefresh, UpdateClient, Tick
<1>5. ASSUME NEW r \in Requests, UpsertConsent(r)
      PROVE  \/ UNCHANGED <<consents, agreed>>
             \/ /\ consents' = Put(consents, <<req[r].grant.user, req[r].grant.client>>,
                                   req[r].grant.scope)
                /\ agreed' = agreed \cup {req[r].grant}
  BY <1>5 DEF UpsertConsent
<1> QED
  BY <1>1, <1>2, <1>3, <1>4, <1>5 DEF Next, vars

LEMMA ConsentsAgreedStep ==
  ASSUME TypeOK, ConsentsAgreed, [Next]_vars
  PROVE  ConsentsAgreed' /\ agreed \subseteq agreed'
<1>1. CASE UNCHANGED <<consents, agreed>>
  BY <1>1 DEF ConsentsAgreed
<1>2. ASSUME NEW g \in ConsentGrants, consents' = Put(consents, <<g.user, g.client>>, g.scope),
             agreed' = agreed \cup {g}
      PROVE  ConsentsAgreed' /\ agreed \subseteq agreed'
  BY <1>2 DEF ConsentsAgreed, Put
<1>3. ASSUME NEW u, DeleteUser(u)
      PROVE  ConsentsAgreed' /\ agreed \subseteq agreed'
  BY <1>3 DEF DeleteUser, ConsentsAgreed, Restrict
<1> QED
  BY <1>1, <1>2, <1>3, ConsentsStep

\* What the current consent covers was agreed.
LEMMA CoveredAgreed ==
  ASSUME ConsentsAgreed, NEW g, Covered(g)
  PROVE  Agreed(g)
  BY DEF ConsentsAgreed, Covered, Agreed

\* The inductive invariant: rights are only copied from one place to another, so
\* it is enough that consents were recorded and that the client that redeems a
\* code is the code's.
BackedInv == TypeOK /\ OwnClient /\ ConsentsAgreed /\ CredentialsBacked

LEMMA BackedInit == Init => BackedInv
<1> SUFFICES ASSUME Init PROVE BackedInv
  OBVIOUS
<1>1. LiveGrants = {}
  BY DEF Init, LiveGrants, JobGrants, GrantsOf, IssuingSteps, Idle
<1> QED
  BY <1>1, InitTypeOK DEF Init, BackedInv, OwnClient, ConsentsAgreed, CredentialsBacked, Idle

LEMMA BackedStep == BackedInv /\ [Next]_vars => BackedInv'
<1> SUFFICES ASSUME BackedInv, [Next]_vars PROVE BackedInv'
  OBVIOUS
<1>1. TypeOK /\ OwnClient /\ ConsentsAgreed /\ CredentialsBacked
  BY DEF BackedInv
<1>2. TypeOK' /\ OwnClient' /\ ConsentsAgreed' /\ agreed \subseteq agreed'
  BY <1>1, TypeStep, OwnClientStep, ConsentsAgreedStep
<1>3. \A g : Agreed(g) => Agreed(g)'
  BY <1>2 DEF Agreed
<1>4. CredentialsBacked'
  <2>1. CASE LiveGrants' \subseteq LiveGrants
    BY <1>1, <1>3, <2>1 DEF CredentialsBacked
  <2>2. ASSUME NEW r \in Requests, Covered(req[r].grant),
               LiveGrants' = LiveGrants \cup {req[r].grant}
        PROVE  CredentialsBacked'
    BY <1>1, <1>3, <2>2, CoveredAgreed DEF CredentialsBacked
  <2> QED
    BY <1>1, <2>1, <2>2, LiveStep
<1> QED
  BY <1>2, <1>4 DEF BackedInv

\* No chain of code, access token and refreshed tokens, in any number of
\* concurrent requests, gives a client a right over a user's data that the user
\* did not agree to give that client (consent, authorize, codeGrant,
\* refreshTokenGrant).
THEOREM BackedCorrect == Spec => []CredentialsBacked
<1>1. BackedInv => CredentialsBacked
  BY DEF BackedInv
<1> QED
  BY <1>1, BackedInit, BackedStep, PTL DEF Spec

-----------------------------------------------------------------------------
(* Userinfo answers only where something was agreed.                       *)

\* The user agreed to give the client something.
Knows(g) == \E a \in agreed : a.user = g.user /\ a.client = g.client

LEMMA DisclosureGoto ==
  ASSUME TypeOK, DisclosureConsented, agreed \subseteq agreed', NEW r \in Requests, NEW j,
         Goto(r, j), j.at = "InfoUser" => Knows(j.grant)
  PROVE  DisclosureConsented'
<1>1. req'[r] = j /\ \A q \in Requests \ {r} : req'[q] = req[q]
  BY DEF Goto, TypeOK
<1> QED
  BY <1>1 DEF DisclosureConsented, Waits, Knows

\* A user's token carries a right that was agreed; a client's token is not yet
\* let through to the user.
LEMMA DisclosureArrive ==
  ASSUME TypeOK, CredentialsBacked, DisclosureConsented, agreed \subseteq agreed',
         NEW r \in Requests, Arrive(r) \/ Abort(r)
  PROVE  DisclosureConsented'
<1>1. ASSUME NEW u, NEW c, NEW S, Consent(r, u, c, S) PROVE DisclosureConsented'
  BY <1>1, DisclosureGoto DEF Consent
<1>2. ASSUME NEW u, NEW c, NEW S, NEW v, NEW uri, NEW k, Authorize(r, u, c, S, v, uri, k)
      PROVE  DisclosureConsented'
  BY <1>2, DisclosureGoto DEF Authorize
<1>3. ASSUME NEW k, NEW c, NEW v, NEW t, NEW n, CodeGrant(r, k, c, v, t, n)
      PROVE  DisclosureConsented'
  BY <1>3, DisclosureGoto DEF CodeGrant
<1>4. ASSUME NEW t, NEW c, NEW a, NEW n, RefreshGrant(r, t, c, a, n)
      PROVE  DisclosureConsented'
  BY <1>4, DisclosureGoto DEF RefreshGrant
<1>5. ASSUME NEW c, NEW S, NEW t, ClientCredentials(r, c, S, t) PROVE DisclosureConsented'
  BY <1>5, DisclosureGoto DEF ClientCredentials
<1>6. ASSUME NEW t \in HeldAccess, NEW sub, Userinfo(r, t, sub) PROVE DisclosureConsented'
  <2>1. CASE access[t].grant.user = NoUser
    BY <1>6, <2>1, DisclosureGoto DEF Userinfo
  <2>2. CASE access[t].grant.user # NoUser
    <3>1. access[t].grant \in LiveGrants
      BY <2>2 DEF HeldAccess, LiveGrants, GrantsOf
    <3>2. Knows(access[t].grant)
      BY <3>1 DEF CredentialsBacked, Agreed, Knows
    <3> QED
      BY <1>6, <2>2, <3>2, DisclosureGoto DEF Userinfo
  <2> QED
    BY <2>1, <2>2
<1>7. CASE Abort(r)
  BY <1>7, DisclosureGoto DEF Abort, Idle
<1> QED
  BY <1>1, <1>2, <1>3, <1>4, <1>5, <1>6, <1>7 DEF Arrive

\* The only other way to the user is past a consent.
LEMMA DisclosureContinue ==
  ASSUME TypeOK, ConsentsAgreed, DisclosureConsented, agreed \subseteq agreed',
         NEW r \in Requests, Continue(r)
  PROVE  DisclosureConsented'
<1> DEFINE job == req[r]
<1>1. CASE InfoConsent(r)
  <2>1. job \in InfoJobs
    BY <1>1, JobShapes DEF InfoConsent, Waits, TypeOK
  <2>2. [job EXCEPT !.at = "InfoUser"].grant = job.grant
    BY <2>1 DEF InfoJobs
  <2>3. <<job.grant.user, job.grant.client>> \in DOMAIN consents => Knows(job.grant)
    BY DEF ConsentsAgreed, Knows
  <2> QED
    BY <1>1, <2>2, <2>3, DisclosureGoto DEF InfoConsent, Go, Idle
<1>2. CASE CodeSetToken(r) \/ CodeCreateRefresh(r) \/ CodeIdToken(r)
  <2>1. job \in CodeJobs
    BY <1>2, JobShapes DEF CodeSetToken, CodeCreateRefresh, CodeIdToken, Waits, TypeOK
  <2>2. /\ [job EXCEPT !.at = "CodeCreateRefresh"].at = "CodeCreateRefresh"
        /\ [job EXCEPT !.at = "CodeIdToken"].at = "CodeIdToken"
    BY <2>1 DEF CodeJobs
  <2>3. CASE CodeSetToken(r)
    BY <2>2, <2>3, DisclosureGoto DEF CodeSetToken, Go, Answer, Idle
  <2>4. CASE CodeCreateRefresh(r)
    BY <2>2, <2>4, DisclosureGoto DEF CodeCreateRefresh, Go, Answer, Idle
  <2>5. CASE CodeIdToken(r)
    BY <2>2, <2>5, DisclosureGoto DEF CodeIdToken, Go, Answer, Idle
  <2> QED
    BY <1>2, <2>3, <2>4, <2>5
<1>3. CASE RotSetToken(r) \/ RotCreateRefresh(r) \/ RotDelete(r)
  <2>1. job \in RotateJobs
    BY <1>3, JobShapes DEF RotSetToken, RotCreateRefresh, RotDelete, Waits, TypeOK
  <2>2. /\ [job EXCEPT !.at = "RotCreateRefresh"].at = "RotCreateRefresh"
        /\ [job EXCEPT !.at = "RotDelete"].at = "RotDelete"
    BY <2>1 DEF RotateJobs
  <2>3. CASE RotSetToken(r)
    BY <2>2, <2>3, DisclosureGoto DEF RotSetToken, Go, Answer, Idle
  <2>4. CASE RotCreateRefresh(r)
    BY <2>2, <2>4, DisclosureGoto DEF RotCreateRefresh, Go, Answer, Idle
  <2>5. CASE RotDelete(r)
    BY <2>2, <2>5, DisclosureGoto DEF RotDelete, Go, Answer, Idle
  <2> QED
    BY <1>3, <2>3, <2>4, <2>5
<1>4. CASE FindConsent(r)
  <2>1. job \in AuthorizeJobs
    BY <1>4, JobShapes DEF FindConsent, Waits, TypeOK
  <2>2. [job EXCEPT !.at = "SetCode"].at = "SetCode"
    BY <2>1 DEF AuthorizeJobs
  <2> QED
    BY <1>4, <2>2, DisclosureGoto DEF FindConsent, Go, Idle
<1>5. CASE \/ UpsertConsent(r) \/ SetCode(r) \/ DelCode(r) \/ ClientSetToken(r)
           \/ InfoUser(r) \/ Reply(r)
  <2>1. PICK j : Goto(r, j) /\ j.at # "InfoUser"
    BY <1>5 DEF UpsertConsent, SetCode, DelCode, ClientSetToken, InfoUser, Reply, Answer, Idle
  <2> QED
    BY <2>1, DisclosureGoto
<1> QED
  BY <1>1, <1>2, <1>3, <1>4, <1>5 DEF Continue

LEMMA DisclosureStep ==
  ASSUME BackedInv, DisclosureConsented, [Next]_vars
  PROVE  DisclosureConsented'
<1>1. TypeOK /\ ConsentsAgreed /\ CredentialsBacked /\ agreed \subseteq agreed'
  BY ConsentsAgreedStep DEF BackedInv
<1>2. CASE UNCHANGED req
  BY <1>1, <1>2 DEF DisclosureConsented, Waits
<1>3. Around \/ UNCHANGED vars => UNCHANGED req
  BY DEF Around, RevokeAccess, RevokeRefresh, DeleteUser, UpdateClient, Tick, vars
<1> QED
  BY <1>1, <1>2, <1>3, DisclosureArrive, DisclosureContinue DEF Next

\* Userinfo answers about no user who never agreed to give the asking client
\* anything, however consent and tokens changed meanwhile (userinfo).
THEOREM DisclosureCorrect == Spec => []DisclosureConsented
<1>1. Init => DisclosureConsented
  BY DEF Init, DisclosureConsented, Waits, Idle
<1>2. BackedInv /\ DisclosureConsented /\ [Next]_vars => DisclosureConsented'
  BY DisclosureStep
<1> QED
  BY <1>1, <1>2, BackedInit, BackedStep, PTL DEF Spec

-----------------------------------------------------------------------------
(* The service implements Delegation.                                      *)

LEMMA DelegationInit == Init => Delegated!Init
  BY DEF Init, Delegated!Init, LiveGrants, JobGrants, GrantsOf, IssuingSteps, Idle

LEMMA DelegationStep ==
  ASSUME TypeOK, OwnClient, [Next]_vars
  PROVE  [Delegated!Next]_<<consents, LiveGrants>>
<1>1. CASE LiveGrants' \subseteq LiveGrants /\ UNCHANGED consents
  BY <1>1 DEF Delegated!Next, Delegated!Lapse
<1>2. ASSUME NEW r \in Requests, UpsertConsent(r), req[r].grant \in ConsentGrants,
             consents' = Put(consents, <<req[r].grant.user, req[r].grant.client>>,
                             req[r].grant.scope)
      PROVE  Delegated!Next
  <2> DEFINE g == req[r].grant
  <2>1. LiveGrants' = LiveGrants
    <3>1. \A q \in Requests \ {r} : req'[q] = req[q]
      BY <1>2 DEF UpsertConsent, Goto, TypeOK
    <3>2. req'[r] = Idle
      BY <1>2 DEF UpsertConsent, Goto, TypeOK
    <3>3. JobGrants' = JobGrants
      BY <1>2, <3>1, <3>2 DEF JobGrants, IssuingSteps, UpsertConsent, Waits, Idle
    <3> QED
      BY <1>2, <3>3 DEF LiveGrants, UpsertConsent
  <2>2. Delegated!Agree(g.user, g.client, g.scope)
    BY <1>2, <2>1 DEF Delegated!Agree, Put
  <2> QED
    BY <1>2, <2>2 DEF Delegated!Next, ConsentGrants
<1>3. ASSUME NEW u \in users, DeleteUser(u)
      PROVE  Delegated!Next
  <2>1. LiveGrants' \subseteq LiveGrants
    BY <1>3, LiveAround DEF Around
  <2>2. Delegated!Leave(u)
    BY <1>3, <2>1 DEF DeleteUser, Delegated!Leave, Restrict
  <2> QED
    BY <2>2 DEF Delegated!Next, TypeOK
<1>4. ASSUME NEW r \in Requests, FindConsent(r), Covered(req[r].grant),
             LiveGrants' = LiveGrants \cup {req[r].grant}
      PROVE  Delegated!Next
  <2> DEFINE g == req[r].grant
  <2>1. req[r] \in AuthorizeJobs
    BY <1>4, JobShapes DEF FindConsent, Waits, TypeOK
  <2>2. /\ g = [user |-> g.user, client |-> g.client, scope |-> g.scope]
        /\ g.scope \in SUBSET (ClientScopes \cup TokenScopes)
    BY <2>1 DEF AuthorizeJobs, Grants
  <2>3. g.user \in Users /\ g.client \in Clients
    BY <1>4 DEF Covered, TypeOK
  <2>4. Delegated!Delegate(g.user, g.client, g.scope)
    BY <1>4, <2>2 DEF Delegated!Delegate, Covered, FindConsent
  <2> QED
    BY <2>2, <2>3, <2>4 DEF Delegated!Next
<1> QED
  BY <1>1, <1>2, <1>3, <1>4, LiveStep, ConsentsStep DEF FindConsent

\* The service implements Delegation: a right appears only under the consent of
\* that moment, and a lapsed one never comes back by itself (authorize is the
\* only handler that creates rights; all others copy or drop them).
THEOREM Refinement == Spec => ImplementsDelegation
<1>1. BackedInv /\ [Next]_vars => [Delegated!Next]_<<consents, LiveGrants>>
  BY DelegationStep DEF BackedInv
<1> QED
  BY <1>1, BackedInit, BackedStep, DelegationInit, PTL
     DEF Spec, ImplementsDelegation, Delegated!Spec
=============================================================================
