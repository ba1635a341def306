------------------------ MODULE OauthRotationProofs ------------------------
(***************************************************************************)
(* The rotation of refresh tokens in Oauth (refreshTokenGrant): a client   *)
(* loses no long-lived access by it, and one redemption of a code leaves   *)
(* it one refresh token, for every value of the constants.                 *)
(*                                                                         *)
(* The old row goes last, so all depends on the new row being there still: *)
(* nobody but the request that drew it may name it until the answer        *)
(* arrives.                                                                *)
(***************************************************************************)
EXTENDS OauthProofs

\* The steps of a request that has drawn a refresh token and not answered yet,
\* those with which the row may exist already, and those of a rotation.
Created == {"CodeIdToken", "RotDelete"}
Rotating == {"RotSetToken", "RotCreateRefresh", "RotDelete"}
Drawing == {"DelCode", "CodeSetToken", "CodeCreateRefresh", "CodeIdToken"} \cup Rotating

\* The refresh token a job has drawn, the one it will delete, what it answers.
NewIn(j) == IF j.at \in Drawing THEN {j.new} ELSE {}
OldIn(j) == IF j.at \in Rotating THEN {j.old} ELSE {}
IdsIn(j) == IF j.at = "Reply" THEN j.ids ELSE {}

\* A drawn token is named by nobody else.
NamesApart ==
  /\ \A q, r \in Requests : q # r => NewIn(req[q]) \cap NewIn(req[r]) = {}
  /\ \A q, r \in Requests : NewIn(req[r]) \cap (OldIn(req[q]) \cup IdsIn(req[q])) = {}

\* Every row, and every job that inserts or replaces one, is long-lived access.
LongLived(g) == "offline_access" \in g.scope

\* Row s stands in for row t.
StandsIn(rows, s, t) ==
  /\ s \in DOMAIN rows
  /\ rows[s].grant = rows[t].grant
  /\ rows[s].root = rows[t].root
  /\ rows[s].age >= rows[t].age

\* What a job counts on: its new row is not there before it inserts it and not
\* held before it answers; the old row is still the one that was read; and when
\* that one is about to go, the new one stands in for it.
CountsOn(j, rows) ==
  /\ \A n \in NewIn(j) : n \in DOMAIN rows => ~rows[n].held /\ j.at \in Created
  /\ j.at \in Rotating \cup {"CodeCreateRefresh"} => LongLived(j.grant)
  /\ \A t \in OldIn(j) : t \in DOMAIN rows => rows[t].grant = j.grant /\ rows[t].root = j.root
  /\ j.at = "RotDelete" /\ j.old \in DOMAIN rows => StandsIn(rows, j.new, j.old)

RotationInv ==
  /\ TypeOK
  /\ NamesApart
  /\ \A t \in DOMAIN refresh : LongLived(refresh[t].grant)
  /\ \A r \in Requests : CountsOn(req[r], refresh)

-----------------------------------------------------------------------------
(* Names.                                                                  *)

LEMMA NamesType ==
  ASSUME NEW j \in Jobs
  PROVE  NewIn(j) \subseteq RefreshTokens
  BY JobShapes DEF NewIn, Drawing, Rotating, RedeemJobs, CodeJobs, RotateJobs

\* Everything a job names counts as drawn.
LEMMA NamesDrawn ==
  ASSUME NEW r \in Requests
  PROVE  NewIn(req[r]) \cup OldIn(req[r]) \cup IdsIn(req[r]) \subseteq Drawn
<1>1. NewIn(req[r]) \cup OldIn(req[r]) \cup IdsIn(req[r]) \subseteq DrawnBy(r)
  BY DEF NewIn, OldIn, IdsIn, Drawing, Rotating, DrawnBy
<1> QED
  BY <1>1 DEF Drawn

LEMMA ReqGoto ==
  ASSUME TypeOK, NEW r \in Requests, NEW j, Goto(r, j)
  PROVE  /\ req'[r] = j
         /\ \A q \in Requests \ {r} : req'[q] = req[q]
  BY DEF TypeOK, Goto

\* A request that names nothing new, except that it answers what it drew.
LEMMA ApartMove ==
  ASSUME TypeOK, NamesApart, NEW r \in Requests, NEW j, Goto(r, j),
         NewIn(j) \subseteq NewIn(req[r]), OldIn(j) \subseteq OldIn(req[r]),
         IdsIn(j) \subseteq NewIn(req[r]) \cup AccessTokens
  PROVE  NamesApart'
<1>1. /\ req'[r] = j
      /\ \A q \in Requests \ {r} : req'[q] = req[q]
  BY ReqGoto
<1>2. \A q \in Requests : NewIn(req[q]) \cap AccessTokens = {}
  BY NamesType, IdsAssumption DEF TypeOK
<1>3. NewIn(j) # {} => IdsIn(j) = {}
  BY DEF NewIn, IdsIn, Drawing, Rotating
<1>4. ASSUME NEW p \in Requests, NEW q \in Requests, p # q
      PROVE  NewIn(req'[p]) \cap NewIn(req'[q]) = {}
  BY <1>1, <1>4 DEF NamesApart
<1>5. ASSUME NEW p \in Requests, NEW q \in Requests
      PROVE  NewIn(req'[q]) \cap (OldIn(req'[p]) \cup IdsIn(req'[p])) = {}
  BY <1>1, <1>2, <1>3 DEF NamesApart
<1> QED
  BY <1>4, <1>5 DEF NamesApart

\* A request that draws a fresh refresh token; a row it means to delete is held.
LEMMA ApartDraw ==
  ASSUME RotationInv, NEW r \in Requests, NEW j, NEW n \in FreshRefresh, Goto(r, j),
         NewIn(j) = {n}, OldIn(j) \subseteq HeldRefresh, IdsIn(j) = {}
  PROVE  NamesApart'
<1>1. /\ req'[r] = j
      /\ \A q \in Requests \ {r} : req'[q] = req[q]
  BY ReqGoto DEF RotationInv
<1>2. n \notin DOMAIN refresh /\ n \notin Drawn
  BY DEF FreshRefresh
<1>3. n \notin OldIn(j)
  BY <1>2 DEF HeldRefresh
<1>4. \A q \in Requests : NewIn(req[q]) \cap OldIn(j) = {}
  BY DEF RotationInv, CountsOn, HeldRefresh
<1>5. \A q \in Requests : n \notin NewIn(req[q]) \cup OldIn(req[q]) \cup IdsIn(req[q])
  BY <1>2, NamesDrawn
<1>6. ASSUME NEW p \in Requests, NEW q \in Requests, p # q
      PROVE  NewIn(req'[p]) \cap NewIn(req'[q]) = {}
  BY <1>1, <1>5, <1>6 DEF NamesApart, RotationInv
<1>7. ASSUME NEW p \in Requests, NEW q \in Requests
      PROVE  NewIn(req'[q]) \cap (OldIn(req'[p]) \cup IdsIn(req'[p])) = {}
  BY <1>1, <1>3, <1>4, <1>5 DEF NamesApart, RotationInv
<1> QED
  BY <1>6, <1>7 DEF NamesApart

-----------------------------------------------------------------------------
(* What a job counts on, when the rows change.                             *)

LEMMA CountsShrink ==
  ASSUME NEW j, NEW rows, NEW less, CountsOn(j, rows),
         DOMAIN less \subseteq DOMAIN rows, \A t \in DOMAIN less : less[t] = rows[t],
         j.at = "RotDelete" /\ j.old \in DOMAIN less => j.new \in DOMAIN less
  PROVE  CountsOn(j, less)
<1>1. \A n \in NewIn(j) : n \in DOMAIN less => ~less[n].held /\ j.at \in Created
  BY DEF CountsOn
<1>2. \A t \in OldIn(j) : t \in DOMAIN less => less[t].grant = j.grant /\ less[t].root = j.root
  BY DEF CountsOn
<1>3. j.at = "RotDelete" /\ j.old \in DOMAIN less => StandsIn(less, j.new, j.old)
  BY DEF CountsOn, StandsIn
<1> QED
  BY <1>1, <1>2, <1>3 DEF CountsOn

LEMMA CountsPut ==
  ASSUME NEW j, NEW rows, NEW n, NEW row, CountsOn(j, rows), n \notin NewIn(j) \cup OldIn(j)
  PROVE  CountsOn(j, Put(rows, n, row))
<1> DEFINE more == Put(rows, n, row)
<1>1. DOMAIN more = DOMAIN rows \cup {n} /\ \A t \in DOMAIN rows : t # n => more[t] = rows[t]
  BY DEF Put
<1> HIDE DEF more
<1>2. \A m \in NewIn(j) : m \in DOMAIN more => ~more[m].held /\ j.at \in Created
  BY <1>1 DEF CountsOn
<1>3. \A t \in OldIn(j) : t \in DOMAIN more => more[t].grant = j.grant /\ more[t].root = j.root
  BY <1>1 DEF CountsOn
<1>4. ASSUME j.at = "RotDelete", j.old \in DOMAIN more
      PROVE  StandsIn(more, j.new, j.old)
  <2>1. j.new # n /\ j.old # n
    BY <1>4 DEF NewIn, OldIn, Drawing, Rotating
  <2> QED
    BY <1>1, <1>4, <2>1 DEF CountsOn, StandsIn
<1>5. CountsOn(j, more)
  BY <1>2, <1>3, <1>4 DEF CountsOn
<1> QED
  BY <1>5 DEF more

\* Rows that only age, or that are handed out.
LEMMA CountsAge ==
  ASSUME NEW j, NEW rows, NEW later, CountsOn(j, rows), DOMAIN later = DOMAIN rows,
         \A t \in DOMAIN rows : later[t].grant = rows[t].grant /\ later[t].root = rows[t].root,
         \A s, t \in DOMAIN rows : rows[s].age >= rows[t].age => later[s].age >= later[t].age,
         \A n \in NewIn(j) \cap DOMAIN rows : later[n].held = rows[n].held
  PROVE  CountsOn(j, later)
<1>1. \A n \in NewIn(j) : n \in DOMAIN later => ~later[n].held /\ j.at \in Created
  BY DEF CountsOn
<1>2. \A t \in OldIn(j) : t \in DOMAIN later => later[t].grant = j.grant /\ later[t].root = j.root
  BY DEF CountsOn
<1>3. j.at = "RotDelete" /\ j.old \in DOMAIN later => StandsIn(later, j.new, j.old)
  BY DEF CountsOn, StandsIn
<1> QED
  BY <1>1, <1>2, <1>3 DEF CountsOn

-----------------------------------------------------------------------------
(* Steps.                                                                  *)

\* A request moves on, naming nothing new, and the rows stay.
LEMMA RotationMove ==
  ASSUME RotationInv, TypeOK', NEW r \in Requests, NEW j, Goto(r, j), UNCHANGED refresh,
         NewIn(j) \subseteq NewIn(req[r]), OldIn(j) \subseteq OldIn(req[r]),
         IdsIn(j) \subseteq NewIn(req[r]) \cup AccessTokens,
         CountsOn(j, refresh)
  PROVE  RotationInv'
<1>1. NamesApart'
  BY ApartMove DEF RotationInv
<1>2. \A q \in Requests : CountsOn(req'[q], refresh)
  BY ReqGoto DEF RotationInv
<1> QED
  BY <1>1, <1>2 DEF RotationInv

\* A job that has drawn no refresh token, and no longer waits to insert one.
LEMMA RotationAside ==
  ASSUME RotationInv, TypeOK', NEW r \in Requests, NEW j, Goto(r, j), UNCHANGED refresh,
         j.at \notin Drawing, IdsIn(j) \subseteq NewIn(req[r]) \cup AccessTokens
  PROVE  RotationInv'
<1>1. NewIn(j) = {} /\ OldIn(j) = {}
  BY DEF NewIn, OldIn, Drawing, Rotating
<1>2. CountsOn(j, refresh)
  BY <1>1 DEF CountsOn, Drawing, Rotating
<1> QED
  BY <1>1, <1>2, RotationMove

LEMMA RotationArrive ==
  ASSUME RotationInv, TypeOK', NEW r \in Requests, Arrive(r)
  PROVE  RotationInv'
<1>1. ASSUME NEW u \in Users, NEW c \in Clients, NEW S, Consent(r, u, c, S)
      PROVE  RotationInv'
  BY <1>1, RotationAside DEF Consent, IdsIn, Drawing, Rotating
<1>2. ASSUME NEW u \in Users, NEW c \in Clients, NEW S, NEW v, NEW uri, NEW k,
             Authorize(r, u, c, S, v, uri, k)
      PROVE  RotationInv'
  BY <1>2, RotationAside DEF Authorize, IdsIn, Drawing, Rotating
<1>3. ASSUME NEW k \in Codes, NEW c \in Clients, NEW v, NEW t \in FreshAccess,
             NEW n \in FreshRefresh, CodeGrant(r, k, c, v, t, n)
      PROVE  RotationInv'
  <2> DEFINE j == [at |-> "DelCode", grant |-> codes[k].grant, challenge |-> codes[k].challenge,
                   code |-> k, client |-> c, verifier |-> v, token |-> t, new |-> n]
  <2>1. j.at = "DelCode" /\ j.new = n /\ Goto(r, j) /\ UNCHANGED refresh
    BY <1>3 DEF CodeGrant
  <2> HIDE DEF j
  <2>2. NewIn(j) = {n} /\ OldIn(j) = {} /\ IdsIn(j) = {}
    BY <2>1 DEF NewIn, OldIn, IdsIn, Drawing, Rotating
  <2>3. NamesApart'
    BY <2>1, <2>2, ApartDraw
  <2>4. CountsOn(j, refresh)
    BY <2>1, <2>2 DEF CountsOn, FreshRefresh, Rotating
  <2>5. \A q \in Requests : CountsOn(req'[q], refresh)
    BY <2>1, <2>4, ReqGoto DEF RotationInv
  <2> QED
    BY <2>1, <2>3, <2>5 DEF RotationInv
<1>4. ASSUME NEW t \in HeldRefresh, NEW c \in Clients, NEW a \in FreshAccess,
             NEW n \in FreshRefresh, RefreshGrant(r, t, c, a, n)
      PROVE  RotationInv'
  <2> DEFINE j == [at |-> "RotSetToken", grant |-> refresh[t].grant, nonce |-> refresh[t].nonce,
                   root |-> refresh[t].root, old |-> t, token |-> a, new |-> n]
  <2>1. /\ j.at = "RotSetToken" /\ j.new = n /\ j.old = t
        /\ j.grant = refresh[t].grant /\ j.root = refresh[t].root
        /\ Goto(r, j) /\ UNCHANGED refresh
    BY <1>4 DEF RefreshGrant
  <2> HIDE DEF j
  <2>2. NewIn(j) = {n} /\ OldIn(j) = {t} /\ IdsIn(j) = {}
    BY <2>1 DEF NewIn, OldIn, IdsIn, Drawing, Rotating
  <2>3. NamesApart'
    BY <2>1, <2>2, ApartDraw
  <2>4. LongLived(j.grant)
    BY <2>1 DEF RotationInv, HeldRefresh
  <2>5. CountsOn(j, refresh)
    BY <2>1, <2>2, <2>4 DEF CountsOn, FreshRefresh, Rotating
  <2>6. \A q \in Requests : CountsOn(req'[q], refresh)
    BY <2>1, <2>5, ReqGoto DEF RotationInv
  <2> QED
    BY <2>1, <2>3, <2>6 DEF RotationInv
<1>5. ASSUME NEW c \in Clients, NEW S, NEW t \in FreshAccess, ClientCredentials(r, c, S, t)
      PROVE  RotationInv'
  BY <1>5, RotationAside DEF ClientCredentials, IdsIn, Drawing, Rotating
<1>6. ASSUME NEW t \in HeldAccess, NEW sub \in Users, Userinfo(r, t, sub)
      PROVE  RotationInv'
  BY <1>6, RotationAside DEF Userinfo, IdsIn, Drawing, Rotating
<1> QED
  BY <1>1, <1>2, <1>3, <1>4, <1>5, <1>6 DEF Arrive

\* A request that goes on with the tokens it has drawn.
LEMMA RotationGo ==
  ASSUME RotationInv, TypeOK', NEW r \in Requests, NEW call, Go(r, call), UNCHANGED refresh,
         req[r].at \in Drawing, call \in Drawing,
         call \in Rotating => req[r].at \in Rotating, call # "RotDelete",
         req[r].at \in Created => call \in Created,
         call \in Rotating \cup {"CodeCreateRefresh"} => LongLived(req[r].grant)
  PROVE  RotationInv'
<1> DEFINE job == req[r]
           j == [job EXCEPT !.at = call]
<1>1. /\ j.at = call /\ j.new = job.new /\ j.grant = job.grant
      /\ call \in Rotating => j.old = job.old /\ j.root = job.root
  <2>1. job \in RedeemJobs \cup CodeJobs \cup RotateJobs
    BY JobShapes DEF RotationInv, TypeOK, Drawing, Rotating
  <2>2. call \in Rotating => job \in RotateJobs
    BY JobShapes DEF RotationInv, TypeOK, Rotating
  <2> QED
    BY <2>1, <2>2 DEF RedeemJobs, CodeJobs, RotateJobs
<1>2. Goto(r, j) /\ CountsOn(job, refresh)
  BY DEF Go, RotationInv
<1> HIDE DEF j
<1>3. /\ NewIn(j) = NewIn(job) /\ OldIn(j) \subseteq OldIn(job) /\ IdsIn(j) = {}
  BY <1>1 DEF NewIn, OldIn, IdsIn, Drawing, Rotating
<1>4. CountsOn(j, refresh)
  <2>1. \A t \in OldIn(j) : t \in DOMAIN refresh =>
          refresh[t].grant = j.grant /\ refresh[t].root = j.root
    BY <1>1, <1>2, <1>3 DEF CountsOn, OldIn
  <2> QED
    BY <1>1, <1>2, <1>3, <2>1 DEF CountsOn
<1> QED
  BY <1>2, <1>3, <1>4, RotationMove

LEMMA DrawsNew ==
  ASSUME NEW j, j.at \in Drawing
  PROVE  NewIn(j) = {j.new}
  BY DEF NewIn

LEMMA RotationCodeSteps ==
  ASSUME RotationInv, TypeOK', NEW r \in Requests,
         DelCode(r) \/ CodeSetToken(r) \/ CodeIdToken(r) \/ ClientSetToken(r)
  PROVE  RotationInv'
<1> DEFINE job == req[r]
<1>0. job \in Jobs
  BY DEF RotationInv, TypeOK
<1>1. CASE DelCode(r)
  <2>1. CASE Fits(job)
    <3> DEFINE j == [at |-> "CodeSetToken", grant |-> job.grant, client |-> job.client,
                     code |-> job.code, token |-> job.token, new |-> job.new]
    <3>1. /\ job.at = "DelCode" /\ j.at = "CodeSetToken" /\ j.new = job.new
          /\ Goto(r, j) /\ UNCHANGED refresh
      BY <1>1, <2>1 DEF DelCode, Waits
    <3> HIDE DEF j
    <3>2. NewIn(j) = NewIn(job) /\ OldIn(j) = {} /\ IdsIn(j) = {}
      BY <3>1 DEF NewIn, OldIn, IdsIn, Drawing, Rotating
    <3>3. CountsOn(job, refresh)
      BY DEF RotationInv
    <3>4. CountsOn(j, refresh)
      BY <3>1, <3>2, <3>3 DEF CountsOn, Created, Rotating
    <3> QED
      BY <3>1, <3>2, <3>4, RotationMove
  <2>2. CASE ~Fits(job)
    BY <1>1, <2>2, RotationAside DEF DelCode, Idle, IdsIn, Drawing, Rotating
  <2> QED
    BY <2>1, <2>2
<1>2. CASE CodeSetToken(r)
  <2>1. job \in CodeJobs /\ job.at = "CodeSetToken" /\ job.token \in AccessTokens
    BY <1>0, <1>2, JobShapes DEF CodeSetToken, Waits, CodeJobs
  <2>2. CASE Answer(r, {job.token})
    BY <1>2, <2>1, <2>2, RotationAside DEF CodeSetToken, Answer, IdsIn, Drawing, Rotating
  <2>3. CASE Go(r, "CodeCreateRefresh") /\ "offline_access" \in job.grant.scope
    BY <1>2, <2>1, <2>3, RotationGo DEF CodeSetToken, LongLived, Drawing, Rotating, Created
  <2>4. CASE Go(r, "CodeIdToken")
    BY <1>2, <2>1, <2>4, RotationGo DEF CodeSetToken, Drawing, Rotating, Created
  <2> QED
    BY <1>2, <2>2, <2>3, <2>4 DEF CodeSetToken
<1>3. CASE CodeIdToken(r)
  <2>1. job \in CodeJobs /\ job.at = "CodeIdToken" /\ job.token \in AccessTokens
    BY <1>0, <1>3, JobShapes DEF CodeIdToken, Waits, CodeJobs
  <2>2. NewIn(job) = {job.new}
    BY <2>1, DrawsNew DEF Drawing
  <2>3. CASE Answer(r, {job.token, job.new})
    BY <1>3, <2>1, <2>2, <2>3, RotationAside DEF CodeIdToken, Answer, IdsIn, Drawing, Rotating
  <2>4. CASE Goto(r, Idle)
    BY <1>3, <2>4, RotationAside DEF CodeIdToken, Idle, IdsIn, Drawing, Rotating
  <2> QED
    BY <1>3, <2>3, <2>4 DEF CodeIdToken
<1>4. CASE ClientSetToken(r)
  <2>1. job.token \in AccessTokens
    BY <1>0, <1>4, JobShapes DEF ClientSetToken, Waits, ClientJobs
  <2> QED
    BY <1>4, <2>1, RotationAside DEF ClientSetToken, Answer, IdsIn, Drawing, Rotating
<1> QED
  BY <1>1, <1>2, <1>3, <1>4


\* The insertions.  The names of the request stay its own, whatever it does next.
LEMMA RotationInsert ==
  ASSUME RotationInv, TypeOK', NEW r \in Requests, NEW j, Goto(r, j), NEW row,
         req[r].at \in Drawing, refresh' = Put(refresh, req[r].new, row),
         LongLived(row.grant),
         NewIn(j) \subseteq NewIn(req[r]), OldIn(j) \subseteq OldIn(req[r]),
         IdsIn(j) \subseteq NewIn(req[r]) \cup AccessTokens,
         CountsOn(j, Put(refresh, req[r].new, row))
  PROVE  RotationInv'
<1> DEFINE n == req[r].new
<1>1. NewIn(req[r]) = {n}
  BY DrawsNew
<1>2. NamesApart'
  BY ApartMove DEF RotationInv
<1>3. \A t \in DOMAIN refresh' : LongLived(refresh'[t].grant)
  BY DEF RotationInv, Put
<1>4. ASSUME NEW q \in Requests, q # r
      PROVE  CountsOn(req'[q], Put(refresh, n, row))
  <2>1. n \notin NewIn(req[q]) \cup OldIn(req[q])
    BY <1>1, <1>4 DEF RotationInv, NamesApart
  <2>2. req'[q] = req[q] /\ CountsOn(req[q], refresh)
    BY <1>4, ReqGoto DEF RotationInv
  <2> HIDE DEF n
  <2> QED
    BY <2>1, <2>2, CountsPut
<1>5. req'[r] = j
  BY ReqGoto DEF RotationInv
<1>6. \A q \in Requests : CountsOn(req'[q], refresh')
  BY <1>4, <1>5
<1> QED
  BY <1>2, <1>3, <1>6 DEF RotationInv

LEMMA RotationInserts ==
  ASSUME RotationInv, TypeOK', NEW r \in Requests, CodeCreateRefresh(r) \/ RotCreateRefresh(r)
  PROVE  RotationInv'
<1> DEFINE job == req[r]
           n == job.new
<1>0. job \in Jobs /\ CountsOn(job, refresh)
  BY DEF RotationInv, TypeOK
<1>1. CASE UNCHANGED refresh /\ Goto(r, Idle)
  BY <1>1, RotationAside DEF Idle, IdsIn, Drawing, Rotating
<1>2. CASE CodeCreateRefresh(r) /\ job.grant.user \in users
  <2> DEFINE row == RefreshRow(job.grant, [code |-> job.code, by |-> r], FALSE)
             more == Put(refresh, n, row)
  <2>1. /\ job \in CodeJobs /\ job.at = "CodeCreateRefresh" /\ job.token \in AccessTokens
        /\ refresh' = more
    BY <1>0, <1>2, JobShapes DEF CodeCreateRefresh, Waits, CodeJobs
  <2>2. NewIn(job) = {n} /\ job.at \in Drawing
    BY <2>1, DrawsNew DEF Drawing
  <2>3. row.grant = job.grant /\ row.held = FALSE /\ LongLived(row.grant)
    BY <1>0, <2>1 DEF RefreshRow, CountsOn
  <2>4. more[n] = row
    BY DEF Put
  <2> HIDE DEF row, more
  <2>5. ASSUME Go(r, "CodeIdToken") PROVE RotationInv'
    <3> DEFINE j == [job EXCEPT !.at = "CodeIdToken"]
    <3>1. Goto(r, j) /\ j.at = "CodeIdToken" /\ j.new = n
      BY <2>1, <2>5 DEF Go, CodeJobs
    <3> HIDE DEF j
    <3>2. NewIn(j) = {n} /\ OldIn(j) = {} /\ IdsIn(j) = {}
      BY <3>1 DEF NewIn, OldIn, IdsIn, Drawing, Rotating
    <3>3. CountsOn(j, more)
      BY <2>3, <2>4, <3>1, <3>2 DEF CountsOn, Created, Rotating
    <3> QED
      BY <2>1, <2>2, <2>3, <3>1, <3>2, <3>3, RotationInsert DEF more
  <2>6. ASSUME Answer(r, {job.token, n}) PROVE RotationInv'
    <3> DEFINE j == [at |-> "Reply", ids |-> {job.token, n}]
    <3>1. Goto(r, j) /\ j.at = "Reply" /\ j.ids = {job.token, n}
      BY <2>6 DEF Answer
    <3> HIDE DEF j
    <3>2. NewIn(j) = {} /\ OldIn(j) = {} /\ IdsIn(j) = {job.token, n}
      BY <3>1 DEF NewIn, OldIn, IdsIn, Drawing, Rotating
    <3>3. CountsOn(j, more)
      BY <3>1, <3>2 DEF CountsOn, Rotating
    <3> QED
      BY <2>1, <2>2, <2>3, <3>1, <3>2, <3>3, RotationInsert DEF more
  <2> QED
    BY <1>2, <2>5, <2>6 DEF CodeCreateRefresh
<1>3. CASE RotCreateRefresh(r) /\ job.grant.user \in users
  <2> DEFINE row == RefreshRow(job.grant, job.root, FALSE)
             more == Put(refresh, n, row)
  <2>1. /\ job \in RotateJobs /\ job.at = "RotCreateRefresh" /\ refresh' = more
    BY <1>0, <1>3, JobShapes DEF RotCreateRefresh, Waits
  <2>2. NewIn(job) = {n} /\ OldIn(job) = {job.old} /\ job.at \in Drawing
    BY <2>1, DrawsNew DEF OldIn, Drawing, Rotating
  <2>3. /\ row.grant = job.grant /\ row.root = job.root /\ row.held = FALSE
        /\ row.age = RefreshAge /\ LongLived(row.grant)
    BY <1>0, <2>1 DEF RefreshRow, CountsOn, Rotating
  <2>4. more[n] = row /\ DOMAIN more = DOMAIN refresh \cup {n}
        /\ \A t \in DOMAIN refresh : t # n => more[t] = refresh[t]
    BY DEF Put
  <2> HIDE DEF row, more
  <2>5. ASSUME Go(r, "RotDelete") PROVE RotationInv'
    <3> DEFINE j == [job EXCEPT !.at = "RotDelete"]
    <3>1. /\ Goto(r, j) /\ j.at = "RotDelete" /\ j.new = n /\ j.old = job.old
          /\ j.grant = job.grant /\ j.root = job.root
      BY <2>1, <2>5 DEF Go, RotateJobs
    <3> HIDE DEF j
    <3>2. NewIn(j) = {n} /\ OldIn(j) = {job.old} /\ IdsIn(j) = {}
      BY <3>1 DEF NewIn, OldIn, IdsIn, Drawing, Rotating
    <3>3. job.old # n
      BY <2>2 DEF RotationInv, NamesApart
    <3>4. ASSUME job.old \in DOMAIN more
          PROVE  /\ more[job.old].grant = job.grant
                 /\ more[job.old].root = job.root
                 /\ more[job.old].age <= RefreshAge
      <4>1. job.old \in DOMAIN refresh /\ more[job.old] = refresh[job.old]
        BY <2>4, <3>3, <3>4
      <4>2. refresh[job.old].grant = job.grant /\ refresh[job.old].root = job.root
        BY <1>0, <2>2, <4>1 DEF CountsOn
      <4>3. refresh[job.old].age <= RefreshAge
        BY <4>1, LifetimesAssumption DEF RotationInv, TypeOK, RefreshRows
      <4> QED
        BY <4>1, <4>2, <4>3
    <3>5. \A m \in NewIn(j) : m \in DOMAIN more => ~more[m].held /\ j.at \in Created
      BY <2>3, <2>4, <3>1, <3>2 DEF Created
    <3>6. \A t \in OldIn(j) : t \in DOMAIN more =>
            more[t].grant = j.grant /\ more[t].root = j.root
      BY <3>1, <3>2, <3>4
    <3>7. ASSUME j.old \in DOMAIN more PROVE StandsIn(more, j.new, j.old)
      <4>1. more[j.old].age \in Nat /\ RefreshAge \in Nat
        BY <2>4, <3>1, <3>3, <3>7, LifetimesAssumption DEF RotationInv, TypeOK, RefreshRows
      <4> QED
        BY <2>3, <2>4, <3>1, <3>4, <3>7, <4>1 DEF StandsIn
    <3>8. CountsOn(j, more)
      BY <2>3, <3>1, <3>5, <3>6, <3>7 DEF CountsOn
    <3> QED
      BY <2>1, <2>2, <2>3, <3>1, <3>2, <3>8, RotationInsert DEF more
  <2>6. ASSUME Goto(r, Idle) PROVE RotationInv'
    <3>1. NewIn(Idle) = {} /\ OldIn(Idle) = {} /\ IdsIn(Idle) = {}
      BY DEF NewIn, OldIn, IdsIn, Drawing, Rotating, Idle
    <3>2. CountsOn(Idle, more)
      BY <3>1 DEF CountsOn, Rotating, Idle
    <3> QED
      BY <2>1, <2>2, <2>3, <2>6, <3>1, <3>2, RotationInsert DEF more
  <2> QED
    BY <1>3, <2>5, <2>6 DEF RotCreateRefresh
<1> QED
  BY <1>1, <1>2, <1>3 DEF CodeCreateRefresh, RotCreateRefresh


\* Rows go, but none that stands in for another one.
LEMMA CountsLose ==
  ASSUME RotationInv, DOMAIN refresh' \subseteq DOMAIN refresh,
         \A t \in DOMAIN refresh' : refresh'[t] = refresh[t],
         NEW r \in Requests,
         req[r].at = "RotDelete" /\ req[r].old \in DOMAIN refresh' =>
           req[r].new \in DOMAIN refresh'
  PROVE  CountsOn(req[r], refresh')
  BY CountsShrink DEF RotationInv

LEMMA RotationDelete ==
  ASSUME RotationInv, TypeOK', NEW r \in Requests, RotDelete(r)
  PROVE  RotationInv'
<1> DEFINE job == req[r]
<1>1. job \in RotateJobs /\ job.at = "RotDelete" /\ job.token \in AccessTokens
  BY JobShapes DEF RotDelete, Waits, RotationInv, TypeOK, RotateJobs
<1>2. NewIn(job) = {job.new} /\ OldIn(job) = {job.old}
  BY <1>1, DrawsNew DEF OldIn, Drawing, Rotating
<1>3. CASE job.old \notin DOMAIN refresh
  BY <1>3, RotationAside DEF RotDelete, Idle, IdsIn, Drawing, Rotating
<1>4. CASE job.old \in DOMAIN refresh
  <2> DEFINE j == [at |-> "Reply", ids |-> {job.token, job.new}]
  <2>1. Goto(r, j) /\ j.at = "Reply" /\ j.ids = {job.token, job.new}
    BY <1>4 DEF RotDelete, Answer
  <2> HIDE DEF j
  <2>2. NewIn(j) = {} /\ OldIn(j) = {} /\ IdsIn(j) = {job.token, job.new}
    BY <2>1 DEF NewIn, OldIn, IdsIn, Drawing, Rotating
  <2>3. NamesApart'
    BY <1>1, <1>2, <2>1, <2>2, ApartMove DEF RotationInv
  <2>4. /\ DOMAIN refresh' = DOMAIN refresh \ {job.old}
        /\ \A t \in DOMAIN refresh' : refresh'[t] = refresh[t]
    BY <1>4 DEF RotDelete, Del, Restrict
  <2>5. ASSUME NEW q \in Requests, q # r PROVE CountsOn(req'[q], refresh')
    <3>1. job.old \notin NewIn(req[q])
      BY <1>2 DEF RotationInv, NamesApart
    <3>2. ASSUME req[q].at = "RotDelete", req[q].old \in DOMAIN refresh'
          PROVE  req[q].new \in DOMAIN refresh'
      <4>1. req[q].new # job.old
        BY <3>1, <3>2, DrawsNew DEF Drawing, Rotating
      <4>2. req[q].new \in DOMAIN refresh
        BY <2>4, <3>2 DEF RotationInv, CountsOn, StandsIn
      <4> QED
        BY <2>4, <4>1, <4>2
    <3>3. req'[q] = req[q]
      BY <2>1, <2>5, ReqGoto DEF RotationInv
    <3> QED
      BY <2>4, <3>2, <3>3, CountsLose
  <2>6. req'[r] = j /\ CountsOn(j, refresh')
    BY <2>1, <2>2, ReqGoto DEF RotationInv, CountsOn, Rotating
  <2>7. \A t \in DOMAIN refresh' : LongLived(refresh'[t].grant)
    BY <2>4 DEF RotationInv
  <2>8. \A q \in Requests : CountsOn(req'[q], refresh')
    BY <2>5, <2>6
  <2> QED
    BY <2>3, <2>7, <2>8 DEF RotationInv
<1> QED
  BY <1>3, <1>4

\* The answer hands out nothing that another request still counts on.
LEMMA RotationReply ==
  ASSUME RotationInv, TypeOK', NEW r \in Requests, Reply(r)
  PROVE  RotationInv'
<1>1. /\ DOMAIN refresh' = DOMAIN refresh
      /\ \A t \in DOMAIN refresh : /\ refresh'[t].grant = refresh[t].grant
                                   /\ refresh'[t].root = refresh[t].root
                                   /\ refresh'[t].age = refresh[t].age
                                   /\ t \notin req[r].ids => refresh'[t].held = refresh[t].held
  BY DEF Reply, RotationInv, TypeOK, RefreshRows
<1>2. Goto(r, Idle) /\ IdsIn(req[r]) = req[r].ids
  BY DEF Reply, IdsIn, Waits
<1>3. NewIn(Idle) = {} /\ OldIn(Idle) = {} /\ IdsIn(Idle) = {}
  BY DEF NewIn, OldIn, IdsIn, Drawing, Rotating, Idle
<1>4. NamesApart'
  BY <1>2, <1>3, ApartMove DEF RotationInv
<1>5. ASSUME NEW q \in Requests, q # r PROVE CountsOn(req'[q], refresh')
  <2>1. NewIn(req[q]) \cap req[r].ids = {}
    BY <1>2 DEF RotationInv, NamesApart
  <2>2. \A n \in NewIn(req[q]) \cap DOMAIN refresh : refresh'[n].held = refresh[n].held
    BY <1>1, <2>1
  <2>3. \A s, t \in DOMAIN refresh :
          refresh[s].age >= refresh[t].age => refresh'[s].age >= refresh'[t].age
    BY <1>1
  <2>4. req'[q] = req[q] /\ CountsOn(req[q], refresh)
    BY <1>2, <1>5, ReqGoto DEF RotationInv
  <2> QED
    BY <1>1, <2>2, <2>3, <2>4, CountsAge
<1>6. req'[r] = Idle /\ CountsOn(Idle, refresh')
  BY <1>2, <1>3, ReqGoto DEF RotationInv, CountsOn, Idle, Rotating
<1>7. \A t \in DOMAIN refresh' : LongLived(refresh'[t].grant)
  BY <1>1 DEF RotationInv
<1>8. \A q \in Requests : CountsOn(req'[q], refresh')
  BY <1>5, <1>6
<1> QED
  BY <1>4, <1>7, <1>8 DEF RotationInv

LEMMA RotationContinue ==
  ASSUME RotationInv, TypeOK', NEW r \in Requests, Continue(r)
  PROVE  RotationInv'
<1>1. CASE UpsertConsent(r) \/ SetCode(r) \/ InfoUser(r)
  BY <1>1, RotationAside DEF UpsertConsent, SetCode, InfoUser, Idle, IdsIn, Drawing, Rotating
<1>2. ASSUME NEW call \in {"SetCode", "InfoUser"}, Go(r, call), UNCHANGED refresh,
             req[r].at \in {"FindConsent", "InfoConsent"}
      PROVE  RotationInv'
  <2>1. req[r] \in AuthorizeJobs \cup InfoJobs
    BY <1>2, JobShapes DEF RotationInv, TypeOK
  <2>2. [req[r] EXCEPT !.at = call].at = call
    BY <2>1 DEF AuthorizeJobs, InfoJobs
  <2> QED
    BY <1>2, <2>2, RotationAside DEF Go, IdsIn, Drawing, Rotating
<1>3. CASE FindConsent(r) \/ InfoConsent(r)
  <2>1. CASE Goto(r, Idle)
    BY <1>3, <2>1, RotationAside DEF FindConsent, InfoConsent, Idle, IdsIn, Drawing, Rotating
  <2> QED
    BY <1>2, <1>3, <2>1 DEF FindConsent, InfoConsent, Waits
<1>4. CASE RotSetToken(r)
  <2>1. req[r].at = "RotSetToken" /\ UNCHANGED refresh
    BY <1>4 DEF RotSetToken, Waits
  <2>2. LongLived(req[r].grant)
    BY <2>1 DEF RotationInv, CountsOn, Rotating
  <2>3. Go(r, "RotCreateRefresh")
    BY <1>4, <2>2 DEF RotSetToken, LongLived
  <2> QED
    BY <2>1, <2>2, <2>3, RotationGo DEF Drawing, Rotating, Created
<1> QED
  BY <1>1, <1>3, <1>4, RotationCodeSteps, RotationInserts, RotationDelete, RotationReply
     DEF Continue

LEMMA RotationAbort ==
  ASSUME RotationInv, TypeOK', NEW r \in Requests, Abort(r)
  PROVE  RotationInv'
  BY RotationAside DEF Abort, Idle, IdsIn, Drawing, Rotating

LEMMA RotationAround ==
  ASSUME RotationInv, TypeOK', Around
  PROVE  RotationInv'
<1>1. UNCHANGED req
  BY DEF Around, RevokeAccess, RevokeRefresh, DeleteUser, UpdateClient, Tick
<1>2. NamesApart'
  BY <1>1 DEF RotationInv, NamesApart
<1>3. ASSUME UNCHANGED refresh PROVE RotationInv'
  BY <1>1, <1>2, <1>3 DEF RotationInv
<1>4. ASSUME NEW gone, DOMAIN refresh' = DOMAIN refresh \ gone,
             \A t \in DOMAIN refresh' : refresh'[t] = refresh[t],
             \A r \in Requests : req[r].at = "RotDelete" /\ req[r].old \in DOMAIN refresh' =>
               req[r].new \in DOMAIN refresh'
      PROVE  RotationInv'
  <2>1. \A r \in Requests : CountsOn(req[r], refresh')
    BY <1>4, CountsLose
  <2> QED
    BY <1>1, <1>2, <1>4, <2>1 DEF RotationInv
<1>5. ASSUME NEW t \in HeldRefresh, RevokeRefresh(t) PROVE RotationInv'
  <2>1. /\ DOMAIN refresh' = DOMAIN refresh \ {t}
        /\ \A s \in DOMAIN refresh' : refresh'[s] = refresh[s]
    BY <1>5 DEF RevokeRefresh, Del, Restrict
  <2>2. ASSUME NEW r \in Requests, req[r].at = "RotDelete", req[r].old \in DOMAIN refresh'
        PROVE  req[r].new \in DOMAIN refresh'
    <3>1. NewIn(req[r]) = {req[r].new}
      BY <2>2, DrawsNew DEF Drawing, Rotating
    <3>2. req[r].new \in DOMAIN refresh /\ ~refresh[req[r].new].held
      BY <2>1, <2>2, <3>1 DEF RotationInv, CountsOn, StandsIn
    <3>3. req[r].new # t
      BY <3>2 DEF HeldRefresh
    <3> QED
      BY <2>1, <3>2, <3>3
  <2> QED
    BY <1>4, <2>1, <2>2
<1>6. ASSUME NEW u \in users, DeleteUser(u) PROVE RotationInv'
  <2>1. /\ DOMAIN refresh' = DOMAIN refresh \ RowsOf(u)
        /\ \A s \in DOMAIN refresh' : refresh'[s] = refresh[s]
    BY <1>6 DEF DeleteUser, Restrict, RowsOf
  <2>2. ASSUME NEW r \in Requests, req[r].at = "RotDelete", req[r].old \in DOMAIN refresh'
        PROVE  req[r].new \in DOMAIN refresh'
    <3>1. StandsIn(refresh, req[r].new, req[r].old)
      BY <2>1, <2>2 DEF RotationInv, CountsOn
    <3> QED
      BY <2>1, <2>2, <3>1 DEF StandsIn, RowsOf
  <2> QED
    BY <1>4, <2>1, <2>2
<1>7. ASSUME Tick PROVE RotationInv'
  <2>1. /\ DOMAIN refresh' = DOMAIN refresh
        /\ \A t \in DOMAIN refresh :
             /\ refresh'[t].grant = refresh[t].grant
             /\ refresh'[t].root = refresh[t].root
             /\ refresh'[t].held = refresh[t].held
             /\ refresh'[t].age = IF refresh[t].age > 0 THEN refresh[t].age - 1 ELSE 0
    BY <1>7 DEF Tick, RotationInv, TypeOK, RefreshRows
  <2>2. \A t \in DOMAIN refresh : refresh[t].age \in Nat
    BY LifetimesAssumption DEF RotationInv, TypeOK, RefreshRows
  <2>3. \A s, t \in DOMAIN refresh :
          refresh[s].age >= refresh[t].age => refresh'[s].age >= refresh'[t].age
    BY <2>1, <2>2
  <2>4. \A r \in Requests : CountsOn(req[r], refresh')
    BY <2>1, <2>3, CountsAge DEF RotationInv
  <2> QED
    BY <1>1, <1>2, <2>1, <2>4 DEF RotationInv
<1> QED
  BY <1>3, <1>5, <1>6, <1>7 DEF Around, RevokeAccess, UpdateClient

LEMMA RotationInit == Init => RotationInv
<1> SUFFICES ASSUME Init PROVE RotationInv
  OBVIOUS
<1>1. \A r \in Requests : NewIn(req[r]) = {} /\ OldIn(req[r]) = {} /\ IdsIn(req[r]) = {}
  BY DEF Init, Idle, NewIn, OldIn, IdsIn, Drawing, Rotating
<1>2. \A r \in Requests : CountsOn(req[r], refresh)
  BY <1>1 DEF Init, Idle, CountsOn, Rotating
<1> QED
  BY <1>1, <1>2, InitTypeOK DEF Init, RotationInv, NamesApart

LEMMA RotationStep == RotationInv /\ [Next]_vars => RotationInv'
<1> SUFFICES ASSUME RotationInv, [Next]_vars PROVE RotationInv'
  OBVIOUS
<1>1. TypeOK'
  BY TypeStep DEF RotationInv
<1>2. CASE UNCHANGED vars
  BY <1>1, <1>2 DEF vars, RotationInv, NamesApart
<1>3. CASE Next
  BY <1>1, <1>3, RotationArrive, RotationContinue, RotationAbort, RotationAround DEF Next
<1> QED
  BY <1>2, <1>3

-----------------------------------------------------------------------------
(* What a client has.                                                      *)

LEMMA OwnedIds ==
  /\ \A t : t \in Owned <=> /\ t \in DOMAIN refresh
                            /\ refresh[t].held \/ \E r \in Requests : t \in IdsIn(req[r])
  /\ \A t : t \in Owned' <=> /\ t \in DOMAIN refresh'
                             /\ refresh'[t].held \/ \E r \in Requests : t \in IdsIn(req'[r])
  BY DEF Owned, IdsIn, Waits

\* A token stays the client's when its row stays, and the request that answers
\* it goes on answering or hands it out.
LEMMA OwnedStays ==
  ASSUME TypeOK, NEW r \in Requests, NEW j, Goto(r, j), NEW t \in Owned, t \in DOMAIN refresh',
         refresh[t].held => refresh'[t].held,
         t \in IdsIn(req[r]) => t \in IdsIn(j) \/ refresh'[t].held
  PROVE  t \in Owned'
<1>1. req'[r] = j /\ \A q \in Requests \ {r} : req'[q] = req[q]
  BY ReqGoto
<1> QED
  BY <1>1, OwnedIds

\* A step gives a client nothing but what the request now answers.
LEMMA OwnedGrows ==
  ASSUME RotationInv, NEW r \in Requests, NEW j, Goto(r, j),
         DOMAIN refresh' \subseteq DOMAIN refresh \cup NewIn(req[r]),
         \A t \in DOMAIN refresh' : refresh'[t].held => t \in Owned
  PROVE  Owned' \subseteq Owned \cup IdsIn(j)
<1>1. req'[r] = j /\ \A q \in Requests \ {r} : req'[q] = req[q]
  BY ReqGoto DEF RotationInv
<1>2. \A q \in Requests : NewIn(req[r]) \cap IdsIn(req[q]) = {}
  BY DEF RotationInv, NamesApart
<1> QED
  BY <1>1, <1>2, OwnedIds

-----------------------------------------------------------------------------
(* No access is lost.                                                      *)

\* A refresh token that a client no longer has after this step leaves it
\* without access only as it should.
GoesRightly(t) ==
  \/ RevokeRefresh(t)
  \/ refresh[t].grant.user \notin users'
  \/ LostAnswer(t)
  \/ \E s \in Owned' : /\ refresh'[s].grant = refresh[t].grant
                       /\ refresh'[s].root = refresh[t].root
                       /\ refresh'[s].age >= refresh[t].age

LEMMA GoesRotated ==
  ASSUME RotationInv, NEW t \in Owned \ Owned', NEW r \in Requests, RotDelete(r)
  PROVE  GoesRightly(t)
<1> DEFINE n == req[r].new
<1>1. req[r].at = "RotDelete" /\ IdsIn(req[r]) = {}
  BY DEF RotDelete, Waits, IdsIn
<1>2. t \in DOMAIN refresh
  BY OwnedIds
<1>3. CASE req[r].old \notin DOMAIN refresh
  BY <1>1, <1>2, <1>3, OwnedStays DEF RotDelete, RotationInv
<1>4. CASE req[r].old \in DOMAIN refresh
  <2>1. /\ DOMAIN refresh' = DOMAIN refresh \ {req[r].old}
        /\ \A s \in DOMAIN refresh' : refresh'[s] = refresh[s]
    BY <1>4 DEF RotDelete, Del, Restrict
  <2>2. Goto(r, [at |-> "Reply", ids |-> {req[r].token, n}])
    BY <1>4 DEF RotDelete, Answer
  <2>3. t = req[r].old
    BY <1>1, <1>2, <2>1, <2>2, OwnedStays DEF RotationInv
  <2>4. StandsIn(refresh, n, t) /\ n # t
    BY <1>1, <1>4, <2>3 DEF RotationInv, CountsOn, NamesApart, NewIn, OldIn, Drawing, Rotating
  <2>5. n \in DOMAIN refresh' /\ refresh'[n] = refresh[n]
    BY <2>1, <2>3, <2>4 DEF StandsIn
  <2>6. n \in IdsIn(req'[r])
    BY <2>2, ReqGoto DEF RotationInv, IdsIn
  <2>7. n \in Owned'
    BY <2>5, <2>6, OwnedIds
  <2> HIDE DEF n
  <2> QED
    BY <2>4, <2>5, <2>7 DEF StandsIn, GoesRightly
<1> QED
  BY <1>3, <1>4

LEMMA GoesContinue ==
  ASSUME RotationInv, NEW t \in Owned \ Owned', NEW r \in Requests, Continue(r), ~RotDelete(r)
  PROVE  FALSE
<1>1. t \in DOMAIN refresh
  BY OwnedIds
<1>2. CASE Reply(r)
  <2>1. /\ t \in DOMAIN refresh'
        /\ refresh[t].held => refresh'[t].held
        /\ t \in req[r].ids => refresh'[t].held
    BY <1>1, <1>2 DEF Reply, RotationInv, TypeOK, RefreshRows
  <2>2. Goto(r, Idle) /\ IdsIn(req[r]) = req[r].ids
    BY <1>2 DEF Reply, Waits, IdsIn
  <2> QED
    BY <2>1, <2>2, OwnedStays DEF RotationInv
<1>3. CASE CodeCreateRefresh(r) \/ RotCreateRefresh(r)
  <2>1. req[r].at \in {"CodeCreateRefresh", "RotCreateRefresh"} /\ IdsIn(req[r]) = {}
    BY <1>3 DEF CodeCreateRefresh, RotCreateRefresh, Waits, IdsIn
  <2>2. req[r].new \notin DOMAIN refresh
    BY <2>1, DrawsNew DEF RotationInv, CountsOn, Created, Drawing, Rotating
  <2>3. t \in DOMAIN refresh' /\ refresh'[t] = refresh[t]
    BY <1>1, <1>3, <2>2 DEF CodeCreateRefresh, RotCreateRefresh, Put
  <2>4. \E j : Goto(r, j)
    BY <1>3 DEF CodeCreateRefresh, RotCreateRefresh, Go, Answer
  <2> QED
    BY <2>1, <2>3, <2>4, OwnedStays DEF RotationInv
<1>4. CASE UNCHANGED refresh /\ ~Waits(r, "Reply") /\ \E j : Goto(r, j)
  BY <1>1, <1>4, OwnedStays DEF RotationInv, IdsIn, Waits
<1>5. CASE \/ UpsertConsent(r) \/ FindConsent(r) \/ SetCode(r) \/ DelCode(r) \/ CodeSetToken(r)
           \/ CodeIdToken(r) \/ RotSetToken(r) \/ ClientSetToken(r) \/ InfoConsent(r) \/ InfoUser(r)
  <2>1. UNCHANGED refresh /\ ~Waits(r, "Reply")
    BY <1>5 DEF UpsertConsent, FindConsent, SetCode, DelCode, CodeSetToken, CodeIdToken,
       RotSetToken, ClientSetToken, InfoConsent, InfoUser, Waits
  <2>2. \E j : Goto(r, j)
    BY <1>5 DEF UpsertConsent, FindConsent, SetCode, DelCode, CodeSetToken, CodeIdToken,
       RotSetToken, ClientSetToken, InfoConsent, InfoUser, Go, Answer
  <2> QED
    BY <1>4, <2>1, <2>2
<1> QED
  BY <1>2, <1>3, <1>5 DEF Continue

LEMMA GoesStep ==
  ASSUME RotationInv, [Next]_vars, NEW t \in Owned \ Owned'
  PROVE  GoesRightly(t)
<1>0. t \in DOMAIN refresh
  BY OwnedIds
<1>1. ASSUME NEW r \in Requests, Arrive(r) PROVE FALSE
  <2>1. UNCHANGED refresh /\ Waits(r, "Idle") /\ \E j : Goto(r, j)
    BY <1>1 DEF Arrive, Consent, Authorize, CodeGrant, RefreshGrant, ClientCredentials, Userinfo
  <2> QED
    BY <1>0, <2>1, OwnedStays DEF RotationInv, IdsIn, Waits
<1>2. ASSUME NEW r \in Requests, Abort(r) PROVE GoesRightly(t)
  <2>1. UNCHANGED refresh /\ Goto(r, Idle)
    BY <1>2 DEF Abort
  <2>2. t \in IdsIn(req[r])
    BY <1>0, <2>1, OwnedStays DEF RotationInv
  <2> QED
    BY <1>2, <2>2 DEF GoesRightly, LostAnswer, IdsIn, Waits
<1>3. ASSUME UNCHANGED req, NEW s, DOMAIN refresh' = DOMAIN refresh \ {s},
             \A x \in DOMAIN refresh' : refresh'[x] = refresh[x]
      PROVE  s = t
  BY <1>0, <1>3, OwnedIds
<1>4. ASSUME NEW s \in HeldRefresh, RevokeRefresh(s) PROVE GoesRightly(t)
  <2>1. s = t
    BY <1>3, <1>4 DEF RevokeRefresh, Del, Restrict
  <2> QED
    BY <1>4, <2>1 DEF GoesRightly
<1>5. ASSUME NEW u \in users, DeleteUser(u) PROVE GoesRightly(t)
  <2>1. /\ DOMAIN refresh' = DOMAIN refresh \ RowsOf(u) /\ UNCHANGED req
        /\ \A s \in DOMAIN refresh' : refresh'[s] = refresh[s]
    BY <1>5 DEF DeleteUser, Restrict, RowsOf
  <2>2. t \in RowsOf(u)
    BY <1>0, <2>1, OwnedIds
  <2> QED
    BY <1>5, <2>2 DEF RowsOf, GoesRightly, DeleteUser
<1>6. ASSUME UNCHANGED req, DOMAIN refresh' = DOMAIN refresh,
             \A x \in DOMAIN refresh : refresh'[x].held = refresh[x].held
      PROVE  FALSE
  BY <1>0, <1>6, OwnedIds
<1>7. CASE \/ \E s \in HeldAccess : RevokeAccess(s)
           \/ \E c \in Clients, new \in ClientConfs : UpdateClient(c, new)
           \/ Tick \/ UNCHANGED vars
  <2>1. UNCHANGED req /\ DOMAIN refresh' = DOMAIN refresh
    BY <1>7 DEF RevokeAccess, UpdateClient, Tick, vars
  <2>2. \A x \in DOMAIN refresh : refresh'[x].held = refresh[x].held
    BY <1>7 DEF RevokeAccess, UpdateClient, Tick, vars, RotationInv, TypeOK, RefreshRows
  <2> QED
    BY <1>6, <2>1, <2>2
<1> QED
  BY <1>1, <1>2, <1>4, <1>5, <1>7, GoesRotated, GoesContinue DEF Next, Around

\* A rotation takes no long-lived access away, however many requests race and
\* whatever store call fails or is refused: a refresh token that a client has
\* goes by revocation, with its user, when the answer carrying it is lost, or
\* when the client has, or is being sent, another one of the same redemption and
\* grant that is good for as long (refreshTokenGrant: create first, delete last).
THEOREM AccessKept == Spec => NoLockout
<1>1. RotationInv /\ [Next]_vars =>
        [\A t \in Owned \ Owned' :
           \/ RevokeRefresh(t)
           \/ refresh[t].grant.user \notin users'
           \/ LostAnswer(t)
           \/ \E s \in Owned' : /\ refresh'[s].grant = refresh[t].grant
                                /\ refresh'[s].root = refresh[t].root
                                /\ refresh'[s].age >= refresh[t].age]_vars
  BY GoesStep DEF GoesRightly
<1> QED
  BY <1>1, RotationInit, RotationStep, PTL DEF Spec, NoLockout

-----------------------------------------------------------------------------
(* One refresh token per redemption.                                       *)

Redeeming == {"DelCode", "CodeSetToken", "CodeCreateRefresh", "CodeIdToken"}

\* The code a job is about to store, the one it redeems, the one it is past
\* deleting, and the redemption that what it rotates descends from.
AskedIn(j) == IF j.at \in {"FindConsent", "SetCode"} THEN {j.code} ELSE {}
CodeIn(j) == IF j.at \in Redeeming THEN {j.code} ELSE {}
SpentIn(j) == IF j.at \in Redeeming \ {"DelCode"} THEN {j.code} ELSE {}
RootIn(j) == IF j.at \in Rotating THEN {j.root} ELSE {}

\* The redemptions that refresh tokens descend from, or will again.
RowRoots == {refresh[t].root : t \in DOMAIN refresh}
JobRoots == UNION {RootIn(req[r]) : r \in Requests}
Rooted(k) == \E x \in RowRoots \cup JobRoots : x.code = k

\* A token that is being rotated is one the client has, as long as it is there.
OldHeld ==
  \A r \in Requests : \A t \in OldIn(req[r]) : t \in DOMAIN refresh => refresh[t].held

\* A code that can still be redeemed has no descendants.
CodesUnspent ==
  \A k \in DOMAIN codes : ~Rooted(k) /\ \A r \in Requests : k \notin SpentIn(req[r])

\* A code that is about to be stored is new to everybody.
AsksFresh ==
  \A r \in Requests : \A k \in AskedIn(req[r]) :
    /\ ~Rooted(k) /\ k \notin DOMAIN codes
    /\ \A q \in Requests \ {r} : k \notin AskedIn(req[q]) \cup CodeIn(req[q])

\* A redemption in progress leads to its own new row and to nothing else.
Redemption(k, r) == [code |-> k, by |-> r]
RedeemsFirst ==
  \A r \in Requests : \A k \in CodeIn(req[r]) :
    /\ Redemption(k, r) \notin JobRoots
    /\ \A t \in DOMAIN refresh : refresh[t].root = Redemption(k, r) <=>
         t = req[r].new /\ req[r].at = "CodeIdToken"

RootsInv ==
  /\ RotationInv
  /\ OldHeld /\ CodesUnspent /\ AsksFresh /\ RedeemsFirst
  /\ OneRefreshPerRedemption

LEMMA CodesDrawn ==
  ASSUME NEW r \in Requests
  PROVE  /\ AskedIn(req[r]) \cup CodeIn(req[r]) \cup SpentIn(req[r]) \subseteq Drawn
         /\ \A x \in RootIn(req[r]) : x.code \in Drawn
<1>1. /\ AskedIn(req[r]) \cup CodeIn(req[r]) \cup SpentIn(req[r]) \subseteq DrawnBy(r)
      /\ \A x \in RootIn(req[r]) : x.code \in DrawnBy(r)
  BY DEF AskedIn, CodeIn, SpentIn, RootIn, Redeeming, Rotating, DrawnBy
<1> QED
  BY <1>1 DEF Drawn

\* Every row is an earlier one, still held if it was and held only if it was the
\* client's, or the new row of request r, which descends from what r rotates.
RowsTrace(r) ==
  \A t \in DOMAIN refresh' :
    \/ /\ t \in DOMAIN refresh
       /\ refresh'[t].root = refresh[t].root
       /\ refresh[t].held => refresh'[t].held
       /\ refresh'[t].held => t \in Owned
    \/ /\ t \in NewIn(req[r]) \ DOMAIN refresh
       /\ refresh'[t].root \in RootIn(req[r])
       /\ ~refresh'[t].held

LEMMA OneStays ==
  ASSUME OneRefreshPerRedemption, Owned' \subseteq Owned,
         \A t \in Owned' : refresh'[t].root = refresh[t].root
  PROVE  OneRefreshPerRedemption'
<1>1. ASSUME NEW s \in Owned', NEW t \in Owned', refresh'[s].root = refresh'[t].root
      PROVE  s = t
  BY <1>1 DEF OneRefreshPerRedemption
<1> QED
  BY <1>1 DEF OneRefreshPerRedemption

\* A request that answers nothing gives its client nothing.
LEMMA OneSilent ==
  ASSUME RootsInv, NEW r \in Requests, NEW j, Goto(r, j), RowsTrace(r), IdsIn(j) = {}
  PROVE  OneRefreshPerRedemption'
<1>1. Owned' \subseteq Owned
  BY OwnedGrows, OwnedIds DEF RootsInv, RowsTrace
<1>2. \A t \in Owned' : refresh'[t].root = refresh[t].root
  BY <1>1, OwnedIds DEF RowsTrace
<1> QED
  BY <1>1, <1>2, OneStays DEF RootsInv

\* A step of a request that names no further code, unless one it has spent.
LEMMA RootsMove ==
  ASSUME RootsInv, RotationInv', OneRefreshPerRedemption',
         NEW r \in Requests, NEW j, Goto(r, j), RowsTrace(r),
         DOMAIN codes' \subseteq DOMAIN codes,
         AskedIn(j) \subseteq AskedIn(req[r]), CodeIn(j) \subseteq CodeIn(req[r]),
         CodeIn(j) # {} => req[r].at # "CodeIdToken" /\ j.new = req[r].new,
         RootIn(j) \subseteq RootIn(req[r]), OldIn(j) \subseteq OldIn(req[r]),
         SpentIn(j) \cap DOMAIN codes' \subseteq SpentIn(req[r])
  PROVE  RootsInv'
<1>1. req'[r] = j /\ \A q \in Requests \ {r} : req'[q] = req[q]
  BY ReqGoto DEF RootsInv, RotationInv
<1>2. \A q \in Requests : /\ AskedIn(req'[q]) \subseteq AskedIn(req[q])
                          /\ CodeIn(req'[q]) \subseteq CodeIn(req[q])
                          /\ RootIn(req'[q]) \subseteq RootIn(req[q])
                          /\ OldIn(req'[q]) \subseteq OldIn(req[q])
                          /\ SpentIn(req'[q]) \cap DOMAIN codes' \subseteq SpentIn(req[q])
  BY <1>1
<1>3. JobRoots' \subseteq JobRoots
  BY <1>2 DEF JobRoots
<1>4. RowRoots' \subseteq RowRoots \cup JobRoots
  BY DEF RowRoots, JobRoots, RowsTrace
<1>5. ASSUME NEW k, Rooted(k)' PROVE Rooted(k)
  BY <1>3, <1>4, <1>5 DEF Rooted
<1>6. OldHeld'
  <2>1. \A q \in Requests : NewIn(req[r]) \cap OldIn(req[q]) = {}
    BY DEF RootsInv, RotationInv, NamesApart
  <2> QED
    BY <1>2, <2>1 DEF RootsInv, OldHeld, RowsTrace
<1>7. CodesUnspent'
  BY <1>2, <1>5 DEF RootsInv, CodesUnspent
<1>8. AsksFresh'
  BY <1>2, <1>5 DEF RootsInv, AsksFresh
<1>9. RedeemsFirst'
  <2>1. ASSUME NEW q \in Requests, NEW k \in CodeIn(req'[q])
        PROVE  Redemption(k, q) \notin JobRoots'
    BY <1>2, <1>3, <2>1 DEF RootsInv, RedeemsFirst
  <2>2. ASSUME NEW q \in Requests, NEW k \in CodeIn(req'[q]), NEW t \in DOMAIN refresh',
               refresh'[t].root = Redemption(k, q)
        PROVE  t = req'[q].new /\ req'[q].at = "CodeIdToken"
    <3>1. k \in CodeIn(req[q]) /\ Redemption(k, q) \notin JobRoots
      BY <1>2, <2>2 DEF RootsInv, RedeemsFirst
    <3>2. t \in DOMAIN refresh /\ refresh[t].root = Redemption(k, q)
      BY <2>2, <3>1 DEF RowsTrace, JobRoots
    <3>3. t = req[q].new /\ req[q].at = "CodeIdToken"
      BY <3>1, <3>2 DEF RootsInv, RedeemsFirst
    <3> QED
      BY <1>1, <2>2, <3>3
  <2>3. ASSUME NEW q \in Requests, NEW k \in CodeIn(req'[q]), req'[q].at = "CodeIdToken",
               req'[q].new \in DOMAIN refresh'
        PROVE  refresh'[req'[q].new].root = Redemption(k, q)
    <3> DEFINE n == req'[q].new
    <3>1. k \in CodeIn(req[q]) /\ NewIn(req[q]) = {req[q].new}
      BY <1>2, <2>3 DEF CodeIn, NewIn, Redeeming, Drawing
    <3>2. n = req[q].new
      BY <1>1, <2>3
    <3>3. CASE q = r
      <4>1. req[r].at \notin Created /\ RootIn(req[r]) = {}
        BY <1>1, <2>3, <3>1, <3>3 DEF CodeIn, RootIn, Redeeming, Rotating, Created
      <4>2. n \notin DOMAIN refresh
        BY <3>1, <3>2, <3>3, <4>1 DEF RootsInv, RotationInv, CountsOn
      <4> QED
        BY <2>3, <4>1, <4>2 DEF RowsTrace
    <3>4. CASE q # r
      <4>1. req[q].at = "CodeIdToken" /\ n \notin NewIn(req[r])
        BY <1>1, <2>3, <3>1, <3>2, <3>4 DEF RootsInv, RotationInv, NamesApart
      <4>2. n \in DOMAIN refresh /\ refresh'[n].root = refresh[n].root
        BY <2>3, <4>1 DEF RowsTrace
      <4> QED
        BY <3>1, <3>2, <4>1, <4>2 DEF RootsInv, RedeemsFirst
    <3> QED
      BY <3>3, <3>4
  <2> QED
    BY <2>1, <2>2, <2>3 DEF RedeemsFirst
<1> QED
  BY <1>6, <1>7, <1>8, <1>9 DEF RootsInv

\* A step of a request that names no code, and answers nothing.
LEMMA RootsAside ==
  ASSUME RootsInv, RotationInv', NEW r \in Requests, NEW j, Goto(r, j), RowsTrace(r),
         DOMAIN codes' \subseteq DOMAIN codes, IdsIn(j) = {},
         j.at \notin {"FindConsent", "SetCode"} \cup Redeeming \cup Rotating
  PROVE  RootsInv'
<1>1. AskedIn(j) = {} /\ CodeIn(j) = {} /\ SpentIn(j) = {} /\ RootIn(j) = {} /\ OldIn(j) = {}
  BY DEF AskedIn, CodeIn, SpentIn, RootIn, OldIn
<1>2. OneRefreshPerRedemption'
  BY OneSilent
<1> QED
  BY <1>1, <1>2, RootsMove

\* The same, with an answer.
LEMMA RootsAnswer ==
  ASSUME RootsInv, RotationInv', OneRefreshPerRedemption',
         NEW r \in Requests, NEW ids, Answer(r, ids), RowsTrace(r), UNCHANGED codes
  PROVE  RootsInv'
<1> DEFINE j == [at |-> "Reply", ids |-> ids]
<1>1. j.at = "Reply" /\ Goto(r, j)
  BY DEF Answer
<1> HIDE DEF j
<1>2. AskedIn(j) = {} /\ CodeIn(j) = {} /\ SpentIn(j) = {} /\ RootIn(j) = {} /\ OldIn(j) = {}
  BY <1>1 DEF AskedIn, CodeIn, SpentIn, RootIn, OldIn, Redeeming, Rotating
<1> QED
  BY <1>1, <1>2, RootsMove

LEMMA SameTrace ==
  ASSUME NEW r, UNCHANGED refresh
  PROVE  RowsTrace(r)
  BY OwnedIds DEF RowsTrace

\* The three arrivals that name a code.
LEMMA RootsAuthorize ==
  ASSUME RootsInv, RotationInv', NEW r \in Requests, NEW j, NEW k \in FreshCodes, Goto(r, j),
         j.at = "FindConsent", j.code = k, UNCHANGED <<codes, refresh>>
  PROVE  RootsInv'
<1>1. req'[r] = j /\ \A q \in Requests \ {r} : req'[q] = req[q]
  BY ReqGoto DEF RootsInv, RotationInv
<1>2. /\ AskedIn(j) = {k} /\ CodeIn(j) = {} /\ SpentIn(j) = {} /\ RootIn(j) = {}
      /\ OldIn(j) = {} /\ IdsIn(j) = {}
  BY DEF AskedIn, CodeIn, SpentIn, RootIn, OldIn, IdsIn, Redeeming, Rotating
<1>3. \A q \in Requests : /\ k \notin AskedIn(req[q]) \cup CodeIn(req[q])
                          /\ \A x \in RootIn(req[q]) : x.code # k
  BY CodesDrawn DEF FreshCodes
<1>4. ~Rooted(k) /\ k \notin DOMAIN codes
  BY <1>3 DEF Rooted, RowRoots, JobRoots, FreshCodes
<1>5. JobRoots' \subseteq JobRoots /\ RowRoots' = RowRoots
  BY <1>1, <1>2 DEF JobRoots, RowRoots
<1>6. ASSUME NEW l, Rooted(l)' PROVE Rooted(l)
  BY <1>5, <1>6 DEF Rooted
<1>7. CodesUnspent'
  BY <1>1, <1>2, <1>6 DEF RootsInv, CodesUnspent
<1>8. AsksFresh'
  BY <1>1, <1>2, <1>3, <1>4, <1>6 DEF RootsInv, AsksFresh
<1>9. RedeemsFirst' /\ OldHeld'
  BY <1>1, <1>2, <1>5 DEF RootsInv, RedeemsFirst, OldHeld
<1>10. OneRefreshPerRedemption'
  BY <1>2, OneSilent, SameTrace
<1> QED
  BY <1>7, <1>8, <1>9, <1>10 DEF RootsInv

LEMMA RootsCodeGrant ==
  ASSUME RootsInv, RotationInv', NEW r \in Requests, NEW j, NEW k \in DOMAIN codes, Goto(r, j),
         j.at = "DelCode", j.code = k, UNCHANGED <<codes, refresh>>
  PROVE  RootsInv'
<1>1. req'[r] = j /\ \A q \in Requests \ {r} : req'[q] = req[q]
  BY ReqGoto DEF RootsInv, RotationInv
<1>2. /\ AskedIn(j) = {} /\ CodeIn(j) = {k} /\ SpentIn(j) = {} /\ RootIn(j) = {}
      /\ OldIn(j) = {} /\ IdsIn(j) = {}
  BY DEF AskedIn, CodeIn, SpentIn, RootIn, OldIn, IdsIn, Redeeming, Rotating
<1>3. ~Rooted(k) /\ \A q \in Requests : k \notin AskedIn(req[q])
  BY DEF RootsInv, CodesUnspent, AsksFresh
<1>4. JobRoots' \subseteq JobRoots /\ RowRoots' = RowRoots
  BY <1>1, <1>2 DEF JobRoots, RowRoots
<1>5. ASSUME NEW l, Rooted(l)' PROVE Rooted(l)
  BY <1>4, <1>5 DEF Rooted
<1>6. Redemption(k, r) \notin JobRoots \cup RowRoots
  <2>1. Redemption(k, r).code = k
    BY DEF Redemption
  <2> QED
    BY <1>3, <2>1 DEF Rooted
<1>7. CodesUnspent'
  BY <1>1, <1>2, <1>5 DEF RootsInv, CodesUnspent
<1>8. AsksFresh'
  BY <1>1, <1>2, <1>3, <1>5 DEF RootsInv, AsksFresh
<1>9. RedeemsFirst'
  BY <1>1, <1>2, <1>4, <1>6 DEF RootsInv, RedeemsFirst, RowRoots
<1>10. OldHeld'
  BY <1>1, <1>2 DEF RootsInv, OldHeld
<1>11. OneRefreshPerRedemption'
  BY <1>2, OneSilent, SameTrace
<1> QED
  BY <1>7, <1>8, <1>9, <1>10, <1>11 DEF RootsInv

LEMMA RootsRefreshGrant ==
  ASSUME RootsInv, RotationInv', NEW r \in Requests, NEW j,
         NEW t \in HeldRefresh, Goto(r, j), UNCHANGED <<codes, refresh>>,
         j.at = "RotSetToken", j.old = t, j.root = refresh[t].root
  PROVE  RootsInv'
<1>1. req'[r] = j /\ \A q \in Requests \ {r} : req'[q] = req[q]
  BY ReqGoto DEF RootsInv, RotationInv
<1>2. /\ AskedIn(j) = {} /\ CodeIn(j) = {} /\ SpentIn(j) = {}
      /\ RootIn(j) = {refresh[t].root} /\ OldIn(j) = {t} /\ IdsIn(j) = {}
  BY DEF AskedIn, CodeIn, SpentIn, RootIn, OldIn, IdsIn, Redeeming, Rotating
<1>3. t \in DOMAIN refresh /\ refresh[t].held
  BY DEF HeldRefresh
<1>4. JobRoots' \subseteq JobRoots \cup {refresh[t].root} /\ RowRoots' = RowRoots
  BY <1>1, <1>2 DEF JobRoots, RowRoots
<1>5. ASSUME NEW l, Rooted(l)' PROVE Rooted(l)
  BY <1>3, <1>4, <1>5 DEF Rooted, RowRoots
<1>6. CodesUnspent'
  BY <1>1, <1>2, <1>5 DEF RootsInv, CodesUnspent
<1>7. AsksFresh'
  BY <1>1, <1>2, <1>5 DEF RootsInv, AsksFresh
<1>8. RedeemsFirst'
  <2>1. ASSUME NEW q \in Requests, NEW k \in CodeIn(req[q]), refresh[t].root = Redemption(k, q)
        PROVE  FALSE
    <3>1. t = req[q].new /\ req[q].at = "CodeIdToken"
      BY <1>3, <2>1 DEF RootsInv, RedeemsFirst
    <3>2. t \in NewIn(req[q])
      BY <3>1 DEF NewIn, Drawing
    <3> QED
      BY <1>3, <3>2 DEF RootsInv, RotationInv, CountsOn
  <2> QED
    BY <1>1, <1>2, <1>4, <2>1 DEF RootsInv, RedeemsFirst
<1>9. OldHeld'
  BY <1>1, <1>2, <1>3 DEF RootsInv, OldHeld
<1>10. OneRefreshPerRedemption'
  BY <1>2, OneSilent, SameTrace
<1> QED
  BY <1>6, <1>7, <1>8, <1>9, <1>10 DEF RootsInv

\* The code is stored.
LEMMA RootsSetCode ==
  ASSUME RootsInv, RotationInv', NEW r \in Requests, SetCode(r)
  PROVE  RootsInv'
<1> DEFINE k == req[r].code
<1>1. req'[r] = Idle /\ \A q \in Requests \ {r} : req'[q] = req[q]
  BY ReqGoto DEF RootsInv, RotationInv, SetCode
<1>2. /\ AskedIn(Idle) = {} /\ CodeIn(Idle) = {} /\ SpentIn(Idle) = {} /\ RootIn(Idle) = {}
      /\ OldIn(Idle) = {} /\ IdsIn(Idle) = {}
  BY DEF AskedIn, CodeIn, SpentIn, RootIn, OldIn, IdsIn, Redeeming, Rotating, Idle
<1>3. k \in AskedIn(req[r]) /\ req[r].at = "SetCode" /\ UNCHANGED refresh /\ Goto(r, Idle)
  BY DEF SetCode, Waits, AskedIn
<1>4. DOMAIN codes' = DOMAIN codes \cup {k}
  BY DEF SetCode, Put
<1>5. /\ ~Rooted(k)
      /\ \A q \in Requests \ {r} : k \notin AskedIn(req[q]) \cup CodeIn(req[q])
  BY <1>3 DEF RootsInv, AsksFresh
<1> HIDE DEF k
<1>6. \A q \in Requests : SpentIn(req[q]) \subseteq CodeIn(req[q])
  BY DEF SpentIn, CodeIn
<1>7. JobRoots' \subseteq JobRoots /\ RowRoots' = RowRoots
  BY <1>1, <1>2, <1>3 DEF JobRoots, RowRoots
<1>8. ASSUME NEW l, Rooted(l)' PROVE Rooted(l)
  BY <1>7, <1>8 DEF Rooted
<1>9. CodesUnspent'
  BY <1>1, <1>2, <1>4, <1>5, <1>6, <1>8 DEF RootsInv, CodesUnspent
<1>10. AsksFresh'
  BY <1>1, <1>2, <1>4, <1>5, <1>8 DEF RootsInv, AsksFresh
<1>11. RedeemsFirst'
  BY <1>1, <1>2, <1>3, <1>7 DEF RootsInv, RedeemsFirst
<1>12. OldHeld'
  BY <1>1, <1>2, <1>3 DEF RootsInv, OldHeld
<1>13. OneRefreshPerRedemption'
  BY <1>2, <1>3, OneSilent, SameTrace
<1> QED
  BY <1>9, <1>10, <1>11, <1>12, <1>13 DEF RootsInv

\* The first row of a redemption.
LEMMA RootsFirst ==
  ASSUME RootsInv, RotationInv', NEW r \in Requests, NEW j, Goto(r, j),
         req[r].at = "CodeCreateRefresh",
         \/ j.at = "CodeIdToken" /\ j.code = req[r].code /\ j.new = req[r].new
         \/ j.at = "Reply" /\ IdsIn(j) \cap RefreshTokens \subseteq {req[r].new},
         NEW row, req[r].new \notin DOMAIN refresh,
         refresh' = Put(refresh, req[r].new, row), ~row.held,
         row.root = Redemption(req[r].code, r), UNCHANGED codes
  PROVE  RootsInv'
<1> DEFINE k == req[r].code
           n == req[r].new
<1>1. req'[r] = j /\ \A q \in Requests \ {r} : req'[q] = req[q]
  BY ReqGoto DEF RootsInv, RotationInv
<1>2. /\ AskedIn(j) = {} /\ RootIn(j) = {} /\ OldIn(j) = {}
      /\ CodeIn(j) \subseteq {k} /\ SpentIn(j) \subseteq {k}
      /\ CodeIn(j) # {} => j.at = "CodeIdToken" /\ j.new = n
  BY DEF AskedIn, CodeIn, SpentIn, RootIn, OldIn, Redeeming, Rotating
<1>3. /\ DOMAIN refresh' = DOMAIN refresh \cup {n} /\ refresh'[n].root = Redemption(k, r)
      /\ ~refresh'[n].held
      /\ \A t \in DOMAIN refresh : t # n /\ refresh'[t] = refresh[t]
  BY DEF Put
<1>4. k \in CodeIn(req[r]) /\ k \in SpentIn(req[r]) /\ NewIn(req[r]) = {n}
  BY DEF CodeIn, SpentIn, Redeeming, NewIn, Drawing
<1>5. /\ Redemption(k, r) \notin JobRoots
      /\ \A t \in DOMAIN refresh : refresh[t].root # Redemption(k, r)
      /\ k \notin DOMAIN codes
  BY <1>4 DEF RootsInv, RedeemsFirst, CodesUnspent
<1>6. \A q \in Requests : k \notin AskedIn(req[q])
  <2>1. AskedIn(req[r]) = {}
    BY DEF AskedIn
  <2> QED
    BY <1>4, <2>1 DEF RootsInv, AsksFresh
<1>7. Redemption(k, r).code = k /\ \A l, q : Redemption(l, q) = Redemption(k, r) => q = r
  BY DEF Redemption
<1>8. OneRefreshPerRedemption'
  <2>1. Owned' \subseteq Owned \cup IdsIn(j)
    BY <1>3, <1>4, OwnedGrows, OwnedIds DEF RootsInv
  <2>2. IdsIn(j) \cap DOMAIN refresh' \subseteq {n}
    BY DEF IdsIn, RotationInv, TypeOK
  <2>3. Owned' \subseteq Owned \cup {n} /\ n \notin Owned
    BY <1>3, <2>1, <2>2, OwnedIds
  <2>4. \A t \in Owned' : t # n => refresh'[t] = refresh[t] /\ refresh[t].root # Redemption(k, r)
    BY <1>3, <1>5, <2>3, OwnedIds
  <2>5. ASSUME NEW s \in Owned', NEW t \in Owned', refresh'[s].root = refresh'[t].root
        PROVE  s = t
    <3>1. s = n <=> t = n
      BY <1>3, <2>4, <2>5
    <3> QED
      BY <2>3, <2>4, <2>5, <3>1 DEF RootsInv, OneRefreshPerRedemption
  <2> QED
    BY <2>5 DEF OneRefreshPerRedemption
<1> HIDE DEF k, n
<1>9. JobRoots' \subseteq JobRoots /\ RowRoots' \subseteq RowRoots \cup {Redemption(k, r)}
  BY <1>1, <1>2, <1>3 DEF JobRoots, RowRoots
<1>10. ASSUME NEW l, Rooted(l)', l # k PROVE Rooted(l)
  BY <1>7, <1>9, <1>10 DEF Rooted
<1>11. \A q \in Requests : SpentIn(req'[q]) \subseteq SpentIn(req[q]) \cup {k}
  BY <1>1, <1>2
<1>12. CodesUnspent'
  BY <1>5, <1>10, <1>11 DEF RootsInv, CodesUnspent
<1>13. AsksFresh'
  <2>1. \A q \in Requests : /\ AskedIn(req'[q]) \subseteq AskedIn(req[q])
                            /\ CodeIn(req'[q]) \subseteq CodeIn(req[q])
    BY <1>1, <1>2, <1>4
  <2> QED
    BY <1>6, <1>10, <2>1 DEF RootsInv, AsksFresh
<1>14. RedeemsFirst'
  <2>1. ASSUME NEW q \in Requests, NEW l \in CodeIn(req'[q])
        PROVE  l \in CodeIn(req[q]) /\ Redemption(l, q) \notin JobRoots'
    <3>1. l \in CodeIn(req[q])
      BY <1>1, <1>2, <1>4, <2>1
    <3> QED
      BY <1>9, <3>1 DEF RootsInv, RedeemsFirst
  <2>2. ASSUME NEW q \in Requests, NEW l \in CodeIn(req'[q]), NEW t \in DOMAIN refresh',
               refresh'[t].root = Redemption(l, q)
        PROVE  t = req'[q].new /\ req'[q].at = "CodeIdToken"
    <3>1. CASE t = n
      <4>1. q = r
        BY <1>3, <1>7, <2>2, <3>1
      <4> QED
        BY <1>1, <1>2, <2>2, <3>1, <4>1
    <3>2. CASE t # n
      <4>1. t \in DOMAIN refresh /\ refresh[t].root = Redemption(l, q)
        BY <1>3, <2>2, <3>2
      <4>2. t = req[q].new /\ req[q].at = "CodeIdToken"
        BY <2>1, <2>2, <4>1 DEF RootsInv, RedeemsFirst
      <4> QED
        BY <1>1, <4>2
    <3> QED
      BY <3>1, <3>2
  <2>3. ASSUME NEW q \in Requests, NEW l \in CodeIn(req'[q]), req'[q].at = "CodeIdToken",
               req'[q].new \in DOMAIN refresh'
        PROVE  refresh'[req'[q].new].root = Redemption(l, q)
    <3>1. CASE q = r
      BY <1>1, <1>2, <1>3, <2>3, <3>1
    <3>2. CASE q # r
      <4>1. req'[q] = req[q] /\ NewIn(req[q]) = {req[q].new}
        BY <1>1, <2>3, <3>2, DrawsNew DEF Drawing
      <4>2. req[q].new # n
        BY <1>4, <3>2, <4>1 DEF RootsInv, RotationInv, NamesApart
      <4> QED
        BY <1>3, <2>3, <4>1, <4>2 DEF RootsInv, RedeemsFirst
    <3> QED
      BY <3>1, <3>2
  <2> QED
    BY <2>1, <2>2, <2>3 DEF RedeemsFirst
<1>15. OldHeld'
  <2>1. \A q \in Requests : n \notin OldIn(req[q])
    BY <1>4 DEF RootsInv, RotationInv, NamesApart
  <2> QED
    BY <1>1, <1>2, <1>3, <2>1 DEF RootsInv, OldHeld
<1> QED
  BY <1>8, <1>12, <1>13, <1>14, <1>15 DEF RootsInv

\* What a code redemption, or a rotation, answers is all the client then has.
LEMMA OneRedeemed ==
  ASSUME RootsInv, NEW r \in Requests, CodeIdToken(r), Answer(r, {req[r].token, req[r].new})
  PROVE  OneRefreshPerRedemption'
<1> DEFINE n == req[r].new
           k == req[r].code
<1>1. /\ UNCHANGED refresh /\ req[r].at = "CodeIdToken" /\ k \in CodeIn(req[r])
      /\ NewIn(req[r]) = {n}
  BY DrawsNew DEF CodeIdToken, Waits, CodeIn, Redeeming, Drawing
<1>2. req[r].token \notin DOMAIN refresh
  <2>1. req[r] \in CodeJobs
    BY <1>1, JobShapes DEF RootsInv, RotationInv, TypeOK
  <2> QED
    BY <2>1, IdsAssumption DEF CodeJobs, RootsInv, RotationInv, TypeOK
<1>3. Owned' \subseteq Owned \cup {n}
  <2> DEFINE j == [at |-> "Reply", ids |-> {req[r].token, n}]
  <2>1. Goto(r, j) /\ IdsIn(j) = {req[r].token, n}
    BY DEF Answer, IdsIn
  <2> HIDE DEF j
  <2>2. Owned' \subseteq Owned \cup IdsIn(j)
    BY <1>1, <2>1, OwnedGrows, OwnedIds DEF RootsInv
  <2> QED
    BY <1>1, <1>2, <2>1, <2>2, OwnedIds
<1>4. \A t \in DOMAIN refresh : refresh[t].root = Redemption(k, r) <=> t = n
  BY <1>1 DEF RootsInv, RedeemsFirst
<1> HIDE DEF n, k
<1>5. ASSUME NEW s \in Owned', NEW t \in Owned', refresh'[s].root = refresh'[t].root
      PROVE  s = t
  <2>1. s \in DOMAIN refresh /\ t \in DOMAIN refresh /\ refresh[s].root = refresh[t].root
    BY <1>1, <1>5, OwnedIds
  <2>2. CASE s = n \/ t = n
    BY <1>4, <2>1, <2>2
  <2>3. CASE s # n /\ t # n
    BY <1>3, <1>5, <2>1, <2>3 DEF RootsInv, OneRefreshPerRedemption
  <2> QED
    BY <2>2, <2>3
<1> QED
  BY <1>5 DEF OneRefreshPerRedemption

LEMMA OneRotated ==
  ASSUME RootsInv, NEW r \in Requests, RotDelete(r), req[r].old \in DOMAIN refresh
  PROVE  OneRefreshPerRedemption'
<1> DEFINE n == req[r].new
           o == req[r].old
<1>1. /\ req[r].at = "RotDelete" /\ NewIn(req[r]) = {n} /\ o \in OldIn(req[r])
      /\ DOMAIN refresh' = DOMAIN refresh \ {o}
      /\ \A t \in DOMAIN refresh' : refresh'[t] = refresh[t]
  BY DrawsNew DEF RotDelete, Waits, OldIn, Drawing, Rotating, Del, Restrict
<1>2. req[r].token \notin DOMAIN refresh
  <2>1. req[r] \in RotateJobs
    BY <1>1, JobShapes DEF RootsInv, RotationInv, TypeOK
  <2> QED
    BY <2>1, IdsAssumption DEF RotateJobs, RootsInv, RotationInv, TypeOK
<1>3. Owned' \subseteq Owned \cup {n}
  <2> DEFINE j == [at |-> "Reply", ids |-> {req[r].token, n}]
  <2>1. Goto(r, j) /\ IdsIn(j) = {req[r].token, n}
    BY DEF RotDelete, Answer, IdsIn
  <2> HIDE DEF j
  <2>2. Owned' \subseteq Owned \cup IdsIn(j)
    BY <1>1, <2>1, OwnedGrows, OwnedIds DEF RootsInv
  <2> QED
    BY <1>1, <1>2, <2>1, <2>2, OwnedIds
<1>4. o \in Owned /\ o \notin Owned'
  BY <1>1, OwnedIds DEF RootsInv, OldHeld
<1>5. refresh[n].root = refresh[o].root
  BY <1>1 DEF RootsInv, RotationInv, CountsOn, StandsIn
<1> HIDE DEF n, o
<1>6. \A t \in Owned : refresh[t].root = refresh[o].root => t = o
  BY <1>4 DEF RootsInv, OneRefreshPerRedemption
<1>7. ASSUME NEW s \in Owned', NEW t \in Owned', refresh'[s].root = refresh'[t].root
      PROVE  s = t
  <2>1. /\ refresh[s].root = refresh[t].root /\ s # o /\ t # o
    BY <1>1, <1>4, <1>7, OwnedIds
  <2>2. CASE s = n \/ t = n
    BY <1>3, <1>5, <1>6, <1>7, <2>1, <2>2
  <2>3. CASE s # n /\ t # n
    BY <1>3, <1>7, <2>1, <2>3 DEF RootsInv, OneRefreshPerRedemption
  <2> QED
    BY <2>2, <2>3
<1> QED
  BY <1>7 DEF OneRefreshPerRedemption

\* An answer that holds no refresh token.
LEMMA OneAccess ==
  ASSUME RootsInv, NEW r \in Requests, NEW t \in AccessTokens, Answer(r, {t}), UNCHANGED refresh
  PROVE  OneRefreshPerRedemption'
<1> DEFINE j == [at |-> "Reply", ids |-> {t}]
<1>1. Goto(r, j) /\ IdsIn(j) = {t} /\ t \notin DOMAIN refresh
  BY IdsAssumption DEF Answer, IdsIn, RootsInv, RotationInv, TypeOK
<1> HIDE DEF j
<1>2. Owned' \subseteq Owned \cup IdsIn(j)
  BY <1>1, OwnedGrows, OwnedIds DEF RootsInv
<1>3. Owned' \subseteq Owned
  BY <1>1, <1>2, OwnedIds
<1> QED
  BY <1>3, OneStays DEF RootsInv

-----------------------------------------------------------------------------
(* Steps.                                                                  *)

LEMMA RootsArrive ==
  ASSUME RootsInv, RotationInv', NEW r \in Requests, Arrive(r)
  PROVE  RootsInv'
<1>1. UNCHANGED <<codes, refresh>> /\ RowsTrace(r)
  BY SameTrace DEF Arrive, Consent, Authorize, CodeGrant, RefreshGrant, ClientCredentials,
                   Userinfo
<1>2. ASSUME NEW j, Goto(r, j),
             j.at \in {"UpsertConsent", "ClientSetToken", "InfoConsent", "InfoUser"}
      PROVE  RootsInv'
  BY <1>1, <1>2, RootsAside DEF Redeeming, Rotating, IdsIn
<1>3. ASSUME NEW u \in Users, NEW c \in Clients, NEW S, NEW v, NEW uri, NEW k \in FreshCodes,
             Authorize(r, u, c, S, v, uri, k)
      PROVE  RootsInv'
  BY <1>1, <1>3, RootsAuthorize DEF Authorize
<1>4. ASSUME NEW k \in Codes, NEW c \in Clients, NEW v, NEW t, NEW n,
             CodeGrant(r, k, c, v, t, n)
      PROVE  RootsInv'
  <2> DEFINE j == [at |-> "DelCode", grant |-> codes[k].grant, challenge |-> codes[k].challenge,
                   code |-> k, client |-> c, verifier |-> v, token |-> t, new |-> n]
  <2>1. j.at = "DelCode" /\ j.code = k /\ k \in DOMAIN codes /\ Goto(r, j)
    BY <1>4 DEF CodeGrant
  <2> HIDE DEF j
  <2> QED
    BY <1>1, <2>1, RootsCodeGrant
<1>5. ASSUME NEW t \in HeldRefresh, NEW c \in Clients, NEW a, NEW n,
             RefreshGrant(r, t, c, a, n)
      PROVE  RootsInv'
  <2> DEFINE j == [at |-> "RotSetToken", grant |-> refresh[t].grant, nonce |-> refresh[t].nonce,
                   root |-> refresh[t].root, old |-> t, token |-> a, new |-> n]
  <2>1. j.at = "RotSetToken" /\ j.old = t /\ j.root = refresh[t].root /\ Goto(r, j)
    BY <1>5 DEF RefreshGrant
  <2> HIDE DEF j
  <2> QED
    BY <1>1, <2>1, RootsRefreshGrant
<1> QED
  BY <1>2, <1>3, <1>4, <1>5 DEF Arrive, Consent, ClientCredentials, Userinfo

LEMMA RootsMoves ==
  ASSUME RootsInv, RotationInv', NEW r \in Requests,
         FindConsent(r) \/ DelCode(r) \/ CodeSetToken(r) \/ RotSetToken(r)
  PROVE  RootsInv'
<1> DEFINE job == req[r]
<1>0. job \in Jobs
  BY DEF RootsInv, RotationInv, TypeOK
<1>1. RowsTrace(r) /\ DOMAIN codes' \subseteq DOMAIN codes
  BY SameTrace DEF FindConsent, DelCode, CodeSetToken, RotSetToken, Del, Restrict
<1>2. CASE Goto(r, Idle)
  BY <1>1, <1>2, RootsAside DEF Redeeming, Rotating, Idle, IdsIn
<1>3. CASE FindConsent(r) /\ Go(r, "SetCode")
  <2> DEFINE j == [job EXCEPT !.at = "SetCode"]
  <2>1. Goto(r, j) /\ job.at = "FindConsent" /\ j.at = "SetCode" /\ j.code = job.code
    BY <1>0, <1>3, JobShapes DEF FindConsent, Waits, Go, AuthorizeJobs
  <2> HIDE DEF j
  <2>2. /\ AskedIn(j) = AskedIn(job) /\ CodeIn(j) = {} /\ SpentIn(j) = {} /\ RootIn(j) = {}
        /\ OldIn(j) = {} /\ IdsIn(j) = {}
    BY <2>1 DEF AskedIn, CodeIn, SpentIn, RootIn, OldIn, IdsIn, Redeeming, Rotating
  <2>3. OneRefreshPerRedemption'
    BY <1>1, <2>1, <2>2, OneSilent
  <2> QED
    BY <1>1, <2>1, <2>2, <2>3, RootsMove
<1>4. CASE DelCode(r) /\ Fits(job)
  <2> DEFINE j == [at |-> "CodeSetToken", grant |-> job.grant, client |-> job.client,
                   code |-> job.code, token |-> job.token, new |-> job.new]
  <2>1. /\ Goto(r, j) /\ job.at = "DelCode" /\ j.at = "CodeSetToken" /\ j.code = job.code
        /\ j.new = job.new /\ job.code \notin DOMAIN codes'
    BY <1>4 DEF DelCode, Waits, Del, Restrict
  <2> HIDE DEF j
  <2>2. /\ AskedIn(j) = {} /\ CodeIn(j) = CodeIn(job) /\ RootIn(j) = {}
        /\ SpentIn(j) \cap DOMAIN codes' = {} /\ OldIn(j) = {} /\ IdsIn(j) = {}
    BY <2>1 DEF AskedIn, CodeIn, SpentIn, RootIn, OldIn, IdsIn, Redeeming, Rotating
  <2>3. OneRefreshPerRedemption'
    BY <1>1, <2>1, <2>2, OneSilent
  <2> QED
    BY <1>1, <2>1, <2>2, <2>3, RootsMove
<1>5. ASSUME CodeSetToken(r), NEW call \in {"CodeCreateRefresh", "CodeIdToken"}, Go(r, call)
      PROVE  RootsInv'
  <2> DEFINE j == [job EXCEPT !.at = call]
  <2>1. /\ Goto(r, j) /\ job.at = "CodeSetToken" /\ j.at = call /\ j.code = job.code
        /\ j.new = job.new
    BY <1>0, <1>5, JobShapes DEF CodeSetToken, Waits, Go, CodeJobs
  <2> HIDE DEF j
  <2>2. /\ AskedIn(j) = {} /\ CodeIn(j) = CodeIn(job) /\ RootIn(j) = {}
        /\ SpentIn(j) = SpentIn(job) /\ OldIn(j) = {} /\ IdsIn(j) = {}
    BY <2>1 DEF AskedIn, CodeIn, SpentIn, RootIn, OldIn, IdsIn, Redeeming, Rotating
  <2>3. OneRefreshPerRedemption'
    BY <1>1, <2>1, <2>2, OneSilent
  <2> QED
    BY <1>1, <2>1, <2>2, <2>3, RootsMove
<1>6. CASE RotSetToken(r)
  <2> DEFINE j == [job EXCEPT !.at = "RotCreateRefresh"]
  <2>1. job.at = "RotSetToken" /\ job \in RotateJobs
    BY <1>0, <1>6, JobShapes DEF RotSetToken, Waits
  <2>2. "offline_access" \in job.grant.scope
    BY <2>1 DEF RootsInv, RotationInv, CountsOn, LongLived, Rotating
  <2>3. Goto(r, j) /\ j.at = "RotCreateRefresh" /\ j.old = job.old /\ j.root = job.root
    BY <1>6, <2>1, <2>2 DEF RotSetToken, Go, RotateJobs
  <2> HIDE DEF j
  <2>4. /\ AskedIn(j) = {} /\ CodeIn(j) = {} /\ SpentIn(j) = {} /\ RootIn(j) = RootIn(job)
        /\ OldIn(j) = OldIn(job) /\ IdsIn(j) = {}
    BY <2>1, <2>3 DEF AskedIn, CodeIn, SpentIn, RootIn, OldIn, IdsIn, Redeeming, Rotating
  <2>5. OneRefreshPerRedemption'
    BY <1>1, <2>3, <2>4, OneSilent
  <2> QED
    BY <1>1, <2>3, <2>4, <2>5, RootsMove
<1>7. CASE FindConsent(r)
  BY <1>2, <1>3, <1>7 DEF FindConsent
<1>8. CASE DelCode(r)
  BY <1>2, <1>4, <1>8 DEF DelCode
<1>9. CASE CodeSetToken(r)
  <2>1. job.token \in AccessTokens
    BY <1>0, <1>9, JobShapes DEF CodeSetToken, Waits, CodeJobs
  <2>2. UNCHANGED <<refresh, codes>>
    BY <1>9 DEF CodeSetToken
  <2>3. ASSUME Answer(r, {job.token}) PROVE RootsInv'
    <3>1. OneRefreshPerRedemption'
      BY <2>1, <2>2, <2>3, OneAccess
    <3> QED
      BY <1>1, <2>2, <2>3, <3>1, RootsAnswer
  <2> QED
    BY <1>5, <1>9, <2>3 DEF CodeSetToken
<1> QED
  BY <1>6, <1>7, <1>8, <1>9

LEMMA RootsInserts ==
  ASSUME RootsInv, RotationInv', NEW r \in Requests, CodeCreateRefresh(r) \/ RotCreateRefresh(r)
  PROVE  RootsInv'
<1> DEFINE job == req[r]
<1>0. job \in Jobs /\ CountsOn(job, refresh)
  BY DEF RootsInv, RotationInv, TypeOK
<1>1. CASE job.grant.user \notin users
  BY <1>1, RootsAside, SameTrace
     DEF CodeCreateRefresh, RotCreateRefresh, Idle, IdsIn, Redeeming, Rotating
<1>2. CASE CodeCreateRefresh(r) /\ job.grant.user \in users
  <2> DEFINE row == RefreshRow(job.grant, [code |-> job.code, by |-> r], FALSE)
  <2>1. /\ job \in CodeJobs /\ job.at = "CodeCreateRefresh"
        /\ refresh' = Put(refresh, job.new, row) /\ UNCHANGED codes
    BY <1>0, <1>2, JobShapes DEF CodeCreateRefresh, Waits
  <2>2. row.root = Redemption(job.code, r) /\ ~row.held
    BY DEF RefreshRow, Redemption
  <2>3. job.new \notin DOMAIN refresh
    BY <1>0, <2>1, DrawsNew DEF CountsOn, Drawing, Created
  <2> HIDE DEF row
  <2>4. ASSUME Go(r, "CodeIdToken") PROVE RootsInv'
    <3> DEFINE j == [job EXCEPT !.at = "CodeIdToken"]
    <3>1. Goto(r, j) /\ j.at = "CodeIdToken" /\ j.code = job.code /\ j.new = job.new
      BY <2>1, <2>4 DEF CodeJobs, Go
    <3> HIDE DEF j
    <3> QED
      BY <2>1, <2>2, <2>3, <3>1, RootsFirst
  <2>5. ASSUME Answer(r, {job.token, job.new}) PROVE RootsInv'
    <3> DEFINE j == [at |-> "Reply", ids |-> {job.token, job.new}]
    <3>1. Goto(r, j) /\ j.at = "Reply" /\ IdsIn(j) = {job.token, job.new}
      BY <2>5 DEF Answer, IdsIn
    <3>2. job.token \notin RefreshTokens
      BY <2>1, IdsAssumption DEF CodeJobs
    <3> HIDE DEF j
    <3> QED
      BY <2>1, <2>2, <2>3, <3>1, <3>2, RootsFirst
  <2> QED
    BY <1>2, <2>4, <2>5 DEF CodeCreateRefresh
<1>3. CASE RotCreateRefresh(r) /\ job.grant.user \in users
  <2> DEFINE row == RefreshRow(job.grant, job.root, FALSE)
             j == [job EXCEPT !.at = "RotDelete"]
  <2>1. /\ job \in RotateJobs /\ job.at = "RotCreateRefresh"
        /\ refresh' = Put(refresh, job.new, row) /\ UNCHANGED codes
    BY <1>0, <1>3, JobShapes DEF RotCreateRefresh, Waits
  <2>2. row.root = job.root /\ ~row.held
    BY DEF RefreshRow
  <2>3. job.new \notin DOMAIN refresh
    BY <1>0, <2>1, DrawsNew DEF CountsOn, Drawing, Rotating, Created
  <2> HIDE DEF row
  <2>4. RowsTrace(r)
    BY <2>1, <2>2, <2>3, OwnedIds DEF RowsTrace, Put, NewIn, RootIn, Drawing, Rotating
  <2>5. CASE Goto(r, Idle)
    BY <2>1, <2>4, <2>5, RootsAside DEF Idle, IdsIn, Redeeming, Rotating
  <2>6. CASE Go(r, "RotDelete")
    <3>1. Goto(r, j) /\ j.at = "RotDelete" /\ j.old = job.old /\ j.root = job.root
      BY <2>1, <2>6 DEF RotateJobs, Go
    <3> HIDE DEF j
    <3>2. /\ AskedIn(j) = {} /\ CodeIn(j) = {} /\ SpentIn(j) = {} /\ RootIn(j) = RootIn(job)
          /\ OldIn(j) = OldIn(job) /\ IdsIn(j) = {}
      BY <2>1, <3>1 DEF AskedIn, CodeIn, SpentIn, RootIn, OldIn, IdsIn, Redeeming, Rotating
    <3>3. OneRefreshPerRedemption'
      BY <2>4, <3>1, <3>2, OneSilent
    <3> QED
      BY <2>1, <2>4, <3>1, <3>2, <3>3, RootsMove
  <2> QED
    BY <1>3, <2>5, <2>6 DEF RotCreateRefresh
<1> QED
  BY <1>1, <1>2, <1>3

LEMMA RootsContinue ==
  ASSUME RootsInv, RotationInv', NEW r \in Requests, Continue(r)
  PROVE  RootsInv'
<1> DEFINE job == req[r]
<1>0. job \in Jobs
  BY DEF RootsInv, RotationInv, TypeOK
<1>1. ASSUME Goto(r, Idle), RowsTrace(r), UNCHANGED codes PROVE RootsInv'
  BY <1>1, RootsAside DEF Idle, IdsIn, Redeeming, Rotating
<1>2. CASE UpsertConsent(r) \/ InfoUser(r)
  BY <1>1, <1>2, SameTrace DEF UpsertConsent, InfoUser
<1>3. CASE ClientSetToken(r)
  <2>1. job.token \in AccessTokens /\ Answer(r, {job.token}) /\ UNCHANGED <<refresh, codes>>
    BY <1>0, <1>3, JobShapes DEF ClientSetToken, Waits, ClientJobs
  <2>2. OneRefreshPerRedemption'
    BY <2>1, OneAccess
  <2> QED
    BY <2>1, <2>2, SameTrace, RootsAnswer
<1>4. CASE CodeIdToken(r)
  <2>1. UNCHANGED <<refresh, codes>>
    BY <1>4 DEF CodeIdToken
  <2>2. CASE Answer(r, {job.token, job.new})
    <3>1. OneRefreshPerRedemption'
      BY <1>4, <2>2, OneRedeemed
    <3> QED
      BY <2>1, <2>2, <3>1, SameTrace, RootsAnswer
  <2> QED
    BY <1>1, <1>4, <2>1, <2>2, SameTrace DEF CodeIdToken
<1>5. CASE InfoConsent(r)
  <2>1. job \in InfoJobs
    BY <1>0, <1>5, JobShapes DEF InfoConsent, Waits
  <2> DEFINE j == [job EXCEPT !.at = "InfoUser"]
  <2>2. j.at = "InfoUser"
    BY <2>1 DEF InfoJobs
  <2>3. ASSUME Go(r, "InfoUser") PROVE RootsInv'
    <3>1. Goto(r, j) /\ UNCHANGED <<refresh, codes>>
      BY <1>5, <2>3 DEF Go, InfoConsent
    <3> HIDE DEF j
    <3> QED
      BY <2>2, <3>1, SameTrace, RootsAside DEF IdsIn, Redeeming, Rotating
  <2> QED
    BY <1>1, <1>5, <2>3, SameTrace DEF InfoConsent
<1>6. CASE RotDelete(r)
  <2>1. RowsTrace(r) /\ UNCHANGED codes
    BY <1>6, OwnedIds DEF RotDelete, RowsTrace, Del, Restrict
  <2>2. CASE job.old \in DOMAIN refresh
    <3>1. OneRefreshPerRedemption'
      BY <1>6, <2>2, OneRotated
    <3> QED
      BY <1>6, <2>1, <2>2, <3>1, RootsAnswer DEF RotDelete
  <2> QED
    BY <1>1, <1>6, <2>1, <2>2 DEF RotDelete
<1>7. CASE Reply(r)
  <2>1. /\ Goto(r, Idle) /\ UNCHANGED codes /\ DOMAIN refresh' = DOMAIN refresh
        /\ req[r].ids = IdsIn(req[r])
    BY <1>7 DEF Reply, IdsIn, Waits
  <2>2. \A t \in DOMAIN refresh :
          /\ refresh'[t].root = refresh[t].root
          /\ refresh'[t].held <=> refresh[t].held \/ t \in req[r].ids
    BY <1>7 DEF Reply, RootsInv, RotationInv, TypeOK, RefreshRows
  <2>3. RowsTrace(r)
    BY <2>1, <2>2, OwnedIds DEF RowsTrace
  <2> QED
    BY <1>1, <2>1, <2>3
<1> QED
  BY <1>2, <1>3, <1>4, <1>5, <1>6, <1>7, RootsMoves, RootsInserts, RootsSetCode DEF Continue

LEMMA RootsAround ==
  ASSUME RootsInv, RotationInv', Around
  PROVE  RootsInv'
<1>1. UNCHANGED req
  BY DEF Around, RevokeAccess, RevokeRefresh, DeleteUser, UpdateClient, Tick
<1>2. DOMAIN codes' \subseteq DOMAIN codes
  BY DEF Around, RevokeAccess, RevokeRefresh, DeleteUser, UpdateClient, Tick, Older
<1>3. /\ DOMAIN refresh' \subseteq DOMAIN refresh
      /\ \A t \in DOMAIN refresh' : /\ refresh'[t].root = refresh[t].root
                                    /\ refresh'[t].held = refresh[t].held
  <2>1. CASE Tick
    BY <2>1 DEF Tick, RootsInv, RotationInv, TypeOK, RefreshRows
  <2>2. CASE \E t \in HeldRefresh : RevokeRefresh(t)
    BY <2>2 DEF RevokeRefresh, Del, Restrict
  <2>3. CASE \E u \in users : DeleteUser(u)
    BY <2>3 DEF DeleteUser, RowsOf, Restrict
  <2>4. CASE UNCHANGED refresh
    BY <2>4
  <2> QED
    BY <2>1, <2>2, <2>3, <2>4 DEF Around, RevokeAccess, UpdateClient
<1>4. JobRoots' = JobRoots /\ RowRoots' \subseteq RowRoots
  BY <1>1, <1>3 DEF JobRoots, RowRoots
<1>5. ASSUME NEW k, Rooted(k)' PROVE Rooted(k)
  BY <1>4, <1>5 DEF Rooted
<1>6. CodesUnspent' /\ AsksFresh'
  BY <1>1, <1>2, <1>5 DEF RootsInv, CodesUnspent, AsksFresh
<1>7. RedeemsFirst'
  BY <1>1, <1>3, <1>4 DEF RootsInv, RedeemsFirst
<1>8. OldHeld'
  BY <1>1, <1>3 DEF RootsInv, OldHeld
<1>9. OneRefreshPerRedemption'
  <2>1. Owned' \subseteq Owned /\ \A t \in Owned' : refresh'[t].root = refresh[t].root
    BY <1>1, <1>3, OwnedIds
  <2> QED
    BY <2>1, OneStays DEF RootsInv
<1> QED
  BY <1>6, <1>7, <1>8, <1>9 DEF RootsInv

LEMMA RootsInit == Init => RootsInv
<1> SUFFICES ASSUME Init PROVE RootsInv
  OBVIOUS
<1>1. \A r \in Requests : /\ AskedIn(req[r]) = {} /\ CodeIn(req[r]) = {}
                          /\ SpentIn(req[r]) = {} /\ OldIn(req[r]) = {}
  BY DEF Init, Idle, AskedIn, CodeIn, SpentIn, OldIn, Redeeming, Rotating
<1>2. DOMAIN refresh = {} /\ DOMAIN codes = {}
  BY DEF Init
<1>3. CodesUnspent /\ AsksFresh /\ RedeemsFirst /\ OldHeld
  BY <1>1, <1>2 DEF CodesUnspent, AsksFresh, RedeemsFirst, OldHeld
<1>4. OneRefreshPerRedemption
  BY <1>2 DEF Owned, OneRefreshPerRedemption
<1> QED
  BY <1>3, <1>4, RotationInit DEF RootsInv

LEMMA RootsStep == RootsInv /\ [Next]_vars => RootsInv'
<1> SUFFICES ASSUME RootsInv, [Next]_vars PROVE RootsInv'
  OBVIOUS
<1>1. RotationInv'
  BY RotationStep DEF RootsInv
<1>2. CASE UNCHANGED vars
  <2>1. UNCHANGED <<refresh, req, codes>>
    BY <1>2 DEF vars
  <2>2. Owned' = Owned /\ RowRoots' = RowRoots /\ JobRoots' = JobRoots
    BY <2>1 DEF Owned, Waits, RowRoots, JobRoots
  <2>3. \A k : Rooted(k)' <=> Rooted(k)
    BY <2>2 DEF Rooted
  <2> QED
    BY <1>1, <2>1, <2>2, <2>3 DEF RootsInv, CodesUnspent, AsksFresh, RedeemsFirst, OldHeld,
       OneRefreshPerRedemption
<1>3. CASE Next
  <2>1. ASSUME NEW r \in Requests, Abort(r) PROVE RootsInv'
    BY <1>1, <2>1, RootsAside, SameTrace DEF Abort, Idle, IdsIn, Redeeming, Rotating
  <2> QED
    BY <1>1, <1>3, <2>1, RootsArrive, RootsContinue, RootsAround DEF Next
<1> QED
  BY <1>2, <1>3

\* One redemption of a code leaves the client at most one refresh token, for any
\* number of requests that run together, are refused for a missing nonce, or end
\* at any step: the rows that pile up meanwhile are such as nobody was given
\* (codeGrant and refreshTokenGrant use no transaction; the answer comes only
\* after the old row was there to delete).
THEOREM OneRefreshCorrect == Spec => []OneRefreshPerRedemption
<1>1. RootsInv => OneRefreshPerRedemption
  BY DEF RootsInv
<1> QED
  BY <1>1, RootsInit, RootsStep, PTL DEF Spec

=============================================================================
