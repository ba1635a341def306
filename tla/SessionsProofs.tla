--------------------------- MODULE SessionsProofs ---------------------------
(***************************************************************************)
(* Theorems about Sessions, for every value of its constants.              *)
(***************************************************************************)
EXTENDS Sessions, TLAPS

(* What a request is up to.                                                *)

Counting == {"DelChallenge", "FindAuthenticator", "UpdateCounter"}
Beginning == Counting \cup {"SetSession"}
Replacing == {"FindUser", "DelSession"}
Leaving == {"DelLogout", "ReplyLogout"}
Drawing == Beginning \cup Replacing

\* It has drawn a token; it was sent with a token.
Draws(r) == req[r].at \in Drawing \cup {"Reply"}
Brings(r) == req[r].at \in Replacing \cup Leaving

\* The label of a request tells its variables.
LEMMA JobShapes ==
  ASSUME NEW j \in Jobs
  PROVE  /\ j.at = "Idle" <=> j = Idle
         /\ j.at \in {"Idle", "Reply"} \cup Drawing \cup Leaving
         /\ j.at # "Idle" => j.by \in Browsers /\ Root(j) \in Logins \cup Keys
         /\ j.at \in Drawing \cup {"Reply"} =>
              /\ j.token \in Tokens /\ "token" \in DOMAIN j
              /\ j.owner \in Owner /\ j.owner.user \in Users /\ j.owner.root = Root(j)
         /\ j.at \in Replacing \cup Leaving => j.old \in Tokens /\ "old" \in DOMAIN j
         /\ j.at \in Leaving => j.root = Root(j)
         /\ j.at \in Counting => j.count \in 0..MaxCount /\ "count" \in DOMAIN j
<1>1. CASE j = Idle
  BY <1>1 DEF Idle, Drawing, Beginning, Counting, Replacing, Leaving
<1>2. CASE j \in [at : {"SetSession", "Reply"}, by : Browsers, owner : Owner, token : Tokens]
  BY <1>2 DEF Idle, Drawing, Beginning, Counting, Replacing, Leaving, Root, Owner
<1>3. CASE j \in [at : {"FindUser", "DelSession"}, by : Browsers, owner : Owner, old : Tokens,
                  token : Tokens]
  BY <1>3 DEF Idle, Drawing, Beginning, Counting, Replacing, Leaving, Root, Owner
<1>4. CASE j \in [at : {"DelLogout", "ReplyLogout"}, by : Browsers, root : Logins \cup Keys,
                  old : Tokens]
  BY <1>4 DEF Idle, Drawing, Beginning, Counting, Replacing, Leaving, Root
<1>5. CASE j \in [at : {"DelChallenge", "FindAuthenticator", "UpdateCounter"}, by : Browsers,
                  owner : Owner, token : Tokens, count : 0..MaxCount]
  BY <1>5 DEF Idle, Drawing, Beginning, Counting, Replacing, Leaving, Root, Owner
<1> QED
  BY <1>1, <1>2, <1>3, <1>4, <1>5 DEF Jobs

LEMMA IdleJob == Idle \in Jobs /\ Idle.at = "Idle"
  BY DEF Jobs, Idle

\* A request that goes on keeps its variables.
LEMMA SetJob ==
  ASSUME NEW j \in Jobs, j.at = "SetSession", NEW i, i = [j EXCEPT !.at = "Reply"]
  PROVE  i \in Jobs /\ i.at = "Reply" /\ i.by = j.by /\ i.owner = j.owner /\ i.token = j.token
<1>1. j \in [at : {"SetSession", "Reply"}, by : Browsers, owner : Owner, token : Tokens]
  BY DEF Jobs, Idle
<1>2. i \in [at : {"SetSession", "Reply"}, by : Browsers, owner : Owner, token : Tokens]
  BY <1>1
<1> QED
  BY <1>1, <1>2 DEF Jobs

LEMMA FoundJob ==
  ASSUME NEW j \in Jobs, j.at = "FindUser", NEW i, i = [j EXCEPT !.at = "DelSession"]
  PROVE  /\ i \in Jobs /\ i.at = "DelSession"
         /\ i.by = j.by /\ i.owner = j.owner /\ i.old = j.old /\ i.token = j.token
<1> DEFINE S == [at : {"FindUser", "DelSession"}, by : Browsers, owner : Owner, old : Tokens,
                 token : Tokens]
<1>1. j \in S
  BY DEF Jobs, Idle
<1>2. i \in S
  BY <1>1
<1> QED
  BY <1>1, <1>2 DEF Jobs

LEMMA LogoutJob ==
  ASSUME NEW j \in Jobs, j.at = "DelLogout", NEW i, i = [j EXCEPT !.at = "ReplyLogout"]
  PROVE  i \in Jobs /\ i.at = "ReplyLogout" /\ i.by = j.by /\ i.root = j.root /\ i.old = j.old
<1> DEFINE S == [at : {"DelLogout", "ReplyLogout"}, by : Browsers, root : Logins \cup Keys,
                 old : Tokens]
<1>1. j \in S
  BY DEF Jobs, Idle
<1>2. i \in S
  BY <1>1
<1> QED
  BY <1>1, <1>2 DEF Jobs

LEMMA CountJob ==
  ASSUME NEW j \in Jobs, j.at \in Counting, NEW call \in Counting,
         NEW i, i = [j EXCEPT !.at = call]
  PROVE  /\ i \in Jobs /\ i.at = call
         /\ i.by = j.by /\ i.owner = j.owner /\ i.token = j.token /\ i.count = j.count
<1> DEFINE S == [at : {"DelChallenge", "FindAuthenticator", "UpdateCounter"}, by : Browsers,
                 owner : Owner, token : Tokens, count : 0..MaxCount]
<1>1. j \in S
  BY DEF Jobs, Idle, Counting
<1>2. i \in S
  BY <1>1 DEF Counting
<1>3. i \in Jobs
  BY <1>2 DEF Jobs
<1> QED
  BY <1>1, <1>3

\* A store after a key is written or deleted.
LEMMA PutGet ==
  ASSUME NEW f, NEW k, NEW v
  PROVE  /\ DOMAIN Put(f, k, v) = DOMAIN f \cup {k} /\ Put(f, k, v)[k] = v
         /\ \A x \in DOMAIN f : x # k => Put(f, k, v)[x] = f[x]
  BY DEF Put

LEMMA DelGet ==
  ASSUME NEW f, NEW k
  PROVE  /\ DOMAIN Del(f, k) = DOMAIN f \ {k}
         /\ \A x \in DOMAIN f \ {k} : Del(f, k)[x] = f[x]
  BY DEF Del, Restrict

\* A store of values of one kind stays one.
LEMMA PutType ==
  ASSUME NEW D, NEW T, NEW f, DOMAIN f \subseteq D, \A x \in DOMAIN f : f[x] \in T,
         NEW k \in D, NEW v \in T
  PROVE  DOMAIN Put(f, k, v) \subseteq D /\ \A x \in DOMAIN Put(f, k, v) : Put(f, k, v)[x] \in T
  BY DEF Put

LEMMA DelType ==
  ASSUME NEW D, NEW T, NEW f, DOMAIN f \subseteq D, \A x \in DOMAIN f : f[x] \in T, NEW k
  PROVE  DOMAIN Del(f, k) \subseteq D /\ \A x \in DOMAIN Del(f, k) : Del(f, k)[x] \in T
  BY DEF Del, Restrict

\* What the variables name is in use, and what is drawn is named nowhere.
LEMMA InUse ==
  ASSUME TypeOK
  PROVE  /\ \A t \in Alive : OwnerOf(t).root \in RootsInUse
         /\ \A b \in DOMAIN cookie : cookie[b].root \in RootsInUse
         /\ \A r \in Requests : req[r].at # "Idle" => Root(req[r]) \in RootsInUse
         /\ DOMAIN challenge \subseteq RootsInUse
  BY DEF RootsInUse, Alive, OwnerOf, Busy, Waits

LEMMA FreshToken ==
  ASSUME TypeOK, NEW t \in FreshTokens
  PROVE  /\ t \in Tokens /\ t \notin Alive
         /\ \A b \in DOMAIN cookie : cookie[b].token # t
         /\ \A r \in Requests : Draws(r) => req[r].token # t
         /\ \A r \in Requests : Brings(r) => req[r].old # t
<1>1. \A r \in Requests : Draws(r) => r \in Busy /\ "token" \in DOMAIN req[r]
  BY JobShapes DEF TypeOK, Draws, Busy, Waits, Drawing, Beginning, Counting, Replacing
<1>2. \A r \in Requests : Brings(r) => r \in Busy /\ "old" \in DOMAIN req[r]
  BY JobShapes DEF TypeOK, Brings, Busy, Waits, Replacing, Leaving
<1> QED
  BY <1>1, <1>2 DEF FreshTokens, TokensInUse, Alive

\* One request moves, the others stay where they are.
LEMMA Moves ==
  ASSUME TypeOK, NEW r \in Requests, NEW j, Goto(r, j)
  PROVE  req'[r] = j /\ \A q \in Requests \ {r} : req'[q] = req[q]
  BY DEF TypeOK, Goto

\* A root stays shared while anything names it, and the roots of requests that
\* overlap are shared.
LEMMA MovesShared ==
  ASSUME TypeOK, NEW r \in Requests, NEW j, Goto(r, j)
  PROVE  /\ shared \cap RootsInUse \subseteq shared'
         /\ j = Idle => shared' = shared
         /\ j # Idle => \A q \in Busy \ {r} : Overlap(j, req[q]) =>
              Root(j) \in shared' /\ Root(req[q]) \in shared'
<1>1. CASE j = Idle
  BY <1>1 DEF Goto
<1>2. CASE j # Idle
  <2> DEFINE S == {{Root(j), Root(req[q])} : q \in {x \in Busy \ {r} : Overlap(j, req[x])}}
  <2>1. shared' = (shared \cap RootsInUse) \cup UNION S
    BY <1>2 DEF Goto
  <2>2. ASSUME NEW q \in Busy \ {r}, Overlap(j, req[q])
        PROVE  {Root(j), Root(req[q])} \in S
    BY <2>2
  <2> QED
    BY <1>2, <2>1, <2>2
<1> QED
  BY <1>1, <1>2

LEMMA GotoType ==
  ASSUME TypeOK, NEW r \in Requests, NEW j \in Jobs, Goto(r, j)
  PROVE  req' \in [Requests -> Jobs] /\ shared' \subseteq Logins \cup Keys
<1>1. req' \in [Requests -> Jobs]
  BY DEF TypeOK, Goto
<1>2. shared' \subseteq Logins \cup Keys
  <2>1. CASE j = Idle
    BY <2>1 DEF TypeOK, Goto
  <2>2. CASE j # Idle
    <3> DEFINE S == {{Root(j), Root(req[q])} : q \in {x \in Busy \ {r} : Overlap(j, req[x])}}
    <3>1. shared' = (shared \cap RootsInUse) \cup UNION S
      BY <2>2 DEF Goto
    <3>2. Root(j) \in Logins \cup Keys
      BY <2>2, JobShapes
    <3>3. \A q \in Busy : Root(req[q]) \in Logins \cup Keys
      BY JobShapes DEF TypeOK, Busy, Waits
    <3>4. \A s \in S : s \subseteq Logins \cup Keys
      BY <3>2, <3>3
    <3> HIDE DEF S
    <3> QED
      BY <3>1, <3>4 DEF TypeOK
  <2> QED
    BY <2>1, <2>2
<1> QED
  BY <1>1, <1>2

-----------------------------------------------------------------------------
(* Types.                                                                  *)

CookieRecord == [token : Tokens, root : Logins \cup Keys, ttl : 1..CookieTTL]
SessionRecord == [owner : Owner, ttl : 1..SessionTTL]

LEMMA Lifetimes ==
  /\ SessionTTL \in 1..SessionTTL /\ CookieTTL \in 1..CookieTTL /\ ChallengeTTL \in 1..ChallengeTTL
  /\ SessionTTL \in Nat /\ CookieTTL \in Nat /\ ChallengeTTL \in Nat /\ CookieTTL <= SessionTTL
BY LifetimesAssumption

LEMMA InitTypeOK == Init => TypeOK
  BY BoundsAssumption DEF Init, TypeOK, Jobs

\* The requests arrive.
LEMMA LoginType ==
  ASSUME TypeOK, NEW r \in Requests, NEW b \in Browsers, NEW u \in Users, NEW l \in Logins,
         NEW t \in Tokens, Login(r, b, u, l, t)
  PROVE  TypeOK'
<1> DEFINE j == [at |-> "SetSession", by |-> b, owner |-> [user |-> u, root |-> l], token |-> t]
<1>1. j \in Jobs
  BY DEF Jobs, Owner
<1>2. Goto(r, j)
  BY DEF Login
<1> HIDE DEF j
<1>3. req' \in [Requests -> Jobs] /\ shared' \subseteq Logins \cup Keys
  BY <1>1, <1>2, GotoType
<1> QED
  BY <1>3 DEF TypeOK, Login

LEMMA RefreshType ==
  ASSUME TypeOK, NEW r \in Requests, NEW b \in DOMAIN cookie, NEW t \in Tokens, Refresh(r, b, t)
  PROVE  TypeOK'
<1> DEFINE old == cookie[b].token
           j == [at |-> "FindUser", by |-> b, owner |-> session[old].owner, old |-> old,
                 token |-> t]
<1>1. b \in Browsers /\ old \in Tokens /\ session[old].owner \in Owner
  BY DEF TypeOK, Refresh
<1>2. j \in Jobs
  BY <1>1 DEF Jobs
<1>3. Goto(r, j)
  BY DEF Refresh
<1> HIDE DEF j
<1>4. req' \in [Requests -> Jobs] /\ shared' \subseteq Logins \cup Keys
  BY <1>2, <1>3, GotoType
<1> QED
  BY <1>4 DEF TypeOK, Refresh

LEMMA LogoutType ==
  ASSUME TypeOK, NEW r \in Requests, NEW b \in DOMAIN cookie, Logout(r, b)
  PROVE  TypeOK'
<1> DEFINE j == [at |-> "DelLogout", by |-> b, root |-> cookie[b].root, old |-> cookie[b].token]
<1>1. b \in Browsers /\ cookie[b].token \in Tokens /\ cookie[b].root \in Logins \cup Keys
  BY DEF TypeOK
<1>2. j \in Jobs
  BY <1>1 DEF Jobs
<1>3. Goto(r, j)
  BY DEF Logout
<1> HIDE DEF j
<1>4. req' \in [Requests -> Jobs] /\ shared' \subseteq Logins \cup Keys
  BY <1>2, <1>3, GotoType
<1> QED
  BY <1>4 DEF TypeOK, Logout

LEMMA VerifyType ==
  ASSUME TypeOK, NEW r \in Requests, NEW b \in Browsers, NEW k \in Keys, NEW u \in Users,
         NEW n \in 0..MaxCount, NEW t \in Tokens, VerifyAuthentication(r, b, k, u, n, t)
  PROVE  TypeOK'
<1> DEFINE j == [at |-> "DelChallenge", by |-> b, owner |-> [user |-> u, root |-> k],
                 token |-> t, count |-> n]
<1>1. j \in Jobs
  BY DEF Jobs, Owner
<1>2. Goto(r, j)
  BY DEF VerifyAuthentication
<1> HIDE DEF j
<1>3. req' \in [Requests -> Jobs] /\ shared' \subseteq Logins \cup Keys
  BY <1>1, <1>2, GotoType
<1> QED
  BY <1>3 DEF TypeOK, VerifyAuthentication

\* The store calls of a request.
LEMMA AnswerJob ==
  ASSUME NEW b \in Browsers, NEW owner \in Owner, NEW t \in Tokens
  PROVE  [at |-> "Reply", by |-> b, owner |-> owner, token |-> t] \in Jobs
  BY DEF Jobs

LEMMA SetSessionType ==
  ASSUME TypeOK, NEW r \in Requests, SetSession(r)
  PROVE  TypeOK'
<1> DEFINE j == [req[r] EXCEPT !.at = "Reply"]
           row == [owner |-> req[r].owner, ttl |-> SessionTTL]
<1>1. req[r] \in Jobs /\ req[r].at = "SetSession" /\ Goto(r, j)
  BY DEF TypeOK, SetSession, Waits, Go
<1>2. req[r].token \in Tokens /\ req[r].owner \in Owner
  BY <1>1, JobShapes DEF Drawing, Beginning
<1>3. j \in Jobs
  BY <1>1, SetJob
<1>4. row \in SessionRecord
  BY <1>2, Lifetimes DEF SessionRecord
<1>5. session' = Put(session, req[r].token, row)
  BY DEF SetSession
<1> HIDE DEF j, row
<1>6. req' \in [Requests -> Jobs] /\ shared' \subseteq Logins \cup Keys
  BY <1>1, <1>3, GotoType
<1>7. DOMAIN session' \subseteq Tokens /\ \A t \in DOMAIN session' : session'[t] \in SessionRecord
  <2>1. DOMAIN session \subseteq Tokens /\ \A t \in DOMAIN session : session[t] \in SessionRecord
    BY DEF TypeOK, SessionRecord
  <2> QED
    BY <2>1, <1>2, <1>4, <1>5, PutType
<1> QED
  BY <1>6, <1>7 DEF TypeOK, SetSession, SessionRecord

LEMMA FindUserType ==
  ASSUME TypeOK, NEW r \in Requests, FindUser(r)
  PROVE  TypeOK'
<1> DEFINE j == [req[r] EXCEPT !.at = "DelSession"]
<1>1. req[r] \in Jobs /\ req[r].at = "FindUser" /\ (Goto(r, j) \/ Goto(r, Idle))
  BY DEF TypeOK, FindUser, Waits, Go
<1>2. j \in Jobs
  BY <1>1, FoundJob
<1> HIDE DEF j
<1>3. req' \in [Requests -> Jobs] /\ shared' \subseteq Logins \cup Keys
  BY <1>1, <1>2, GotoType, IdleJob
<1> QED
  BY <1>3 DEF TypeOK, FindUser

LEMMA DelSessionType ==
  ASSUME TypeOK, NEW r \in Requests, DelSession(r)
  PROVE  TypeOK'
<1> DEFINE j == [at |-> "Reply", by |-> req[r].by, owner |-> req[r].owner, token |-> req[r].token]
<1>1. req[r] \in Jobs /\ req[r].at = "DelSession" /\ Goto(r, j)
  BY DEF TypeOK, DelSession, Waits, Answer
<1>2. req[r].token \in Tokens /\ req[r].owner \in Owner /\ req[r].by \in Browsers
  BY <1>1, JobShapes DEF Drawing, Replacing
<1>3. j \in Jobs
  BY <1>2, AnswerJob
<1> HIDE DEF j
<1>4. req' \in [Requests -> Jobs] /\ shared' \subseteq Logins \cup Keys
  BY <1>1, <1>3, GotoType
<1>5. DOMAIN session' \subseteq Tokens /\ \A t \in DOMAIN session' : session'[t] \in SessionRecord
  <2> DEFINE k == req[r].old
  <2>1. DOMAIN session \subseteq Tokens /\ \A x \in DOMAIN session : session[x] \in SessionRecord
    BY DEF TypeOK, SessionRecord
  <2>2. session' = Del(session, k)
    BY DEF DelSession
  <2> HIDE DEF k
  <2> QED
    BY <2>1, <2>2, DelType
<1>6. DOMAIN late' \subseteq Tokens /\ \A t \in DOMAIN late' : late'[t] \in Owner
  <2>1. DOMAIN late \subseteq Tokens /\ \A t \in DOMAIN late : late[t] \in Owner
    BY DEF TypeOK
  <2> DEFINE t == req[r].token
             owner == req[r].owner
  <2>2. late' = Put(late, t, owner) /\ t \in Tokens /\ owner \in Owner
    BY <1>2 DEF DelSession
  <2> HIDE DEF t, owner
  <2> QED
    BY <2>1, <2>2, PutType
<1> QED
  BY <1>4, <1>5, <1>6 DEF TypeOK, DelSession, SessionRecord

LEMMA WriteType ==
  ASSUME TypeOK, NEW t \in DOMAIN late, WriteSession(t)
  PROVE  TypeOK'
<1> DEFINE row == [owner |-> late[t], ttl |-> SessionTTL]
<1>1. t \in Tokens /\ row \in SessionRecord
  BY Lifetimes DEF TypeOK, SessionRecord
<1>2. session' = Put(session, t, row)
  BY DEF WriteSession
<1> HIDE DEF row
<1>3. DOMAIN session' \subseteq Tokens /\ \A x \in DOMAIN session' : session'[x] \in SessionRecord
  <2>1. DOMAIN session \subseteq Tokens /\ \A x \in DOMAIN session : session[x] \in SessionRecord
    BY DEF TypeOK, SessionRecord
  <2> QED
    BY <2>1, <1>1, <1>2, PutType
<1>4. DOMAIN late' \subseteq Tokens /\ \A x \in DOMAIN late' : late'[x] \in Owner
  BY DelType DEF TypeOK, WriteSession
<1> QED
  BY <1>3, <1>4 DEF TypeOK, WriteSession, SessionRecord

LEMMA ReplyType ==
  ASSUME TypeOK, NEW r \in Requests, Reply(r)
  PROVE  TypeOK'
<1> DEFINE c == [token |-> req[r].token, root |-> req[r].owner.root, ttl |-> CookieTTL]
<1>1. req[r] \in Jobs /\ req[r].at = "Reply"
  BY DEF TypeOK, Reply, Waits
<1>2. req[r].by \in Browsers /\ req[r].token \in Tokens /\ req[r].owner.root \in Logins \cup Keys
  BY <1>1, JobShapes DEF Owner
<1>3. c \in CookieRecord
  BY <1>2, Lifetimes DEF CookieRecord
<1>4. cookie' = Put(cookie, req[r].by, c)
  BY DEF Reply
<1> HIDE DEF c
<1>5. DOMAIN cookie' \subseteq Browsers /\ \A b \in DOMAIN cookie' : cookie'[b] \in CookieRecord
  <2>1. DOMAIN cookie \subseteq Browsers /\ \A b \in DOMAIN cookie : cookie[b] \in CookieRecord
    BY DEF TypeOK, CookieRecord
  <2> QED
    BY <2>1, <1>2, <1>3, <1>4, PutType
<1>6. req' \in [Requests -> Jobs] /\ shared' \subseteq Logins \cup Keys
  BY GotoType, IdleJob DEF Reply
<1> QED
  BY <1>5, <1>6 DEF TypeOK, Reply, CookieRecord

LEMMA DelLogoutType ==
  ASSUME TypeOK, NEW r \in Requests, DelLogout(r)
  PROVE  TypeOK'
<1> DEFINE j == [req[r] EXCEPT !.at = "ReplyLogout"]
<1>1. req[r] \in Jobs /\ req[r].at = "DelLogout" /\ Goto(r, j)
  BY DEF TypeOK, DelLogout, Waits, Go
<1>2. j \in Jobs
  BY <1>1, LogoutJob
<1> HIDE DEF j
<1>3. req' \in [Requests -> Jobs] /\ shared' \subseteq Logins \cup Keys
  BY <1>1, <1>2, GotoType
<1>4. DOMAIN session' \subseteq Tokens /\ \A t \in DOMAIN session' : session'[t] \in SessionRecord
  <2> DEFINE k == req[r].old
  <2>1. DOMAIN session \subseteq Tokens /\ \A x \in DOMAIN session : session[x] \in SessionRecord
    BY DEF TypeOK, SessionRecord
  <2>2. session' = Del(session, k)
    BY DEF DelLogout
  <2> HIDE DEF k
  <2> QED
    BY <2>1, <2>2, DelType
<1> QED
  BY <1>3, <1>4 DEF TypeOK, DelLogout, SessionRecord

LEMMA ReplyLogoutType ==
  ASSUME TypeOK, NEW r \in Requests, ReplyLogout(r)
  PROVE  TypeOK'
<1>1. DOMAIN cookie' \subseteq Browsers /\ \A b \in DOMAIN cookie' : cookie'[b] \in CookieRecord
  <2> DEFINE k == req[r].by
  <2>1. DOMAIN cookie \subseteq Browsers /\ \A x \in DOMAIN cookie : cookie[x] \in CookieRecord
    BY DEF TypeOK, CookieRecord
  <2>2. cookie' = Del(cookie, k)
    BY DEF ReplyLogout
  <2> HIDE DEF k
  <2> QED
    BY <2>1, <2>2, DelType
<1>2. req' \in [Requests -> Jobs] /\ shared' \subseteq Logins \cup Keys
  BY GotoType, IdleJob DEF ReplyLogout
<1> QED
  BY <1>1, <1>2 DEF TypeOK, ReplyLogout, CookieRecord

\* Passkeys.
LEMMA OptionsType ==
  ASSUME TypeOK, NEW k \in Keys, AuthenticateOptions(k)
  PROVE  TypeOK'
<1>1. DOMAIN challenge' \subseteq Keys
      /\ \A x \in DOMAIN challenge' : challenge'[x] \in 1..ChallengeTTL
  <2>1. DOMAIN challenge \subseteq Keys
        /\ \A x \in DOMAIN challenge : challenge[x] \in 1..ChallengeTTL
    BY DEF TypeOK
  <2>2. challenge' = Put(challenge, k, ChallengeTTL) /\ ChallengeTTL \in 1..ChallengeTTL
    BY Lifetimes DEF AuthenticateOptions
  <2> QED
    BY <2>1, <2>2, PutType
<1> QED
  BY <1>1 DEF TypeOK, AuthenticateOptions

LEMMA DelChallengeType ==
  ASSUME TypeOK, NEW r \in Requests, DelChallenge(r)
  PROVE  TypeOK'
<1> DEFINE j == [req[r] EXCEPT !.at = "FindAuthenticator"]
<1>1. req[r] \in Jobs /\ req[r].at = "DelChallenge" /\ Goto(r, j)
  BY DEF TypeOK, DelChallenge, Waits, Go
<1>2. j \in Jobs
  BY <1>1, CountJob DEF Counting
<1> HIDE DEF j
<1>3. req' \in [Requests -> Jobs] /\ shared' \subseteq Logins \cup Keys
  BY <1>1, <1>2, GotoType
<1>4. DOMAIN challenge' \subseteq Keys
      /\ \A x \in DOMAIN challenge' : challenge'[x] \in 1..ChallengeTTL
  <2> DEFINE k == req[r].owner.root
  <2>1. /\ DOMAIN challenge \subseteq Keys
        /\ \A x \in DOMAIN challenge : challenge[x] \in 1..ChallengeTTL
    BY DEF TypeOK
  <2>2. challenge' = Del(challenge, k)
    BY DEF DelChallenge
  <2> HIDE DEF k
  <2> QED
    BY <2>1, <2>2, DelType
<1> QED
  BY <1>3, <1>4 DEF TypeOK, DelChallenge

LEMMA FindAuthenticatorType ==
  ASSUME TypeOK, NEW r \in Requests, FindAuthenticator(r)
  PROVE  TypeOK'
<1> DEFINE j == [req[r] EXCEPT !.at = "UpdateCounter"]
<1>1. req[r] \in Jobs /\ req[r].at = "FindAuthenticator" /\ (Goto(r, j) \/ Goto(r, Idle))
  BY DEF TypeOK, FindAuthenticator, Waits, Go
<1>2. j \in Jobs
  BY <1>1, CountJob DEF Counting
<1> HIDE DEF j
<1>3. req' \in [Requests -> Jobs] /\ shared' \subseteq Logins \cup Keys
  BY <1>1, <1>2, GotoType, IdleJob
<1> QED
  BY <1>3 DEF TypeOK, FindAuthenticator

LEMMA UpdateCounterType ==
  ASSUME TypeOK, NEW r \in Requests, UpdatePasskeyCounter(r)
  PROVE  TypeOK'
<1> DEFINE j == [at |-> "SetSession", by |-> req[r].by, owner |-> req[r].owner,
                 token |-> req[r].token]
<1>1. req[r] \in Jobs /\ req[r].at = "UpdateCounter" /\ (Goto(r, j) \/ Goto(r, Idle))
  BY DEF TypeOK, UpdatePasskeyCounter, Waits
<1>2. /\ req[r].token \in Tokens /\ req[r].owner \in Owner /\ req[r].by \in Browsers
      /\ req[r].count \in 0..MaxCount
  BY <1>1, JobShapes DEF Drawing, Beginning, Counting
<1>3. j \in Jobs
  BY <1>2 DEF Jobs
<1> HIDE DEF j
<1>4. req' \in [Requests -> Jobs] /\ shared' \subseteq Logins \cup Keys
  BY <1>1, <1>3, GotoType, IdleJob
<1>5. DOMAIN counter' \subseteq users /\ \A u \in DOMAIN counter' : counter'[u] \in 0..MaxCount
  BY <1>2 DEF TypeOK, UpdatePasskeyCounter
<1> QED
  BY <1>4, <1>5 DEF TypeOK, UpdatePasskeyCounter

\* Around the requests.
LEMMA DeletesType ==
  ASSUME TypeOK, NEW u \in Users, DeleteUser(u) \/ DeletePasskey(u)
  PROVE  TypeOK'
<1>1. counter' = Del(counter, u)
  BY DEF DeleteUser, DeletePasskey
<1>2. DOMAIN counter' = DOMAIN counter \ {u} /\ \A x \in DOMAIN counter' : counter'[x] = counter[x]
  BY <1>1, DelGet
<1> QED
  BY <1>2 DEF TypeOK, DeleteUser, DeletePasskey

\* What a tick leaves of the stores.
LEMMA TickGet ==
  ASSUME TypeOK, Tick
  PROVE  /\ DOMAIN session' = {t \in DOMAIN session : session[t].ttl > 1}
         /\ \A t \in DOMAIN session' : /\ session'[t].owner = session[t].owner
                                       /\ session'[t].ttl = session[t].ttl - 1
                                       /\ session'[t] \in SessionRecord
         /\ DOMAIN cookie' = {b \in DOMAIN cookie : cookie[b].ttl > 1}
         /\ \A b \in DOMAIN cookie' : /\ cookie'[b].token = cookie[b].token
                                      /\ cookie'[b].root = cookie[b].root
                                      /\ cookie'[b].ttl = cookie[b].ttl - 1
                                      /\ cookie'[b] \in CookieRecord
         /\ DOMAIN challenge' \subseteq DOMAIN challenge
         /\ \A k \in DOMAIN challenge' : challenge'[k] \in 1..ChallengeTTL
<1>1. session' = [t \in {x \in DOMAIN session : session[x].ttl > 1} |->
                    [session[t] EXCEPT !.ttl = @ - 1]]
  BY DEF Tick
<1>2. cookie' = [b \in {x \in DOMAIN cookie : cookie[x].ttl > 1} |->
                   [cookie[b] EXCEPT !.ttl = @ - 1]]
  BY DEF Tick
<1>3. challenge' = [k \in {x \in DOMAIN challenge : challenge[x] > 1} |-> challenge[k] - 1]
  BY DEF Tick
<1>4. \A t \in DOMAIN session : session[t] \in [owner : Owner, ttl : 1..SessionTTL]
  BY DEF TypeOK
<1>5. \A b \in DOMAIN cookie :
        cookie[b] \in [token : Tokens, root : Logins \cup Keys, ttl : 1..CookieTTL]
  BY DEF TypeOK
<1>6. /\ DOMAIN session' = {t \in DOMAIN session : session[t].ttl > 1}
      /\ \A t \in DOMAIN session' : /\ session'[t].owner = session[t].owner
                                    /\ session'[t].ttl = session[t].ttl - 1
                                    /\ session'[t] \in SessionRecord
  BY <1>1, <1>4, Lifetimes DEF SessionRecord
<1>7. /\ DOMAIN cookie' = {b \in DOMAIN cookie : cookie[b].ttl > 1}
      /\ \A b \in DOMAIN cookie' : /\ cookie'[b].token = cookie[b].token
                                   /\ cookie'[b].root = cookie[b].root
                                   /\ cookie'[b].ttl = cookie[b].ttl - 1
                                   /\ cookie'[b] \in CookieRecord
  BY <1>2, <1>5, Lifetimes DEF CookieRecord
<1>8. /\ DOMAIN challenge' \subseteq DOMAIN challenge
      /\ \A k \in DOMAIN challenge' : challenge'[k] \in 1..ChallengeTTL
  BY <1>3, Lifetimes DEF TypeOK
<1> QED
  BY <1>6, <1>7, <1>8

LEMMA TickType ==
  ASSUME TypeOK, Tick
  PROVE  TypeOK'
<1>1. UNCHANGED <<users, counter, late, req, shared, failed>>
  BY DEF Tick
<1> QED
  BY <1>1, TickGet DEF TypeOK, SessionRecord, CookieRecord

LEMMA AbortType ==
  ASSUME TypeOK, NEW r \in Requests, Abort(r)
  PROVE  TypeOK'
<1>1. req' \in [Requests -> Jobs] /\ shared' \subseteq Logins \cup Keys
  BY GotoType, IdleJob DEF Abort
<1>2. Root(req[r]) \in Logins \cup Keys
  BY JobShapes DEF TypeOK, Abort, Waits
<1> QED
  BY <1>1, <1>2 DEF TypeOK, Abort

LEMMA LoseType ==
  ASSUME TypeOK, NEW t \in DOMAIN late, LoseSession(t)
  PROVE  TypeOK'
<1>1. DOMAIN late' \subseteq Tokens /\ \A x \in DOMAIN late' : late'[x] \in Owner
  BY DelType DEF TypeOK, LoseSession
<1>2. late[t].root \in Logins \cup Keys
  BY DEF TypeOK, Owner
<1> QED
  BY <1>1, <1>2 DEF TypeOK, LoseSession

LEMMA NextTypeOK == TypeOK /\ [Next]_vars => TypeOK'
<1> SUFFICES ASSUME TypeOK, [Next]_vars PROVE TypeOK'
  OBVIOUS
<1>1. CASE UNCHANGED vars
  BY <1>1 DEF vars, TypeOK
<1>2. ASSUME NEW r \in Requests, Arrive(r) PROVE TypeOK'
  BY <1>2, LoginType, RefreshType, LogoutType, VerifyType
     DEF Arrive, FreshLogins, FreshTokens, TypeOK
<1>3. ASSUME NEW r \in Requests, Continue(r) PROVE TypeOK'
  BY <1>3, SetSessionType, FindUserType, DelSessionType, ReplyType, DelLogoutType,
     ReplyLogoutType, DelChallengeType, FindAuthenticatorType, UpdateCounterType DEF Continue
<1>4. ASSUME NEW r \in Requests, Abort(r) PROVE TypeOK'
  BY <1>4, AbortType
<1>5. CASE Write
  BY <1>5, WriteType, LoseType DEF Write
<1>6. ASSUME NEW k \in FreshKeys, AuthenticateOptions(k) PROVE TypeOK'
  BY <1>6, OptionsType DEF FreshKeys
<1>7. ASSUME NEW u \in users, DeleteUser(u) PROVE TypeOK'
  BY <1>7, DeletesType DEF TypeOK
<1>8. ASSUME NEW u \in DOMAIN counter, DeletePasskey(u) PROVE TypeOK'
  BY <1>8, DeletesType DEF TypeOK
<1>9. CASE Tick
  BY <1>9, TickType
<1> QED
  BY <1>1, <1>2, <1>3, <1>4, <1>5, <1>6, <1>7, <1>8, <1>9 DEF Next

\* The stores, the cookies and the requests keep their shape: a session always has
\* an owner and a time to live, and a request exactly the local variables of the
\* place it waits at (src/auth/auth.service.ts).
THEOREM TypeCorrect == Spec => []TypeOK
  BY InitTypeOK, NextTypeOK, PTL DEF Spec

-----------------------------------------------------------------------------
(* What a step does to the requests and to the living sessions.            *)

\* The living tokens, each with the root of its session.
RootOf == [t \in Alive |-> OwnerOf(t).root]

\* The request i is the request j further on, or j has ended.
Follows(j, i) ==
  \/ i = Idle
  \/ /\ j.at # "Idle" /\ i.at # "Idle"
     /\ i.by = j.by /\ Root(i) = Root(j)
     /\ i.at \in Drawing \cup {"Reply"} => j.at \in Drawing \cup {"Reply"} /\ i.token = j.token
     /\ i.at \in Replacing \cup Leaving => j.at \in Replacing \cup Leaving /\ i.old = j.old
     /\ i.at \in Beginning => j.at \in Beginning
     /\ i.at = "DelChallenge" => j.at = "DelChallenge"
     /\ i.at \in Leaving => j.at \in Leaving

\* Only r moves, to j.
Step(r, j) == req'[r] = j /\ \A q \in Requests \ {r} : req'[q] = req[q]

LEMMA FollowsSelf ==
  ASSUME NEW j \in Jobs
  PROVE  Follows(j, j)
  BY JobShapes DEF Follows

LEMMA FollowsAll ==
  ASSUME TypeOK, NEW r \in Requests, NEW j \in Jobs, Goto(r, j), Follows(req[r], j)
  PROVE  \A q \in Requests : Follows(req[q], req'[q])
  BY Moves, FollowsSelf DEF TypeOK

LEMMA RestFollows ==
  ASSUME TypeOK, req' = req
  PROVE  \A q \in Requests : Follows(req[q], req'[q])
  BY FollowsSelf DEF TypeOK

LEMMA IdleFollows ==
  ASSUME TypeOK, NEW r \in Requests, Goto(r, Idle)
  PROVE  \A q \in Requests : Follows(req[q], req'[q])
  BY FollowsAll, IdleJob DEF Follows

\* The arrivals.
LEMMA LoginMoves ==
  ASSUME TypeOK, NEW r \in Requests, NEW b \in Browsers, NEW u \in Users, NEW l \in FreshLogins,
         NEW t \in FreshTokens, Login(r, b, u, l, t)
  PROVE  \E j \in Jobs : /\ req[r].at = "Idle" /\ Goto(r, j) /\ Step(r, j)
                         /\ j.at = "SetSession" /\ j.by = b /\ Root(j) = l /\ j.token = t
<1> DEFINE j == [at |-> "SetSession", by |-> b, owner |-> [user |-> u, root |-> l], token |-> t]
<1>1. j \in Jobs /\ j.at = "SetSession" /\ j.by = b /\ Root(j) = l /\ j.token = t
  BY DEF Jobs, Owner, FreshLogins, FreshTokens, Root
<1>2. req[r].at = "Idle" /\ Goto(r, j)
  BY DEF Login, Waits
<1> HIDE DEF j
<1> QED
  BY <1>1, <1>2, Moves DEF Step

LEMMA RefreshMoves ==
  ASSUME TypeOK, NEW r \in Requests, NEW b \in DOMAIN cookie, NEW t \in FreshTokens,
         Refresh(r, b, t)
  PROVE  \E j \in Jobs : /\ req[r].at = "Idle" /\ Goto(r, j) /\ Step(r, j)
                         /\ j.at = "FindUser" /\ j.by = b /\ j.token = t
                         /\ j.old = cookie[b].token /\ j.old \in DOMAIN session
                         /\ j.owner = session[j.old].owner /\ Root(j) = session[j.old].owner.root
<1> DEFINE old == cookie[b].token
           j == [at |-> "FindUser", by |-> b, owner |-> session[old].owner, old |-> old,
                 token |-> t]
<1>1. b \in Browsers /\ old \in Tokens /\ session[old].owner \in Owner /\ old \in DOMAIN session
  BY DEF TypeOK, Refresh
<1>2. j \in Jobs
  BY <1>1 DEF Jobs, FreshTokens
<1>3. /\ j.at = "FindUser" /\ j.by = b /\ j.token = t /\ j.old = old
      /\ j.owner = session[old].owner /\ Root(j) = session[old].owner.root
  BY DEF Root
<1>4. req[r].at = "Idle" /\ Goto(r, j)
  BY DEF Refresh, Waits
<1> HIDE DEF j
<1> QED
  BY <1>1, <1>2, <1>3, <1>4, Moves DEF Step

LEMMA LogoutMoves ==
  ASSUME TypeOK, NEW r \in Requests, NEW b \in DOMAIN cookie, Logout(r, b)
  PROVE  \E j \in Jobs : /\ req[r].at = "Idle" /\ Goto(r, j) /\ Step(r, j)
                         /\ j.at = "DelLogout" /\ j.by = b
                         /\ j.old = cookie[b].token /\ Root(j) = cookie[b].root
<1> DEFINE j == [at |-> "DelLogout", by |-> b, root |-> cookie[b].root, old |-> cookie[b].token]
<1>1. b \in Browsers /\ cookie[b].token \in Tokens /\ cookie[b].root \in Logins \cup Keys
  BY DEF TypeOK
<1>2. j \in Jobs
  BY <1>1 DEF Jobs
<1>3. j.at = "DelLogout" /\ j.by = b /\ j.old = cookie[b].token /\ Root(j) = cookie[b].root
  BY DEF Root
<1>4. req[r].at = "Idle" /\ Goto(r, j)
  BY DEF Logout, Waits
<1> HIDE DEF j
<1> QED
  BY <1>2, <1>3, <1>4, Moves DEF Step

LEMMA VerifyMoves ==
  ASSUME TypeOK, NEW r \in Requests, NEW b \in Browsers, NEW k \in Keys, NEW u \in Users,
         NEW n \in 0..MaxCount, NEW t \in FreshTokens, VerifyAuthentication(r, b, k, u, n, t)
  PROVE  \E j \in Jobs : /\ req[r].at = "Idle" /\ Goto(r, j) /\ Step(r, j)
                         /\ j.at = "DelChallenge" /\ j.by = b /\ Root(j) = k /\ j.token = t
<1> DEFINE j == [at |-> "DelChallenge", by |-> b, owner |-> [user |-> u, root |-> k],
                 token |-> t, count |-> n]
<1>1. j \in Jobs /\ j.at = "DelChallenge" /\ j.by = b /\ Root(j) = k /\ j.token = t
  BY DEF Jobs, Owner, FreshTokens, Root
<1>2. req[r].at = "Idle" /\ Goto(r, j)
  BY DEF VerifyAuthentication, Waits
<1> HIDE DEF j
<1> QED
  BY <1>1, <1>2, Moves DEF Step

\* The calls.
LEMMA SetSessionMoves ==
  ASSUME TypeOK, NEW r \in Requests, SetSession(r)
  PROVE  \E j \in Jobs : /\ req[r].at = "SetSession" /\ Goto(r, j) /\ Step(r, j)
                         /\ j.at = "Reply" /\ Follows(req[r], j)
<1> DEFINE j == [req[r] EXCEPT !.at = "Reply"]
<1>1. req[r] \in Jobs /\ req[r].at = "SetSession" /\ Goto(r, j)
  BY DEF TypeOK, SetSession, Waits, Go
<1>2. j \in Jobs /\ j.at = "Reply" /\ j.by = req[r].by /\ j.owner = req[r].owner
      /\ j.token = req[r].token
  BY <1>1, SetJob
<1> HIDE DEF j
<1>3. Root(j) = Root(req[r])
  BY <1>1, <1>2, JobShapes DEF Drawing, Beginning
<1>4. Follows(req[r], j)
  BY <1>1, <1>2, <1>3 DEF Follows, Drawing, Beginning, Counting, Replacing, Leaving
<1> QED
  BY <1>1, <1>2, <1>4, Moves DEF Step

LEMMA FindUserMoves ==
  ASSUME TypeOK, NEW r \in Requests, FindUser(r)
  PROVE  \E j \in Jobs : /\ req[r].at = "FindUser" /\ Goto(r, j) /\ Step(r, j)
                         /\ Follows(req[r], j) /\ (j = Idle \/ j.at = "DelSession")
<1> DEFINE j == [req[r] EXCEPT !.at = "DelSession"]
<1>1. req[r] \in Jobs /\ req[r].at = "FindUser" /\ (Goto(r, j) \/ Goto(r, Idle))
  BY DEF TypeOK, FindUser, Waits, Go
<1>2. /\ j \in Jobs /\ j.at = "DelSession"
      /\ j.by = req[r].by /\ j.owner = req[r].owner /\ j.old = req[r].old /\ j.token = req[r].token
  BY <1>1, FoundJob
<1> HIDE DEF j
<1>3. Root(j) = Root(req[r])
  BY <1>1, <1>2, JobShapes DEF Drawing, Replacing
<1>4. Follows(req[r], j)
  BY <1>1, <1>2, <1>3 DEF Follows, Drawing, Beginning, Counting, Replacing, Leaving
<1>5. CASE Goto(r, j)
  BY <1>1, <1>2, <1>4, <1>5, Moves DEF Step
<1>6. CASE Goto(r, Idle)
  BY <1>1, <1>6, Moves, IdleJob DEF Step, Follows
<1> QED
  BY <1>1, <1>5, <1>6

LEMMA DelSessionMoves ==
  ASSUME TypeOK, NEW r \in Requests, DelSession(r)
  PROVE  \E j \in Jobs : /\ req[r].at = "DelSession" /\ Goto(r, j) /\ Step(r, j)
                         /\ j.at = "Reply" /\ Follows(req[r], j)
<1> DEFINE j == [at |-> "Reply", by |-> req[r].by, owner |-> req[r].owner, token |-> req[r].token]
<1>1. req[r] \in Jobs /\ req[r].at = "DelSession" /\ Goto(r, j)
  BY DEF TypeOK, DelSession, Waits, Answer
<1>2. /\ req[r].token \in Tokens /\ req[r].owner \in Owner /\ req[r].by \in Browsers
      /\ req[r].owner.root = Root(req[r])
  BY <1>1, JobShapes DEF Drawing, Replacing
<1>3. j \in Jobs
  BY <1>2, AnswerJob
<1>4. j.at = "Reply" /\ j.by = req[r].by /\ j.token = req[r].token /\ Root(j) = Root(req[r])
  BY <1>2 DEF Root
<1> HIDE DEF j
<1>5. Follows(req[r], j)
  BY <1>1, <1>4 DEF Follows, Drawing, Beginning, Counting, Replacing, Leaving
<1> QED
  BY <1>1, <1>3, <1>4, <1>5, Moves DEF Step

LEMMA DelLogoutMoves ==
  ASSUME TypeOK, NEW r \in Requests, DelLogout(r)
  PROVE  \E j \in Jobs : /\ req[r].at = "DelLogout" /\ Goto(r, j) /\ Step(r, j)
                         /\ j.at = "ReplyLogout" /\ Follows(req[r], j)
<1> DEFINE j == [req[r] EXCEPT !.at = "ReplyLogout"]
<1>1. req[r] \in Jobs /\ req[r].at = "DelLogout" /\ Goto(r, j)
  BY DEF TypeOK, DelLogout, Waits, Go
<1>2. /\ j \in Jobs /\ j.at = "ReplyLogout"
      /\ j.by = req[r].by /\ j.root = req[r].root /\ j.old = req[r].old
  BY <1>1, LogoutJob
<1> HIDE DEF j
<1>3. Root(j) = Root(req[r])
  BY <1>1, <1>2, JobShapes DEF Leaving
<1>4. Follows(req[r], j)
  BY <1>1, <1>2, <1>3 DEF Follows, Drawing, Beginning, Counting, Replacing, Leaving
<1> QED
  BY <1>1, <1>2, <1>4, Moves DEF Step

LEMMA DelChallengeMoves ==
  ASSUME TypeOK, NEW r \in Requests, DelChallenge(r)
  PROVE  \E j \in Jobs : /\ req[r].at = "DelChallenge" /\ Goto(r, j) /\ Step(r, j)
                         /\ j.at = "FindAuthenticator" /\ Follows(req[r], j)
<1> DEFINE j == [req[r] EXCEPT !.at = "FindAuthenticator"]
<1>1. req[r] \in Jobs /\ req[r].at = "DelChallenge" /\ Goto(r, j)
  BY DEF TypeOK, DelChallenge, Waits, Go
<1>2. /\ j \in Jobs /\ j.at = "FindAuthenticator"
      /\ j.by = req[r].by /\ j.owner = req[r].owner /\ j.token = req[r].token
  BY <1>1, CountJob DEF Counting
<1> HIDE DEF j
<1>3. Root(j) = Root(req[r])
  BY <1>1, <1>2, JobShapes DEF Drawing, Beginning, Counting
<1>4. Follows(req[r], j)
  BY <1>1, <1>2, <1>3 DEF Follows, Drawing, Beginning, Counting, Replacing, Leaving
<1> QED
  BY <1>1, <1>2, <1>4, Moves DEF Step

LEMMA FindAuthenticatorMoves ==
  ASSUME TypeOK, NEW r \in Requests, FindAuthenticator(r)
  PROVE  \E j \in Jobs :
           /\ req[r].at = "FindAuthenticator" /\ Goto(r, j) /\ Step(r, j)
           /\ Follows(req[r], j)
           /\ \/ j = Idle
              \/ /\ j.at = "UpdateCounter"
                 /\ j.owner = req[r].owner /\ j.count = req[r].count
                 /\ j.owner.user \in DOMAIN counter
                 /\ Counts(j.count, counter[j.owner.user])
<1> DEFINE j == [req[r] EXCEPT !.at = "UpdateCounter"]
           found == req[r].owner.user \in DOMAIN counter
                    /\ Counts(req[r].count, counter[req[r].owner.user])
<1>1. /\ req[r] \in Jobs /\ req[r].at = "FindAuthenticator"
      /\ IF found THEN Goto(r, j) ELSE Goto(r, Idle)
  BY DEF TypeOK, FindAuthenticator, Waits, Go
<1>2. /\ j \in Jobs /\ j.at = "UpdateCounter"
      /\ j.by = req[r].by /\ j.owner = req[r].owner /\ j.token = req[r].token
      /\ j.count = req[r].count
  BY <1>1, CountJob DEF Counting
<1> HIDE DEF j
<1>3. Root(j) = Root(req[r])
  BY <1>1, <1>2, JobShapes DEF Drawing, Beginning, Counting
<1>4. Follows(req[r], j)
  BY <1>1, <1>2, <1>3 DEF Follows, Drawing, Beginning, Counting, Replacing, Leaving
<1>5. CASE found
  BY <1>1, <1>2, <1>4, <1>5, Moves DEF Step
<1>6. CASE ~found
  BY <1>1, <1>6, Moves, IdleJob DEF Step, Follows
<1> QED
  BY <1>5, <1>6

LEMMA UpdateCounterMoves ==
  ASSUME TypeOK, NEW r \in Requests, UpdatePasskeyCounter(r)
  PROVE  \E j \in Jobs : /\ req[r].at = "UpdateCounter" /\ Goto(r, j) /\ Step(r, j)
                         /\ Follows(req[r], j) /\ (j = Idle \/ j.at = "SetSession")
<1> DEFINE j == [at |-> "SetSession", by |-> req[r].by, owner |-> req[r].owner,
                 token |-> req[r].token]
<1>1. req[r] \in Jobs /\ req[r].at = "UpdateCounter" /\ (Goto(r, j) \/ Goto(r, Idle))
  BY DEF TypeOK, UpdatePasskeyCounter, Waits
<1>2. /\ req[r].token \in Tokens /\ req[r].owner \in Owner /\ req[r].by \in Browsers
      /\ req[r].owner.root = Root(req[r])
  BY <1>1, JobShapes DEF Drawing, Beginning, Counting
<1>3. j \in Jobs
  BY <1>2 DEF Jobs
<1>4. j.at = "SetSession" /\ j.by = req[r].by /\ j.token = req[r].token /\ Root(j) = Root(req[r])
  BY <1>2 DEF Root
<1> HIDE DEF j
<1>5. Follows(req[r], j)
  BY <1>1, <1>4 DEF Follows, Drawing, Beginning, Counting, Replacing, Leaving
<1>6. CASE Goto(r, j)
  BY <1>1, <1>3, <1>4, <1>5, <1>6, Moves DEF Step
<1>7. CASE Goto(r, Idle)
  BY <1>1, <1>7, Moves, IdleJob DEF Step, Follows
<1> QED
  BY <1>1, <1>6, <1>7

\* The living sessions.
LEMMA Living ==
  /\ DOMAIN RootOf = DOMAIN session \cup DOMAIN late
  /\ \A t \in DOMAIN RootOf :
       RootOf[t] = IF t \in DOMAIN late THEN late[t].root ELSE session[t].owner.root
BY DEF RootOf, Alive, OwnerOf

LEMMA SameRoots ==
  ASSUME session' = session, late' = late
  PROVE  RootOf' = RootOf
  BY DEF RootOf, Alive, OwnerOf

\* A session that the server writes, is about to write or deletes.
LEMMA SetSessionRoots ==
  ASSUME TypeOK, NEW r \in Requests, SetSession(r), req[r].token \notin DOMAIN RootOf
  PROVE  /\ DOMAIN RootOf' = DOMAIN RootOf \cup {req[r].token}
         /\ RootOf'[req[r].token] = Root(req[r])
         /\ \A t \in DOMAIN RootOf : RootOf'[t] = RootOf[t]
<1> DEFINE k == req[r].token
           row == [owner |-> req[r].owner, ttl |-> SessionTTL]
<1>1. session' = Put(session, k, row) /\ late' = late
  BY DEF SetSession
<1>2. row.owner.root = Root(req[r])
  BY JobShapes DEF TypeOK, SetSession, Waits, Drawing, Beginning
<1>3. k \notin DOMAIN session \cup DOMAIN late
  BY Living
<1> HIDE DEF k, row
<1>4. /\ DOMAIN session' = DOMAIN session \cup {k} /\ session'[k] = row
      /\ \A x \in DOMAIN session : x # k => session'[x] = session[x]
  BY <1>1 DEF Put
<1>5. /\ DOMAIN RootOf' = DOMAIN session' \cup DOMAIN late'
      /\ \A t \in DOMAIN RootOf' :
           RootOf'[t] = IF t \in DOMAIN late' THEN late'[t].root ELSE session'[t].owner.root
  BY DEF RootOf, Alive, OwnerOf
<1>6. /\ DOMAIN RootOf' = DOMAIN RootOf \cup {k}
      /\ RootOf'[k] = Root(req[r])
      /\ \A t \in DOMAIN RootOf : RootOf'[t] = RootOf[t]
  BY <1>1, <1>2, <1>3, <1>4, <1>5, Living
<1> QED
  BY <1>6 DEF k

LEMMA DelSessionRoots ==
  ASSUME TypeOK, NEW r \in Requests, DelSession(r), req[r].token \notin DOMAIN RootOf,
         req[r].old \notin DOMAIN late, req[r].old # req[r].token
  PROVE  /\ DOMAIN RootOf' = (DOMAIN RootOf \ {req[r].old}) \cup {req[r].token}
         /\ RootOf'[req[r].token] = Root(req[r])
         /\ \A t \in DOMAIN RootOf \ {req[r].old} : RootOf'[t] = RootOf[t]
<1> DEFINE k == req[r].token
           old == req[r].old
           owner == req[r].owner
<1>1. session' = Del(session, old) /\ late' = Put(late, k, owner)
  BY DEF DelSession
<1>2. owner.root = Root(req[r])
  BY JobShapes DEF TypeOK, DelSession, Waits, Drawing, Replacing
<1>3. k \notin DOMAIN session \cup DOMAIN late /\ old \notin DOMAIN late /\ old # k
  BY Living
<1> HIDE DEF k, old, owner
<1>4. /\ DOMAIN late' = DOMAIN late \cup {k} /\ late'[k] = owner
      /\ \A x \in DOMAIN late : x # k => late'[x] = late[x]
  BY <1>1 DEF Put
<1>5. DOMAIN session' = DOMAIN session \ {old}
      /\ \A x \in DOMAIN session' : session'[x] = session[x]
  BY <1>1 DEF Del, Restrict
<1>6. /\ DOMAIN RootOf' = DOMAIN session' \cup DOMAIN late'
      /\ \A t \in DOMAIN RootOf' :
           RootOf'[t] = IF t \in DOMAIN late' THEN late'[t].root ELSE session'[t].owner.root
  BY DEF RootOf, Alive, OwnerOf
<1>7. /\ DOMAIN RootOf' = (DOMAIN RootOf \ {old}) \cup {k}
      /\ RootOf'[k] = Root(req[r])
      /\ \A t \in DOMAIN RootOf \ {old} : RootOf'[t] = RootOf[t]
  BY <1>2, <1>3, <1>4, <1>5, <1>6, Living
<1> QED
  BY <1>7 DEF k, old

LEMMA WriteRoots ==
  ASSUME TypeOK, NEW t \in DOMAIN late, WriteSession(t)
  PROVE  RootOf' = RootOf
<1>1. /\ session' = Put(session, t, [owner |-> late[t], ttl |-> SessionTTL])
      /\ late' = Del(late, t)
  BY DEF WriteSession
<1>2. /\ DOMAIN session' = DOMAIN session \cup {t} /\ session'[t].owner = late[t]
      /\ \A x \in DOMAIN session : x # t => session'[x] = session[x]
  BY <1>1 DEF Put
<1>3. DOMAIN late' = DOMAIN late \ {t} /\ \A x \in DOMAIN late' : late'[x] = late[x]
  BY <1>1 DEF Del, Restrict
<1>4. DOMAIN session' \cup DOMAIN late' = DOMAIN session \cup DOMAIN late
  BY <1>2, <1>3
<1>5. \A x \in DOMAIN session \cup DOMAIN late :
        (IF x \in DOMAIN late' THEN late'[x] ELSE session'[x].owner)
          = (IF x \in DOMAIN late THEN late[x] ELSE session[x].owner)
  BY <1>2, <1>3
<1> QED
  BY <1>4, <1>5 DEF RootOf, Alive, OwnerOf

LEMMA LoseRoots ==
  ASSUME TypeOK, DOMAIN late \cap DOMAIN session = {}, NEW t \in DOMAIN late, LoseSession(t)
  PROVE  DOMAIN RootOf' = DOMAIN RootOf \ {t} /\ \A x \in DOMAIN RootOf' : RootOf'[x] = RootOf[x]
<1>1. late' = Del(late, t) /\ session' = session
  BY DEF LoseSession
<1>2. DOMAIN late' = DOMAIN late \ {t} /\ \A x \in DOMAIN late' : late'[x] = late[x]
  BY <1>1 DEF Del, Restrict
<1>3. /\ DOMAIN RootOf' = DOMAIN session' \cup DOMAIN late'
      /\ \A x \in DOMAIN RootOf' :
           RootOf'[x] = IF x \in DOMAIN late' THEN late'[x].root ELSE session'[x].owner.root
  BY DEF RootOf, Alive, OwnerOf
<1> QED
  BY <1>1, <1>2, <1>3, Living

LEMMA DelLogoutRoots ==
  ASSUME TypeOK, NEW r \in Requests, DelLogout(r), req[r].old \notin DOMAIN late
  PROVE  /\ DOMAIN RootOf' = DOMAIN RootOf \ {req[r].old}
         /\ \A x \in DOMAIN RootOf' : RootOf'[x] = RootOf[x]
<1> DEFINE old == req[r].old
<1>1. session' = Del(session, old) /\ late' = late /\ old \notin DOMAIN late
  BY DEF DelLogout
<1> HIDE DEF old
<1>2. DOMAIN session' = DOMAIN session \ {old}
      /\ \A x \in DOMAIN session' : session'[x] = session[x]
  BY <1>1 DEF Del, Restrict
<1>3. /\ DOMAIN RootOf' = DOMAIN session' \cup DOMAIN late'
      /\ \A x \in DOMAIN RootOf' :
           RootOf'[x] = IF x \in DOMAIN late' THEN late'[x].root ELSE session'[x].owner.root
  BY DEF RootOf, Alive, OwnerOf
<1>4. /\ DOMAIN RootOf' = DOMAIN RootOf \ {old}
      /\ \A x \in DOMAIN RootOf' : RootOf'[x] = RootOf[x]
  BY <1>1, <1>2, <1>3, Living
<1> QED
  BY <1>4 DEF old

LEMMA TickRoots ==
  ASSUME TypeOK, Tick
  PROVE  /\ DOMAIN RootOf' = {t \in DOMAIN session : session[t].ttl > 1}
         /\ DOMAIN RootOf = DOMAIN session
         /\ \A x \in DOMAIN RootOf' : RootOf'[x] = RootOf[x]
<1>1. DOMAIN late = {} /\ late' = late
  BY DEF Tick
<1>2. /\ DOMAIN RootOf' = DOMAIN session' \cup DOMAIN late'
      /\ \A x \in DOMAIN RootOf' :
           RootOf'[x] = IF x \in DOMAIN late' THEN late'[x].root ELSE session'[x].owner.root
  BY DEF RootOf, Alive, OwnerOf
<1> QED
  BY <1>1, <1>2, TickGet, Living

-----------------------------------------------------------------------------
(* Tokens.  A token is drawn once, so that what names it agrees on the     *)
(* session it stands for.                                                  *)

\* The token a request has drawn is known to nobody else.
TokensPrivate ==
  \A r \in Requests : Draws(r) =>
    /\ \A b \in DOMAIN cookie : cookie[b].token # req[r].token
    /\ \A q \in Requests : Brings(q) => req[q].old # req[r].token
    /\ \A q \in Requests : Draws(q) /\ req[q].token = req[r].token => q = r

\* It is no session before the request writes one.
TokensUnwritten ==
  \A r \in Requests : req[r].at \in Drawing => req[r].token \notin DOMAIN RootOf

\* A session on its way is not in Redis yet, and nobody has sent its token.
LateApart ==
  /\ DOMAIN late \cap DOMAIN session = {}
  /\ \A r \in Requests : Brings(r) => req[r].old \notin DOMAIN late

\* A token is the cookie of one browser; who sends it is that browser, about the
\* session of its cookie.
CookiesApart ==
  /\ \A b, c \in DOMAIN cookie : cookie[b].token = cookie[c].token => b = c
  /\ \A b \in DOMAIN cookie, r \in Requests : Brings(r) /\ cookie[b].token = req[r].old =>
       req[r].by = b /\ Root(req[r]) = cookie[b].root

\* A cookie, and an answer on its way, has the root of its session.
RootsFit ==
  /\ \A b \in DOMAIN cookie :
       cookie[b].token \in DOMAIN RootOf => RootOf[cookie[b].token] = cookie[b].root
  /\ \A r \in Requests : Waits(r, "Reply") /\ req[r].token \in DOMAIN RootOf =>
       RootOf[req[r].token] = Root(req[r])

TokenInv ==
  TokensPrivate /\ TokensUnwritten /\ LateApart /\ CookiesApart /\ RootsFit

\* The cookies stay as they are or expire.
CookiesKept ==
  \A b \in DOMAIN cookie' : /\ b \in DOMAIN cookie
                            /\ cookie'[b].token = cookie[b].token
                            /\ cookie'[b].root = cookie[b].root

\* Living sessions end or stay what they are.
RootsKept == \A t \in DOMAIN RootOf' : t \in DOMAIN RootOf /\ RootOf'[t] = RootOf[t]

LEMMA FollowsDraws ==
  ASSUME NEW j \in Jobs, NEW i \in Jobs, Follows(j, i)
  PROVE  /\ i.at \in Drawing => j.at \in Drawing
         /\ i.at \in Drawing \cup {"Reply"} =>
              j.at \in Drawing \cup {"Reply"} /\ i.token = j.token /\ Root(i) = Root(j)
         /\ i.at \in Replacing \cup Leaving =>
              /\ j.at \in Replacing \cup Leaving
              /\ i.old = j.old /\ i.by = j.by /\ Root(i) = Root(j)
  BY DEF Follows, Idle, Drawing, Beginning, Counting, Replacing, Leaving

LEMMA PrivateFollows ==
  ASSUME TypeOK, TypeOK', TokenInv, CookiesKept, \A q \in Requests : Follows(req[q], req'[q])
  PROVE  TokensPrivate' /\ CookiesApart'
<1>1. \A q \in Requests :
        /\ Draws(q)' => Draws(q) /\ req'[q].token = req[q].token
        /\ Brings(q)' => /\ Brings(q) /\ req'[q].old = req[q].old
                         /\ req'[q].by = req[q].by /\ Root(req'[q]) = Root(req[q])
  BY FollowsDraws DEF TypeOK, Draws, Brings
<1>2. TokensPrivate'
  BY <1>1 DEF TokenInv, TokensPrivate, CookiesKept
<1>3. CookiesApart'
  BY <1>1 DEF TokenInv, CookiesApart, CookiesKept
<1> QED
  BY <1>2, <1>3

\* A step that writes no session and sends no answer.
LEMMA QuietTokens ==
  ASSUME TypeOK, TypeOK', TokenInv, CookiesKept, RootsKept,
         \A q \in Requests : Follows(req[q], req'[q]),
         \A q \in Requests : req'[q].at = "Reply" => req[q].at = "Reply",
         DOMAIN session' \subseteq DOMAIN session, DOMAIN late' \subseteq DOMAIN late
  PROVE  TokenInv'
<1>1. TokensPrivate' /\ CookiesApart'
  BY PrivateFollows
<1>2. \A q \in Requests :
        /\ req'[q].at \in Drawing => req[q].at \in Drawing /\ req'[q].token = req[q].token
        /\ Brings(q)' => Brings(q) /\ req'[q].old = req[q].old
        /\ req'[q].at = "Reply" => req'[q].token = req[q].token /\ Root(req'[q]) = Root(req[q])
  BY FollowsDraws DEF TypeOK, Draws, Brings
<1>3. TokensUnwritten'
  BY <1>2 DEF TokenInv, TokensUnwritten, RootsKept
<1>4. LateApart'
  BY <1>2 DEF TokenInv, LateApart
<1>5. RootsFit'
  BY <1>2 DEF TokenInv, RootsFit, Waits, RootsKept, CookiesKept
<1> QED
  BY <1>1, <1>3, <1>4, <1>5 DEF TokenInv

\* A request with a fresh token, and with a cookie's token or with none.
LEMMA ArriveTokens ==
  ASSUME TypeOK, TypeOK', TokenInv, NEW r \in Requests, NEW j \in Jobs, Step(r, j),
         cookie' = cookie, session' = session, late' = late,
         j.at \in Drawing => j.token \in FreshTokens,
         j.at # "Reply",
         j.at \in Replacing \cup Leaving =>
           \E b \in DOMAIN cookie : /\ j.by = b /\ Root(j) = cookie[b].root
                                    /\ j.old = cookie[b].token /\ j.old \notin DOMAIN late
  PROVE  TokenInv'
<1>1. RootOf' = RootOf /\ DOMAIN RootOf = DOMAIN session \cup DOMAIN late /\ DOMAIN RootOf = Alive
  BY SameRoots, Living DEF Alive
<1>2. \A q \in Requests \ {r} : req'[q] = req[q]
  BY DEF Step
<1>3. req'[r] = j
  BY DEF Step
<1>4. \A q \in Requests \ {r} : /\ Draws(q)' <=> Draws(q)
                                /\ Brings(q)' <=> Brings(q)
  BY <1>2 DEF Draws, Brings
<1>5. /\ Draws(r)' <=> j.at \in Drawing
      /\ Brings(r)' <=> j.at \in Replacing \cup Leaving
  BY <1>3 DEF Draws, Brings, Drawing, Beginning, Counting, Replacing
<1>6. j.at \in Drawing =>
        /\ j.token \notin Alive
        /\ \A b \in DOMAIN cookie : cookie[b].token # j.token
        /\ \A q \in Requests : Draws(q) => req[q].token # j.token
        /\ \A q \in Requests : Brings(q) => req[q].old # j.token
  BY FreshToken
<1>7. TokensPrivate'
  <2> SUFFICES ASSUME NEW q \in Requests, Draws(q)'
               PROVE  /\ \A b \in DOMAIN cookie : cookie[b].token # req'[q].token
                      /\ \A x \in Requests : Brings(x)' => req'[x].old # req'[q].token
                      /\ \A x \in Requests : Draws(x)' /\ req'[x].token = req'[q].token => x = q
    BY DEF TokensPrivate
  <2>1. CASE q = r
    BY <2>1, <1>2, <1>3, <1>4, <1>5, <1>6
  <2>2. CASE q # r
    BY <2>2, <1>2, <1>3, <1>4, <1>5, <1>6 DEF TokenInv, TokensPrivate
  <2> QED
    BY <2>1, <2>2
<1>8. TokensUnwritten'
  BY <1>1, <1>2, <1>3, <1>6 DEF TokenInv, TokensUnwritten
<1>9. LateApart'
  BY <1>2, <1>3, <1>4, <1>5 DEF TokenInv, LateApart
<1>10. CookiesApart'
  BY <1>2, <1>3, <1>4, <1>5 DEF TokenInv, CookiesApart
<1>11. RootsFit'
  BY <1>1, <1>2, <1>3 DEF TokenInv, RootsFit, Waits
<1> QED
  BY <1>7, <1>8, <1>9, <1>10, <1>11 DEF TokenInv

LEMMA SetSessionTokens ==
  ASSUME TypeOK, TypeOK', TokenInv, NEW r \in Requests, SetSession(r)
  PROVE  TokenInv'
<1>1. PICK j \in Jobs : /\ req[r].at = "SetSession" /\ Goto(r, j) /\ Step(r, j)
                        /\ j.at = "Reply" /\ Follows(req[r], j)
  BY SetSessionMoves
<1>2. \A q \in Requests : Follows(req[q], req'[q])
  BY <1>1, FollowsAll
<1>3. cookie' = cookie /\ late' = late /\ DOMAIN session' = DOMAIN session \cup {req[r].token}
  BY DEF SetSession, Put
<1>4. TokensPrivate' /\ CookiesApart'
  BY <1>2, <1>3, PrivateFollows DEF CookiesKept
<1>5. req[r].at \in Drawing /\ Draws(r)
  BY <1>1 DEF Draws, Drawing, Beginning
<1>6. req[r].token \notin DOMAIN RootOf
  BY <1>5 DEF TokenInv, TokensUnwritten
<1>7. /\ DOMAIN RootOf' = DOMAIN RootOf \cup {req[r].token}
      /\ RootOf'[req[r].token] = Root(req[r])
      /\ \A t \in DOMAIN RootOf : RootOf'[t] = RootOf[t]
  BY <1>6, SetSessionRoots
<1>8. /\ req'[r] = j /\ j.token = req[r].token /\ Root(j) = Root(req[r])
      /\ \A q \in Requests \ {r} : req'[q] = req[q]
  BY <1>1, <1>5, FollowsDraws DEF Step, TypeOK
<1>9. TokensUnwritten'
  <2> SUFFICES ASSUME NEW q \in Requests, req'[q].at \in Drawing
               PROVE  req'[q].token \notin DOMAIN RootOf'
    BY DEF TokensUnwritten
  <2>1. q # r
    BY <1>1, <1>8 DEF Drawing, Beginning, Counting, Replacing
  <2>2. req'[q] = req[q] /\ Draws(q)
    BY <2>1, <1>8 DEF Draws
  <2> QED
    BY <2>1, <2>2, <1>5, <1>7 DEF TokenInv, TokensUnwritten, TokensPrivate
<1>10. LateApart'
  <2>1. req[r].token \notin DOMAIN late
    BY <1>6, Living
  <2>2. \A q \in Requests : Brings(q)' => Brings(q) /\ req'[q].old = req[q].old
    BY <1>2, FollowsDraws DEF TypeOK, Brings
  <2> QED
    BY <2>1, <2>2, <1>3 DEF TokenInv, LateApart
<1>11. RootsFit'
  <2>1. \A b \in DOMAIN cookie : cookie[b].token # req[r].token
    BY <1>5 DEF TokenInv, TokensPrivate
  <2>2. \A q \in Requests \ {r} : Waits(q, "Reply") => req[q].token # req[r].token
    BY <1>5 DEF TokenInv, TokensPrivate, Waits, Draws
  <2> QED
    BY <2>1, <2>2, <1>3, <1>7, <1>8 DEF TokenInv, RootsFit, Waits
<1> QED
  BY <1>4, <1>9, <1>10, <1>11 DEF TokenInv

LEMMA DelSessionTokens ==
  ASSUME TypeOK, TypeOK', TokenInv, NEW r \in Requests, DelSession(r)
  PROVE  TokenInv'
<1>1. PICK j \in Jobs : /\ req[r].at = "DelSession" /\ Goto(r, j) /\ Step(r, j)
                        /\ j.at = "Reply" /\ Follows(req[r], j)
  BY DelSessionMoves
<1>2. \A q \in Requests : Follows(req[q], req'[q])
  BY <1>1, FollowsAll
<1>3. cookie' = cookie /\ DOMAIN late' = DOMAIN late \cup {req[r].token}
      /\ DOMAIN session' = DOMAIN session \ {req[r].old}
  BY PutGet, DelGet DEF DelSession
<1>4. TokensPrivate' /\ CookiesApart'
  BY <1>2, <1>3, PrivateFollows DEF CookiesKept
<1>5. req[r].at \in Drawing /\ Draws(r) /\ Brings(r)
  BY <1>1 DEF Draws, Brings, Drawing, Replacing
<1>6. /\ req[r].token \notin DOMAIN RootOf /\ req[r].old \notin DOMAIN late
      /\ req[r].old # req[r].token
  BY <1>5 DEF TokenInv, TokensUnwritten, LateApart, TokensPrivate
<1>7. /\ DOMAIN RootOf' = (DOMAIN RootOf \ {req[r].old}) \cup {req[r].token}
      /\ RootOf'[req[r].token] = Root(req[r])
      /\ \A t \in DOMAIN RootOf \ {req[r].old} : RootOf'[t] = RootOf[t]
  BY <1>6, DelSessionRoots
<1>8. /\ req'[r] = j /\ j.token = req[r].token /\ Root(j) = Root(req[r])
      /\ \A q \in Requests \ {r} : req'[q] = req[q]
  BY <1>1, <1>5, FollowsDraws DEF Step, TypeOK
<1>9. TokensUnwritten'
  <2> SUFFICES ASSUME NEW q \in Requests, req'[q].at \in Drawing
               PROVE  req'[q].token \notin DOMAIN RootOf'
    BY DEF TokensUnwritten
  <2>1. q # r
    BY <1>1, <1>8 DEF Drawing, Beginning, Counting, Replacing
  <2>2. req'[q] = req[q] /\ Draws(q)
    BY <2>1, <1>8 DEF Draws
  <2> QED
    BY <2>1, <2>2, <1>5, <1>7 DEF TokenInv, TokensUnwritten, TokensPrivate
<1>10. LateApart'
  <2>1. req[r].token \notin DOMAIN session
    BY <1>6, Living
  <2>2. \A q \in Requests : Brings(q)' => Brings(q) /\ req'[q].old = req[q].old
    BY <1>2, FollowsDraws DEF TypeOK, Brings
  <2>3. \A q \in Requests : Brings(q) => req[q].old # req[r].token
    BY <1>5 DEF TokenInv, TokensPrivate
  <2> QED
    BY <2>1, <2>2, <2>3, <1>3 DEF TokenInv, LateApart
<1>11. RootsFit'
  <2>1. \A b \in DOMAIN cookie : cookie[b].token # req[r].token
    BY <1>5 DEF TokenInv, TokensPrivate
  <2>2. \A q \in Requests \ {r} : Waits(q, "Reply") => req[q].token # req[r].token
    BY <1>5 DEF TokenInv, TokensPrivate, Waits, Draws
  <2> QED
    BY <2>1, <2>2, <1>3, <1>7, <1>8 DEF TokenInv, RootsFit, Waits
<1> QED
  BY <1>4, <1>9, <1>10, <1>11 DEF TokenInv

\* The write that was on its way is done: its token changes the store only.
LEMMA WriteTokens ==
  ASSUME TypeOK, TypeOK', TokenInv, NEW t \in DOMAIN late, WriteSession(t)
  PROVE  TokenInv'
<1>1. cookie' = cookie /\ req' = req
  BY DEF WriteSession
<1>2. RootOf' = RootOf
  BY WriteRoots
<1>3. DOMAIN late' = DOMAIN late \ {t} /\ DOMAIN session' = DOMAIN session \cup {t}
  BY PutGet, DelGet DEF WriteSession
<1>4. \A q \in Requests : Follows(req[q], req'[q])
  BY <1>1, RestFollows
<1>5. TokensPrivate' /\ CookiesApart'
  BY <1>1, <1>4, PrivateFollows DEF CookiesKept
<1>6. TokensUnwritten' /\ RootsFit'
  BY <1>1, <1>2 DEF TokenInv, TokensUnwritten, RootsFit, Waits
<1>7. LateApart'
  BY <1>1, <1>3 DEF TokenInv, LateApart, Brings
<1> QED
  BY <1>5, <1>6, <1>7 DEF TokenInv

\* The token of the answer becomes the cookie.
LEMMA ReplyTokens ==
  ASSUME TypeOK, TypeOK', TokenInv, NEW r \in Requests, Reply(r)
  PROVE  TokenInv'
<1> DEFINE c == [token |-> req[r].token, root |-> req[r].owner.root, ttl |-> CookieTTL]
           by == req[r].by
<1>1. req[r].at = "Reply" /\ Goto(r, Idle) /\ session' = session /\ late' = late
  BY DEF Reply, Waits
<1>2. cookie' = Put(cookie, by, c)
  BY DEF Reply
<1>3. c.token = req[r].token /\ c.root = Root(req[r])
  BY <1>1, JobShapes DEF TypeOK
<1> HIDE DEF c, by
<1>4. /\ DOMAIN cookie' = DOMAIN cookie \cup {by} /\ cookie'[by] = c
      /\ \A b \in DOMAIN cookie : b # by => cookie'[b] = cookie[b]
  BY <1>2 DEF Put
<1>5. Draws(r) /\ RootOf' = RootOf
  BY <1>1, SameRoots DEF Draws
<1>6. req'[r].at = "Idle" /\ \A q \in Requests \ {r} : req'[q] = req[q]
  BY <1>1, Moves, IdleJob
<1>7. /\ ~Draws(r)' /\ ~Brings(r)'
      /\ \A q \in Requests \ {r} : (Draws(q)' <=> Draws(q)) /\ (Brings(q)' <=> Brings(q))
  BY <1>6 DEF Draws, Brings, Drawing, Beginning, Counting, Replacing, Leaving
<1>8. TokensPrivate'
  BY <1>3, <1>4, <1>5, <1>6, <1>7 DEF TokenInv, TokensPrivate
<1>9. TokensUnwritten'
  BY <1>5, <1>6 DEF TokenInv, TokensUnwritten, Drawing, Beginning, Counting, Replacing
<1>10. LateApart'
  BY <1>1, <1>6, <1>7 DEF TokenInv, LateApart
<1>11. CookiesApart'
  BY <1>3, <1>4, <1>5, <1>6, <1>7 DEF TokenInv, CookiesApart, TokensPrivate
<1>12. RootsFit'
  BY <1>1, <1>3, <1>4, <1>5, <1>6 DEF TokenInv, RootsFit, Waits
<1> QED
  BY <1>8, <1>9, <1>10, <1>11, <1>12 DEF TokenInv

\* The steps that write no session and send no answer.
LEMMA DelLogoutTokens ==
  ASSUME TypeOK, TypeOK', TokenInv, NEW r \in Requests, DelLogout(r)
  PROVE  TokenInv' /\ RootsKept
<1>1. PICK j \in Jobs : /\ req[r].at = "DelLogout" /\ Goto(r, j) /\ Step(r, j)
                        /\ j.at = "ReplyLogout" /\ Follows(req[r], j)
  BY DelLogoutMoves
<1>2. \A q \in Requests : Follows(req[q], req'[q])
  BY <1>1, FollowsAll
<1>3. \A q \in Requests : req'[q].at = "Reply" => req[q].at = "Reply"
  BY <1>1 DEF Step
<1>4. req[r].old \notin DOMAIN late
  BY <1>1 DEF TokenInv, LateApart, Brings, Leaving
<1>5. RootsKept
  BY <1>4, DelLogoutRoots DEF RootsKept
<1>6. cookie' = cookie /\ late' = late /\ DOMAIN session' \subseteq DOMAIN session
  BY DEF DelLogout, Del, Restrict
<1> QED
  BY <1>2, <1>3, <1>5, <1>6, QuietTokens DEF CookiesKept

LEMMA TickTokens ==
  ASSUME TypeOK, TypeOK', TokenInv, Tick
  PROVE  TokenInv' /\ RootsKept /\ CookiesKept
<1>1. req' = req /\ late' = late
  BY DEF Tick
<1>2. RootsKept
  BY TickRoots DEF RootsKept
<1>3. CookiesKept /\ DOMAIN session' \subseteq DOMAIN session
  BY TickGet DEF CookiesKept
<1> QED
  BY <1>1, <1>2, <1>3, RestFollows, QuietTokens

LEMMA LoseTokens ==
  ASSUME TypeOK, TypeOK', TokenInv, NEW t \in DOMAIN late, LoseSession(t)
  PROVE  TokenInv' /\ RootsKept
<1>1. req' = req /\ session' = session /\ cookie' = cookie
  BY DEF LoseSession
<1>2. RootsKept
  BY LoseRoots DEF RootsKept, TokenInv, LateApart
<1>3. DOMAIN late' \subseteq DOMAIN late
  BY DEF LoseSession, Del, Restrict
<1> QED
  BY <1>1, <1>2, <1>3, RestFollows, QuietTokens DEF CookiesKept

\* A request that ends, and one that goes on without an answer.
LEMMA QuietCall ==
  ASSUME TypeOK, TypeOK', TokenInv, NEW r \in Requests, NEW j \in Jobs, Goto(r, j),
         Follows(req[r], j), j.at # "Reply",
         session' = session, late' = late, CookiesKept
  PROVE  TokenInv'
<1>1. \A q \in Requests : Follows(req[q], req'[q])
  BY FollowsAll
<1>2. \A q \in Requests : req'[q].at = "Reply" => req[q].at = "Reply"
  BY Moves
<1>3. RootsKept
  BY SameRoots DEF RootsKept
<1> QED
  BY <1>1, <1>2, <1>3, QuietTokens

LEMMA ReplyLogoutKeeps ==
  ASSUME NEW r \in Requests, ReplyLogout(r)
  PROVE  CookiesKept /\ DOMAIN cookie' = DOMAIN cookie \ {req[r].by}
  BY DEF ReplyLogout, Del, Restrict, CookiesKept

LEMMA TokenArrive ==
  ASSUME TypeOK, TypeOK', TokenInv, NEW r \in Requests, Arrive(r)
  PROVE  TokenInv'
<1>1. cookie' = cookie /\ session' = session /\ late' = late
  BY DEF Arrive, Login, Refresh, Logout, VerifyAuthentication
<1>2. ASSUME NEW b \in Browsers, NEW u \in Users, NEW l \in FreshLogins, NEW t \in FreshTokens,
             Login(r, b, u, l, t)
      PROVE  TokenInv'
  <2>1. PICK j \in Jobs : Step(r, j) /\ j.at = "SetSession" /\ j.token = t
    BY <1>2, LoginMoves
  <2> QED
    BY <1>1, <2>1, ArriveTokens DEF Replacing, Leaving
<1>3. ASSUME NEW b \in DOMAIN cookie, NEW t \in FreshTokens, Refresh(r, b, t)
      PROVE  TokenInv'
  <2>1. PICK j \in Jobs : /\ Step(r, j) /\ j.at = "FindUser" /\ j.by = b /\ j.token = t
                          /\ j.old = cookie[b].token /\ j.old \in DOMAIN session
                          /\ Root(j) = session[j.old].owner.root
    BY <1>3, RefreshMoves
  <2>2. j.old \notin DOMAIN late
    BY <2>1 DEF TokenInv, LateApart
  <2>3. Root(j) = cookie[b].root
    BY <2>1, <2>2, Living DEF TokenInv, RootsFit
  <2>4. \E c \in DOMAIN cookie : /\ j.by = c /\ Root(j) = cookie[c].root
                                 /\ j.old = cookie[c].token /\ j.old \notin DOMAIN late
    BY <2>1, <2>2, <2>3
  <2>5. j.at # "Reply" /\ j.token \in FreshTokens
    BY <2>1
  <2> QED
    BY <1>1, <2>1, <2>4, <2>5, ArriveTokens
<1>4. ASSUME NEW b \in DOMAIN cookie, Logout(r, b)
      PROVE  TokenInv'
  <2>1. PICK j \in Jobs : /\ Step(r, j) /\ j.at = "DelLogout" /\ j.by = b
                          /\ j.old = cookie[b].token /\ Root(j) = cookie[b].root
    BY <1>4, LogoutMoves
  <2>2. j.old \notin DOMAIN late
    BY <1>4, <2>1 DEF Logout
  <2>3. \E c \in DOMAIN cookie : /\ j.by = c /\ Root(j) = cookie[c].root
                                 /\ j.old = cookie[c].token /\ j.old \notin DOMAIN late
    BY <2>1, <2>2
  <2>4. j.at # "Reply" /\ j.at \notin Drawing
    BY <2>1 DEF Drawing, Beginning, Counting, Replacing
  <2> QED
    BY <1>1, <2>1, <2>3, <2>4, ArriveTokens
<1>5. ASSUME NEW b \in Browsers, NEW k \in Keys, NEW u \in Users, NEW n \in 0..MaxCount,
             NEW t \in FreshTokens, VerifyAuthentication(r, b, k, u, n, t)
      PROVE  TokenInv'
  <2>1. PICK j \in Jobs : Step(r, j) /\ j.at = "DelChallenge" /\ j.token = t
    BY <1>5, VerifyMoves
  <2> QED
    BY <1>1, <2>1, ArriveTokens DEF Replacing, Leaving
<1> QED
  BY <1>2, <1>3, <1>4, <1>5 DEF Arrive

LEMMA TokenContinue ==
  ASSUME TypeOK, TypeOK', TokenInv, NEW r \in Requests, Continue(r)
  PROVE  TokenInv'
<1>1. CASE FindUser(r)
  BY <1>1, FindUserMoves, QuietCall, IdleJob DEF FindUser, CookiesKept
<1>2. CASE DelChallenge(r)
  BY <1>2, DelChallengeMoves, QuietCall DEF DelChallenge, CookiesKept
<1>3. CASE FindAuthenticator(r)
  BY <1>3, FindAuthenticatorMoves, QuietCall, IdleJob DEF FindAuthenticator, CookiesKept
<1>4. CASE UpdatePasskeyCounter(r)
  BY <1>4, UpdateCounterMoves, QuietCall, IdleJob DEF UpdatePasskeyCounter, CookiesKept
<1>5. CASE ReplyLogout(r)
  <2>1. Goto(r, Idle) /\ session' = session /\ late' = late /\ CookiesKept
    BY <1>5, ReplyLogoutKeeps DEF ReplyLogout
  <2> QED
    BY <2>1, QuietCall, IdleJob DEF Follows
<1> QED
  BY <1>1, <1>2, <1>3, <1>4, <1>5, SetSessionTokens, DelSessionTokens, ReplyTokens,
     DelLogoutTokens DEF Continue

LEMMA TokenRest ==
  ASSUME TypeOK, TypeOK', TokenInv, req' = req, cookie' = cookie, session' = session, late' = late
  PROVE  TokenInv'
  BY SameRoots, RestFollows, QuietTokens DEF RootsKept, CookiesKept

LEMMA TokenInvStep == TypeOK /\ TokenInv /\ [Next]_vars => TokenInv'
<1> SUFFICES ASSUME TypeOK, TokenInv, [Next]_vars PROVE TokenInv'
  OBVIOUS
<1>1. TypeOK'
  BY NextTypeOK
<1>2. CASE UNCHANGED vars
  BY <1>1, <1>2, TokenRest DEF vars
<1>3. ASSUME NEW r \in Requests, Arrive(r) PROVE TokenInv'
  BY <1>1, <1>3, TokenArrive
<1>4. ASSUME NEW r \in Requests, Continue(r) PROVE TokenInv'
  BY <1>1, <1>4, TokenContinue
<1>5. ASSUME NEW r \in Requests, Abort(r) PROVE TokenInv'
  BY <1>1, <1>5, QuietCall, IdleJob DEF Abort, Follows, CookiesKept
<1>6. CASE Write
  BY <1>1, <1>6, WriteTokens, LoseTokens DEF Write
<1>7. ASSUME NEW k \in FreshKeys, AuthenticateOptions(k) PROVE TokenInv'
  BY <1>1, <1>7, TokenRest DEF AuthenticateOptions
<1>8. ASSUME NEW u \in users, DeleteUser(u) PROVE TokenInv'
  BY <1>1, <1>8, TokenRest DEF DeleteUser
<1>9. ASSUME NEW u \in DOMAIN counter, DeletePasskey(u) PROVE TokenInv'
  BY <1>1, <1>9, TokenRest DEF DeletePasskey
<1>10. CASE Tick
  BY <1>1, <1>10, TickTokens
<1> QED
  BY <1>2, <1>3, <1>4, <1>5, <1>6, <1>7, <1>8, <1>9, <1>10 DEF Next

LEMMA InitTokenInv == Init => TokenInv
<1> SUFFICES ASSUME Init PROVE TokenInv
  OBVIOUS
<1>1. \A r \in Requests : req[r].at = "Idle"
  BY IdleJob DEF Init
<1>2. DOMAIN cookie = {} /\ DOMAIN session = {} /\ DOMAIN late = {}
  BY DEF Init
<1> QED
  BY <1>1, <1>2 DEF TokenInv, TokensPrivate, TokensUnwritten, LateApart, CookiesApart, RootsFit,
     Draws, Brings, Waits, Drawing, Beginning, Counting, Replacing, Leaving

-----------------------------------------------------------------------------
(* Requests that overlap, and the signature counters.                      *)

OverlapsShared ==
  \A r, q \in Busy : r # q /\ Overlap(req[r], req[q]) =>
    Root(req[r]) \in shared /\ Root(req[q]) \in shared

\* The histories forget a root only when nothing names it.
HistoriesKept ==
  shared \cap RootsInUse \subseteq shared' /\ failed \cap RootsInUse \subseteq failed'

LEMMA SomeGoto ==
  ASSUME TypeOK, NEW r \in Requests, Arrive(r) \/ Continue(r) \/ Abort(r)
  PROVE  \E j \in Jobs : Goto(r, j)
<1>1. CASE Arrive(r)
  BY <1>1, LoginMoves, RefreshMoves, LogoutMoves, VerifyMoves DEF Arrive
<1>2. CASE Continue(r)
  <2>1. Goto(r, Idle) => \E j \in Jobs : Goto(r, j)
    BY IdleJob
  <2>2. Reply(r) \/ ReplyLogout(r) => Goto(r, Idle)
    BY DEF Reply, ReplyLogout
  <2> QED
    BY <1>2, <2>1, <2>2, SetSessionMoves, FindUserMoves, DelSessionMoves, DelLogoutMoves,
       DelChallengeMoves, FindAuthenticatorMoves, UpdateCounterMoves DEF Continue
<1>3. CASE Abort(r)
  BY <1>3, IdleJob DEF Abort
<1> QED
  BY <1>1, <1>2, <1>3

LEMMA HistoriesStep == TypeOK /\ [Next]_vars => HistoriesKept
<1> SUFFICES ASSUME TypeOK, [Next]_vars PROVE HistoriesKept
  OBVIOUS
<1>1. CASE UNCHANGED vars
  BY <1>1 DEF vars, HistoriesKept
<1>2. ASSUME NEW r \in Requests, Arrive(r) \/ Continue(r) \/ Abort(r) PROVE HistoriesKept
  <2>1. shared \cap RootsInUse \subseteq shared'
    BY <1>2, SomeGoto, MovesShared
  <2>2. CASE Arrive(r)
    BY <2>1, <2>2 DEF Arrive, Login, Refresh, Logout, VerifyAuthentication, FreshLogins,
       HistoriesKept
  <2>3. CASE Continue(r)
    BY <2>1, <2>3 DEF Continue, SetSession, FindUser, DelSession, Reply, DelLogout, ReplyLogout,
       DelChallenge, FindAuthenticator, UpdatePasskeyCounter, HistoriesKept
  <2>4. CASE Abort(r)
    BY <2>1, <2>4 DEF Abort, HistoriesKept
  <2> QED
    BY <1>2, <2>2, <2>3, <2>4
<1>3. CASE Write
  BY <1>3 DEF Write, WriteSession, LoseSession, HistoriesKept
<1>4. ASSUME NEW k \in FreshKeys, AuthenticateOptions(k) PROVE HistoriesKept
  BY <1>4 DEF AuthenticateOptions, FreshKeys, HistoriesKept
<1>5. ASSUME NEW u \in Users, DeleteUser(u) \/ DeletePasskey(u) PROVE HistoriesKept
  BY <1>5 DEF DeleteUser, DeletePasskey, HistoriesKept
<1>6. CASE Tick
  BY <1>6 DEF Tick, HistoriesKept
<1> QED
  BY <1>1, <1>2, <1>3, <1>4, <1>5, <1>6 DEF Next, TypeOK

LEMMA GotoOverlaps ==
  ASSUME TypeOK, OverlapsShared, NEW r \in Requests, NEW j \in Jobs, Goto(r, j)
  PROVE  OverlapsShared'
<1> SUFFICES ASSUME NEW q \in Requests, NEW x \in Requests, q # x,
                    req'[q].at # "Idle", req'[x].at # "Idle", Overlap(req'[q], req'[x])
             PROVE  Root(req'[q]) \in shared' /\ Root(req'[x]) \in shared'
  BY DEF OverlapsShared, Busy, Waits
<1>1. req'[r] = j /\ \A y \in Requests \ {r} : req'[y] = req[y]
  BY Moves
<1>2. /\ shared \cap RootsInUse \subseteq shared'
      /\ j # Idle => \A y \in Busy \ {r} : Overlap(j, req[y]) =>
           Root(j) \in shared' /\ Root(req[y]) \in shared'
  BY MovesShared
<1>3. Overlap(req'[x], req'[q])
  BY DEF Overlap
<1>4. CASE q = r
  BY <1>1, <1>2, <1>4, IdleJob DEF Busy, Waits
<1>5. CASE x = r
  BY <1>1, <1>2, <1>3, <1>5, IdleJob DEF Busy, Waits
<1>6. CASE q # r /\ x # r
  BY <1>1, <1>2, <1>6, InUse DEF OverlapsShared, Busy, Waits
<1> QED
  BY <1>4, <1>5, <1>6

LEMMA OverlapsStep == TypeOK /\ OverlapsShared /\ [Next]_vars => OverlapsShared'
<1> SUFFICES ASSUME TypeOK, OverlapsShared, [Next]_vars PROVE OverlapsShared'
  OBVIOUS
<1>1. CASE UNCHANGED vars
  BY <1>1 DEF vars, OverlapsShared, Busy, Waits
<1>2. ASSUME NEW r \in Requests, Arrive(r) \/ Continue(r) \/ Abort(r) PROVE OverlapsShared'
  BY <1>2, SomeGoto, GotoOverlaps
<1>3. ASSUME req' = req PROVE OverlapsShared'
  <2>1. Busy' = Busy /\ \A r \in Busy : Root(req[r]) \in RootsInUse
    BY <1>3, InUse DEF Busy, Waits
  <2> QED
    BY <1>3, <2>1, HistoriesStep DEF OverlapsShared, HistoriesKept
<1>4. (Write \/ Tick \/ (\E k \in FreshKeys : AuthenticateOptions(k))
         \/ (\E u \in users : DeleteUser(u)) \/ (\E u \in DOMAIN counter : DeletePasskey(u)))
      => req' = req
  BY DEF Write, WriteSession, LoseSession, Tick, AuthenticateOptions, DeleteUser, DeletePasskey
<1> QED
  BY <1>1, <1>2, <1>3, <1>4 DEF Next

\* What is about to be stored is no less than what is stored, unless the request
\* overlapped with another one.
CountersChecked ==
  \A r \in Requests : Waits(r, "UpdateCounter") /\ req[r].owner.user \in DOMAIN counter =>
    req[r].count >= counter[req[r].owner.user] \/ Root(req[r]) \in shared

\* Two requests with a signature of one passkey overlap.
LEMMA CountersOverlap ==
  ASSUME TypeOK, OverlapsShared, NEW r \in Requests, NEW q \in Requests, r # q,
         Waits(r, "UpdateCounter"), Waits(q, "UpdateCounter"),
         req[r].owner.user = req[q].owner.user
  PROVE  Root(req[r]) \in shared /\ Root(req[q]) \in shared
<1>1. "count" \in DOMAIN req[r] /\ "count" \in DOMAIN req[q]
  BY JobShapes DEF TypeOK, Waits, Counting
<1> QED
  BY <1>1 DEF OverlapsShared, Overlap, Busy, Waits

\* The requests before the write of a counter are where they were, and the
\* counters are what they were or gone.
LEMMA QuietCounters ==
  ASSUME TypeOK, CountersChecked, HistoriesKept,
         \A q \in Requests : req'[q].at = "UpdateCounter" => req'[q] = req[q],
         \A u \in DOMAIN counter' : u \in DOMAIN counter /\ counter'[u] = counter[u]
  PROVE  CountersChecked'
<1>1. \A q \in Requests : Waits(q, "UpdateCounter") => Root(req[q]) \in RootsInUse
  BY InUse DEF Waits
<1> QED
  BY <1>1 DEF CountersChecked, HistoriesKept, Waits

LEMMA FindAuthenticatorCounters ==
  ASSUME TypeOK, CountersChecked, HistoriesKept, NEW r \in Requests, FindAuthenticator(r)
  PROVE  CountersChecked'
<1>1. PICK j \in Jobs :
        /\ req[r].at = "FindAuthenticator" /\ Goto(r, j) /\ Step(r, j)
        /\ Follows(req[r], j)
        /\ \/ j = Idle
           \/ /\ j.at = "UpdateCounter"
              /\ j.owner = req[r].owner /\ j.count = req[r].count
              /\ j.owner.user \in DOMAIN counter
              /\ Counts(j.count, counter[j.owner.user])
  BY FindAuthenticatorMoves
<1>2. counter' = counter
  BY DEF FindAuthenticator
<1>3. \A q \in Requests : Waits(q, "UpdateCounter") => Root(req[q]) \in RootsInUse
  BY InUse DEF Waits
<1> SUFFICES ASSUME NEW q \in Requests, req'[q].at = "UpdateCounter",
                    req'[q].owner.user \in DOMAIN counter
             PROVE  \/ req'[q].count >= counter[req'[q].owner.user]
                    \/ Root(req'[q]) \in shared'
  BY <1>2 DEF CountersChecked, Waits
<1>4. CASE q # r
  BY <1>1, <1>3, <1>4 DEF Step, CountersChecked, Waits, HistoriesKept
<1>5. CASE q = r
  <2>1. req'[q] = j /\ j.at = "UpdateCounter" /\ Counts(j.count, counter[j.owner.user])
    BY <1>1, <1>5, IdleJob DEF Step
  <2>2. j.count \in 0..MaxCount /\ counter[j.owner.user] \in 0..MaxCount
    BY <1>1, <2>1, JobShapes, IdleJob DEF TypeOK, Counting
  <2>3. MaxCount \in Nat
    BY BoundsAssumption
  <2>4. j.count >= counter[j.owner.user]
    BY <2>1, <2>2, <2>3 DEF Counts
  <2> QED
    BY <2>1, <2>4
<1> QED
  BY <1>4, <1>5

LEMMA UpdateCounterCounters ==
  ASSUME TypeOK, OverlapsShared, CountersChecked, HistoriesKept, NEW r \in Requests,
         UpdatePasskeyCounter(r)
  PROVE  CountersChecked'
<1>1. PICK j \in Jobs : /\ req[r].at = "UpdateCounter" /\ Goto(r, j) /\ Step(r, j)
                        /\ Follows(req[r], j) /\ (j = Idle \/ j.at = "SetSession")
  BY UpdateCounterMoves
<1>2. \A q \in Requests : Waits(q, "UpdateCounter") => Root(req[q]) \in RootsInUse
  BY InUse DEF Waits
<1>3. /\ DOMAIN counter' = DOMAIN counter
      /\ \A u \in DOMAIN counter : u # req[r].owner.user => counter'[u] = counter[u]
  BY DEF UpdatePasskeyCounter
<1> SUFFICES ASSUME NEW q \in Requests, req'[q].at = "UpdateCounter",
                    req'[q].owner.user \in DOMAIN counter'
             PROVE  \/ req'[q].count >= counter'[req'[q].owner.user]
                    \/ Root(req'[q]) \in shared'
  BY DEF CountersChecked, Waits
<1>4. q # r /\ req'[q] = req[q]
  BY <1>1, IdleJob DEF Step
<1>5. CASE req[q].owner.user = req[r].owner.user
  <2>1. Root(req[q]) \in shared
    BY <1>1, <1>4, <1>5, CountersOverlap DEF Waits
  <2> QED
    BY <1>2, <1>4, <2>1 DEF HistoriesKept, Waits
<1>6. CASE req[q].owner.user # req[r].owner.user
  BY <1>2, <1>3, <1>4, <1>6 DEF CountersChecked, HistoriesKept, Waits
<1> QED
  BY <1>5, <1>6

CounterInv == TypeOK /\ OverlapsShared /\ CountersChecked

LEMMA CounterInvStep == CounterInv /\ [Next]_vars => CounterInv'
<1> SUFFICES ASSUME CounterInv, [Next]_vars PROVE CounterInv'
  OBVIOUS
<1>1. TypeOK /\ OverlapsShared /\ CountersChecked /\ HistoriesKept
  BY HistoriesStep DEF CounterInv
<1>2. TypeOK' /\ OverlapsShared'
  BY <1>1, NextTypeOK, OverlapsStep
<1> SUFFICES CountersChecked'
  BY <1>2 DEF CounterInv
<1>3. ASSUME counter' = counter, req' = req PROVE CountersChecked'
  BY <1>1, <1>3, QuietCounters
<1>4. CASE UNCHANGED vars
  BY <1>3, <1>4 DEF vars
<1>5. ASSUME NEW r \in Requests, NEW j, Goto(r, j), j.at # "UpdateCounter", counter' = counter
      PROVE  CountersChecked'
  <2>1. \A q \in Requests : req'[q].at = "UpdateCounter" => req'[q] = req[q]
    BY <1>1, <1>5, Moves
  <2> QED
    BY <1>1, <1>5, <2>1, QuietCounters
<1>6. ASSUME NEW r \in Requests, Arrive(r) PROVE CountersChecked'
  <2>1. counter' = counter
    BY <1>6 DEF Arrive, Login, Refresh, Logout, VerifyAuthentication
  <2>2. \E j \in Jobs : Goto(r, j) /\ j.at # "UpdateCounter"
    BY <1>1, <1>6, LoginMoves, RefreshMoves, LogoutMoves, VerifyMoves DEF Arrive
  <2> QED
    BY <1>5, <2>1, <2>2
<1>7. ASSUME NEW r \in Requests, Continue(r) PROVE CountersChecked'
  <2>1. CASE FindAuthenticator(r)
    BY <1>1, <2>1, FindAuthenticatorCounters
  <2>2. CASE UpdatePasskeyCounter(r)
    BY <1>1, <2>2, UpdateCounterCounters
  <2>3. CASE SetSession(r)
    BY <1>1, <1>5, <2>3, SetSessionMoves DEF SetSession
  <2>4. CASE FindUser(r)
    BY <1>1, <1>5, <2>4, FindUserMoves, IdleJob DEF FindUser
  <2>5. CASE DelSession(r)
    BY <1>1, <1>5, <2>5, DelSessionMoves DEF DelSession
  <2>6. CASE Reply(r) \/ ReplyLogout(r)
    BY <1>5, <2>6, IdleJob DEF Reply, ReplyLogout
  <2>7. CASE DelLogout(r)
    BY <1>1, <1>5, <2>7, DelLogoutMoves DEF DelLogout
  <2>8. CASE DelChallenge(r)
    BY <1>1, <1>5, <2>8, DelChallengeMoves DEF DelChallenge
  <2> QED
    BY <1>7, <2>1, <2>2, <2>3, <2>4, <2>5, <2>6, <2>7, <2>8 DEF Continue
<1>8. ASSUME NEW r \in Requests, Abort(r) PROVE CountersChecked'
  BY <1>5, <1>8, IdleJob DEF Abort
<1>9. CASE Write \/ Tick \/ (\E k \in FreshKeys : AuthenticateOptions(k))
  BY <1>3, <1>9 DEF Write, WriteSession, LoseSession, Tick, AuthenticateOptions
<1>10. ASSUME NEW u \in Users, DeleteUser(u) \/ DeletePasskey(u) PROVE CountersChecked'
  <2>1. req' = req /\ counter' = Del(counter, u)
    BY <1>10 DEF DeleteUser, DeletePasskey
  <2>2. \A x \in DOMAIN counter' : x \in DOMAIN counter /\ counter'[x] = counter[x]
    BY <2>1, DelGet
  <2> QED
    BY <1>1, <2>1, <2>2, QuietCounters
<1> QED
  BY <1>1, <1>4, <1>6, <1>7, <1>8, <1>9, <1>10 DEF Next, TypeOK

\* A step sets a counter back only for a request that overlapped.
CountersGrow ==
  \A u \in DOMAIN counter \cap DOMAIN counter' :
    \/ counter'[u] >= counter[u]
    \/ \E r \in Busy : req'[r] # req[r] /\ Root(req[r]) \in shared

LEMMA CountersStep == CounterInv /\ [Next]_vars => CountersGrow
<1> SUFFICES ASSUME CounterInv, [Next]_vars PROVE CountersGrow
  OBVIOUS
<1>1. \A u \in DOMAIN counter : counter[u] \in Nat
  BY BoundsAssumption DEF CounterInv, TypeOK
<1>2. CASE counter' = counter
  BY <1>1, <1>2 DEF CountersGrow
<1>3. ASSUME NEW r \in Requests, UpdatePasskeyCounter(r) PROVE CountersGrow
  <2>1. PICK j \in Jobs : /\ req[r].at = "UpdateCounter" /\ Goto(r, j) /\ Step(r, j)
                          /\ Follows(req[r], j) /\ (j = Idle \/ j.at = "SetSession")
    BY <1>3, UpdateCounterMoves DEF CounterInv
  <2>2. r \in Busy /\ req'[r] # req[r]
    BY <2>1, IdleJob DEF Busy, Waits, Step
  <2>3. \/ counter' = counter
        \/ /\ req[r].owner.user \in DOMAIN counter
           /\ counter' = [counter EXCEPT ![req[r].owner.user] = req[r].count]
    BY <1>3 DEF UpdatePasskeyCounter
  <2>4. req[r].owner.user \in DOMAIN counter =>
          req[r].count >= counter[req[r].owner.user] \/ Root(req[r]) \in shared
    BY <2>1 DEF CounterInv, CountersChecked, Waits
  <2> QED
    BY <1>1, <2>2, <2>3, <2>4 DEF CountersGrow
<1>4. ASSUME NEW u \in Users, DeleteUser(u) \/ DeletePasskey(u) PROVE CountersGrow
  <2>1. counter' = Del(counter, u)
    BY <1>4 DEF DeleteUser, DeletePasskey
  <2>2. \A x \in DOMAIN counter' : x \in DOMAIN counter /\ counter'[x] = counter[x]
    BY <2>1, DelGet
  <2> QED
    BY <1>1, <2>2 DEF CountersGrow
<1>5. ASSUME NEW r \in Requests, Arrive(r) \/ Abort(r) PROVE counter' = counter
  BY <1>5 DEF Arrive, Login, Refresh, Logout, VerifyAuthentication, Abort
<1>6. ASSUME NEW r \in Requests, Continue(r) PROVE counter' = counter \/ UpdatePasskeyCounter(r)
  BY <1>6 DEF Continue, SetSession, FindUser, DelSession, Reply, DelLogout, ReplyLogout,
     DelChallenge, FindAuthenticator
<1>7. Write \/ Tick \/ (\E k \in FreshKeys : AuthenticateOptions(k)) \/ UNCHANGED vars
      => counter' = counter
  BY DEF Write, WriteSession, LoseSession, Tick, AuthenticateOptions, vars
<1> QED
  BY <1>2, <1>3, <1>4, <1>5, <1>6, <1>7 DEF Next, CounterInv, TypeOK

LEMMA InitCounterInv == Init => CounterInv
<1> SUFFICES ASSUME Init PROVE OverlapsShared /\ CountersChecked
  BY InitTypeOK DEF CounterInv
<1>1. \A r \in Requests : req[r].at = "Idle"
  BY IdleJob DEF Init
<1> QED
  BY <1>1 DEF OverlapsShared, CountersChecked, Busy, Waits

\* Passkey logins that do not overlap never set a signature counter back: the
\* signature is checked against the stored counter, and the write that follows
\* stores no less (verifyAuthentication, src/auth/auth.service.ts).
THEOREM CountersSafe == Spec => CounterNeverFalls
<1>1. CounterInv /\ [Next]_vars => [CountersGrow]_vars
  BY CountersStep
<1> QED
  BY <1>1, InitCounterInv, CounterInvStep, PTL DEF Spec, CounterNeverFalls, CountersGrow

-----------------------------------------------------------------------------
(* Roots.  What a request whose root is not shared may find and leave of   *)
(* its session.                                                            *)

\* The living tokens of a root are among S.
Only(root, S) == \A t \in DOMAIN RootOf : RootOf[t] = root => t \in S

NoCookie(root) == \A b \in DOMAIN cookie : cookie[b].root # root

\* A login has no session yet, a refresh finds only the one it replaces, an answer
\* carries the only one.  The challenge is used up by then, and the cookies of the
\* root are those of the requesting browser.
JobFits(j) ==
  /\ j.at \in Beginning => Only(Root(j), {}) /\ NoCookie(Root(j))
  /\ j.at \in Replacing => Only(Root(j), {j.old})
  /\ j.at = "Reply" => Only(Root(j), {j.token})
  /\ j.at # "DelChallenge" => Root(j) \notin DOMAIN challenge
  /\ \A b \in DOMAIN cookie : cookie[b].root = Root(j) => j.by = b

RequestsFit == \A r \in Busy : Root(req[r]) \notin shared => JobFits(req[r])

\* A challenge that waits for its answer has brought forth no session.
ChallengesFit == \A k \in DOMAIN challenge : k \notin shared => Only(k, {}) /\ NoCookie(k)

OneBrowser ==
  \A b, c \in DOMAIN cookie : cookie[b].root = cookie[c].root /\ cookie[b].root \notin shared
    => b = c

OneToken ==
  \A s, t \in DOMAIN RootOf : RootOf[s] = RootOf[t] /\ RootOf[s] \notin shared => s = t

\* With no answer on its way or lost, the cookie names the session, all there is.
CookiesFit ==
  \A b \in DOMAIN cookie :
    /\ cookie[b].root \notin shared \cup failed
    /\ \A r \in Requests : Waits(r, "Reply") => Root(req[r]) # cookie[b].root
    => Only(cookie[b].root, {cookie[b].token})

\* A logout finds no other session than the one it deletes.
LogoutsFit ==
  \A r \in Requests : req[r].at \in Leaving /\ Root(req[r]) \notin shared \cup failed =>
    /\ Waits(r, "DelLogout") => Only(Root(req[r]), {req[r].old})
    /\ Waits(r, "ReplyLogout") => Only(Root(req[r]), {})

RootInv ==
  /\ RequestsFit /\ ChallengesFit /\ OneBrowser
  /\ OneToken /\ CookiesFit /\ LogoutsFit

LEMMA RootsInUseToo ==
  ASSUME TypeOK
  PROVE  /\ \A t \in DOMAIN RootOf : RootOf[t] \in RootsInUse
         /\ \A b \in DOMAIN cookie : cookie[b].root \in RootsInUse
         /\ \A r \in Requests : req[r].at # "Idle" => Root(req[r]) \in RootsInUse
         /\ DOMAIN challenge \subseteq RootsInUse
  BY InUse DEF RootOf

\* A root in use that is not shared, or has not failed, after the step was not
\* before.
LEMMA StillAlone ==
  ASSUME HistoriesKept, NEW x \in RootsInUse
  PROVE  /\ x \notin shared' => x \notin shared
         /\ x \notin shared' \cup failed' => x \notin shared \cup failed
  BY DEF HistoriesKept

\* A request that follows one that fits still fits when nothing was added.
LEMMA FollowsFits ==
  ASSUME NEW j \in Jobs, NEW i \in Jobs, Follows(j, i), i.at # "Idle", JobFits(j),
         CookiesKept, RootsKept, DOMAIN challenge' \subseteq DOMAIN challenge,
         i.at = "Reply" => j.at = "Reply",
         i.at # "DelChallenge" /\ j.at = "DelChallenge" => Root(i) \notin DOMAIN challenge'
  PROVE  JobFits(i)'
<1>1. /\ j.at # "Idle" /\ i.by = j.by /\ Root(i) = Root(j)
      /\ i.at \in Beginning => j.at \in Beginning
      /\ i.at \in Replacing => j.at \in Replacing /\ i.old = j.old
      /\ i.at = "Reply" => j.at = "Reply" /\ i.token = j.token
  BY DEF Follows, Idle, Drawing, Beginning, Counting, Replacing, Leaving
<1>2. i.at \in Beginning => Only(Root(i), {})' /\ NoCookie(Root(i))'
  BY <1>1 DEF JobFits, Only, NoCookie, RootsKept, CookiesKept
<1>3. i.at \in Replacing => Only(Root(i), {i.old})'
  BY <1>1 DEF JobFits, Only, RootsKept
<1>4. i.at = "Reply" => Only(Root(i), {i.token})'
  BY <1>1 DEF JobFits, Only, RootsKept
<1>5. i.at # "DelChallenge" => Root(i) \notin DOMAIN challenge'
  BY <1>1 DEF JobFits
<1>6. \A b \in DOMAIN cookie' : cookie'[b].root = Root(i) => i.by = b
  BY <1>1 DEF JobFits, CookiesKept
<1> QED
  BY <1>2, <1>3, <1>4, <1>5, <1>6 DEF JobFits

\* A step that adds no session, cookie or challenge.
LEMMA QuietFits ==
  ASSUME TypeOK, TypeOK', RootInv, HistoriesKept, CookiesKept, RootsKept,
         DOMAIN challenge' \subseteq DOMAIN challenge,
         \A q \in Requests : Follows(req[q], req'[q]),
         \A q \in Requests : req'[q].at = "Reply" => req[q].at = "Reply",
         \A q \in Requests : req[q].at = "Reply" =>
           req'[q].at = "Reply" \/ Root(req[q]) \in failed',
         \A q \in Requests :
           req'[q].at \notin {"DelChallenge", "Idle"} /\ req[q].at = "DelChallenge"
           => Root(req'[q]) \notin DOMAIN challenge',
         \A q \in Requests, i \in Jobs : i = req'[q] /\ i.at \in Leaving =>
           \/ i = req[q]
           \/ i.at = "ReplyLogout" /\ (Root(i) \notin shared' \cup failed' => Only(Root(i), {})')
  PROVE  RootInv'
<1>1. \A q \in Requests : req'[q].at # "Idle" =>
        req[q].at # "Idle" /\ Root(req'[q]) = Root(req[q]) /\ Root(req[q]) \in RootsInUse
  BY RootsInUseToo DEF Follows, Idle
<1>2. RequestsFit'
  <2> SUFFICES ASSUME NEW q \in Requests, NEW i \in Jobs, i = req'[q], i.at # "Idle",
                      Root(i) \notin shared'
               PROVE  JobFits(i)'
    BY DEF RequestsFit, Busy, Waits, TypeOK
  <2> DEFINE j == req[q]
  <2>1. JobFits(j)
    BY <1>1, StillAlone DEF RootInv, RequestsFit, Busy, Waits
  <2>2. j \in Jobs /\ i \in Jobs /\ Follows(j, i) /\ i.at # "Idle"
    BY DEF TypeOK
  <2>3. /\ i.at = "Reply" => j.at = "Reply"
        /\ i.at # "DelChallenge" /\ j.at = "DelChallenge" => Root(i) \notin DOMAIN challenge'
    OBVIOUS
  <2> HIDE DEF j
  <2> QED
    BY <2>1, <2>2, <2>3, FollowsFits
<1>3. ChallengesFit'
  BY RootsInUseToo, StillAlone
     DEF RootInv, ChallengesFit, Only, NoCookie, RootsKept, CookiesKept
<1>4. OneBrowser'
  BY RootsInUseToo, StillAlone DEF RootInv, OneBrowser, CookiesKept
<1>5. OneToken'
  BY RootsInUseToo, StillAlone DEF RootInv, OneToken, RootsKept
<1>6. CookiesFit'
  <2> SUFFICES ASSUME NEW b \in DOMAIN cookie', NEW x, NEW t,
                      x = cookie'[b].root, t = cookie'[b].token, x \notin shared' \cup failed',
                      \A r \in Requests : req'[r].at = "Reply" => Root(req'[r]) # x
               PROVE  Only(x, {t})'
    BY DEF CookiesFit, Waits
  <2>1. b \in DOMAIN cookie /\ x = cookie[b].root /\ t = cookie[b].token
    BY DEF CookiesKept
  <2>2. cookie[b].root \notin shared \cup failed
    BY <2>1, RootsInUseToo, StillAlone
  <2>3. \A r \in Requests : Waits(r, "Reply") => Root(req[r]) # cookie[b].root
    BY <1>1, <2>1 DEF Waits
  <2>4. Only(x, {t})
    BY <2>1, <2>2, <2>3 DEF RootInv, CookiesFit
  <2> QED
    BY <2>4 DEF Only, RootsKept
<1>7. LogoutsFit'
  <2> SUFFICES ASSUME NEW q \in Requests, NEW i \in Jobs, i = req'[q], i.at \in Leaving,
                      Root(i) \notin shared' \cup failed'
               PROVE  /\ i.at = "DelLogout" => Only(Root(i), {i.old})'
                      /\ i.at = "ReplyLogout" => Only(Root(i), {})'
    BY DEF LogoutsFit, Waits, TypeOK
  <2>1. CASE i = req[q]
    <3>1. Root(i) \notin shared \cup failed
      BY <1>1, <2>1, StillAlone DEF Leaving
    <3>2. /\ i.at = "DelLogout" => Only(Root(i), {i.old})
          /\ i.at = "ReplyLogout" => Only(Root(i), {})
      BY <2>1, <3>1 DEF RootInv, LogoutsFit, Waits
    <3> QED
      BY <3>2 DEF Only, RootsKept
  <2>2. CASE i.at = "ReplyLogout" /\ Only(Root(i), {})'
    BY <2>2
  <2> QED
    BY <2>1, <2>2
<1> QED
  BY <1>2, <1>3, <1>4, <1>5, <1>6, <1>7 DEF RootInv

\* Nothing changed but one request, and what fitted before fits.
LEMMA SameFits ==
  ASSUME NEW j \in Jobs, JobFits(j), cookie' = cookie, RootOf' = RootOf, challenge' = challenge
  PROVE  JobFits(j)'
  BY DEF JobFits, Only, NoCookie

\* An arrival changes nothing but the request itself.
LEMMA ArriveFits ==
  ASSUME TypeOK, TypeOK', RootInv, HistoriesKept, NEW r \in Requests, NEW j \in Jobs, Step(r, j),
         req[r].at = "Idle", cookie' = cookie, RootOf' = RootOf, challenge' = challenge,
         j.at \notin {"Reply", "ReplyLogout"},
         Root(j) \notin shared' => JobFits(j),
         j.at = "DelLogout" /\ Root(j) \notin shared' \cup failed' => Only(Root(j), {j.old})
  PROVE  RootInv'
<1>1. req'[r] = j /\ \A q \in Requests \ {r} : req'[q] = req[q]
  BY DEF Step
<1>2. RequestsFit'
  <2> SUFFICES ASSUME NEW q \in Requests, NEW i \in Jobs, i = req'[q], i.at # "Idle",
                      Root(i) \notin shared'
               PROVE  JobFits(i)'
    BY DEF RequestsFit, Busy, Waits, TypeOK
  <2>1. CASE q = r
    BY <1>1, <2>1, SameFits
  <2>2. CASE q # r
    <3>1. i = req[q] /\ Root(i) \in RootsInUse
      BY <1>1, <2>2, RootsInUseToo
    <3>2. JobFits(i)
      BY <3>1, StillAlone DEF RootInv, RequestsFit, Busy, Waits
    <3> QED
      BY <3>2, SameFits
  <2> QED
    BY <2>1, <2>2
<1>3. ChallengesFit'
  BY RootsInUseToo, StillAlone DEF RootInv, ChallengesFit, Only, NoCookie
<1>4. OneBrowser'
  BY RootsInUseToo, StillAlone DEF RootInv, OneBrowser
<1>5. OneToken'
  BY RootsInUseToo, StillAlone DEF RootInv, OneToken
<1>6. CookiesFit'
  <2> SUFFICES ASSUME NEW b \in DOMAIN cookie, NEW x, NEW t,
                      x = cookie[b].root, t = cookie[b].token, x \notin shared' \cup failed',
                      \A q \in Requests : req'[q].at = "Reply" => Root(req'[q]) # x
               PROVE  Only(x, {t})'
    BY DEF CookiesFit, Waits
  <2>1. x \notin shared \cup failed
    BY RootsInUseToo, StillAlone
  <2>2. \A q \in Requests : Waits(q, "Reply") => Root(req[q]) # x
    BY <1>1 DEF Waits
  <2>3. Only(x, {t})
    BY <2>1, <2>2 DEF RootInv, CookiesFit
  <2> QED
    BY <2>3 DEF Only
<1>7. LogoutsFit'
  <2> SUFFICES ASSUME NEW q \in Requests, NEW i \in Jobs, i = req'[q], i.at \in Leaving,
                      Root(i) \notin shared' \cup failed'
               PROVE  /\ i.at = "DelLogout" => Only(Root(i), {i.old})'
                      /\ i.at = "ReplyLogout" => Only(Root(i), {})'
    BY DEF LogoutsFit, Waits, TypeOK
  <2>1. CASE q = r
    BY <1>1, <2>1 DEF Only
  <2>2. CASE q # r
    <3>1. i = req[q] /\ Root(i) \in RootsInUse
      BY <1>1, <2>2, RootsInUseToo DEF Leaving
    <3>2. /\ i.at = "DelLogout" => Only(Root(i), {i.old})
          /\ i.at = "ReplyLogout" => Only(Root(i), {})
      BY <3>1, StillAlone DEF RootInv, LogoutsFit, Waits
    <3> QED
      BY <3>2 DEF Only
  <2> QED
    BY <2>1, <2>2
<1> QED
  BY <1>2, <1>3, <1>4, <1>5, <1>6, <1>7 DEF RootInv

LEMMA LoginFits ==
  ASSUME TypeOK, TypeOK', RootInv, HistoriesKept, NEW r \in Requests, NEW b \in Browsers,
         NEW u \in Users, NEW l \in FreshLogins, NEW t \in FreshTokens, Login(r, b, u, l, t)
  PROVE  RootInv'
<1>1. PICK j \in Jobs : /\ req[r].at = "Idle" /\ Step(r, j)
                        /\ j.at = "SetSession" /\ Root(j) = l
  BY LoginMoves
<1>2. cookie' = cookie /\ challenge' = challenge /\ RootOf' = RootOf
  BY SameRoots DEF Login
<1>3. l \notin RootsInUse
  BY DEF FreshLogins
<1>4. JobFits(j)
  BY <1>1, <1>3, RootsInUseToo DEF JobFits, Only, NoCookie, Replacing
<1>5. j.at \notin {"Reply", "ReplyLogout", "DelLogout"}
  BY <1>1
<1> QED
  BY <1>1, <1>2, <1>4, <1>5, ArriveFits

LEMMA RefreshFits ==
  ASSUME TypeOK, TypeOK', TokenInv, RootInv, HistoriesKept, NEW r \in Requests,
         NEW b \in DOMAIN cookie, NEW t \in FreshTokens, Refresh(r, b, t)
  PROVE  RootInv'
<1>1. PICK j \in Jobs : /\ req[r].at = "Idle" /\ Step(r, j) /\ j.at = "FindUser" /\ j.by = b
                        /\ j.old = cookie[b].token /\ j.old \in DOMAIN session
                        /\ Root(j) = session[j.old].owner.root
  BY RefreshMoves
<1>2. cookie' = cookie /\ challenge' = challenge /\ RootOf' = RootOf
  BY SameRoots DEF Refresh
<1>3. j.old \notin DOMAIN late
  BY <1>1 DEF TokenInv, LateApart
<1>4. j.old \in DOMAIN RootOf /\ RootOf[j.old] = Root(j) /\ Root(j) = cookie[b].root
  BY <1>1, <1>3, Living DEF TokenInv, RootsFit
<1>5. ASSUME Root(j) \notin shared' PROVE JobFits(j)
  <2>1. Root(j) \notin shared
    BY <1>4, <1>5, RootsInUseToo, StillAlone
  <2>2. Only(Root(j), {j.old})
    BY <1>4, <2>1 DEF RootInv, OneToken, Only
  <2>3. Root(j) \notin DOMAIN challenge
    BY <1>4, <2>1 DEF RootInv, ChallengesFit, NoCookie
  <2>4. \A c \in DOMAIN cookie : cookie[c].root = Root(j) => j.by = c
    BY <1>1, <1>4, <2>1 DEF RootInv, OneBrowser
  <2> QED
    BY <1>1, <2>2, <2>3, <2>4 DEF JobFits, Beginning, Counting
<1>6. j.at \notin {"Reply", "ReplyLogout", "DelLogout"}
  BY <1>1
<1> QED
  BY <1>1, <1>2, <1>5, <1>6, ArriveFits

LEMMA LogoutFits ==
  ASSUME TypeOK, TypeOK', RootInv, HistoriesKept, NEW r \in Requests, NEW b \in DOMAIN cookie,
         Logout(r, b)
  PROVE  RootInv'
<1>1. PICK j \in Jobs : /\ req[r].at = "Idle" /\ Goto(r, j) /\ Step(r, j)
                        /\ j.at = "DelLogout" /\ j.by = b
                        /\ j.old = cookie[b].token /\ Root(j) = cookie[b].root
  BY LogoutMoves
<1>2. cookie' = cookie /\ challenge' = challenge /\ RootOf' = RootOf
  BY SameRoots DEF Logout
<1>3. ASSUME Root(j) \notin shared' PROVE Root(j) \notin shared /\ JobFits(j)
  <2>1. Root(j) \notin shared
    BY <1>1, <1>3, RootsInUseToo, StillAlone
  <2>2. Root(j) \notin DOMAIN challenge
    BY <1>1, <2>1 DEF RootInv, ChallengesFit, NoCookie
  <2>3. \A c \in DOMAIN cookie : cookie[c].root = Root(j) => j.by = c
    BY <1>1, <2>1 DEF RootInv, OneBrowser
  <2> QED
    BY <1>1, <2>1, <2>2, <2>3 DEF JobFits, Beginning, Counting, Replacing
<1>4. ASSUME Root(j) \notin shared' \cup failed' PROVE Only(Root(j), {j.old})
  <2>1. Root(j) \notin shared \cup failed
    BY <1>1, <1>4, RootsInUseToo, StillAlone
  <2>2. ASSUME NEW q \in Requests, Waits(q, "Reply"), Root(req[q]) = Root(j) PROVE FALSE
    <3>1. q \in Busy \ {r} /\ Overlap(j, req[q]) /\ j # Idle
      BY <1>1, <2>2, IdleJob DEF Busy, Waits, Overlap
    <3> QED
      BY <1>1, <1>4, <3>1, MovesShared
  <2> QED
    BY <1>1, <2>1, <2>2 DEF RootInv, CookiesFit
<1>5. j.at \notin {"Reply", "ReplyLogout"}
  BY <1>1
<1> QED
  BY <1>1, <1>2, <1>3, <1>4, <1>5, ArriveFits

LEMMA VerifyFits ==
  ASSUME TypeOK, TypeOK', RootInv, HistoriesKept, NEW r \in Requests, NEW b \in Browsers,
         NEW k \in Keys, NEW u \in Users, NEW n \in 0..MaxCount, NEW t \in FreshTokens,
         VerifyAuthentication(r, b, k, u, n, t)
  PROVE  RootInv'
<1>1. PICK j \in Jobs : /\ req[r].at = "Idle" /\ Step(r, j)
                        /\ j.at = "DelChallenge" /\ Root(j) = k
  BY VerifyMoves
<1>2. cookie' = cookie /\ challenge' = challenge /\ RootOf' = RootOf /\ k \in DOMAIN challenge
  BY SameRoots DEF VerifyAuthentication
<1>3. ASSUME k \notin shared' PROVE JobFits(j)
  <2>1. k \notin shared
    BY <1>2, <1>3, RootsInUseToo, StillAlone
  <2>2. Only(k, {}) /\ NoCookie(k)
    BY <1>2, <2>1 DEF RootInv, ChallengesFit
  <2> QED
    BY <1>1, <2>2 DEF JobFits, NoCookie, Replacing
<1>4. j.at \notin {"Reply", "ReplyLogout", "DelLogout"}
  BY <1>1
<1> QED
  BY <1>1, <1>2, <1>3, <1>4, ArriveFits

\* A request writes its session and answers: it leaves one token of its root.
LEMMA AnswerFits ==
  ASSUME TypeOK, TypeOK', RootInv, OverlapsShared, HistoriesKept,
         NEW r \in Requests, NEW j \in Jobs, Step(r, j), Follows(req[r], j), j.at = "Reply",
         req[r].at \in {"SetSession", "DelSession"},
         cookie' = cookie, challenge' = challenge, failed' = failed,
         j.token \in DOMAIN RootOf', RootOf'[j.token] = Root(j),
         \A t \in DOMAIN RootOf' \ {j.token} : t \in DOMAIN RootOf /\ RootOf'[t] = RootOf[t],
         req[r].at = "DelSession" => req[r].old \notin DOMAIN RootOf'
  PROVE  RootInv'
<1> DEFINE root == Root(j)
<1>1. req'[r] = j /\ \A q \in Requests \ {r} : req'[q] = req[q]
  BY DEF Step
<1>2. root = Root(req[r]) /\ j.by = req[r].by /\ root \in RootsInUse
  BY RootsInUseToo DEF Follows, Idle
<1>3. ASSUME root \notin shared'
      PROVE  /\ \A t \in DOMAIN RootOf' : RootOf'[t] = root => t = j.token
             /\ root \notin DOMAIN challenge
             /\ \A b \in DOMAIN cookie : cookie[b].root = root => j.by = b
             /\ \A q \in Requests \ {r} : req[q].at # "Idle" => Root(req[q]) # root
  <2>1. root \notin shared
    BY <1>2, <1>3, StillAlone
  <2>2. JobFits(req[r])
    BY <1>2, <2>1 DEF RootInv, RequestsFit, Busy, Waits
  <2>3. \A q \in Requests \ {r} : req[q].at # "Idle" => Root(req[q]) # root
    BY <1>2, <2>1 DEF OverlapsShared, Overlap, Busy, Waits
  <2>4. \A t \in DOMAIN RootOf' : RootOf'[t] = root => t = j.token
    BY <1>2, <2>2 DEF JobFits, Only, Beginning, Replacing
  <2>5. root \notin DOMAIN challenge /\ \A b \in DOMAIN cookie : cookie[b].root = root => j.by = b
    BY <1>2, <2>2 DEF JobFits
  <2> QED
    BY <2>3, <2>4, <2>5
<1> HIDE DEF root
<1>4. ASSUME NEW x \in RootsInUse, x # root, NEW S, Only(x, S) PROVE Only(x, S)'
  BY <1>4 DEF Only, root
<1>5. RequestsFit'
  <2> SUFFICES ASSUME NEW q \in Requests, NEW i \in Jobs, i = req'[q], i.at # "Idle",
                      Root(i) \notin shared'
               PROVE  JobFits(i)'
    BY DEF RequestsFit, Busy, Waits, TypeOK
  <2>1. CASE q = r
    BY <1>1, <1>3, <2>1 DEF JobFits, Only, Beginning, Counting, Replacing, root
  <2>2. CASE q # r
    <3>1. i = req[q] /\ Root(i) \in RootsInUse /\ Root(i) # root
      BY <1>1, <1>3, <2>2, RootsInUseToo
    <3>2. JobFits(i)
      BY <3>1, StillAlone DEF RootInv, RequestsFit, Busy, Waits
    <3> QED
      BY <1>4, <3>1, <3>2 DEF JobFits, NoCookie
  <2> QED
    BY <2>1, <2>2
<1>6. ChallengesFit'
  <2> SUFFICES ASSUME NEW k \in DOMAIN challenge, k \notin shared'
               PROVE  Only(k, {})' /\ NoCookie(k)'
    BY DEF ChallengesFit
  <2>1. k \in RootsInUse /\ k # root
    BY <1>3, RootsInUseToo
  <2>2. Only(k, {}) /\ NoCookie(k)
    BY <2>1, StillAlone DEF RootInv, ChallengesFit
  <2> QED
    BY <1>4, <2>1, <2>2 DEF NoCookie
<1>7. OneBrowser'
  BY RootsInUseToo, StillAlone DEF RootInv, OneBrowser
<1>8. OneToken'
  <2> SUFFICES ASSUME NEW s \in DOMAIN RootOf', NEW t \in DOMAIN RootOf',
                      RootOf'[s] = RootOf'[t], RootOf'[s] \notin shared'
               PROVE  s = t
    BY DEF OneToken
  <2>1. CASE RootOf'[s] = root
    BY <1>3, <2>1
  <2>2. CASE RootOf'[s] # root
    <3>1. s \in DOMAIN RootOf /\ t \in DOMAIN RootOf /\ RootOf[s] = RootOf[t]
          /\ RootOf[s] \notin shared'
      BY <2>2 DEF root
    <3> QED
      BY <3>1, RootsInUseToo, StillAlone DEF RootInv, OneToken
  <2> QED
    BY <2>1, <2>2
<1>9. CookiesFit'
  <2> SUFFICES ASSUME NEW b \in DOMAIN cookie, NEW x, NEW t,
                      x = cookie[b].root, t = cookie[b].token, x \notin shared' \cup failed',
                      \A q \in Requests : req'[q].at = "Reply" => Root(req'[q]) # x
               PROVE  Only(x, {t})'
    BY DEF CookiesFit, Waits
  <2>1. x \notin shared \cup failed /\ x \in RootsInUse /\ x # root
    BY <1>1, RootsInUseToo, StillAlone DEF root
  <2>2. \A q \in Requests : Waits(q, "Reply") => Root(req[q]) # x
    BY <1>1, <1>2, <2>1 DEF Waits
  <2>3. Only(x, {t})
    BY <2>1, <2>2 DEF RootInv, CookiesFit
  <2> QED
    BY <1>4, <2>1, <2>3
<1>10. LogoutsFit'
  <2> SUFFICES ASSUME NEW q \in Requests, NEW i \in Jobs, i = req'[q], i.at \in Leaving,
                      Root(i) \notin shared' \cup failed'
               PROVE  /\ i.at = "DelLogout" => Only(Root(i), {i.old})'
                      /\ i.at = "ReplyLogout" => Only(Root(i), {})'
    BY DEF LogoutsFit, Waits, TypeOK
  <2>1. q # r
    BY <1>1 DEF Leaving
  <2>2. i = req[q] /\ Root(i) \in RootsInUse /\ Root(i) # root
    BY <1>1, <1>3, <2>1, RootsInUseToo DEF Leaving
  <2>3. /\ i.at = "DelLogout" => Only(Root(i), {i.old})
        /\ i.at = "ReplyLogout" => Only(Root(i), {})
    BY <2>2, StillAlone DEF RootInv, LogoutsFit, Waits
  <2> QED
    BY <1>4, <2>2, <2>3
<1> QED
  BY <1>5, <1>6, <1>7, <1>8, <1>9, <1>10 DEF RootInv

LEMMA SetSessionFits ==
  ASSUME TypeOK, TypeOK', TokenInv, RootInv, OverlapsShared, HistoriesKept,
         NEW r \in Requests, SetSession(r)
  PROVE  RootInv'
<1>1. PICK j \in Jobs : /\ req[r].at = "SetSession" /\ Goto(r, j) /\ Step(r, j)
                        /\ j.at = "Reply" /\ Follows(req[r], j)
  BY SetSessionMoves
<1>2. cookie' = cookie /\ challenge' = challenge /\ failed' = failed
  BY DEF SetSession
<1>3. j.token = req[r].token /\ Root(j) = Root(req[r])
  BY <1>1, FollowsDraws DEF TypeOK
<1>4. req[r].token \notin DOMAIN RootOf
  BY <1>1 DEF TokenInv, TokensUnwritten, Drawing, Beginning
<1>5. /\ DOMAIN RootOf' = DOMAIN RootOf \cup {j.token}
      /\ RootOf'[j.token] = Root(j)
      /\ \A t \in DOMAIN RootOf : RootOf'[t] = RootOf[t]
  BY <1>3, <1>4, SetSessionRoots
<1>6. /\ j.token \in DOMAIN RootOf'
      /\ \A t \in DOMAIN RootOf' \ {j.token} : t \in DOMAIN RootOf /\ RootOf'[t] = RootOf[t]
      /\ req[r].at \in {"SetSession", "DelSession"} /\ req[r].at # "DelSession"
  BY <1>1, <1>5
<1> QED
  BY <1>1, <1>2, <1>5, <1>6, AnswerFits

LEMMA DelSessionFits ==
  ASSUME TypeOK, TypeOK', TokenInv, RootInv, OverlapsShared, HistoriesKept,
         NEW r \in Requests, DelSession(r)
  PROVE  RootInv'
<1>1. PICK j \in Jobs : /\ req[r].at = "DelSession" /\ Goto(r, j) /\ Step(r, j)
                        /\ j.at = "Reply" /\ Follows(req[r], j)
  BY DelSessionMoves
<1>2. cookie' = cookie /\ challenge' = challenge /\ failed' = failed
  BY DEF DelSession
<1>3. j.token = req[r].token /\ Root(j) = Root(req[r])
  BY <1>1, FollowsDraws DEF TypeOK
<1>4. /\ req[r].token \notin DOMAIN RootOf /\ req[r].old \notin DOMAIN late
      /\ req[r].old # req[r].token
  BY <1>1 DEF TokenInv, TokensUnwritten, LateApart, TokensPrivate, Draws, Brings, Drawing,
     Replacing
<1>5. /\ DOMAIN RootOf' = (DOMAIN RootOf \ {req[r].old}) \cup {j.token}
      /\ RootOf'[j.token] = Root(j)
      /\ \A t \in DOMAIN RootOf \ {req[r].old} : RootOf'[t] = RootOf[t]
  BY <1>3, <1>4, DelSessionRoots
<1>6. /\ j.token \in DOMAIN RootOf'
      /\ \A t \in DOMAIN RootOf' \ {j.token} : t \in DOMAIN RootOf /\ RootOf'[t] = RootOf[t]
      /\ req[r].at \in {"SetSession", "DelSession"} /\ req[r].old \notin DOMAIN RootOf'
  BY <1>1, <1>3, <1>4, <1>5
<1> QED
  BY <1>1, <1>2, <1>5, <1>6, AnswerFits

\* The answer arrives: the cookie names the only token of the root.
LEMMA ReplyFits ==
  ASSUME TypeOK, TypeOK', RootInv, OverlapsShared, HistoriesKept, NEW r \in Requests, Reply(r)
  PROVE  RootInv'
<1> DEFINE c == [token |-> req[r].token, root |-> req[r].owner.root, ttl |-> CookieTTL]
           by == req[r].by
           root == Root(req[r])
<1>1. /\ req[r].at = "Reply" /\ Goto(r, Idle) /\ RootOf' = RootOf
      /\ challenge' = challenge /\ failed' = failed /\ shared' = shared
  BY SameRoots, MovesShared DEF Reply, Waits
<1>2. cookie' = Put(cookie, by, c)
  BY DEF Reply
<1>3. c.token = req[r].token /\ c.root = root
  BY <1>1, JobShapes DEF TypeOK
<1>4. ASSUME root \notin shared
      PROVE  /\ Only(root, {c.token})
             /\ root \notin DOMAIN challenge
             /\ \A b \in DOMAIN cookie : cookie[b].root = root => by = b
             /\ \A q \in Requests \ {r} : req[q].at # "Idle" => Root(req[q]) # root
  <2>1. JobFits(req[r])
    BY <1>1, <1>4 DEF RootInv, RequestsFit, Busy, Waits
  <2>2. \A q \in Requests \ {r} : req[q].at # "Idle" => Root(req[q]) # root
    BY <1>1, <1>4 DEF OverlapsShared, Overlap, Busy, Waits
  <2> QED
    BY <1>1, <1>3, <2>1, <2>2 DEF JobFits
<1>5. req'[r].at = "Idle" /\ \A q \in Requests \ {r} : req'[q] = req[q]
  BY <1>1, Moves, IdleJob
<1> HIDE DEF c, by, root
<1>6. /\ DOMAIN cookie' = DOMAIN cookie \cup {by} /\ cookie'[by] = c
      /\ \A b \in DOMAIN cookie : b # by => cookie'[b] = cookie[b]
  BY <1>2 DEF Put
<1>7. RequestsFit'
  <2> SUFFICES ASSUME NEW q \in Requests, NEW i \in Jobs, i = req'[q], i.at # "Idle",
                      Root(i) \notin shared'
               PROVE  JobFits(i)'
    BY DEF RequestsFit, Busy, Waits, TypeOK
  <2>1. q # r /\ i = req[q]
    BY <1>5
  <2>2. JobFits(i) /\ Root(i) # root
    BY <1>1, <1>4, <2>1 DEF RootInv, RequestsFit, Busy, Waits
  <2> QED
    BY <1>1, <1>3, <1>6, <2>2 DEF JobFits, Only, NoCookie
<1>8. ChallengesFit'
  BY <1>1, <1>3, <1>4, <1>6 DEF RootInv, ChallengesFit, Only, NoCookie
<1>9. OneBrowser'
  BY <1>1, <1>3, <1>4, <1>6 DEF RootInv, OneBrowser
<1>10. OneToken'
  BY <1>1 DEF RootInv, OneToken
<1>11. CookiesFit'
  <2> SUFFICES ASSUME NEW b \in DOMAIN cookie', NEW x, NEW t,
                      x = cookie'[b].root, t = cookie'[b].token, x \notin shared' \cup failed',
                      \A q \in Requests : req'[q].at = "Reply" => Root(req'[q]) # x
               PROVE  Only(x, {t})'
    BY DEF CookiesFit, Waits
  <2>1. CASE b = by
    BY <1>1, <1>3, <1>4, <1>6, <2>1 DEF Only
  <2>2. CASE b # by
    <3>1. b \in DOMAIN cookie /\ x = cookie[b].root /\ t = cookie[b].token
      BY <1>6, <2>2
    <3>2. x # root
      BY <1>1, <1>4, <2>2, <3>1
    <3>3. \A q \in Requests : Waits(q, "Reply") => Root(req[q]) # x
      BY <1>5, <3>2 DEF Waits, root
    <3>4. Only(x, {t})
      BY <1>1, <3>1, <3>3 DEF RootInv, CookiesFit
    <3> QED
      BY <1>1, <3>4 DEF Only
  <2> QED
    BY <2>1, <2>2
<1>12. LogoutsFit'
  <2> SUFFICES ASSUME NEW q \in Requests, NEW i \in Jobs, i = req'[q], i.at \in Leaving,
                      Root(i) \notin shared' \cup failed'
               PROVE  /\ i.at = "DelLogout" => Only(Root(i), {i.old})'
                      /\ i.at = "ReplyLogout" => Only(Root(i), {})'
    BY DEF LogoutsFit, Waits, TypeOK
  <2>1. i = req[q]
    BY <1>5 DEF Leaving
  <2>2. /\ i.at = "DelLogout" => Only(Root(i), {i.old})
        /\ i.at = "ReplyLogout" => Only(Root(i), {})
    BY <1>1, <2>1 DEF RootInv, LogoutsFit, Waits
  <2> QED
    BY <1>1, <2>2 DEF Only
<1> QED
  BY <1>7, <1>8, <1>9, <1>10, <1>11, <1>12 DEF RootInv

\* A new challenge is named nowhere yet.
LEMMA OptionsFits ==
  ASSUME TypeOK, TypeOK', RootInv, HistoriesKept, NEW k \in FreshKeys, AuthenticateOptions(k)
  PROVE  RootInv'
<1>1. /\ req' = req /\ cookie' = cookie /\ RootOf' = RootOf
      /\ DOMAIN challenge' = DOMAIN challenge \cup {k}
  BY SameRoots DEF AuthenticateOptions, Put
<1>2. k \notin RootsInUse
  BY DEF FreshKeys
<1>3. RequestsFit'
  <2> SUFFICES ASSUME NEW q \in Requests, NEW i \in Jobs, i = req[q], i.at # "Idle",
                      Root(i) \notin shared'
               PROVE  JobFits(i)'
    BY <1>1 DEF RequestsFit, Busy, Waits, TypeOK
  <2>1. Root(i) \in RootsInUse /\ Root(i) # k
    BY <1>2, RootsInUseToo
  <2>2. JobFits(i)
    BY <2>1, StillAlone DEF RootInv, RequestsFit, Busy, Waits
  <2> QED
    BY <1>1, <2>1, <2>2 DEF JobFits, Only, NoCookie
<1>4. ChallengesFit'
  <2> SUFFICES ASSUME NEW x \in DOMAIN challenge', x \notin shared'
               PROVE  Only(x, {})' /\ NoCookie(x)'
    BY DEF ChallengesFit
  <2>1. CASE x = k
    BY <1>1, <1>2, <2>1, RootsInUseToo DEF Only, NoCookie
  <2>2. CASE x # k
    BY <1>1, <2>2, RootsInUseToo, StillAlone DEF RootInv, ChallengesFit, Only, NoCookie
  <2> QED
    BY <2>1, <2>2
<1>5. OneBrowser' /\ OneToken'
  BY <1>1, RootsInUseToo, StillAlone DEF RootInv, OneBrowser, OneToken
<1>6. CookiesFit'
  BY <1>1, RootsInUseToo, StillAlone DEF RootInv, CookiesFit, Only, Waits
<1>7. LogoutsFit'
  <2>1. \A q \in Requests : req[q].at \in Leaving => Root(req[q]) \in RootsInUse
    BY RootsInUseToo DEF Leaving
  <2> QED
    BY <1>1, <2>1, StillAlone DEF RootInv, LogoutsFit, Only, Waits
<1> QED
  BY <1>3, <1>4, <1>5, <1>6, <1>7 DEF RootInv

\* A request goes on, or ends, and writes no session.
LEMMA QuietCallFits ==
  ASSUME TypeOK, TypeOK', RootInv, HistoriesKept, CookiesKept, RootsKept,
         DOMAIN challenge' \subseteq DOMAIN challenge,
         NEW r \in Requests, NEW j \in Jobs, Goto(r, j), Follows(req[r], j), j.at # "Reply",
         req[r].at = "Reply" => Root(req[r]) \in failed',
         req[r].at = "DelChallenge" /\ j # Idle => Root(j) \notin DOMAIN challenge',
         j.at \in Leaving =>
           j.at = "ReplyLogout" /\ (Root(j) \notin shared' \cup failed' => Only(Root(j), {})')
  PROVE  RootInv'
<1>1. req'[r] = j /\ \A q \in Requests \ {r} : req'[q] = req[q]
  BY Moves
<1>2. \A q \in Requests : Follows(req[q], req'[q])
  BY FollowsAll
<1>3. \A q \in Requests : req'[q].at = "Reply" => req[q].at = "Reply"
  BY <1>1
<1>4. \A q \in Requests : req[q].at = "Reply" => req'[q].at = "Reply" \/ Root(req[q]) \in failed'
  BY <1>1
<1>5. \A q \in Requests : req'[q].at \notin {"DelChallenge", "Idle"} /\ req[q].at = "DelChallenge"
        => Root(req'[q]) \notin DOMAIN challenge'
  BY <1>1, IdleJob
<1>6. \A q \in Requests, i \in Jobs : i = req'[q] /\ i.at \in Leaving =>
        \/ i = req[q]
        \/ i.at = "ReplyLogout" /\ (Root(i) \notin shared' \cup failed' => Only(Root(i), {})')
  BY <1>1
<1> QED
  BY <1>2, <1>3, <1>4, <1>5, <1>6, QuietFits

\* The requests stay where they are, and nothing is added.
LEMMA QuietRestFits ==
  ASSUME TypeOK, TypeOK', RootInv, HistoriesKept, CookiesKept, RootsKept, req' = req,
         DOMAIN challenge' \subseteq DOMAIN challenge
  PROVE  RootInv'
<1>1. \A q \in Requests : Follows(req[q], req'[q])
  BY RestFollows
<1> QED
  BY <1>1, QuietFits

LEMMA DelLogoutFits ==
  ASSUME TypeOK, TypeOK', TokenInv, RootInv, HistoriesKept, NEW r \in Requests, DelLogout(r)
  PROVE  RootInv'
<1>1. PICK j \in Jobs : /\ req[r].at = "DelLogout" /\ Goto(r, j) /\ Step(r, j)
                        /\ j.at = "ReplyLogout" /\ Follows(req[r], j)
  BY DelLogoutMoves
<1>2. RootsKept /\ CookiesKept /\ challenge' = challenge
  BY DelLogoutTokens DEF DelLogout, CookiesKept
<1>3. DOMAIN RootOf' = DOMAIN RootOf \ {req[r].old}
  BY <1>1, DelLogoutRoots DEF TokenInv, LateApart, Brings, Leaving
<1>4. Root(j) = Root(req[r]) /\ Root(j) \in RootsInUse
  BY <1>1, RootsInUseToo DEF Follows, Idle
<1>5. ASSUME Root(j) \notin shared' \cup failed' PROVE Only(Root(j), {})'
  <2>1. Root(j) \notin shared \cup failed
    BY <1>4, <1>5, StillAlone
  <2>2. Only(Root(j), {req[r].old})
    BY <1>1, <1>4, <2>1 DEF RootInv, LogoutsFit, Waits, Leaving
  <2> QED
    BY <1>2, <1>3, <2>2 DEF Only, RootsKept
<1>6. j.at # "Reply" /\ req[r].at # "Reply" /\ req[r].at # "DelChallenge"
  BY <1>1
<1> QED
  BY <1>1, <1>2, <1>5, <1>6, QuietCallFits

LEMMA ContinueFits ==
  ASSUME TypeOK, TypeOK', TokenInv, RootInv, OverlapsShared, HistoriesKept, NEW r \in Requests,
         Continue(r)
  PROVE  RootInv'
<1>1. ASSUME NEW j \in Jobs, Goto(r, j), Follows(req[r], j), j.at \notin {"Reply"} \cup Leaving,
             req[r].at \notin {"Reply", "DelChallenge"}, session' = session, late' = late,
             CookiesKept, challenge' = challenge
      PROVE  RootInv'
  <2>1. RootsKept
    BY <1>1, SameRoots DEF RootsKept
  <2> QED
    BY <1>1, <2>1, QuietCallFits
<1>2. CASE FindUser(r)
  BY <1>1, <1>2, FindUserMoves, IdleJob DEF FindUser, CookiesKept, Leaving
<1>3. CASE DelChallenge(r)
  <2>1. PICK j \in Jobs : /\ req[r].at = "DelChallenge" /\ Goto(r, j)
                          /\ j.at = "FindAuthenticator" /\ Follows(req[r], j)
    BY <1>3, DelChallengeMoves
  <2>2. req[r].owner.root = Root(req[r]) /\ Root(j) = Root(req[r])
    BY <2>1, FollowsDraws, JobShapes DEF TypeOK, Drawing, Beginning, Counting
  <2>3. DOMAIN challenge' = DOMAIN challenge \ {Root(j)}
    BY <1>3, <2>2 DEF DelChallenge, Del, Restrict
  <2>4. RootsKept /\ CookiesKept
    BY <1>3, SameRoots DEF DelChallenge, RootsKept, CookiesKept
  <2>5. j.at # "Reply" /\ req[r].at # "Reply" /\ j.at \notin Leaving
    BY <2>1 DEF Leaving
  <2> QED
    BY <2>1, <2>3, <2>4, <2>5, QuietCallFits
<1>4. CASE FindAuthenticator(r)
  BY <1>1, <1>4, FindAuthenticatorMoves, IdleJob DEF FindAuthenticator, CookiesKept, Leaving
<1>5. CASE UpdatePasskeyCounter(r)
  BY <1>1, <1>5, UpdateCounterMoves, IdleJob DEF UpdatePasskeyCounter, CookiesKept, Leaving
<1>6. CASE ReplyLogout(r)
  <2>1. /\ Goto(r, Idle) /\ req[r].at = "ReplyLogout"
        /\ session' = session /\ late' = late /\ challenge' = challenge /\ CookiesKept
    BY <1>6, ReplyLogoutKeeps DEF ReplyLogout, Waits
  <2> QED
    BY <1>1, <2>1, IdleJob DEF Follows, Leaving
<1> QED
  BY <1>2, <1>3, <1>4, <1>5, <1>6, SetSessionFits, DelSessionFits, ReplyFits, DelLogoutFits
     DEF Continue

SessionInv == TypeOK /\ OverlapsShared /\ TokenInv /\ RootInv

LEMMA SessionInvStep == SessionInv /\ [Next]_vars => SessionInv'
<1> SUFFICES ASSUME SessionInv, [Next]_vars PROVE SessionInv'
  OBVIOUS
<1>1. TypeOK /\ OverlapsShared /\ TokenInv /\ RootInv /\ HistoriesKept
  BY HistoriesStep DEF SessionInv
<1>2. TypeOK' /\ OverlapsShared' /\ TokenInv'
  BY <1>1, NextTypeOK, OverlapsStep, TokenInvStep
<1> SUFFICES RootInv'
  BY <1>2 DEF SessionInv
<1>3. ASSUME req' = req, session' = session, late' = late, cookie' = cookie, challenge' = challenge
      PROVE  RootInv'
  <2>1. RootsKept /\ CookiesKept
    BY <1>3, SameRoots DEF RootsKept, CookiesKept
  <2> QED
    BY <1>1, <1>2, <1>3, <2>1, QuietRestFits
<1>4. CASE UNCHANGED vars
  BY <1>3, <1>4 DEF vars
<1>5. ASSUME NEW r \in Requests, Arrive(r) PROVE RootInv'
  BY <1>1, <1>2, <1>5, LoginFits, RefreshFits, LogoutFits, VerifyFits DEF Arrive
<1>6. ASSUME NEW r \in Requests, Continue(r) PROVE RootInv'
  BY <1>1, <1>2, <1>6, ContinueFits
<1>7. ASSUME NEW r \in Requests, Abort(r) PROVE RootInv'
  <2>1. /\ Goto(r, Idle) /\ challenge' = challenge /\ Root(req[r]) \in failed'
        /\ RootsKept /\ CookiesKept
    BY <1>7, SameRoots DEF Abort, RootsKept, CookiesKept
  <2>2. Idle \in Jobs /\ Follows(req[r], Idle) /\ Idle.at # "Reply" /\ Idle.at \notin Leaving
    BY IdleJob DEF Follows, Leaving
  <2> QED
    BY <1>1, <1>2, <2>1, <2>2, QuietCallFits
<1>8. ASSUME NEW t \in DOMAIN late, WriteSession(t) PROVE RootInv'
  <2>1. req' = req /\ challenge' = challenge /\ RootsKept /\ CookiesKept
    BY <1>1, <1>8, WriteRoots DEF WriteSession, RootsKept, CookiesKept
  <2> QED
    BY <1>1, <1>2, <2>1, QuietRestFits
<1>9. ASSUME NEW t \in DOMAIN late, LoseSession(t) PROVE RootInv'
  <2>1. req' = req /\ challenge' = challenge /\ RootsKept /\ CookiesKept
    BY <1>1, <1>2, <1>9, LoseTokens DEF LoseSession, CookiesKept
  <2> QED
    BY <1>1, <1>2, <2>1, QuietRestFits
<1>10. ASSUME NEW k \in FreshKeys, AuthenticateOptions(k) PROVE RootInv'
  BY <1>1, <1>2, <1>10, OptionsFits
<1>11. ASSUME NEW u \in Users, DeleteUser(u) \/ DeletePasskey(u) PROVE RootInv'
  BY <1>3, <1>11 DEF DeleteUser, DeletePasskey
<1>12. CASE Tick
  <2>1. req' = req /\ DOMAIN challenge' \subseteq DOMAIN challenge /\ RootsKept /\ CookiesKept
    BY <1>1, <1>2, <1>12, TickTokens, TickGet DEF Tick
  <2> QED
    BY <1>1, <1>2, <2>1, QuietRestFits
<1> QED
  BY <1>1, <1>4, <1>5, <1>6, <1>7, <1>8, <1>9, <1>10, <1>11, <1>12 DEF Next, Write, TypeOK

LEMMA InitSessionInv == Init => SessionInv
<1> SUFFICES ASSUME Init PROVE SessionInv
  OBVIOUS
<1>1. \A r \in Requests : req[r].at = "Idle"
  BY IdleJob DEF Init
<1>2. DOMAIN cookie = {} /\ DOMAIN challenge = {} /\ DOMAIN RootOf = {}
  BY Living DEF Init
<1>3. OverlapsShared
  BY InitCounterInv DEF CounterInv
<1>4. RootInv
  BY <1>1, <1>2 DEF RootInv, RequestsFit, ChallengesFit, OneBrowser, OneToken, CookiesFit,
     LogoutsFit, Busy, Waits, Leaving
<1> QED
  BY <1>3, <1>4, InitTypeOK, InitTokenInv DEF SessionInv

LEMMA SessionInvAlways == Spec => []SessionInv
  BY InitSessionInv, SessionInvStep, PTL DEF Spec

\* One login is one session at a time, whatever fails and whatever the other
\* sessions do, as long as no two requests of it overlap (refresh and
\* verifyAuthentication, src/auth/auth.service.ts: the old key is deleted before
\* the new one is set).
THEOREM OneSession == Spec => []OneSessionPerLogin
<1>1. SessionInv => OneSessionPerLogin
  BY DEF SessionInv, RootInv, OneToken, OneSessionPerLogin, RootOf
<1> QED
  BY <1>1, SessionInvAlways, PTL

\* Under the same condition, and if no answer was lost, a logout ends the whole
\* session, however often it was refreshed before (logout deletes only the token
\* that the cookie names, and that is the only one).
THEOREM LogoutEnds == Spec => []LogoutEndsSession
<1>1. ASSUME SessionInv, NEW r \in Requests, Waits(r, "ReplyLogout"),
             req[r].root \notin shared \cup failed, NEW t \in Alive
      PROVE  OwnerOf(t).root # req[r].root
  <2>1. req[r].at \in Leaving /\ req[r].root = Root(req[r])
    BY <1>1, JobShapes DEF SessionInv, TypeOK, Waits, Leaving
  <2>2. Only(req[r].root, {})
    BY <1>1, <2>1 DEF SessionInv, RootInv, LogoutsFit
  <2> QED
    BY <1>1, <2>2 DEF Only, RootOf
<1>2. SessionInv => LogoutEndsSession
  BY <1>1 DEF LogoutEndsSession
<1> QED
  BY <1>2, SessionInvAlways, PTL

-----------------------------------------------------------------------------
(* The session of a browser that waits for nothing.                        *)

\* An answer carries a session that lives for its whole time, unless it failed.
AnswersAlive ==
  \A r \in Requests : Waits(r, "Reply") =>
    /\ req[r].token \in DOMAIN RootOf \/ Root(req[r]) \in failed
    /\ req[r].token \in DOMAIN session => session[req[r].token].ttl = SessionTTL

\* A cookie is gone no later than its session.
CookiesExpire ==
  \A b \in DOMAIN cookie : cookie[b].token \in DOMAIN session =>
    cookie[b].ttl <= session[cookie[b].token].ttl

\* Who deleted the session of a cookie has yet to answer the browser.
Answering(r, b, root) ==
  req[r].at \in {"Reply", "ReplyLogout"} /\ req[r].by = b /\ Root(req[r]) = root

CookiesAnswered ==
  \A b \in DOMAIN cookie :
    cookie[b].token \notin DOMAIN RootOf /\ cookie[b].root \notin failed =>
      \E r \in Requests : Answering(r, b, cookie[b].root)

HeldInv == AnswersAlive /\ CookiesExpire /\ CookiesAnswered

\* The stores and the cookies stay, and no answer is sent or arrives.
LEMMA QuietHeld ==
  ASSUME TypeOK, HeldInv, HistoriesKept, session' = session, late' = late, cookie' = cookie,
         \A q \in Requests : req[q].at \in {"Reply", "ReplyLogout"} =>
           req'[q] = req[q] \/ Root(req[q]) \in failed',
         \A q \in Requests : req'[q].at = "Reply" => req'[q] = req[q]
  PROVE  HeldInv'
<1>1. RootOf' = RootOf
  BY SameRoots
<1>2. AnswersAlive'
  BY <1>1, RootsInUseToo DEF HeldInv, AnswersAlive, Waits, HistoriesKept
<1>3. CookiesExpire'
  BY DEF HeldInv, CookiesExpire
<1>4. CookiesAnswered'
  <2> SUFFICES ASSUME NEW b \in DOMAIN cookie, cookie[b].token \notin DOMAIN RootOf,
                      NEW x, x = cookie[b].root, x \notin failed'
               PROVE  \E q \in Requests : Answering(q, b, x)'
    BY <1>1 DEF CookiesAnswered
  <2>1. x \notin failed
    BY RootsInUseToo DEF HistoriesKept
  <2>2. PICK q \in Requests : Answering(q, b, x)
    BY <2>1 DEF HeldInv, CookiesAnswered
  <2>3. req'[q] = req[q]
    BY <2>2 DEF Answering
  <2> QED
    BY <2>2, <2>3 DEF Answering
<1> QED
  BY <1>2, <1>3, <1>4 DEF HeldInv

LEMMA SetSessionHeld ==
  ASSUME TypeOK, TokenInv, HeldInv, NEW r \in Requests, SetSession(r)
  PROVE  HeldInv'
<1> DEFINE k == req[r].token
           row == [owner |-> req[r].owner, ttl |-> SessionTTL]
<1>1. PICK j \in Jobs : /\ req[r].at = "SetSession" /\ Goto(r, j) /\ Step(r, j)
                        /\ j.at = "Reply" /\ Follows(req[r], j)
  BY SetSessionMoves
<1>2. session' = Put(session, k, row) /\ cookie' = cookie /\ failed' = failed
  BY DEF SetSession
<1>3. /\ k \notin DOMAIN RootOf
      /\ \A b \in DOMAIN cookie : cookie[b].token # k
      /\ \A q \in Requests \ {r} : req[q].at = "Reply" => req[q].token # k
  BY <1>1 DEF TokenInv, TokensUnwritten, TokensPrivate, Draws, Drawing, Beginning
<1>4. DOMAIN RootOf' = DOMAIN RootOf \cup {k}
  BY <1>3, SetSessionRoots
<1>5. /\ req'[r] = j /\ j.token = k /\ j.at = "Reply"
      /\ \A q \in Requests \ {r} : req'[q] = req[q]
  BY <1>1, FollowsDraws DEF Step, TypeOK
<1>6. row.ttl = SessionTTL
  OBVIOUS
<1> HIDE DEF k, row
<1>7. /\ DOMAIN session' = DOMAIN session \cup {k} /\ session'[k] = row
      /\ \A x \in DOMAIN session : x # k => session'[x] = session[x]
  BY <1>2 DEF Put
<1>8. AnswersAlive'
  BY <1>2, <1>3, <1>4, <1>5, <1>6, <1>7 DEF HeldInv, AnswersAlive, Waits
<1>9. CookiesExpire'
  BY <1>2, <1>3, <1>7 DEF HeldInv, CookiesExpire
<1>10. CookiesAnswered'
  BY <1>1, <1>2, <1>4, <1>5 DEF HeldInv, CookiesAnswered, Answering
<1> QED
  BY <1>8, <1>9, <1>10 DEF HeldInv

\* Who deletes the session of a cookie answers its browser.
LEMMA EndsHeld ==
  ASSUME TypeOK, TokenInv, HeldInv, NEW r \in Requests, NEW j \in Jobs, Step(r, j),
         Follows(req[r], j), req[r].at \in {"DelSession", "DelLogout"},
         j.at \in {"Reply", "ReplyLogout"}, cookie' = cookie, failed' = failed,
         j.at = "Reply" => j.token \in DOMAIN RootOf' /\ j.token \notin DOMAIN session',
         DOMAIN RootOf \ {req[r].old} \subseteq DOMAIN RootOf',
         DOMAIN session' \subseteq DOMAIN session,
         \A t \in DOMAIN session' : session'[t] = session[t]
  PROVE  HeldInv'
<1>1. /\ req'[r] = j /\ Brings(r)
      /\ \A q \in Requests \ {r} : req'[q] = req[q]
  BY DEF Step, Brings, Replacing, Leaving
<1>2. j.by = req[r].by /\ Root(j) = Root(req[r])
  BY DEF Follows, Idle
<1>3. \A q \in Requests \ {r} : req[q].at = "Reply" => req[q].token # req[r].old
  BY <1>1 DEF TokenInv, TokensPrivate, Draws
<1>4. AnswersAlive'
  BY <1>1, <1>3 DEF HeldInv, AnswersAlive, Waits
<1>5. CookiesExpire'
  BY DEF HeldInv, CookiesExpire
<1>6. CookiesAnswered'
  <2> SUFFICES ASSUME NEW b \in DOMAIN cookie, cookie[b].token \notin DOMAIN RootOf',
                      NEW x, x = cookie[b].root, x \notin failed
               PROVE  \E q \in Requests : Answering(q, b, x)'
    BY DEF CookiesAnswered
  <2>1. CASE cookie[b].token = req[r].old
    <3>1. j.by = b /\ Root(j) = x
      BY <1>1, <1>2, <2>1 DEF TokenInv, CookiesApart
    <3> QED
      BY <1>1, <3>1 DEF Answering
  <2>2. CASE cookie[b].token # req[r].old
    <3>1. PICK q \in Requests : Answering(q, b, x)
      BY <2>2 DEF HeldInv, CookiesAnswered
    <3>2. q # r
      BY <3>1 DEF Answering
    <3> QED
      BY <1>1, <3>1, <3>2 DEF Answering
  <2> QED
    BY <2>1, <2>2
<1> QED
  BY <1>4, <1>5, <1>6 DEF HeldInv

LEMMA DelSessionHeld ==
  ASSUME TypeOK, TokenInv, HeldInv, NEW r \in Requests, DelSession(r)
  PROVE  HeldInv'
<1>1. PICK j \in Jobs : /\ req[r].at = "DelSession" /\ Goto(r, j) /\ Step(r, j)
                        /\ j.at = "Reply" /\ Follows(req[r], j)
  BY DelSessionMoves
<1>2. cookie' = cookie /\ failed' = failed
      /\ DOMAIN session' \subseteq DOMAIN session
      /\ \A t \in DOMAIN session' : session'[t] = session[t]
  BY DEF DelSession, Del, Restrict
<1>3. j.token = req[r].token
  BY <1>1, FollowsDraws DEF TypeOK
<1>4. /\ req[r].token \notin DOMAIN RootOf /\ req[r].old \notin DOMAIN late
      /\ req[r].old # req[r].token
  BY <1>1 DEF TokenInv, TokensUnwritten, LateApart, TokensPrivate, Draws, Brings, Drawing,
     Replacing
<1>5. DOMAIN RootOf' = (DOMAIN RootOf \ {req[r].old}) \cup {j.token}
  BY <1>3, <1>4, DelSessionRoots
<1>6. j.token \notin DOMAIN session'
  BY <1>2, <1>3, <1>4, Living
<1> QED
  BY <1>1, <1>2, <1>5, <1>6, EndsHeld

LEMMA DelLogoutHeld ==
  ASSUME TypeOK, TokenInv, HeldInv, NEW r \in Requests, DelLogout(r)
  PROVE  HeldInv'
<1>1. PICK j \in Jobs : /\ req[r].at = "DelLogout" /\ Goto(r, j) /\ Step(r, j)
                        /\ j.at = "ReplyLogout" /\ Follows(req[r], j)
  BY DelLogoutMoves
<1>2. cookie' = cookie /\ failed' = failed
      /\ DOMAIN session' \subseteq DOMAIN session
      /\ \A t \in DOMAIN session' : session'[t] = session[t]
  BY DEF DelLogout, Del, Restrict
<1>3. DOMAIN RootOf' = DOMAIN RootOf \ {req[r].old}
  BY <1>1, DelLogoutRoots DEF TokenInv, LateApart, Brings, Leaving
<1> QED
  BY <1>1, <1>2, <1>3, EndsHeld

LEMMA WriteHeld ==
  ASSUME TypeOK, TokenInv, HeldInv, NEW t \in DOMAIN late, WriteSession(t)
  PROVE  HeldInv'
<1>1. req' = req /\ cookie' = cookie /\ failed' = failed /\ RootOf' = RootOf
  BY WriteRoots DEF WriteSession
<1>2. /\ DOMAIN session' = DOMAIN session \cup {t} /\ session'[t].ttl = SessionTTL
      /\ \A x \in DOMAIN session : x # t => session'[x] = session[x]
  BY DEF WriteSession, Put
<1>3. AnswersAlive'
  BY <1>1, <1>2 DEF HeldInv, AnswersAlive, Waits
<1>4. CookiesExpire'
  <2>1. \A b \in DOMAIN cookie : cookie[b].ttl <= SessionTTL
    BY Lifetimes DEF TypeOK
  <2> QED
    BY <1>1, <1>2, <2>1 DEF HeldInv, CookiesExpire
<1>5. CookiesAnswered'
  BY <1>1 DEF HeldInv, CookiesAnswered, Answering
<1> QED
  BY <1>3, <1>4, <1>5 DEF HeldInv

LEMMA LoseHeld ==
  ASSUME TypeOK, TokenInv, HeldInv, NEW t \in DOMAIN late, LoseSession(t)
  PROVE  HeldInv'
<1>1. /\ req' = req /\ cookie' = cookie /\ session' = session
      /\ failed' = failed \cup {late[t].root}
  BY DEF LoseSession
<1>2. DOMAIN RootOf' = DOMAIN RootOf \ {t}
  BY LoseRoots DEF TokenInv, LateApart
<1>3. t \in DOMAIN RootOf /\ RootOf[t] = late[t].root
  BY Living
<1>4. AnswersAlive'
  BY <1>1, <1>2, <1>3 DEF HeldInv, AnswersAlive, Waits, TokenInv, RootsFit
<1>5. CookiesExpire'
  BY <1>1 DEF HeldInv, CookiesExpire
<1>6. CookiesAnswered'
  BY <1>1, <1>2, <1>3 DEF HeldInv, CookiesAnswered, Answering, TokenInv, RootsFit
<1> QED
  BY <1>4, <1>5, <1>6 DEF HeldInv

LEMMA ReplyHeld ==
  ASSUME TypeOK, TokenInv, HeldInv, NEW r \in Requests, Reply(r)
  PROVE  HeldInv'
<1> DEFINE c == [token |-> req[r].token, root |-> req[r].owner.root, ttl |-> CookieTTL]
           by == req[r].by
<1>1. /\ req[r].at = "Reply" /\ Goto(r, Idle) /\ session' = session /\ failed' = failed
      /\ RootOf' = RootOf
  BY SameRoots DEF Reply, Waits
<1>2. cookie' = Put(cookie, by, c)
  BY DEF Reply
<1>3. c.token = req[r].token /\ c.root = Root(req[r]) /\ c.ttl = CookieTTL
  BY <1>1, JobShapes DEF TypeOK
<1>4. req'[r].at = "Idle" /\ \A q \in Requests \ {r} : req'[q] = req[q]
  BY <1>1, Moves, IdleJob
<1> HIDE DEF c
<1>5. /\ DOMAIN cookie' = DOMAIN cookie \cup {by} /\ cookie'[by] = c
      /\ \A b \in DOMAIN cookie : b # by => cookie'[b] = cookie[b]
  BY <1>2 DEF Put
<1>6. AnswersAlive'
  BY <1>1, <1>4 DEF HeldInv, AnswersAlive, Waits
<1>7. CookiesExpire'
  <2>1. c.token \in DOMAIN session => c.ttl <= session[c.token].ttl
    BY <1>1, <1>3, Lifetimes DEF HeldInv, AnswersAlive, Waits
  <2> HIDE DEF by
  <2> QED
    BY <1>1, <1>5, <2>1 DEF HeldInv, CookiesExpire
<1>8. CookiesAnswered'
  <2> SUFFICES ASSUME NEW b \in DOMAIN cookie', cookie'[b].token \notin DOMAIN RootOf,
                      NEW x, x = cookie'[b].root, x \notin failed
               PROVE  \E q \in Requests : Answering(q, b, x)'
    BY <1>1 DEF CookiesAnswered
  <2>1. CASE b = by
    BY <1>1, <1>3, <1>5, <2>1 DEF HeldInv, AnswersAlive, Waits
  <2>2. CASE b # by
    <3>1. b \in DOMAIN cookie /\ cookie'[b] = cookie[b]
      BY <1>5, <2>2
    <3>2. PICK q \in Requests : Answering(q, b, x)
      BY <3>1 DEF HeldInv, CookiesAnswered
    <3>3. q # r
      BY <2>2, <3>2 DEF Answering
    <3> QED
      BY <1>4, <3>2, <3>3 DEF Answering
  <2> QED
    BY <2>1, <2>2
<1> QED
  BY <1>6, <1>7, <1>8 DEF HeldInv

LEMMA ReplyLogoutHeld ==
  ASSUME TypeOK, HeldInv, NEW r \in Requests, ReplyLogout(r)
  PROVE  HeldInv'
<1>1. /\ req[r].at = "ReplyLogout" /\ Goto(r, Idle) /\ session' = session /\ failed' = failed
      /\ RootOf' = RootOf
  BY SameRoots DEF ReplyLogout, Waits
<1>2. /\ DOMAIN cookie' = DOMAIN cookie \ {req[r].by}
      /\ \A b \in DOMAIN cookie' : cookie'[b] = cookie[b]
  BY DEF ReplyLogout, Del, Restrict
<1>3. req'[r].at = "Idle" /\ \A q \in Requests \ {r} : req'[q] = req[q]
  BY <1>1, Moves, IdleJob
<1>4. AnswersAlive' /\ CookiesExpire'
  BY <1>1, <1>2, <1>3 DEF HeldInv, AnswersAlive, CookiesExpire, Waits
<1>5. CookiesAnswered'
  <2> SUFFICES ASSUME NEW b \in DOMAIN cookie', cookie'[b].token \notin DOMAIN RootOf,
                      NEW x, x = cookie'[b].root, x \notin failed
               PROVE  \E q \in Requests : Answering(q, b, x)'
    BY <1>1 DEF CookiesAnswered
  <2>1. PICK q \in Requests : Answering(q, b, x)
    BY <1>2 DEF HeldInv, CookiesAnswered
  <2>2. q # r
    BY <1>2, <2>1 DEF Answering
  <2> QED
    BY <1>3, <2>1, <2>2 DEF Answering
<1> QED
  BY <1>4, <1>5 DEF HeldInv

\* A tick takes the same from a session and from its cookie.
LEMMA TickHeld ==
  ASSUME TypeOK, HeldInv, Tick
  PROVE  HeldInv'
<1>1. req' = req /\ failed' = failed /\ \A r \in Requests : ~Waits(r, "Reply")
  BY DEF Tick
<1>2. AnswersAlive'
  BY <1>1 DEF AnswersAlive, Waits
<1>3. /\ \A t \in DOMAIN session : session[t].ttl \in Nat
      /\ \A b \in DOMAIN cookie : cookie[b].ttl \in Nat
  BY Lifetimes DEF TypeOK
<1>4. CookiesExpire'
  BY <1>3, TickGet DEF HeldInv, CookiesExpire
<1>5. CookiesAnswered'
  <2> SUFFICES ASSUME NEW b \in DOMAIN cookie', cookie'[b].token \notin DOMAIN RootOf',
                      NEW x, x = cookie'[b].root, x \notin failed
               PROVE  \E q \in Requests : Answering(q, b, x)'
    BY <1>1 DEF CookiesAnswered
  <2>1. /\ b \in DOMAIN cookie /\ cookie[b].ttl > 1
        /\ cookie'[b].token = cookie[b].token /\ cookie'[b].root = cookie[b].root
    BY TickGet
  <2>2. cookie[b].token \notin DOMAIN RootOf
    <3>1. ASSUME cookie[b].token \in DOMAIN session PROVE FALSE
      <4>1. session[cookie[b].token].ttl > 1
        BY <1>3, <2>1, <3>1 DEF HeldInv, CookiesExpire
      <4> QED
        BY <2>1, <3>1, <4>1, TickRoots
    <3> QED
      BY <3>1, TickRoots
  <2>3. \E q \in Requests : Answering(q, b, x)
    BY <2>1, <2>2 DEF HeldInv, CookiesAnswered
  <2> QED
    BY <1>1, <2>3 DEF Answering
<1> QED
  BY <1>2, <1>4, <1>5 DEF HeldInv

LEMMA HeldInvStep == TypeOK /\ TokenInv /\ HeldInv /\ [Next]_vars => HeldInv'
<1> SUFFICES ASSUME TypeOK, TokenInv, HeldInv, [Next]_vars PROVE HeldInv'
  OBVIOUS
<1>1. HistoriesKept
  BY HistoriesStep
<1>2. ASSUME req' = req, session' = session, late' = late, cookie' = cookie PROVE HeldInv'
  BY <1>1, <1>2, QuietHeld
<1>3. ASSUME NEW r \in Requests, NEW j \in Jobs, Goto(r, j), j.at # "Reply",
             req[r].at \in {"Reply", "ReplyLogout"} => Root(req[r]) \in failed',
             session' = session, late' = late, cookie' = cookie
      PROVE  HeldInv'
  <2>1. req'[r] = j /\ \A q \in Requests \ {r} : req'[q] = req[q]
    BY <1>3, Moves
  <2>2. \A q \in Requests : req[q].at \in {"Reply", "ReplyLogout"} =>
          req'[q] = req[q] \/ Root(req[q]) \in failed'
    BY <1>3, <2>1
  <2>3. \A q \in Requests : req'[q].at = "Reply" => req'[q] = req[q]
    BY <1>3, <2>1
  <2> QED
    BY <1>1, <1>3, <2>2, <2>3, QuietHeld
<1>4. CASE UNCHANGED vars
  BY <1>2, <1>4 DEF vars
<1>5. ASSUME NEW r \in Requests, Arrive(r) PROVE HeldInv'
  <2>1. session' = session /\ late' = late /\ cookie' = cookie
    BY <1>5 DEF Arrive, Login, Refresh, Logout, VerifyAuthentication
  <2>2. \E j \in Jobs : Goto(r, j) /\ j.at # "Reply" /\ req[r].at = "Idle"
    BY <1>5, LoginMoves, RefreshMoves, LogoutMoves, VerifyMoves DEF Arrive
  <2> QED
    BY <1>3, <2>1, <2>2
<1>6. ASSUME NEW r \in Requests, Continue(r) PROVE HeldInv'
  <2>1. CASE FindUser(r)
    BY <1>3, <2>1, FindUserMoves, IdleJob DEF FindUser
  <2>2. CASE DelChallenge(r)
    BY <1>3, <2>2, DelChallengeMoves DEF DelChallenge
  <2>3. CASE FindAuthenticator(r)
    BY <1>3, <2>3, FindAuthenticatorMoves, IdleJob DEF FindAuthenticator
  <2>4. CASE UpdatePasskeyCounter(r)
    BY <1>3, <2>4, UpdateCounterMoves, IdleJob DEF UpdatePasskeyCounter
  <2> QED
    BY <1>6, <2>1, <2>2, <2>3, <2>4, SetSessionHeld, DelSessionHeld, ReplyHeld, DelLogoutHeld,
       ReplyLogoutHeld DEF Continue
<1>7. ASSUME NEW r \in Requests, Abort(r) PROVE HeldInv'
  BY <1>3, <1>7, IdleJob DEF Abort
<1>8. CASE Write
  BY <1>8, WriteHeld, LoseHeld DEF Write
<1>9. ASSUME NEW k \in FreshKeys, AuthenticateOptions(k) PROVE HeldInv'
  BY <1>2, <1>9 DEF AuthenticateOptions
<1>10. ASSUME NEW u \in Users, DeleteUser(u) \/ DeletePasskey(u) PROVE HeldInv'
  BY <1>2, <1>10 DEF DeleteUser, DeletePasskey
<1>11. CASE Tick
  BY <1>11, TickHeld
<1> QED
  BY <1>4, <1>5, <1>6, <1>7, <1>8, <1>9, <1>10, <1>11 DEF Next, TypeOK

LEMMA InitHeldInv == Init => HeldInv
<1> SUFFICES ASSUME Init PROVE HeldInv
  OBVIOUS
<1>1. (\A r \in Requests : req[r].at = "Idle") /\ DOMAIN cookie = {}
  BY IdleJob DEF Init
<1> QED
  BY <1>1 DEF HeldInv, AnswersAlive, CookiesExpire, CookiesAnswered, Waits

\* Whatever several tabs do at once and in whatever order the answers arrive, a
\* browser with no request in flight holds a session that is alive, unless a call
\* of that session failed (refresh, src/auth/auth.service.ts: the user is looked
\* up first, the old session deleted next, the new one written last).
THEOREM HeldSessions == Spec => []HeldSessionsAlive
<1>1. HeldInv => HeldSessionsAlive
  BY DEF HeldInv, CookiesAnswered, Answering, HeldSessionsAlive, RootOf, Busy, Waits
<1>2. Init => TypeOK /\ TokenInv /\ HeldInv
  BY InitTypeOK, InitTokenInv, InitHeldInv
<1>3. TypeOK /\ TokenInv /\ HeldInv /\ [Next]_vars => (TypeOK /\ TokenInv /\ HeldInv)'
  BY NextTypeOK, TokenInvStep, HeldInvStep
<1> QED
  BY <1>1, <1>2, <1>3, PTL DEF Spec

=============================================================================
