------------------------------ MODULE Sessions ------------------------------
(***************************************************************************)
(* The sessions of the account front end: AuthService (src/src/auth) over  *)
(* Redis (session tokens and passkey challenges) and PostgreSQL (users and *)
(* passkeys).  A browser keeps its session token in a cookie and may have  *)
(* several requests in flight, as with several tabs.                       *)
(*                                                                         *)
(* As in Oauth, one action is one store call with the code up to the next  *)
(* await.  The write of a refreshed session is not awaited: it goes to     *)
(* "late" and reaches Redis later.  There is one instance of the server,   *)
(* and its one connection to Redis keeps the order of the commands, so the *)
(* write comes before any command that names the new token.                *)
(***************************************************************************)
EXTENDS Naturals, Functions

CONSTANTS
  Users, Browsers, Requests,
  Tokens,        \* the session tokens that can be drawn
  Logins, Keys,  \* the identities of password logins and of passkey challenges
  MaxCount,      \* bound of the passkeys' signature counters
  SessionTTL, CookieTTL, ChallengeTTL,   \* lifetimes, in ticks
  Failures       \* TRUE: store calls may fail and replies may get lost

\* The same number is the cookie's lifetime in milliseconds and the session's in
\* seconds (expires and EX).
ASSUME LifetimesAssumption ==
  /\ {SessionTTL, CookieTTL, ChallengeTTL} \subseteq Nat \ {0}
  /\ CookieTTL <= SessionTTL

ASSUME BoundsAssumption ==
  MaxCount \in Nat /\ Failures \in BOOLEAN /\ Logins \cap Keys = {}

VARIABLES
  users,      \* users that have a row
  counter,    \* user -> signature counter of the user's passkey; its row
  session,    \* token -> Redis entry under the refreshToken prefix
  late,       \* token -> session whose write was issued and not yet done
  challenge,  \* key -> ticks left; Redis entries under the passkey prefix
  cookie,     \* browser -> its session cookie
  req,        \* what each request is waiting for, with its local variables
  shared,     \* history: the roots of requests that overlapped
  failed      \* history: the roots with a call that failed or an answer that was lost

vars == <<users, counter, session, late, challenge, cookie, req, shared, failed>>

Idle == [at |-> "Idle"]

\* The session a request is about; "root" is the login it descends from.
Owner == [user : Users, root : Logins \cup Keys]

Jobs ==
  {Idle}
  \cup [at : {"SetSession", "Reply"}, by : Browsers, owner : Owner, token : Tokens]
  \cup [at : {"FindUser", "DelSession"}, by : Browsers, owner : Owner, old : Tokens, token : Tokens]
  \cup [at : {"DelLogout", "ReplyLogout"}, by : Browsers, root : Logins \cup Keys, old : Tokens]
  \cup [at : {"DelChallenge", "FindAuthenticator", "UpdateCounter"}, by : Browsers,
        owner : Owner, token : Tokens, count : 0..MaxCount]

TypeOK ==
  /\ users \subseteq Users
  /\ DOMAIN counter \subseteq users
  /\ \A u \in DOMAIN counter : counter[u] \in 0..MaxCount
  /\ DOMAIN session \cup DOMAIN late \subseteq Tokens
  /\ \A t \in DOMAIN session : session[t] \in [owner : Owner, ttl : 1..SessionTTL]
  /\ \A t \in DOMAIN late : late[t] \in Owner
  /\ DOMAIN challenge \subseteq Keys
  /\ \A k \in DOMAIN challenge : challenge[k] \in 1..ChallengeTTL
  /\ DOMAIN cookie \subseteq Browsers
  /\ \A b \in DOMAIN cookie :
       cookie[b] \in [token : Tokens, root : Logins \cup Keys, ttl : 1..CookieTTL]
  /\ req \in [Requests -> Jobs]
  /\ shared \cup failed \subseteq Logins \cup Keys

Init ==
  /\ users = Users
  /\ counter = [u \in Users |-> 0]
  /\ session = <<>> /\ late = <<>> /\ challenge = <<>> /\ cookie = <<>>
  /\ req = [r \in Requests |-> Idle] /\ shared = {} /\ failed = {}

-----------------------------------------------------------------------------
(* Helpers.                                                                *)

Put(store, k, v) == [x \in DOMAIN store \cup {k} |-> IF x = k THEN v ELSE store[x]]

\* Mutant: the deletion misses the key, as with another prefix.
DelMissed(store, k) == store

Del(store, k) == Restrict(store, DOMAIN store \ {k})

Waits(r, call) == req[r].at = call
Busy == {r \in Requests : ~Waits(r, "Idle")}
Root(job) == IF "owner" \in DOMAIN job THEN job.owner.root ELSE job.root

\* What some variable names; the rest of the pools can be drawn.
TokensInUse ==
  DOMAIN session \cup DOMAIN late \cup {cookie[b].token : b \in DOMAIN cookie}
  \cup {req[r].token : r \in {q \in Busy : "token" \in DOMAIN req[q]}}
  \cup {req[r].old : r \in {q \in Busy : "old" \in DOMAIN req[q]}}

RootsInUse ==
  {session[t].owner.root : t \in DOMAIN session} \cup {late[t].root : t \in DOMAIN late}
  \cup {cookie[b].root : b \in DOMAIN cookie}
  \cup {Root(req[r]) : r \in Busy} \cup DOMAIN challenge

FreshTokens == Tokens \ TokensInUse
FreshLogins == Logins \ RootsInUse
FreshKeys == Keys \ RootsInUse

\* Two requests that are about one session, or about one passkey.
Overlap(job, other) ==
  \/ Root(job) = Root(other)
  \/ /\ "count" \in DOMAIN job \cap DOMAIN other
     /\ job.owner.user = other.owner.user

Goto(r, job) ==
  /\ req' = [req EXCEPT ![r] = job]
  /\ shared' = IF job = Idle THEN shared ELSE
       (shared \cap RootsInUse)
       \cup UNION {{Root(job), Root(req[q])} : q \in {x \in Busy \ {r} : Overlap(job, req[x])}}
Go(r, call) == Goto(r, [req[r] EXCEPT !.at = call])

Answer(r, b, owner, token) ==
  Goto(r, [at |-> "Reply", by |-> b, owner |-> owner, token |-> token])

-----------------------------------------------------------------------------
(* POST /auth/login, refresh and DELETE /auth/logout.                      *)

\* The read of the user by email, and the password fits.
Login(r, b, u, l, t) ==
  /\ Waits(r, "Idle")
  /\ u \in users
  /\ Goto(r, [at |-> "SetSession", by |-> b, owner |-> [user |-> u, root |-> l], token |-> t])
  /\ failed' = failed \ {l}
  /\ UNCHANGED <<users, counter, session, late, challenge, cookie>>

\* issueTokens: also the last store call of a passkey login.
SetSession(r) ==
  LET job == req[r] IN
  /\ Waits(r, "SetSession")
  /\ session' = Put(session, job.token, [owner |-> job.owner, ttl |-> SessionTTL])
  /\ Go(r, "Reply")
  /\ UNCHANGED <<users, counter, late, challenge, cookie, failed>>

\* Mutant: the session is deleted when it is read.
RefreshTaking(r, b, t) ==
  LET old == cookie[b].token IN
  /\ Waits(r, "Idle")
  /\ old \in DOMAIN session
  /\ session' = Del(session, old)
  /\ Goto(r, [at |-> "FindUser", by |-> b, owner |-> session[old].owner, old |-> old, token |-> t])
  /\ UNCHANGED <<users, counter, late, challenge, cookie, failed>>

\* The read of the session that the cookie names.
Refresh(r, b, t) ==
  LET old == cookie[b].token IN
  /\ Waits(r, "Idle")
  /\ old \in DOMAIN session
  /\ Goto(r, [at |-> "FindUser", by |-> b, owner |-> session[old].owner, old |-> old, token |-> t])
  /\ UNCHANGED <<users, counter, session, late, challenge, cookie, failed>>

\* Mutant: the user need not exist.
FindAnyUser(r) ==
  /\ Waits(r, "FindUser")
  /\ Go(r, "DelSession")
  /\ UNCHANGED <<users, counter, session, late, challenge, cookie, failed>>

\* The user must still exist; otherwise the old session stays.
FindUser(r) ==
  /\ Waits(r, "FindUser")
  /\ IF req[r].owner.user \in users THEN Go(r, "DelSession") ELSE Goto(r, Idle)
  /\ UNCHANGED <<users, counter, session, late, challenge, cookie, failed>>

\* Mutant: the old session stays.
DelSessionKept(r) ==
  LET job == req[r] IN
  /\ Waits(r, "DelSession")
  /\ late' = Put(late, job.token, job.owner)
  /\ Answer(r, job.by, job.owner, job.token)
  /\ UNCHANGED <<users, counter, session, challenge, cookie, failed>>

\* The old session goes, the new one is written without waiting for it.
DelSession(r) ==
  LET job == req[r] IN
  /\ Waits(r, "DelSession")
  /\ session' = Del(session, job.old)
  /\ late' = Put(late, job.token, job.owner)
  /\ Answer(r, job.by, job.owner, job.token)
  /\ UNCHANGED <<users, counter, challenge, cookie, failed>>

WriteSession(t) ==
  /\ session' = Put(session, t, [owner |-> late[t], ttl |-> SessionTTL])
  /\ late' = Del(late, t)
  /\ UNCHANGED <<users, counter, challenge, cookie, req, shared, failed>>

\* The answer arrives: the browser overwrites its cookie.
Reply(r) ==
  LET job == req[r] IN
  /\ Waits(r, "Reply")
  /\ cookie' = Put(cookie, job.by, [token |-> job.token, root |-> job.owner.root, ttl |-> CookieTTL])
  /\ Goto(r, Idle)
  /\ UNCHANGED <<users, counter, session, late, challenge, failed>>

Logout(r, b) ==
  /\ Waits(r, "Idle")
  /\ cookie[b].token \notin DOMAIN late
  /\ Goto(r, [at |-> "DelLogout", by |-> b, root |-> cookie[b].root, old |-> cookie[b].token])
  /\ UNCHANGED <<users, counter, session, late, challenge, cookie, failed>>

\* Mutant: only the cookie is cleared.
DelLogoutCookie(r) ==
  /\ Waits(r, "DelLogout")
  /\ Go(r, "ReplyLogout")
  /\ UNCHANGED <<users, counter, session, late, challenge, cookie, failed>>

DelLogout(r) ==
  /\ Waits(r, "DelLogout")
  /\ session' = Del(session, req[r].old)
  /\ Go(r, "ReplyLogout")
  /\ UNCHANGED <<users, counter, late, challenge, cookie, failed>>

ReplyLogout(r) ==
  /\ Waits(r, "ReplyLogout")
  /\ cookie' = Del(cookie, req[r].by)
  /\ Goto(r, Idle)
  /\ UNCHANGED <<users, counter, session, late, challenge, failed>>

-----------------------------------------------------------------------------
(* POST /auth/passkey and /auth/passkey/verify.                            *)

AuthenticateOptions(k) ==
  /\ challenge' = Put(challenge, k, ChallengeTTL)
  /\ shared' = shared \ {k} /\ failed' = failed \ {k}
  /\ UNCHANGED <<users, counter, session, late, cookie, req>>

\* The read of the challenge k, which the passkey of u signed with count n.
VerifyAuthentication(r, b, k, u, n, t) ==
  /\ Waits(r, "Idle")
  /\ k \in DOMAIN challenge
  /\ Goto(r, [at |-> "DelChallenge", by |-> b, owner |-> [user |-> u, root |-> k],
              token |-> t, count |-> n])
  /\ UNCHANGED <<users, counter, session, late, challenge, cookie, failed>>

DelChallenge(r) ==
  /\ Waits(r, "DelChallenge")
  /\ challenge' = Del(challenge, req[r].owner.root)
  /\ Go(r, "FindAuthenticator")
  /\ UNCHANGED <<users, counter, session, late, cookie, failed>>

\* Mutant: the stored counter is not handed to the check.
CountsAny(n, stored) == TRUE

\* What verifyAuthenticationResponse asks of the counter: it grows, or the
\* passkey does not count at all.
Counts(n, stored) == n > stored \/ (n = 0 /\ stored = 0)

\* The read of the passkey, and the check of the signature and the counter.
FindAuthenticator(r) ==
  LET u == req[r].owner.user IN
  /\ Waits(r, "FindAuthenticator")
  /\ IF u \in DOMAIN counter /\ Counts(req[r].count, counter[u])
       THEN Go(r, "UpdateCounter") ELSE Goto(r, Idle)
  /\ UNCHANGED <<users, counter, session, late, challenge, cookie, failed>>

\* Prisma refuses to update a passkey that is gone.
UpdatePasskeyCounter(r) ==
  LET job == req[r] IN
  /\ Waits(r, "UpdateCounter")
  /\ IF job.owner.user \in DOMAIN counter
       THEN /\ counter' = [counter EXCEPT ![job.owner.user] = job.count]
            /\ Goto(r, [at |-> "SetSession", by |-> job.by, owner |-> job.owner,
                        token |-> job.token])
       ELSE Goto(r, Idle) /\ UNCHANGED counter
  /\ UNCHANGED <<users, session, late, challenge, cookie, failed>>

-----------------------------------------------------------------------------
(* Around the requests.                                                    *)

\* The rows of the user's passkeys go with the user, the sessions stay.
DeleteUser(u) ==
  /\ users' = users \ {u}
  /\ counter' = Del(counter, u)
  /\ UNCHANGED <<session, late, challenge, cookie, req, shared, failed>>

DeletePasskey(u) ==
  /\ counter' = Del(counter, u)
  /\ UNCHANGED <<users, session, late, challenge, cookie, req, shared, failed>>

\* Time passes; an answer arrives and a write is done within a tick.
Tick ==
  LET Older(store) == [k \in {x \in DOMAIN store : store[x].ttl > 1} |->
                         [store[k] EXCEPT !.ttl = @ - 1]] IN
  /\ \A r \in Requests : ~Waits(r, "Reply")
  /\ late = <<>>
  /\ session' = Older(session)
  /\ cookie' = Older(cookie)
  /\ challenge' = [k \in {x \in DOMAIN challenge : challenge[x] > 1} |-> challenge[k] - 1]
  /\ UNCHANGED <<users, counter, late, req, shared, failed>>

\* A store call fails, the process dies, or the answer is lost.
Abort(r) ==
  /\ Failures
  /\ ~Waits(r, "Idle")
  /\ failed' = failed \cup {Root(req[r])}
  /\ Goto(r, Idle)
  /\ UNCHANGED <<users, counter, session, late, challenge, cookie>>

\* Nobody waits for the write, and nobody hears of its failure.
LoseSession(t) ==
  /\ Failures
  /\ failed' = failed \cup {late[t].root}
  /\ late' = Del(late, t)
  /\ UNCHANGED <<users, counter, session, challenge, cookie, req, shared>>

Arrive(r) ==
  \/ \E b \in Browsers, u \in Users, l \in FreshLogins, t \in FreshTokens : Login(r, b, u, l, t)
  \/ \E b \in DOMAIN cookie, t \in FreshTokens : Refresh(r, b, t)
  \/ \E b \in DOMAIN cookie : Logout(r, b)
  \/ \E b \in Browsers, k \in Keys, u \in Users, n \in 0..MaxCount, t \in FreshTokens :
       VerifyAuthentication(r, b, k, u, n, t)

Continue(r) ==
  \/ SetSession(r) \/ FindUser(r) \/ DelSession(r) \/ Reply(r) \/ DelLogout(r) \/ ReplyLogout(r)
  \/ DelChallenge(r) \/ FindAuthenticator(r) \/ UpdatePasskeyCounter(r)

Write == \E t \in DOMAIN late : WriteSession(t) \/ LoseSession(t)

Next ==
  \/ \E r \in Requests : Arrive(r) \/ Continue(r) \/ Abort(r)
  \/ Write
  \/ \E k \in FreshKeys : AuthenticateOptions(k)
  \/ \E u \in users : DeleteUser(u)
  \/ \E u \in DOMAIN counter : DeletePasskey(u)
  \/ Tick

Spec == Init /\ [][Next]_vars

\* Store calls are answered, the write is done or lost, and time passes, whatever
\* the callers keep doing; nobody has to call.
Fairness == SF_vars(Tick) /\ WF_vars(Write) /\ \A r \in Requests : WF_vars(Continue(r))

FairSpec == Spec /\ Fairness

-----------------------------------------------------------------------------
(* Correctness.                                                            *)

\* The sessions that exist or are about to.
OwnerOf(t) == IF t \in DOMAIN late THEN late[t] ELSE session[t].owner
Alive == DOMAIN session \cup DOMAIN late

\* One login is one session at a time, whatever fails and whatever the other
\* sessions do, as long as no two requests of it overlap: a refresh replaces the
\* session, and a passkey challenge is answered once (refresh,
\* verifyAuthentication: the key is deleted before the next one is set).
OneSessionPerLogin ==
  \A s, t \in Alive :
    OwnerOf(s).root = OwnerOf(t).root /\ OwnerOf(s).root \notin shared => s = t

\* Under the same condition, and if no answer was lost, a logout ends the whole
\* session, however often it was refreshed before (logout deletes only the
\* token that the cookie names).
LogoutEndsSession ==
  \A r \in Requests : Waits(r, "ReplyLogout") /\ req[r].root \notin shared \cup failed =>
    \A t \in Alive : OwnerOf(t).root # req[r].root

\* Passkey logins that do not overlap never set a signature counter back, which
\* would let an old signature pass later (verifyAuthentication).
CounterNeverFalls ==
  [][\A u \in DOMAIN counter \cap DOMAIN counter' :
       \/ counter'[u] >= counter[u]
       \/ \E r \in Busy : req'[r] # req[r] /\ Root(req[r]) \in shared]_vars

\* Whatever several tabs do at once and in whatever order the answers arrive, a
\* browser with no request in flight holds a session that is alive, unless a
\* call of that session failed; a refused request leaves it as it was (refresh:
\* the user is looked up first, the old session deleted next, the new one
\* written last).
HeldSessionsAlive ==
  \A b \in DOMAIN cookie :
    (\A r \in Busy : req[r].by # b) /\ cookie[b].root \notin failed
      => cookie[b].token \in Alive

\* The sessions of a deleted user end for good, although the deletion leaves
\* them in Redis, refreshes in flight still write new ones, and the browser
\* goes on refreshing (refresh looks the user up; the time to live).
DeletedUsersSignedOut ==
  \A u \in Users : <>[](u \in users \/ \A t \in Alive : OwnerOf(t).user # u)
=============================================================================
