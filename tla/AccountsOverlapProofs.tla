------------------------ MODULE AccountsOverlapProofs ------------------------
(***************************************************************************)
(* Theorems about Accounts that hold unless requests about one user        *)
(* overlap.  They rest on one fact: an overlap is noticed, so that of a    *)
(* user whose promise still stands at most one request is under way.       *)
(***************************************************************************)
EXTENDS AccountsProofs

Stands(u, p) == <<u, p>> \notin spoiled

\* Two requests of one user that are under way at a time are noticed.
Noticed(calls, p) ==
  \A r, q \in Requests :
    r # q /\ job[r].at \in calls /\ job[q].at \in calls /\ job[r].user = job[q].user
    => ~Stands(job[r].user, p)

\* A request goes on among these calls, or it starts and is noticed.
Entered(r, calls, p) ==
  job'[r].at \in calls =>
    \/ job[r].at \in calls /\ job'[r].user = job[r].user
    \/ Busy(job'[r].user, calls) => <<job'[r].user, p>> \in spoiled'

LEMMA NoticedStep ==
  ASSUME NEW calls, NEW p, Noticed(calls, p), spoiled \subseteq spoiled',
         NEW r \in Requests, \A q \in Requests \ {r} : job'[q] = job[q], Entered(r, calls, p)
  PROVE  Noticed(calls, p)'
<1> SUFFICES ASSUME NEW q \in Requests, NEW s \in Requests, q # s,
                    job'[q].at \in calls, job'[s].at \in calls, job'[q].user = job'[s].user
             PROVE  <<job'[q].user, p>> \in spoiled'
  BY DEF Noticed, Stands
<1>1. ASSUME NEW x \in Requests \ {r}, job'[r].at \in calls, job'[x].at \in calls,
             job'[r].user = job'[x].user
      PROVE  <<job'[r].user, p>> \in spoiled'
  <2>1. job'[x] = job[x] /\ Busy(job'[r].user, calls)
    BY <1>1 DEF Busy
  <2>2. CASE job[r].at \in calls /\ job'[r].user = job[r].user
    BY <1>1, <2>1, <2>2 DEF Noticed, Stands
  <2> QED
    BY <1>1, <2>1, <2>2 DEF Entered
<1>2. CASE q # r /\ s # r
  BY <1>2 DEF Noticed, Stands
<1> QED
  BY <1>1, <1>2

\* What a step does to the request that takes it.
Moved(r) ==
  /\ \A q \in Requests \ {r} : job'[q] = job[q]
  /\ spoiled \subseteq spoiled'
  /\ Entered(r, PasswordCalls, "password")
  /\ Entered(r, ChallengeCalls, "challenge")

LEMMA StartMoved ==
  ASSUME TypeOK, NEW r \in Requests, NEW j,
         \/ j.at \in PasswordCalls /\ Start(r, j, PasswordCalls, "password")
         \/ j.at \in ChallengeCalls /\ Start(r, j, ChallengeCalls, "challenge")
  PROVE  Moved(r) /\ job'[r] = j
<1>1. job'[r] = j /\ \A q \in Requests \ {r} : job'[q] = job[q]
  BY DEF TypeOK, Start
<1>2. spoiled \subseteq spoiled'
  BY DEF Start
<1>3. PasswordCalls \cap ChallengeCalls = {}
  BY DEF PasswordCalls, ChallengeCalls
<1>4. CASE j.at \in PasswordCalls /\ Start(r, j, PasswordCalls, "password")
  BY <1>1, <1>2, <1>3, <1>4 DEF Moved, Entered, Start
<1>5. CASE j.at \in ChallengeCalls /\ Start(r, j, ChallengeCalls, "challenge")
  BY <1>1, <1>2, <1>3, <1>5 DEF Moved, Entered, Start
<1> QED
  BY <1>1, <1>4, <1>5

\* A request that ends, or goes on to a call that is in neither set.
LEMMA LeftMoved ==
  ASSUME TypeOK, NEW r \in Requests, NEW j, job' = [job EXCEPT ![r] = j],
         spoiled \subseteq spoiled', j.at \notin PasswordCalls \cup ChallengeCalls
  PROVE  Moved(r) /\ job'[r] = j
<1>1. job'[r] = j /\ \A q \in Requests \ {r} : job'[q] = job[q]
  BY DEF TypeOK
<1> QED
  BY <1>1 DEF Moved, Entered

LEMMA IdleMoved ==
  ASSUME TypeOK, NEW r \in Requests, job' = [job EXCEPT ![r] = Idle], spoiled \subseteq spoiled'
  PROVE  Moved(r) /\ job'[r] = Idle /\ Idle.at \notin PasswordCalls \cup ChallengeCalls
<1>1. Idle.at \notin PasswordCalls \cup ChallengeCalls
  BY DEF Idle, PasswordCalls, ChallengeCalls
<1> QED
  BY <1>1, LeftMoved

LEMMA IssueMoved ==
  ASSUME TypeOK, NEW r \in Requests, NEW u \in Users, NEW p \in Passwords, IssuePassword(r, u, p)
  PROVE  /\ Moved(r)
         /\ job'[r].at = "SendEmail" /\ job'[r].user = u /\ job'[r].old = NoPassword
<1> DEFINE j == [at |-> "SendEmail", user |-> u, password |-> p, old |-> NoPassword]
<1>1. Start(r, j, PasswordCalls, "password")
  BY DEF IssuePassword
<1>2. j.at = "SendEmail" /\ j.user = u /\ j.old = NoPassword
  OBVIOUS
<1> HIDE DEF j
<1> QED
  BY <1>1, <1>2, StartMoved DEF PasswordCalls

LEMMA ChangeMoved ==
  ASSUME TypeOK, NEW r \in Requests, NEW u \in Users, NEW old \in Passwords, NEW p \in Passwords,
         ChangePassword(r, u, old, p)
  PROVE  /\ Moved(r)
         /\ job'[r].at = "UpdateUserPassword" /\ job'[r].user = u /\ job'[r].old = old
<1> DEFINE j == [at |-> "UpdateUserPassword", user |-> u, password |-> p, old |-> old]
<1>1. Start(r, j, PasswordCalls, "password")
  BY DEF ChangePassword
<1>2. j.at = "UpdateUserPassword" /\ j.user = u /\ j.old = old
  OBVIOUS
<1> HIDE DEF j
<1> QED
  BY <1>1, <1>2, StartMoved DEF PasswordCalls

LEMMA CheckMoved ==
  ASSUME TypeOK, NEW r \in Requests, NEW u \in Users, NEW old \in Passwords,
         CheckPassword(r, u, old)
  PROVE  /\ Moved(r)
         /\ job'[r].at = "DeleteUser" /\ job'[r].user = u /\ job'[r].old = old
<1> DEFINE j == [at |-> "DeleteUser", user |-> u, old |-> old]
<1>1. Start(r, j, PasswordCalls, "password")
  BY DEF CheckPassword
<1>2. j.at = "DeleteUser" /\ j.user = u /\ j.old = old
  OBVIOUS
<1> HIDE DEF j
<1> QED
  BY <1>1, <1>2, StartMoved DEF PasswordCalls

LEMMA SendMoved ==
  ASSUME TypeOK, NEW r \in Requests, SendEmail(r)
  PROVE  /\ Moved(r)
         /\ job'[r].at = "UpdateUserPassword" /\ job'[r].user = job[r].user
         /\ job'[r].password = job[r].password /\ job'[r].old = job[r].old
<1> DEFINE j == [job[r] EXCEPT !.at = "UpdateUserPassword"]
<1>1. job[r] \in Jobs /\ job[r].at = "SendEmail" /\ Goto(r, j)
  BY DEF TypeOK, SendEmail, Waits, Go
<1>2. /\ j.at = "UpdateUserPassword"
      /\ j.user = job[r].user /\ j.password = job[r].password /\ j.old = job[r].old
  BY <1>1, MailedJob
<1> HIDE DEF j
<1>3. job'[r] = j /\ \A q \in Requests \ {r} : job'[q] = job[q]
  BY <1>1, Moves
<1>4. spoiled' = spoiled
  BY <1>1 DEF Goto
<1> QED
  BY <1>1, <1>2, <1>3, <1>4 DEF Moved, Entered, PasswordCalls, ChallengeCalls

LEMMA OptionsMoved ==
  ASSUME TypeOK, NEW r \in Requests, NEW u \in Users, NEW c \in Challenges,
         RegisterOptions(r, u, c)
  PROVE  /\ Moved(r)
         /\ job'[r].at = "SetChallenge" /\ job'[r].user = u /\ job'[r].challenge = c
<1> DEFINE j == [at |-> "SetChallenge", user |-> u, challenge |-> c]
<1>1. Start(r, j, ChallengeCalls, "challenge")
  BY DEF RegisterOptions
<1>2. j.at = "SetChallenge" /\ j.user = u /\ j.challenge = c
  OBVIOUS
<1> HIDE DEF j
<1> QED
  BY <1>1, <1>2, StartMoved DEF ChallengeCalls

LEMMA VerifyMoved ==
  ASSUME TypeOK, NEW r \in Requests, NEW u \in Users, NEW k \in Keys, NEW c \in DOMAIN offered,
         VerifyRegistration(r, u, k, c)
  PROVE  Moved(r) /\ job'[r].at = "GetChallenge"
<1> DEFINE j == [at |-> "GetChallenge", user |-> u, challenge |-> c, key |-> k]
<1>1. Start(r, j, ChallengeCalls, "challenge")
  BY DEF VerifyRegistration
<1>2. j.at = "GetChallenge"
  OBVIOUS
<1> HIDE DEF j
<1> QED
  BY <1>1, <1>2, StartMoved DEF ChallengeCalls

LEMMA OwnMoved ==
  ASSUME TypeOK, NEW r \in Requests, NEW u \in Users, NEW k \in Keys,
         NEW call \in {"UpdatePasskey", "DeletePasskey"}, GetAuthenticator(r, u, k, call)
  PROVE  Moved(r) /\ job'[r].at = call
<1> DEFINE j == [at |-> call, user |-> u, key |-> k]
<1>1. job' = [job EXCEPT ![r] = j] /\ spoiled' = spoiled
  BY DEF GetAuthenticator, Goto
<1>2. j.at = call /\ j.at \notin PasswordCalls \cup ChallengeCalls
  BY DEF PasswordCalls, ChallengeCalls
<1> HIDE DEF j
<1> QED
  BY <1>1, <1>2, LeftMoved

\* A registration goes on to its next call.
LEMMA AnswerMoved ==
  ASSUME TypeOK, NEW r \in Requests, NEW call \in {"DelChallenge", "SaveAuthenticator"},
         job[r].at \in {"GetChallenge", "DelChallenge"}, Go(r, call)
  PROVE  /\ Moved(r)
         /\ job'[r].at = call /\ job'[r].user = job[r].user
         /\ job'[r].challenge = job[r].challenge /\ job'[r].key = job[r].key
<1> DEFINE j == [job[r] EXCEPT !.at = call]
<1>1. job[r] \in Jobs /\ Goto(r, j)
  BY DEF TypeOK, Go
<1>2. /\ j.at = call
      /\ j.user = job[r].user /\ j.challenge = job[r].challenge /\ j.key = job[r].key
  BY <1>1, AnsweredJob
<1> HIDE DEF j
<1>3. job'[r] = j /\ \A q \in Requests \ {r} : job'[q] = job[q]
  BY <1>1, Moves
<1>4. spoiled' = spoiled
  BY <1>1 DEF Goto
<1> QED
  BY <1>1, <1>2, <1>3, <1>4 DEF Moved, Entered, PasswordCalls, ChallengeCalls

\* The last calls.
LEMMA LastMoved ==
  ASSUME TypeOK, NEW r \in Requests,
         \/ UpdateUserPassword(r) \/ DeleteUser(r) \/ SetChallenge(r) \/ DeletePasskey(r)
         \/ Abort(r) \/ \E n \in Names : SaveAuthenticator(r, n) \/ UpdatePasskey(r, n)
  PROVE  Moved(r) /\ job'[r] = Idle /\ Idle.at \notin PasswordCalls \cup ChallengeCalls
<1>1. job' = [job EXCEPT ![r] = Idle] /\ spoiled \subseteq spoiled'
  BY DEF UpdateUserPassword, DeleteUser, SetChallenge, DeletePasskey, Abort, SaveAuthenticator,
     UpdatePasskey, Goto
<1> QED
  BY <1>1, IdleMoved

LEMMA GetMoved ==
  ASSUME TypeOK, NEW r \in Requests, GetChallenge(r)
  PROVE  /\ Moved(r)
         /\ job'[r].at \in {"DelChallenge", "Idle"}
         /\ job'[r].at = "DelChallenge" =>
              /\ job'[r].user = job[r].user /\ job'[r].challenge = job[r].challenge
              /\ job[r].user \in DOMAIN challenge /\ challenge[job[r].user] = job[r].challenge
<1>1. CASE /\ Go(r, "DelChallenge") /\ job[r].user \in DOMAIN challenge
           /\ challenge[job[r].user] = job[r].challenge
  <2>1. job[r].at \in {"GetChallenge", "DelChallenge"}
    BY DEF GetChallenge, Waits
  <2> QED
    BY <1>1, <2>1, AnswerMoved
<1>2. CASE Goto(r, Idle)
  BY <1>2, IdleMoved, IdleJob DEF Goto
<1> QED
  BY <1>1, <1>2 DEF GetChallenge

LEMMA DelMoved ==
  ASSUME TypeOK, NEW r \in Requests, DelChallenge(r)
  PROVE  /\ Moved(r)
         /\ job'[r].at = "SaveAuthenticator" /\ job'[r].user = job[r].user
         /\ job'[r].challenge = job[r].challenge /\ job'[r].key = job[r].key
  BY AnswerMoved DEF DelChallenge, Waits

-----------------------------------------------------------------------------
(* Passwords.                                                              *)

\* Whoever is a user, or asks for something about a password, was registered.
Registered ==
  /\ \A u \in DOMAIN users : last[u] # NoPassword
  /\ \A r \in Requests : job[r].at \in PasswordCalls => last[job[r].user] # NoPassword

\* The password that a request was given still is the user's.
OldsFit ==
  \A r \in Requests :
    job[r].at \in PasswordCalls /\ job[r].user \in DOMAIN users
      /\ Stands(job[r].user, "password")
    => job[r].old \in {users[job[r].user], NoPassword}

MailsAskNothing == \A r \in Requests : Waits(r, "SendEmail") => job[r].old = NoPassword

\* A mailed password that is about to be stored.
Mailed(r) == Waits(r, "UpdateUserPassword") /\ job[r].old = NoPassword

MailedLast ==
  \A r \in Requests : Mailed(r) /\ Stands(job[r].user, "password")
    => job[r].password = last[job[r].user]

\* A user's row is behind what the user was told only while the mailed one waits.
NewestOrMailed ==
  \A u \in DOMAIN users : Stands(u, "password") /\ Stands(u, "mail")
    => \/ users[u] = last[u]
       \/ \E r \in Requests : Mailed(r) /\ job[r].user = u

AskedInv ==
  /\ TypeOK /\ Noticed(PasswordCalls, "password")
  /\ Registered /\ OldsFit /\ MailsAskNothing /\ MailedLast /\ NewestOrMailed

\* Whoever shares a user whose promise stands with a request is that request.
LEMMA AloneWithPassword ==
  ASSUME AskedInv, NEW r \in Requests, NEW q \in Requests,
         job[r].at \in PasswordCalls, job[q].at \in PasswordCalls,
         job[r].user = job[q].user, Stands(job[r].user, "password")
  PROVE  r = q
  BY DEF AskedInv, Noticed

\* A step of r that leaves the passwords and what users were told alone, and
\* after which r is not about a password, or has just been given the right one.
LEMMA AskedUntouched ==
  ASSUME AskedInv, TypeOK', NEW r \in Requests, Moved(r), last' = last,
         DOMAIN users' \subseteq DOMAIN users, \A u \in DOMAIN users' : users'[u] = users[u],
         Mailed(r) => <<job[r].user, "mail">> \in spoiled',
         job'[r].at \in PasswordCalls =>
           /\ job'[r].user \in DOMAIN users
           /\ job'[r].old \in {users[job'[r].user], NoPassword}
           /\ job'[r].at = "SendEmail" => job'[r].old = NoPassword
           /\ job'[r].at = "UpdateUserPassword" => job'[r].old # NoPassword
  PROVE  AskedInv'
<1>1. /\ \A q \in Requests \ {r} : job'[q] = job[q]
      /\ spoiled \subseteq spoiled'
      /\ \A u, p : <<u, p>> \notin spoiled' => Stands(u, p)
  BY DEF Moved, Stands
<1>2. "UpdateUserPassword" \in PasswordCalls /\ "SendEmail" \in PasswordCalls
  BY DEF PasswordCalls
<1>3. Noticed(PasswordCalls, "password")'
  BY NoticedStep DEF Moved, AskedInv
<1>4. Registered'
  BY <1>1 DEF AskedInv, Registered
<1>5. OldsFit'
  BY <1>1 DEF AskedInv, OldsFit, Stands
<1>6. MailsAskNothing'
  BY <1>1, <1>2 DEF AskedInv, MailsAskNothing, Waits
<1>7. MailedLast'
  BY <1>1, <1>2 DEF AskedInv, MailedLast, Mailed, Waits, Stands
<1>8. NewestOrMailed'
  <2> SUFFICES ASSUME NEW u \in DOMAIN users', <<u, "password">> \notin spoiled',
                      <<u, "mail">> \notin spoiled', users'[u] # last'[u]
               PROVE  \E q \in Requests : Mailed(q)' /\ job'[q].user = u
    BY DEF NewestOrMailed, Stands
  <2>1. PICK q \in Requests : Mailed(q) /\ job[q].user = u
    BY <1>1 DEF AskedInv, NewestOrMailed
  <2>2. q # r
    BY <2>1
  <2> QED
    BY <1>1, <2>1, <2>2 DEF Mailed, Waits
<1> QED
  BY <1>3, <1>4, <1>5, <1>6, <1>7, <1>8 DEF AskedInv

LEMMA AskedPasswordRequest ==
  ASSUME AskedInv, TypeOK', NEW r \in Requests, NEW u \in Users, PasswordRequest(r, u)
  PROVE  AskedInv'
<1>1. UNCHANGED <<users, last>> /\ u \in DOMAIN users /\ ~Mailed(r) /\ users[u] \in Passwords
  BY DEF PasswordRequest, IssuePassword, ChangePassword, CheckPassword, SignedIn, Mailed, Waits,
     AskedInv, TypeOK
<1>2. ASSUME NEW p \in Passwords, IssuePassword(r, u, p) PROVE AskedInv'
  <2>1. Moved(r) /\ job'[r].at = "SendEmail" /\ job'[r].user = u /\ job'[r].old = NoPassword
    BY <1>2, IssueMoved DEF AskedInv
  <2> QED
    BY <1>1, <2>1, AskedUntouched
<1>3. ASSUME NEW old \in Passwords, NEW p \in Passwords, ChangePassword(r, u, old, p)
      PROVE  AskedInv'
  <2>1. /\ Moved(r) /\ job'[r].at = "UpdateUserPassword" /\ job'[r].user = u
        /\ job'[r].old = users[u]
    BY <1>3, ChangeMoved DEF AskedInv, ChangePassword, Fits
  <2> QED
    BY <1>1, <2>1, AskedUntouched, NoPasswordAssumption
<1>4. ASSUME NEW old \in Passwords, CheckPassword(r, u, old) PROVE AskedInv'
  <2>1. /\ Moved(r) /\ job'[r].at = "DeleteUser" /\ job'[r].user = u
        /\ job'[r].old = users[u]
    BY <1>4, CheckMoved DEF AskedInv, CheckPassword, Fits
  <2> QED
    BY <1>1, <2>1, AskedUntouched
<1> QED
  BY <1>2, <1>3, <1>4 DEF PasswordRequest, FreshPasswords

LEMMA AskedPasskeyRequest ==
  ASSUME AskedInv, TypeOK', NEW r \in Requests, NEW u \in Users, PasskeyRequest(r, u)
  PROVE  AskedInv'
<1>1. UNCHANGED <<users, last>> /\ ~Mailed(r)
  BY DEF PasskeyRequest, RegisterOptions, VerifyRegistration, GetAuthenticator, Mailed, Waits
<1>2. Moved(r) /\ job'[r].at \notin PasswordCalls
  BY OptionsMoved, VerifyMoved, OwnMoved DEF PasskeyRequest, AskedInv, PasswordCalls
<1> QED
  BY <1>1, <1>2, AskedUntouched

\* The calls about passkeys, the deletion of the user and a failure.
LEMMA AskedElsewhere ==
  ASSUME AskedInv, TypeOK', NEW r \in Requests,
         \/ DeleteUser(r) \/ SetChallenge(r) \/ GetChallenge(r) \/ DelChallenge(r)
         \/ DeletePasskey(r) \/ \E n \in Names : SaveAuthenticator(r, n) \/ UpdatePasskey(r, n)
         \/ Abort(r)
  PROVE  AskedInv'
<1>1. /\ last' = last /\ DOMAIN users' \subseteq DOMAIN users
      /\ \A u \in DOMAIN users' : users'[u] = users[u]
  BY DEF DeleteUser, SetChallenge, GetChallenge, DelChallenge, DeletePasskey, SaveAuthenticator,
     UpdatePasskey, Abort, Del, Restrict
<1>2. Moved(r) /\ job'[r].at \notin PasswordCalls
  BY LastMoved, GetMoved, DelMoved, IdleJob DEF AskedInv, PasswordCalls
<1>3. Mailed(r) => <<job[r].user, "mail">> \in spoiled'
  BY DEF Mailed, Waits, DeleteUser, SetChallenge, GetChallenge, DelChallenge, DeletePasskey,
     SaveAuthenticator, UpdatePasskey, Abort
<1> QED
  BY <1>1, <1>2, <1>3, AskedUntouched

LEMMA AskedSend ==
  ASSUME AskedInv, TypeOK', NEW r \in Requests, SendEmail(r)
  PROVE  AskedInv'
<1> DEFINE u == job[r].user
           p == job[r].password
<1>1. /\ job'[r].at = "UpdateUserPassword" /\ job'[r].user = u /\ job'[r].password = p
      /\ job'[r].old = NoPassword /\ job[r].at = "SendEmail" /\ Moved(r)
  BY SendMoved DEF SendEmail, Waits, AskedInv, MailsAskNothing
<1>2. u \in Users /\ p \in Passwords
  BY <1>1, JobShapes DEF AskedInv, TypeOK
<1>3. users' = users /\ last' = [last EXCEPT ![u] = p] /\ spoiled' = spoiled
  BY DEF SendEmail, Give, Go, Goto
<1>4. last'[u] = p /\ p # NoPassword /\ \A v \in Users \ {u} : last'[v] = last[v]
  BY <1>2, <1>3, NoPasswordAssumption DEF AskedInv, TypeOK
<1>5. \A q \in Requests \ {r} : job'[q] = job[q]
  BY <1>1 DEF Moved
<1>6. \A q \in Requests : job[q].at \in PasswordCalls => job[q].user \in Users
  BY JobShapes DEF AskedInv, TypeOK, PasswordCalls
<1>7. \A q \in Requests \ {r} :
        job[q].at \in PasswordCalls /\ Stands(job[q].user, "password") => job[q].user # u
  BY <1>1, AloneWithPassword DEF PasswordCalls
<1>8. DOMAIN users \subseteq Users
  BY DEF AskedInv, TypeOK
<1> HIDE DEF u, p
<1>9. Noticed(PasswordCalls, "password")'
  BY <1>1, NoticedStep DEF Moved, AskedInv
<1>10. Registered'
  BY <1>1, <1>3, <1>4, <1>5, <1>6, <1>8 DEF AskedInv, Registered
<1>11. OldsFit'
  BY <1>1, <1>3, <1>5 DEF AskedInv, OldsFit, Stands
<1>12. MailsAskNothing'
  BY <1>1, <1>5 DEF AskedInv, MailsAskNothing, Waits
<1>13. MailedLast'
  <2> SUFFICES ASSUME NEW q \in Requests, Mailed(q)', Stands(job[q].user, "password"), q # r
               PROVE  job[q].password = last'[job[q].user]
    BY <1>1, <1>3, <1>4, <1>5 DEF MailedLast, Stands
  <2>1. Mailed(q) /\ job[q].at \in PasswordCalls
    BY <1>5 DEF Mailed, Waits, PasswordCalls
  <2> QED
    BY <1>4, <1>6, <1>7, <2>1 DEF AskedInv, MailedLast
<1>14. NewestOrMailed'
  <2> SUFFICES ASSUME NEW v \in DOMAIN users, Stands(v, "password"), Stands(v, "mail")
               PROVE  users[v] = last'[v] \/ \E q \in Requests : Mailed(q)' /\ job'[q].user = v
    BY <1>3 DEF NewestOrMailed, Stands
  <2>1. CASE v = u
    BY <1>1, <2>1 DEF Mailed, Waits
  <2>2. CASE v # u
    <3>1. last'[v] = last[v]
      BY <1>4, <1>8, <2>2
    <3>2. ASSUME NEW q \in Requests, Mailed(q), job[q].user = v
          PROVE  Mailed(q)' /\ job'[q].user = v
      BY <1>1, <1>5, <3>2 DEF Mailed, Waits
    <3> QED
      BY <3>1, <3>2 DEF AskedInv, NewestOrMailed
  <2> QED
    BY <2>1, <2>2
<1> QED
  BY <1>9, <1>10, <1>11, <1>12, <1>13, <1>14 DEF AskedInv

LEMMA AskedUpdate ==
  ASSUME AskedInv, TypeOK', NEW r \in Requests, UpdateUserPassword(r)
  PROVE  AskedInv'
<1> DEFINE u == job[r].user
           p == job[r].password
           told == u \in DOMAIN users /\ job[r].old # NoPassword
<1>1. job'[r].at \notin PasswordCalls /\ job[r].at = "UpdateUserPassword" /\ Moved(r)
  BY LastMoved DEF UpdateUserPassword, Waits, AskedInv
<1>2. u \in Users /\ p \in Passwords
  BY <1>1, JobShapes DEF AskedInv, TypeOK
<1>3. DOMAIN users' = DOMAIN users /\ \A v \in DOMAIN users : v # u => users'[v] = users[v]
  BY DEF UpdateUserPassword
<1>4. u \in DOMAIN users => users'[u] = p
  BY DEF UpdateUserPassword
<1>5. \A v \in Users : last'[v] = IF told /\ v = u THEN p ELSE last[v]
  BY <1>2 DEF UpdateUserPassword, Give, AskedInv, TypeOK
<1>6. Mailed(r) => ~told /\ (Stands(u, "password") => p = last[u])
  BY DEF Mailed, AskedInv, MailedLast
<1>7. ~Mailed(r) /\ u \in DOMAIN users => told
  BY <1>1 DEF Mailed, Waits
<1>8. \A q \in Requests \ {r} : job'[q] = job[q]
  BY <1>1 DEF Moved
<1>9. \A q \in Requests : job[q].at \in PasswordCalls => job[q].user \in Users
  BY JobShapes DEF AskedInv, TypeOK, PasswordCalls
<1>10. \A q \in Requests \ {r} :
         job[q].at \in PasswordCalls /\ Stands(job[q].user, "password") => job[q].user # u
  BY <1>1, AloneWithPassword DEF PasswordCalls
<1>11. DOMAIN users \subseteq Users /\ p # NoPassword /\ spoiled' = spoiled
  BY <1>2, NoPasswordAssumption DEF AskedInv, TypeOK, UpdateUserPassword, Goto
<1>12. "UpdateUserPassword" \in PasswordCalls /\ "SendEmail" \in PasswordCalls
  BY DEF PasswordCalls
<1> HIDE DEF u, p, told
<1>13. Noticed(PasswordCalls, "password")'
  BY <1>1, NoticedStep DEF Moved, AskedInv
<1>14. Registered'
  BY <1>1, <1>3, <1>5, <1>8, <1>9, <1>11 DEF AskedInv, Registered
<1>15. OldsFit'
  BY <1>1, <1>3, <1>8, <1>10, <1>11 DEF AskedInv, OldsFit, Stands
<1>16. MailsAskNothing'
  BY <1>1, <1>8, <1>12 DEF AskedInv, MailsAskNothing, Waits
<1>17. MailedLast'
  <2> SUFFICES ASSUME NEW q \in Requests, Mailed(q)', Stands(job'[q].user, "password")
               PROVE  job'[q].password = last'[job'[q].user]
    BY <1>11 DEF MailedLast, Stands
  <2>1. q # r /\ job'[q] = job[q] /\ Mailed(q)
    BY <1>1, <1>8, <1>12 DEF Mailed, Waits
  <2>2. job[q].at \in PasswordCalls
    BY <1>12, <2>1 DEF Mailed, Waits
  <2> QED
    BY <1>5, <1>9, <1>10, <2>1, <2>2 DEF AskedInv, MailedLast
<1>18. NewestOrMailed'
  <2> SUFFICES ASSUME NEW v \in DOMAIN users, Stands(v, "password"), Stands(v, "mail"),
                      users'[v] # last'[v]
               PROVE  \E q \in Requests : Mailed(q)' /\ job'[q].user = v
    BY <1>3, <1>11 DEF NewestOrMailed, Stands
  <2>1. v # u
    BY <1>2, <1>4, <1>5, <1>6, <1>7
  <2>2. users[v] # last[v]
    BY <1>3, <1>5, <1>11, <2>1
  <2>3. PICK q \in Requests : Mailed(q) /\ job[q].user = v
    BY <2>2 DEF AskedInv, NewestOrMailed
  <2>4. q # r
    BY <2>1, <2>3 DEF u
  <2> QED
    BY <1>8, <2>3, <2>4 DEF Mailed, Waits
<1> QED
  BY <1>13, <1>14, <1>15, <1>16, <1>17, <1>18 DEF AskedInv

LEMMA AskedRegister ==
  ASSUME AskedInv, TypeOK', NEW u \in Users, NEW p \in Passwords, Register(u, p)
  PROVE  AskedInv'
<1>1. job' = job /\ spoiled' = spoiled /\ last[u] = NoPassword
  BY DEF Register
<1>2. /\ DOMAIN users' = DOMAIN users \cup {u} /\ users'[u] = p
      /\ \A v \in DOMAIN users : v # u => users'[v] = users[v]
  BY DEF Register, Put
<1>3. last'[u] = p /\ \A v \in Users : v # u => last'[v] = last[v]
  BY DEF Register, Give, AskedInv, TypeOK
<1>4. \A r \in Requests : job[r].at \in PasswordCalls =>
        job[r].user \in Users /\ job[r].user # u
  BY <1>1, JobShapes DEF AskedInv, TypeOK, Registered, PasswordCalls
<1>5. DOMAIN users \subseteq Users /\ p # NoPassword
  BY NoPasswordAssumption DEF AskedInv, TypeOK
<1>6. "UpdateUserPassword" \in PasswordCalls
  BY DEF PasswordCalls
<1>7. Noticed(PasswordCalls, "password")' /\ MailsAskNothing'
  BY <1>1 DEF AskedInv, Noticed, Stands, MailsAskNothing, Waits
<1>8. Registered'
  BY <1>1, <1>2, <1>3, <1>4, <1>5 DEF AskedInv, Registered
<1>9. OldsFit'
  BY <1>1, <1>2, <1>4 DEF AskedInv, OldsFit, Stands
<1>10. MailedLast'
  BY <1>1, <1>3, <1>4, <1>6 DEF AskedInv, MailedLast, Mailed, Waits, Stands
<1>11. NewestOrMailed'
  BY <1>1, <1>2, <1>3, <1>5 DEF AskedInv, NewestOrMailed, Mailed, Waits, Stands
<1> QED
  BY <1>7, <1>8, <1>9, <1>10, <1>11 DEF AskedInv

LEMMA AskedInvStep == AskedInv /\ [Next]_vars => AskedInv'
<1> SUFFICES ASSUME AskedInv, [Next]_vars PROVE AskedInv'
  OBVIOUS
<1>0. TypeOK'
  BY NextTypeOK DEF AskedInv
<1>1. CASE UNCHANGED vars
  BY <1>0, <1>1 DEF vars, AskedInv, Noticed, Stands, Registered, OldsFit, MailsAskNothing,
     MailedLast, NewestOrMailed, Mailed, Waits
<1>2. ASSUME NEW r \in Requests, NEW u \in Users, PasswordRequest(r, u) \/ PasskeyRequest(r, u)
      PROVE  AskedInv'
  BY <1>0, <1>2, AskedPasswordRequest, AskedPasskeyRequest
<1>3. ASSUME NEW r \in Requests, Continue(r) \/ Abort(r) PROVE AskedInv'
  BY <1>0, <1>3, AskedSend, AskedUpdate, AskedElsewhere DEF Continue
<1>4. ASSUME NEW u \in Users, NEW p \in Passwords, Register(u, p) PROVE AskedInv'
  BY <1>0, <1>4, AskedRegister
<1>5. ASSUME NEW u \in DOMAIN challenge, ExpireChallenge(u) PROVE AskedInv'
  BY <1>0, <1>5 DEF ExpireChallenge, AskedInv, Noticed, Stands, Registered, OldsFit,
     MailsAskNothing, MailedLast, NewestOrMailed, Mailed, Waits
<1> QED
  BY <1>1, <1>2, <1>3, <1>4, <1>5 DEF Next

LEMMA InitAskedInv == Init => AskedInv
<1> SUFFICES ASSUME Init PROVE AskedInv
  OBVIOUS
<1>1. DOMAIN users = {} /\ \A r \in Requests : job[r].at \notin PasswordCalls
  BY IdleJob DEF Init, PasswordCalls
<1>2. "UpdateUserPassword" \in PasswordCalls /\ "SendEmail" \in PasswordCalls
  BY DEF PasswordCalls
<1> QED
  BY <1>1, <1>2, InitTypeOK DEF AskedInv, Noticed, Registered, OldsFit, MailsAskNothing,
     MailedLast, NewestOrMailed, Mailed, Waits

\* For any number of users and requests, the password that a user was told last
\* is the one that works, or the mailed one is on its way into the row; an
\* overlap and a failure between mail and row excepted (Accounts.NewestPasswordWorks).
THEOREM NewestCorrect == Spec => []NewestPasswordWorks
<1>1. AskedInv => NewestPasswordWorks
  BY DEF AskedInv, NewestOrMailed, NewestPasswordWorks, Mailed, Waits, Busy, Stands
<1> QED
  BY <1>1, InitAskedInv, AskedInvStep, PTL DEF Spec

\* The step that PasswordAskedFor speaks of.
Replaced(u) == u \notin DOMAIN users' \/ users'[u] # users[u]
AskedFor(u) ==
  \E r \in Requests :
    /\ job'[r] # job[r] /\ job[r].at \in PasswordCalls /\ job[r].user = u
    /\ u \in DOMAIN users' => users'[u] = job[r].password
    /\ \/ job[r].old = users[u]
       \/ job[r].old = NoPassword /\ u \in DOMAIN users' /\ users'[u] \in known[u]

LEMMA ReplaceStep ==
  ASSUME AskedInv, MailsTold, [Next]_vars, NEW u \in DOMAIN users, Replaced(u),
         Stands(u, "password")
  PROVE  AskedFor(u)
<1>1. CASE UNCHANGED vars
  BY <1>1 DEF vars, Replaced
<1>2. ASSUME NEW r \in Requests, NEW v \in Users, PasswordRequest(r, v) \/ PasskeyRequest(r, v)
      PROVE  AskedFor(u)
  BY <1>2 DEF PasswordRequest, IssuePassword, ChangePassword, CheckPassword, PasskeyRequest,
     RegisterOptions, VerifyRegistration, GetAuthenticator, Replaced
<1>3. ASSUME NEW r \in Requests, UpdateUserPassword(r) \/ DeleteUser(r) PROVE AskedFor(u)
  <2>1. job[r].user = u /\ job[r].at \in PasswordCalls
    BY <1>3 DEF UpdateUserPassword, DeleteUser, Del, Restrict, Replaced, Waits, PasswordCalls
  <2>2. job'[r] # job[r]
    BY <1>3, <2>1, LastMoved DEF AskedInv
  <2>3. job[r].old \in {users[u], NoPassword}
    BY <2>1 DEF AskedInv, OldsFit
  <2>4. CASE UpdateUserPassword(r)
    <3>1. u \in DOMAIN users' /\ users'[u] = job[r].password
      BY <2>1, <2>4 DEF UpdateUserPassword
    <3>2. job[r].old = NoPassword => job[r].password \in known[u]
      BY <2>1, <2>4 DEF UpdateUserPassword, MailsTold
    <3> QED
      BY <2>1, <2>2, <2>3, <3>1, <3>2 DEF AskedFor
  <2>5. CASE DeleteUser(r)
    <3>1. u \notin DOMAIN users'
      BY <2>1, <2>5 DEF DeleteUser, Del, Restrict
    <3>2. job[r].old # NoPassword
      BY <2>5, JobShapes, NoPasswordAssumption DEF DeleteUser, Waits, AskedInv, TypeOK
    <3> QED
      BY <2>1, <2>2, <2>3, <3>1, <3>2 DEF AskedFor
  <2> QED
    BY <1>3, <2>4, <2>5
<1>4. ASSUME NEW r \in Requests,
             \/ SendEmail(r) \/ SetChallenge(r) \/ GetChallenge(r) \/ DelChallenge(r)
             \/ DeletePasskey(r) \/ Abort(r)
             \/ \E n \in Names : SaveAuthenticator(r, n) \/ UpdatePasskey(r, n)
      PROVE  AskedFor(u)
  BY <1>4 DEF SendEmail, SetChallenge, GetChallenge, DelChallenge, DeletePasskey, Abort,
     SaveAuthenticator, UpdatePasskey, Replaced
<1>5. ASSUME NEW v \in Users, NEW p \in Passwords, Register(v, p) PROVE AskedFor(u)
  <2>1. v # u
    BY <1>5 DEF Register, AskedInv, Registered
  <2> QED
    BY <1>5, <2>1 DEF Register, Put, Replaced
<1>6. ASSUME NEW v \in DOMAIN challenge, ExpireChallenge(v) PROVE AskedFor(u)
  BY <1>6 DEF ExpireChallenge, Replaced
<1> QED
  BY <1>1, <1>2, <1>3, <1>4, <1>5, <1>6 DEF Next, Continue

\* No account is deleted but by a request that was given the password of that very
\* moment, and no password becomes another one than such a request asked for, or
\* than its user was mailed before, although the comparison is made some calls
\* earlier; users with two such requests that overlapped excepted
\* (Accounts.PasswordAskedFor).
THEOREM AskedCorrect == Spec => PasswordAskedFor
<1>1. AskedInv /\ PasswordInv /\ [Next]_vars =>
        [\A u \in DOMAIN users :
           (u \notin DOMAIN users' \/ users'[u] # users[u]) /\ <<u, "password">> \notin spoiled
           => \E r \in Requests :
                /\ job'[r] # job[r] /\ job[r].at \in PasswordCalls /\ job[r].user = u
                /\ u \in DOMAIN users' => users'[u] = job[r].password
                /\ \/ job[r].old = users[u]
                   \/ job[r].old = NoPassword /\ u \in DOMAIN users' /\ users'[u] \in known[u]]_vars
  BY ReplaceStep DEF Replaced, AskedFor, Stands, PasswordInv
<1>2. Init => PasswordInv
  BY InitTypeOK, IdleJob DEF Init, PasswordInv, MailsTold, NeverLockedOut, Waits
<1> QED
  BY <1>1, <1>2, PasswordInvStep, InitAskedInv, AskedInvStep, PTL DEF Spec, PasswordAskedFor


-----------------------------------------------------------------------------
(* Challenges.                                                             *)

\* The requests that have, or are about to store, a challenge drawn for the user.
Claims == {"SetChallenge", "DelChallenge", "SaveAuthenticator"}

\* The challenge of a saved passkey is gone for good: nobody can answer it again.
SavedGone ==
  \A k \in DOMAIN passkeys : Stands(passkeys[k].user, "challenge") =>
    /\ passkeys[k].user \in DOMAIN challenge =>
         challenge[passkeys[k].user] # passkeys[k].challenge
    /\ \A r \in Requests : job[r].at \in Claims /\ job[r].user = passkeys[k].user =>
         job[r].challenge # passkeys[k].challenge

\* So is the one whose passkey is about to be saved.
SavingGone ==
  \A r \in Requests :
    Waits(r, "SaveAuthenticator") /\ Stands(job[r].user, "challenge")
      /\ job[r].user \in DOMAIN challenge
    => challenge[job[r].user] # job[r].challenge

\* An answer that was verified is to the challenge that is about to be deleted.
AnswersFit ==
  \A r \in Requests :
    Waits(r, "DelChallenge") /\ Stands(job[r].user, "challenge")
      /\ job[r].user \in DOMAIN challenge
    => challenge[job[r].user] = job[r].challenge

OnceInv ==
  /\ PasskeyInv /\ Noticed(ChallengeCalls, "challenge")
  /\ SavedGone /\ SavingGone /\ AnswersFit /\ OnePasskeyPerChallenge

\* Whoever shares a user whose promise stands with a request is that request.
LEMMA AloneWithChallenge ==
  ASSUME OnceInv, NEW r \in Requests, NEW q \in Requests,
         job[r].at \in ChallengeCalls, job[q].at \in ChallengeCalls,
         job[r].user = job[q].user, Stands(job[r].user, "challenge")
  PROVE  r = q
  BY DEF OnceInv, Noticed

LEMMA ClaimCalls ==
  /\ Claims \subseteq ChallengeCalls
  /\ "SetChallenge" \in Claims /\ "DelChallenge" \in Claims /\ "SaveAuthenticator" \in Claims
  BY DEF Claims, ChallengeCalls

\* Nothing is stored that was not there.
FewerChallenges ==
  \A u \in DOMAIN challenge' : u \in DOMAIN challenge /\ challenge'[u] = challenge[u]
FewerPasskeys ==
  \A k \in DOMAIN passkeys' :
    /\ k \in DOMAIN passkeys
    /\ passkeys'[k].user = passkeys[k].user /\ passkeys'[k].challenge = passkeys[k].challenge

\* A step of r that stores neither a challenge nor a passkey.
LEMMA OnceUntouched ==
  ASSUME OnceInv, PasskeyInv', FewerChallenges, FewerPasskeys, NEW r \in Requests, Moved(r),
         job'[r].at \in Claims => \A k \in DOMAIN passkeys :
           passkeys[k].user = job'[r].user /\ Stands(job'[r].user, "challenge") =>
             passkeys[k].challenge # job'[r].challenge,
         job'[r].at = "SaveAuthenticator" => job'[r].user \notin DOMAIN challenge',
         job'[r].at = "DelChallenge" /\ job'[r].user \in DOMAIN challenge' =>
           challenge'[job'[r].user] = job'[r].challenge
  PROVE  OnceInv'
<1>1. /\ \A q \in Requests \ {r} : job'[q] = job[q]
      /\ \A u : <<u, "challenge">> \notin spoiled' => Stands(u, "challenge")
  BY DEF Moved, Stands
<1>2. Noticed(ChallengeCalls, "challenge")'
  BY NoticedStep DEF Moved, OnceInv
<1>3. SavedGone'
  <2> SUFFICES ASSUME NEW k \in DOMAIN passkeys', Stands(passkeys[k].user, "challenge")
               PROVE  /\ passkeys[k].user \in DOMAIN challenge' =>
                           challenge'[passkeys[k].user] # passkeys[k].challenge
                      /\ \A q \in Requests :
                           job'[q].at \in Claims /\ job'[q].user = passkeys[k].user =>
                             job'[q].challenge # passkeys[k].challenge
    BY <1>1 DEF SavedGone, FewerPasskeys, Stands
  <2>1. k \in DOMAIN passkeys
    BY DEF FewerPasskeys
  <2>2. passkeys[k].user \in DOMAIN challenge' =>
          challenge'[passkeys[k].user] # passkeys[k].challenge
    BY <2>1 DEF OnceInv, SavedGone, FewerChallenges
  <2>3. \A q \in Requests : job'[q].at \in Claims /\ job'[q].user = passkeys[k].user =>
          job'[q].challenge # passkeys[k].challenge
    BY <1>1, <2>1 DEF OnceInv, SavedGone
  <2> QED
    BY <2>2, <2>3
<1>4. SavingGone'
  BY <1>1 DEF OnceInv, SavingGone, Waits, Stands, FewerChallenges
<1>5. AnswersFit'
  BY <1>1 DEF OnceInv, AnswersFit, Waits, Stands, FewerChallenges
<1>6. OnePasskeyPerChallenge'
  BY <1>1 DEF OnceInv, OnePasskeyPerChallenge, Stands, FewerPasskeys
<1> QED
  BY <1>2, <1>3, <1>4, <1>5, <1>6 DEF OnceInv

LEMMA OnceIdle ==
  ASSUME OnceInv, PasskeyInv', FewerChallenges, FewerPasskeys, NEW r \in Requests, Moved(r),
         job'[r].at \notin ChallengeCalls
  PROVE  OnceInv'
  BY ClaimCalls, OnceUntouched

LEMMA OncePasswordRequest ==
  ASSUME OnceInv, PasskeyInv', NEW r \in Requests, NEW u \in Users, PasswordRequest(r, u)
  PROVE  OnceInv'
<1>1. FewerChallenges /\ FewerPasskeys
  BY DEF PasswordRequest, IssuePassword, ChangePassword, CheckPassword, FewerChallenges,
     FewerPasskeys
<1>2. Moved(r) /\ job'[r].at \notin ChallengeCalls
  BY IssueMoved, ChangeMoved, CheckMoved
  DEF PasswordRequest, FreshPasswords, OnceInv, PasskeyInv, ChallengeCalls
<1> QED
  BY <1>1, <1>2, OnceIdle

\* A challenge that is drawn is new, so no passkey answers it.
LEMMA OnceOptions ==
  ASSUME OnceInv, PasskeyInv', NEW r \in Requests, NEW u \in Users, NEW c \in Challenges,
         RegisterOptions(r, u, c)
  PROVE  OnceInv'
<1>1. FewerChallenges /\ FewerPasskeys
  BY DEF RegisterOptions, FewerChallenges, FewerPasskeys
<1>2. Moved(r) /\ job'[r].at = "SetChallenge" /\ job'[r].challenge = c
  BY OptionsMoved DEF OnceInv, PasskeyInv
<1>3. \A k \in DOMAIN passkeys : passkeys[k].challenge # c
  BY DEF RegisterOptions, OnceInv, PasskeyInv, PasskeysOwn, OwnPasskey, OfferedTo
<1> QED
  BY <1>1, <1>2, <1>3, OnceUntouched

LEMMA OncePasskeyRequest ==
  ASSUME OnceInv, PasskeyInv', NEW r \in Requests, NEW u \in Users, PasskeyRequest(r, u)
  PROVE  OnceInv'
<1>1. ASSUME NEW k \in Keys, NEW c \in DOMAIN offered, VerifyRegistration(r, u, k, c)
      PROVE  OnceInv'
  <2>1. FewerChallenges /\ FewerPasskeys
    BY <1>1 DEF VerifyRegistration, FewerChallenges, FewerPasskeys
  <2>2. Moved(r) /\ job'[r].at \notin Claims
    BY <1>1, VerifyMoved DEF OnceInv, PasskeyInv, Claims
  <2> QED
    BY <2>1, <2>2, ClaimCalls, OnceUntouched
<1>2. ASSUME NEW k \in Keys, NEW call \in {"UpdatePasskey", "DeletePasskey"},
             GetAuthenticator(r, u, k, call)
      PROVE  OnceInv'
  <2>1. FewerChallenges /\ FewerPasskeys
    BY <1>2 DEF GetAuthenticator, FewerChallenges, FewerPasskeys
  <2>2. Moved(r) /\ job'[r].at \notin ChallengeCalls
    BY <1>2, OwnMoved DEF OnceInv, PasskeyInv, ChallengeCalls
  <2> QED
    BY <2>1, <2>2, OnceIdle
<1> QED
  BY <1>1, <1>2, OnceOptions DEF PasskeyRequest

\* A passkey is saved under a challenge only while that challenge is there.
LEMMA OnceGet ==
  ASSUME OnceInv, PasskeyInv', NEW r \in Requests, GetChallenge(r)
  PROVE  OnceInv'
<1>1. FewerChallenges /\ FewerPasskeys /\ challenge' = challenge
  BY DEF GetChallenge, FewerChallenges, FewerPasskeys
<1>2. /\ Moved(r) /\ job'[r].at \in {"DelChallenge", "Idle"}
      /\ job'[r].at = "DelChallenge" =>
           /\ job'[r].user = job[r].user /\ job'[r].challenge = job[r].challenge
           /\ job[r].user \in DOMAIN challenge /\ challenge[job[r].user] = job[r].challenge
  BY GetMoved DEF OnceInv, PasskeyInv
<1>3. job'[r].at \in Claims => job'[r].at = "DelChallenge"
  BY <1>2 DEF Claims
<1>4. job'[r].at \in Claims => \A k \in DOMAIN passkeys :
        passkeys[k].user = job'[r].user /\ Stands(job'[r].user, "challenge") =>
          passkeys[k].challenge # job'[r].challenge
  BY <1>2, <1>3 DEF OnceInv, SavedGone
<1> QED
  BY <1>1, <1>2, <1>4, OnceUntouched

LEMMA OnceDel ==
  ASSUME OnceInv, PasskeyInv', NEW r \in Requests, DelChallenge(r)
  PROVE  OnceInv'
<1>1. FewerChallenges /\ FewerPasskeys /\ job[r].user \notin DOMAIN challenge'
  BY DEF DelChallenge, Del, Restrict, FewerChallenges, FewerPasskeys
<1>2. /\ Moved(r) /\ job'[r].at = "SaveAuthenticator" /\ job'[r].user = job[r].user
      /\ job'[r].challenge = job[r].challenge
  BY DelMoved DEF OnceInv, PasskeyInv
<1>3. job[r].at \in Claims
  BY DEF DelChallenge, Waits, Claims
<1>4. \A k \in DOMAIN passkeys :
        passkeys[k].user = job'[r].user /\ Stands(job'[r].user, "challenge") =>
          passkeys[k].challenge # job'[r].challenge
  BY <1>2, <1>3 DEF OnceInv, SavedGone
<1> QED
  BY <1>1, <1>2, <1>4, OnceUntouched

\* The other calls and a failure.
LEMMA OnceElsewhere ==
  ASSUME OnceInv, PasskeyInv', NEW r \in Requests,
         \/ SendEmail(r) \/ UpdateUserPassword(r) \/ DeleteUser(r) \/ DeletePasskey(r)
         \/ \E n \in Names : UpdatePasskey(r, n)
         \/ Abort(r)
  PROVE  OnceInv'
<1>1. FewerChallenges
  BY DEF SendEmail, UpdateUserPassword, DeleteUser, DeletePasskey, UpdatePasskey, Abort,
     FewerChallenges
<1>2. FewerPasskeys
  <2>1. CASE \E n \in Names : UpdatePasskey(r, n)
    BY <2>1, RenameGet DEF OnceInv, PasskeyInv, FewerPasskeys
  <2>2. CASE DeleteUser(r)
    BY <2>2, CascadeGet DEF DeleteUser, FewerPasskeys
  <2> QED
    BY <2>1, <2>2 DEF SendEmail, UpdateUserPassword, DeletePasskey, Abort, Del, Restrict,
       FewerPasskeys
<1>3. Moved(r) /\ job'[r].at \notin ChallengeCalls
  BY LastMoved, SendMoved DEF OnceInv, PasskeyInv, ChallengeCalls
<1> QED
  BY <1>1, <1>2, <1>3, OnceIdle


\* A challenge that is stored was not answered yet.
LEMMA OnceSet ==
  ASSUME OnceInv, PasskeyInv', NEW r \in Requests, SetChallenge(r)
  PROVE  OnceInv'
<1> DEFINE u == job[r].user
           c == job[r].challenge
<1>1. Moved(r) /\ job'[r].at \notin ChallengeCalls /\ job[r].at = "SetChallenge"
  BY LastMoved DEF SetChallenge, Waits, OnceInv, PasskeyInv
<1>2. /\ DOMAIN challenge' = DOMAIN challenge \cup {u} /\ challenge'[u] = c
      /\ \A v \in DOMAIN challenge : v # u => challenge'[v] = challenge[v]
  BY DEF SetChallenge, Put
<1>3. UNCHANGED <<passkeys, spoiled>>
  BY DEF SetChallenge, Goto
<1>4. \A q \in Requests \ {r} : job'[q] = job[q]
  BY <1>1 DEF Moved
<1>5. \A k \in DOMAIN passkeys : passkeys[k].user = u /\ Stands(u, "challenge") =>
        passkeys[k].challenge # c
  BY <1>1, ClaimCalls DEF OnceInv, SavedGone
<1>6. \A q \in Requests \ {r} :
        job[q].at \in ChallengeCalls /\ Stands(job[q].user, "challenge") => job[q].user # u
  BY <1>1, AloneWithChallenge, ClaimCalls
<1> HIDE DEF u, c
<1>7. Noticed(ChallengeCalls, "challenge")'
  BY <1>1, NoticedStep DEF Moved, OnceInv
<1>8. SavedGone'
  BY <1>1, <1>2, <1>3, <1>4, <1>5, ClaimCalls DEF OnceInv, SavedGone, Stands
<1>9. SavingGone'
  <2> SUFFICES ASSUME NEW q \in Requests, job'[q].at = "SaveAuthenticator",
                      Stands(job'[q].user, "challenge"), job'[q].user \in DOMAIN challenge'
               PROVE  challenge'[job'[q].user] # job'[q].challenge
    BY <1>3 DEF SavingGone, Waits, Stands
  <2>1. q # r /\ job'[q] = job[q]
    BY <1>1, <1>4, ClaimCalls
  <2> QED
    BY <1>2, <1>6, <2>1, ClaimCalls DEF OnceInv, SavingGone, Waits
<1>10. AnswersFit'
  <2> SUFFICES ASSUME NEW q \in Requests, job'[q].at = "DelChallenge",
                      Stands(job'[q].user, "challenge"), job'[q].user \in DOMAIN challenge'
               PROVE  challenge'[job'[q].user] = job'[q].challenge
    BY <1>3 DEF AnswersFit, Waits, Stands
  <2>1. q # r /\ job'[q] = job[q]
    BY <1>1, <1>4, ClaimCalls
  <2> QED
    BY <1>2, <1>6, <2>1, ClaimCalls DEF OnceInv, AnswersFit, Waits
<1>11. OnePasskeyPerChallenge'
  BY <1>3 DEF OnceInv, OnePasskeyPerChallenge
<1> QED
  BY <1>7, <1>8, <1>9, <1>10, <1>11 DEF OnceInv

\* A passkey that is saved has its challenge for itself.
LEMMA OnceSave ==
  ASSUME OnceInv, PasskeyInv', NEW r \in Requests, NEW n \in Names, SaveAuthenticator(r, n)
  PROVE  OnceInv'
<1> DEFINE u == job[r].user
           c == job[r].challenge
           k == job[r].key
           row == NewPasskey(u, c, n)
<1>1. Moved(r) /\ job'[r].at \notin ChallengeCalls /\ job[r].at = "SaveAuthenticator"
  BY LastMoved DEF SaveAuthenticator, Waits, OnceInv, PasskeyInv
<1>2. challenge' = challenge /\ FewerChallenges
  BY DEF SaveAuthenticator, FewerChallenges
<1>3. CASE ~Storable(u, k)
  <2>1. FewerPasskeys
    BY <1>3 DEF SaveAuthenticator, FewerPasskeys
  <2> QED
    BY <1>1, <1>2, <2>1, OnceIdle
<1>4. CASE Storable(u, k)
  <2>1. /\ DOMAIN passkeys' = DOMAIN passkeys \cup {k} /\ k \notin DOMAIN passkeys
        /\ passkeys'[k].user = u /\ passkeys'[k].challenge = c
        /\ \A x \in DOMAIN passkeys : passkeys'[x] = passkeys[x]
    BY <1>4 DEF SaveAuthenticator, Storable, Put, NewPasskey
  <2>2. spoiled' = spoiled /\ \A q \in Requests \ {r} : job'[q] = job[q]
    BY <1>1 DEF SaveAuthenticator, Goto, Moved
  <2>3. \A q \in Requests \ {r} :
          job[q].at \in ChallengeCalls /\ Stands(job[q].user, "challenge") => job[q].user # u
    BY <1>1, AloneWithChallenge, ClaimCalls
  <2>4. Stands(u, "challenge") /\ u \in DOMAIN challenge => challenge[u] # c
    BY <1>1 DEF OnceInv, SavingGone, Waits
  <2>5. \A x \in DOMAIN passkeys : passkeys[x].challenge = c => passkeys[x].user = u
    BY <1>1 DEF OnceInv, PasskeyInv, JobsOwn, OwnJob, PasskeysOwn, OwnPasskey, OfferedTo
  <2>6. \A x \in DOMAIN passkeys : Stands(u, "challenge") => passkeys[x].challenge # c
    BY <1>1, <2>5, ClaimCalls DEF OnceInv, SavedGone
  <2> HIDE DEF u, c, k, row
  <2>7. Noticed(ChallengeCalls, "challenge")'
    BY <1>1, NoticedStep DEF Moved, OnceInv
  <2>8. SavedGone'
    <3> SUFFICES ASSUME NEW x \in DOMAIN passkeys', Stands(passkeys'[x].user, "challenge")
                 PROVE  /\ passkeys'[x].user \in DOMAIN challenge =>
                             challenge[passkeys'[x].user] # passkeys'[x].challenge
                        /\ \A q \in Requests :
                             job'[q].at \in Claims /\ job'[q].user = passkeys'[x].user =>
                               job'[q].challenge # passkeys'[x].challenge
      BY <1>2, <2>2 DEF SavedGone, Stands
    <3>1. CASE x = k
      BY <1>1, <2>1, <2>2, <2>3, <2>4, <3>1, ClaimCalls
    <3>2. CASE x # k
      BY <1>1, <2>1, <2>2, <3>2, ClaimCalls DEF OnceInv, SavedGone
    <3> QED
      BY <3>1, <3>2
  <2>9. SavingGone'
    BY <1>1, <1>2, <2>2, ClaimCalls DEF OnceInv, SavingGone, Waits, Stands
  <2>10. AnswersFit'
    BY <1>1, <1>2, <2>2, ClaimCalls DEF OnceInv, AnswersFit, Waits, Stands
  <2>11. OnePasskeyPerChallenge'
    <3> SUFFICES ASSUME NEW x \in DOMAIN passkeys', NEW y \in DOMAIN passkeys',
                        passkeys'[x].challenge = passkeys'[y].challenge,
                        Stands(passkeys'[x].user, "challenge")
                 PROVE  x = y
      BY <2>2 DEF OnePasskeyPerChallenge, Stands
    <3>1. CASE x = k \/ y = k
      BY <2>1, <2>5, <2>6, <3>1
    <3>2. CASE x # k /\ y # k
      BY <2>1, <3>2 DEF OnceInv, OnePasskeyPerChallenge, Stands
    <3> QED
      BY <3>1, <3>2
  <2> QED
    BY <2>7, <2>8, <2>9, <2>10, <2>11 DEF OnceInv
<1> QED
  BY <1>3, <1>4

LEMMA OnceInvStep == OnceInv /\ [Next]_vars => OnceInv'
<1> SUFFICES ASSUME OnceInv, [Next]_vars PROVE OnceInv'
  OBVIOUS
<1>0. PasskeyInv'
  BY PasskeyInvStep DEF OnceInv
<1>1. ASSUME FewerChallenges, UNCHANGED <<passkeys, job, spoiled>> PROVE OnceInv'
  BY <1>0, <1>1 DEF FewerChallenges, OnceInv, Noticed, Stands, SavedGone, SavingGone, AnswersFit,
     Waits, OnePasskeyPerChallenge
<1>2. CASE UNCHANGED vars
  BY <1>1, <1>2 DEF vars, FewerChallenges
<1>3. ASSUME NEW r \in Requests, NEW u \in Users, PasswordRequest(r, u) \/ PasskeyRequest(r, u)
      PROVE  OnceInv'
  BY <1>0, <1>3, OncePasswordRequest, OncePasskeyRequest
<1>4. ASSUME NEW r \in Requests, Continue(r) \/ Abort(r) PROVE OnceInv'
  BY <1>0, <1>4, OnceSet, OnceGet, OnceDel, OnceSave, OnceElsewhere DEF Continue
<1>5. ASSUME NEW u \in Users, NEW p \in Passwords, Register(u, p) PROVE OnceInv'
  BY <1>1, <1>5 DEF Register, FewerChallenges
<1>6. ASSUME NEW u \in DOMAIN challenge, ExpireChallenge(u) PROVE OnceInv'
  BY <1>1, <1>6 DEF ExpireChallenge, Del, Restrict, FewerChallenges
<1> QED
  BY <1>2, <1>3, <1>4, <1>5, <1>6 DEF Next

LEMMA InitOnceInv == Init => OnceInv
<1> SUFFICES ASSUME Init PROVE OnceInv
  OBVIOUS
<1>1. DOMAIN passkeys = {} /\ \A r \in Requests : job[r].at \notin ChallengeCalls
  BY IdleJob DEF Init, ChallengeCalls
<1> QED
  BY <1>1, ClaimCalls, InitPasskeyInv DEF OnceInv, Noticed, SavedGone, SavingGone, AnswersFit,
     Waits, OnePasskeyPerChallenge

\* However many requests and users there are, and whatever fails in between, a
\* challenge gives one passkey; overlapping requests about one user's challenge
\* excepted (Accounts.OnePasskeyPerChallenge).
THEOREM OnceCorrect == Spec => []OnePasskeyPerChallenge
<1>1. OnceInv => OnePasskeyPerChallenge
  BY DEF OnceInv
<1> QED
  BY <1>1, InitOnceInv, OnceInvStep, PTL DEF Spec

\* The step that ChallengeKept speaks of.
Answered(u) ==
  \E r \in Requests : /\ job'[r] # job[r] /\ Waits(r, "DelChallenge")
                      /\ job[r].user = u /\ job[r].challenge = challenge[u]

LEMMA DroppedStep ==
  ASSUME OnceInv, [Next]_vars, NEW u \in DOMAIN challenge \ DOMAIN challenge', job' # job,
         Stands(u, "challenge")
  PROVE  Answered(u)
<1>1. CASE UNCHANGED vars
  BY <1>1 DEF vars
<1>2. ASSUME NEW r \in Requests, NEW v \in Users, PasswordRequest(r, v) \/ PasskeyRequest(r, v)
      PROVE  Answered(u)
  BY <1>2 DEF PasswordRequest, IssuePassword, ChangePassword, CheckPassword, PasskeyRequest,
     RegisterOptions, VerifyRegistration, GetAuthenticator
<1>3. ASSUME NEW r \in Requests, DelChallenge(r) PROVE Answered(u)
  <2>1. job[r].user = u /\ Waits(r, "DelChallenge")
    BY <1>3 DEF DelChallenge, Del, Restrict
  <2>2. job'[r] # job[r]
    BY <1>3, <2>1, DelMoved DEF OnceInv, PasskeyInv, Waits
  <2>3. job[r].challenge = challenge[u]
    BY <2>1 DEF OnceInv, AnswersFit
  <2> QED
    BY <2>1, <2>2, <2>3 DEF Answered
<1>4. ASSUME NEW r \in Requests, SetChallenge(r) PROVE Answered(u)
  BY <1>4 DEF SetChallenge, Put
<1>5. ASSUME NEW r \in Requests,
             \/ SendEmail(r) \/ UpdateUserPassword(r) \/ DeleteUser(r) \/ GetChallenge(r)
             \/ DeletePasskey(r) \/ Abort(r)
             \/ \E n \in Names : SaveAuthenticator(r, n) \/ UpdatePasskey(r, n)
      PROVE  Answered(u)
  BY <1>5 DEF SendEmail, UpdateUserPassword, DeleteUser, GetChallenge, DeletePasskey, Abort,
     SaveAuthenticator, UpdatePasskey
<1>6. CASE \/ \E v \in Users, p \in Passwords : Register(v, p)
           \/ \E v \in DOMAIN challenge : ExpireChallenge(v)
  BY <1>6 DEF Register, ExpireChallenge
<1> QED
  BY <1>1, <1>2, <1>3, <1>4, <1>5, <1>6 DEF Next, Continue

\* Nothing but time and the right answer uses up a challenge, although it is
\* deleted by its user's name one call after it was compared; overlaps excepted
\* (Accounts.ChallengeKept).
THEOREM KeptCorrect == Spec => ChallengeKept
<1>1. OnceInv /\ [Next]_vars =>
        [\A u \in DOMAIN challenge \ DOMAIN challenge' :
           \/ job' = job
           \/ <<u, "challenge">> \in spoiled
           \/ \E r \in Requests : /\ job'[r] # job[r] /\ Waits(r, "DelChallenge")
                                  /\ job[r].user = u /\ job[r].challenge = challenge[u]]_vars
  BY DroppedStep DEF Answered, Stands
<1> QED
  BY <1>1, InitOnceInv, OnceInvStep, PTL DEF Spec, ChallengeKept

=============================================================================
