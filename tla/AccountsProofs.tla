--------------------------- MODULE AccountsProofs ---------------------------
(***************************************************************************)
(* Theorems about Accounts, for every value of its constants.              *)
(***************************************************************************)
EXTENDS Accounts, TLAPS

\* The label of a request tells its variables.
LEMMA JobShapes ==
  ASSUME NEW j \in Jobs
  PROVE  /\ j.at \in {"SendEmail", "UpdateUserPassword"} =>
              /\ j.user \in Users /\ j.password \in Passwords
              /\ j.old \in Passwords \cup {NoPassword}
         /\ j.at = "DeleteUser" => j.user \in Users /\ j.old \in Passwords
         /\ j.at = "SetChallenge" => j.user \in Users /\ j.challenge \in Challenges
         /\ j.at \in {"GetChallenge", "DelChallenge", "SaveAuthenticator"} =>
              j.user \in Users /\ j.challenge \in Challenges /\ j.key \in Keys
         /\ j.at \in {"UpdatePasskey", "DeletePasskey"} => j.user \in Users /\ j.key \in Keys
  BY DEF Jobs, Idle

LEMMA IdleJob == Idle \in Jobs /\ Idle.at = "Idle"
  BY DEF Jobs, Idle

\* A request that goes on keeps its variables.
LEMMA MailedJob ==
  ASSUME NEW j \in Jobs, j.at = "SendEmail",
         NEW i, i = [j EXCEPT !.at = "UpdateUserPassword"]
  PROVE  /\ i \in Jobs /\ i.at = "UpdateUserPassword"
         /\ i.user = j.user /\ i.password = j.password /\ i.old = j.old
<1>1. j \in [at : {"SendEmail", "UpdateUserPassword"}, user : Users, password : Passwords,
             old : Passwords \cup {NoPassword}]
  BY DEF Jobs, Idle
<1>2. i \in [at : {"SendEmail", "UpdateUserPassword"}, user : Users, password : Passwords,
             old : Passwords \cup {NoPassword}]
  BY <1>1
<1>3. i \in Jobs
  BY <1>2 DEF Jobs
<1> QED
  BY <1>1, <1>3

LEMMA AnsweredJob ==
  ASSUME NEW j \in Jobs, j.at \in {"GetChallenge", "DelChallenge"},
         NEW call \in {"DelChallenge", "SaveAuthenticator"},
         NEW i, i = [j EXCEPT !.at = call]
  PROVE  /\ i \in Jobs /\ i.at = call
         /\ i.user = j.user /\ i.challenge = j.challenge /\ i.key = j.key
<1> DEFINE S == [at : {"GetChallenge", "DelChallenge", "SaveAuthenticator"}, user : Users,
                 challenge : Challenges, key : Keys]
<1>1. j \in S
  BY DEF Jobs, Idle
<1>2. i \in S
  BY <1>1
<1>3. i \in Jobs
  BY <1>2 DEF Jobs
<1> QED
  BY <1>1, <1>3

\* A store after a key is written or deleted.
LEMMA PutGet ==
  ASSUME NEW f, NEW k, NEW v, NEW g, g = Put(f, k, v)
  PROVE  /\ DOMAIN g = DOMAIN f \cup {k} /\ g[k] = v
         /\ \A x \in DOMAIN f : x # k => g[x] = f[x]
  BY DEF Put

LEMMA DelGet ==
  ASSUME NEW f, NEW k, NEW g, g = Del(f, k)
  PROVE  DOMAIN g = DOMAIN f \ {k} /\ \A x \in DOMAIN g : g[x] = f[x]
  BY DEF Del, Restrict

\* A store of values of one kind stays one.
LEMMA PutType ==
  ASSUME NEW D, NEW T, NEW f, DOMAIN f \subseteq D, \A x \in DOMAIN f : f[x] \in T,
         NEW k \in D, NEW v \in T, NEW g, g = Put(f, k, v)
  PROVE  DOMAIN g \subseteq D /\ \A x \in DOMAIN g : g[x] \in T
  BY DEF Put

LEMMA DelType ==
  ASSUME NEW D, NEW T, NEW f, DOMAIN f \subseteq D, \A x \in DOMAIN f : f[x] \in T, NEW k,
         NEW g, g = Del(f, k)
  PROVE  DOMAIN g \subseteq D /\ \A x \in DOMAIN g : g[x] \in T
  BY DEF Del, Restrict

LEMMA CascadeGet ==
  ASSUME NEW u
  PROVE  /\ DOMAIN Cascade(u) = {k \in DOMAIN passkeys : passkeys[k].user # u}
         /\ \A k \in DOMAIN Cascade(u) : Cascade(u)[k] = passkeys[k]
  BY DEF Cascade, Restrict

\* One request moves, the others stay where they are.
LEMMA Moves ==
  ASSUME TypeOK, NEW r \in Requests, NEW j,
         Goto(r, j) \/ job' = [job EXCEPT ![r] = j]
  PROVE  job'[r] = j /\ \A q \in Requests \ {r} : job'[q] = job[q]
  BY DEF TypeOK, Goto

LEMMA GotoType ==
  ASSUME TypeOK, NEW r \in Requests, NEW j \in Jobs, Goto(r, j)
  PROVE  job' \in [Requests -> Jobs] /\ spoiled' \subseteq Users \X Promises
  BY DEF TypeOK, Goto

LEMMA StartType ==
  ASSUME TypeOK, NEW r \in Requests, NEW j \in Jobs, j.user \in Users, NEW calls,
         NEW p \in Promises, Start(r, j, calls, p)
  PROVE  job' \in [Requests -> Jobs] /\ spoiled' \subseteq Users \X Promises
  BY DEF TypeOK, Start

LEMMA GiveType ==
  ASSUME TypeOK, NEW u \in Users, NEW p \in Passwords, Give(u, p)
  PROVE  known' \in [Users -> SUBSET Passwords] /\ last' \in [Users -> Passwords \cup {NoPassword}]
  BY DEF TypeOK, Give

-----------------------------------------------------------------------------
(* Types.                                                                  *)

LEMMA InitTypeOK == Init => TypeOK
  BY DEF Init, TypeOK, Jobs

\* Registration, and the requests for a password.
LEMMA RegisterType ==
  ASSUME TypeOK, NEW u \in Users, NEW p \in Passwords, Register(u, p)
  PROVE  TypeOK'
<1>1. DOMAIN users' \subseteq Users /\ \A x \in DOMAIN users' : users'[x] \in Passwords
  BY PutType DEF TypeOK, Register
<1> QED
  BY <1>1, GiveType DEF TypeOK, Register

LEMMA IssueType ==
  ASSUME TypeOK, NEW r \in Requests, NEW u \in Users, NEW p \in Passwords, IssuePassword(r, u, p)
  PROVE  TypeOK'
<1> DEFINE j == [at |-> "SendEmail", user |-> u, password |-> p, old |-> NoPassword]
<1>1. j \in Jobs /\ j.user \in Users /\ "password" \in Promises
  BY DEF Jobs, Promises
<1>2. Start(r, j, PasswordCalls, "password")
  BY DEF IssuePassword
<1> HIDE DEF j
<1>3. job' \in [Requests -> Jobs] /\ spoiled' \subseteq Users \X Promises
  BY <1>1, <1>2, StartType
<1> QED
  BY <1>3 DEF TypeOK, IssuePassword

LEMMA SendType ==
  ASSUME TypeOK, NEW r \in Requests, SendEmail(r)
  PROVE  TypeOK'
<1> DEFINE j == [job[r] EXCEPT !.at = "UpdateUserPassword"]
<1>1. job[r] \in Jobs /\ job[r].at = "SendEmail" /\ Goto(r, j)
  BY DEF TypeOK, SendEmail, Waits, Go
<1>2. j \in Jobs /\ job[r].user \in Users /\ job[r].password \in Passwords
  BY <1>1, MailedJob, JobShapes
<1> HIDE DEF j
<1>3. job' \in [Requests -> Jobs] /\ spoiled' \subseteq Users \X Promises
  BY <1>1, <1>2, GotoType
<1> QED
  BY <1>2, <1>3, GiveType DEF TypeOK, SendEmail

LEMMA ChangeType ==
  ASSUME TypeOK, NEW r \in Requests, NEW u \in Users, NEW old \in Passwords, NEW p \in Passwords,
         ChangePassword(r, u, old, p)
  PROVE  TypeOK'
<1> DEFINE j == [at |-> "UpdateUserPassword", user |-> u, password |-> p, old |-> old]
<1>1. j \in Jobs /\ j.user \in Users /\ "password" \in Promises
  BY DEF Jobs, Promises
<1>2. Start(r, j, PasswordCalls, "password")
  BY DEF ChangePassword
<1> HIDE DEF j
<1>3. job' \in [Requests -> Jobs] /\ spoiled' \subseteq Users \X Promises
  BY <1>1, <1>2, StartType
<1> QED
  BY <1>3 DEF TypeOK, ChangePassword

LEMMA UpdateType ==
  ASSUME TypeOK, NEW r \in Requests, UpdateUserPassword(r)
  PROVE  TypeOK'
<1>1. job[r].user \in Users /\ job[r].password \in Passwords
  BY JobShapes DEF TypeOK, UpdateUserPassword, Waits
<1>2. job' \in [Requests -> Jobs] /\ spoiled' \subseteq Users \X Promises
  BY GotoType, IdleJob DEF UpdateUserPassword
<1>3. DOMAIN users' \subseteq Users /\ \A x \in DOMAIN users' : users'[x] \in Passwords
  BY <1>1 DEF TypeOK, UpdateUserPassword
<1>4. known' \in [Users -> SUBSET Passwords] /\ last' \in [Users -> Passwords \cup {NoPassword}]
  BY <1>1, GiveType DEF TypeOK, UpdateUserPassword
<1> QED
  BY <1>2, <1>3, <1>4 DEF TypeOK, UpdateUserPassword

LEMMA CheckType ==
  ASSUME TypeOK, NEW r \in Requests, NEW u \in Users, NEW old \in Passwords,
         CheckPassword(r, u, old)
  PROVE  TypeOK'
<1> DEFINE j == [at |-> "DeleteUser", user |-> u, old |-> old]
<1>1. j \in Jobs /\ j.user \in Users /\ "password" \in Promises
  BY DEF Jobs, Promises
<1>2. Start(r, j, PasswordCalls, "password")
  BY DEF CheckPassword
<1> HIDE DEF j
<1>3. job' \in [Requests -> Jobs] /\ spoiled' \subseteq Users \X Promises
  BY <1>1, <1>2, StartType
<1> QED
  BY <1>3 DEF TypeOK, CheckPassword

LEMMA DeleteUserType ==
  ASSUME TypeOK, NEW r \in Requests, DeleteUser(r)
  PROVE  TypeOK'
<1>1. job' \in [Requests -> Jobs] /\ spoiled' \subseteq Users \X Promises
  BY GotoType, IdleJob DEF DeleteUser
<1>2. DOMAIN users' \subseteq Users /\ \A x \in DOMAIN users' : users'[x] \in Passwords
  BY DelType DEF TypeOK, DeleteUser
<1>3. DOMAIN passkeys' \subseteq Keys /\ \A k \in DOMAIN passkeys' : passkeys'[k] \in PasskeyRows
  BY CascadeGet DEF TypeOK, DeleteUser
<1> QED
  BY <1>1, <1>2, <1>3 DEF TypeOK, DeleteUser

\* The requests for a passkey.
LEMMA OptionsType ==
  ASSUME TypeOK, NEW r \in Requests, NEW u \in Users, NEW c \in Challenges,
         RegisterOptions(r, u, c)
  PROVE  TypeOK'
<1> DEFINE j == [at |-> "SetChallenge", user |-> u, challenge |-> c]
<1>1. j \in Jobs /\ j.user \in Users /\ "challenge" \in Promises
  BY DEF Jobs, Promises
<1>2. Start(r, j, ChallengeCalls, "challenge")
  BY DEF RegisterOptions
<1> HIDE DEF j
<1>3. job' \in [Requests -> Jobs] /\ spoiled' \subseteq Users \X Promises
  BY <1>1, <1>2, StartType
<1>4. DOMAIN offered' \subseteq Challenges /\ \A x \in DOMAIN offered' : offered'[x] \in Users
  <2>1. DOMAIN offered \subseteq Challenges /\ \A x \in DOMAIN offered : offered[x] \in Users
    BY DEF TypeOK
  <2>2. offered' = Put(offered, c, u)
    BY DEF RegisterOptions
  <2>3. c \in Challenges /\ u \in Users
    BY DEF TypeOK
  <2> QED
    BY <2>1, <2>2, <2>3, PutType
<1> QED
  BY <1>3, <1>4 DEF TypeOK, RegisterOptions

LEMMA SetChallengeType ==
  ASSUME TypeOK, NEW r \in Requests, SetChallenge(r)
  PROVE  TypeOK'
<1>1. job[r].user \in Users /\ job[r].challenge \in Challenges
  BY JobShapes DEF TypeOK, SetChallenge, Waits
<1>2. job' \in [Requests -> Jobs] /\ spoiled' \subseteq Users \X Promises
  BY GotoType, IdleJob DEF SetChallenge
<1>3. DOMAIN challenge' \subseteq Users /\ \A u \in DOMAIN challenge' : challenge'[u] \in Challenges
  <2> DEFINE u == job[r].user
             c == job[r].challenge
  <2>1. DOMAIN challenge \subseteq Users /\ \A x \in DOMAIN challenge : challenge[x] \in Challenges
    BY DEF TypeOK
  <2>2. challenge' = Put(challenge, u, c)
    BY DEF SetChallenge
  <2>3. u \in Users /\ c \in Challenges
    BY <1>1
  <2> HIDE DEF u, c
  <2> QED
    BY <2>1, <2>2, <2>3, PutType
<1> QED
  BY <1>2, <1>3 DEF TypeOK, SetChallenge

LEMMA VerifyType ==
  ASSUME TypeOK, NEW r \in Requests, NEW u \in Users, NEW k \in Keys, NEW c \in DOMAIN offered,
         VerifyRegistration(r, u, k, c)
  PROVE  TypeOK'
<1> DEFINE j == [at |-> "GetChallenge", user |-> u, challenge |-> c, key |-> k]
<1>1. j \in Jobs /\ j.user \in Users /\ "challenge" \in Promises
  BY DEF Jobs, Promises, TypeOK
<1>2. Start(r, j, ChallengeCalls, "challenge")
  BY DEF VerifyRegistration
<1> HIDE DEF j
<1>3. job' \in [Requests -> Jobs] /\ spoiled' \subseteq Users \X Promises
  BY <1>1, <1>2, StartType
<1> QED
  BY <1>3 DEF TypeOK, VerifyRegistration

LEMMA GetChallengeType ==
  ASSUME TypeOK, NEW r \in Requests, GetChallenge(r)
  PROVE  TypeOK'
<1> DEFINE j == [job[r] EXCEPT !.at = "DelChallenge"]
<1>1. job[r] \in Jobs /\ job[r].at = "GetChallenge"
  BY DEF TypeOK, GetChallenge, Waits
<1>2. Goto(r, j) \/ Goto(r, Idle)
  BY DEF GetChallenge, Go
<1>3. j \in Jobs
  BY <1>1, AnsweredJob
<1> HIDE DEF j
<1>4. job' \in [Requests -> Jobs] /\ spoiled' \subseteq Users \X Promises
  BY <1>2, <1>3, GotoType, IdleJob
<1> QED
  BY <1>4 DEF TypeOK, GetChallenge

LEMMA DelChallengeType ==
  ASSUME TypeOK, NEW r \in Requests, DelChallenge(r)
  PROVE  TypeOK'
<1> DEFINE j == [job[r] EXCEPT !.at = "SaveAuthenticator"]
<1>1. job[r] \in Jobs /\ job[r].at = "DelChallenge" /\ Goto(r, j)
  BY DEF TypeOK, DelChallenge, Waits, Go
<1>2. j \in Jobs
  BY <1>1, AnsweredJob
<1> HIDE DEF j
<1>3. job' \in [Requests -> Jobs] /\ spoiled' \subseteq Users \X Promises
  BY <1>1, <1>2, GotoType
<1>4. DOMAIN challenge' \subseteq Users /\ \A u \in DOMAIN challenge' : challenge'[u] \in Challenges
  BY DelType DEF TypeOK, DelChallenge
<1> QED
  BY <1>3, <1>4 DEF TypeOK, DelChallenge

LEMMA SaveType ==
  ASSUME TypeOK, NEW r \in Requests, NEW n \in Names, SaveAuthenticator(r, n)
  PROVE  TypeOK'
<1> DEFINE row == NewPasskey(job[r].user, job[r].challenge, n)
<1>1. job[r].user \in Users /\ job[r].challenge \in Challenges /\ job[r].key \in Keys
  BY JobShapes DEF TypeOK, SaveAuthenticator, Waits
<1>2. row \in PasskeyRows
  BY <1>1 DEF NewPasskey, PasskeyRows
<1>3. passkeys' = passkeys \/ passkeys' = Put(passkeys, job[r].key, row)
  BY DEF SaveAuthenticator
<1> HIDE DEF row
<1>4. DOMAIN passkeys' \subseteq Keys /\ \A k \in DOMAIN passkeys' : passkeys'[k] \in PasskeyRows
  <2>1. DOMAIN passkeys \subseteq Keys /\ \A k \in DOMAIN passkeys : passkeys[k] \in PasskeyRows
    BY DEF TypeOK
  <2>2. CASE passkeys' = passkeys
    BY <2>1, <2>2
  <2>3. CASE passkeys' = Put(passkeys, job[r].key, row)
    <3> DEFINE k == job[r].key
    <3>1. k \in Keys /\ passkeys' = Put(passkeys, k, row)
      BY <1>1, <2>3
    <3> HIDE DEF k
    <3> QED
      BY <1>2, <2>1, <3>1, PutType
  <2> QED
    BY <1>3, <2>2, <2>3
<1>5. job' \in [Requests -> Jobs] /\ spoiled' \subseteq Users \X Promises
  BY GotoType, IdleJob DEF SaveAuthenticator
<1>6. reused' \subseteq Keys
  BY <1>1 DEF TypeOK, SaveAuthenticator
<1> QED
  BY <1>4, <1>5, <1>6 DEF TypeOK, SaveAuthenticator

LEMMA OwnType ==
  ASSUME TypeOK, NEW r \in Requests, NEW u \in Users, NEW k \in Keys,
         NEW call \in {"UpdatePasskey", "DeletePasskey"}, GetAuthenticator(r, u, k, call)
  PROVE  TypeOK'
<1>1. [at |-> call, user |-> u, key |-> k] \in Jobs
  BY DEF Jobs
<1>2. job' \in [Requests -> Jobs] /\ spoiled' \subseteq Users \X Promises
  BY <1>1, GotoType DEF GetAuthenticator
<1> QED
  BY <1>2 DEF TypeOK, GetAuthenticator

\* Renaming leaves the other passkeys, and whose the passkey is, as they were.
LEMMA RenameGet ==
  ASSUME TypeOK, NEW r \in Requests, NEW n \in Names, UpdatePasskey(r, n)
  PROVE  /\ DOMAIN passkeys' = DOMAIN passkeys
         /\ \A k \in DOMAIN passkeys :
              /\ passkeys'[k] \in PasskeyRows
              /\ passkeys'[k].user = passkeys[k].user
              /\ passkeys'[k].challenge = passkeys[k].challenge
              /\ k # job[r].key => passkeys'[k] = passkeys[k]
<1>1. CASE job[r].key \notin DOMAIN passkeys
  BY <1>1 DEF UpdatePasskey, TypeOK
<1>2. CASE job[r].key \in DOMAIN passkeys
  <2>1. passkeys' = [passkeys EXCEPT ![job[r].key].name = n]
    BY <1>2 DEF UpdatePasskey
  <2>2. \A k \in DOMAIN passkeys : passkeys[k] \in [user : Users, challenge : Challenges, name : Names]
    BY DEF TypeOK, PasskeyRows
  <2> QED
    BY <1>2, <2>1, <2>2 DEF PasskeyRows
<1> QED
  BY <1>1, <1>2

LEMMA RenameType ==
  ASSUME TypeOK, NEW r \in Requests, NEW n \in Names, UpdatePasskey(r, n)
  PROVE  TypeOK'
<1>1. job' \in [Requests -> Jobs] /\ spoiled' \subseteq Users \X Promises
  BY GotoType, IdleJob DEF UpdatePasskey
<1>2. DOMAIN passkeys' \subseteq Keys /\ \A k \in DOMAIN passkeys' : passkeys'[k] \in PasskeyRows
  BY RenameGet DEF TypeOK
<1> QED
  BY <1>1, <1>2 DEF TypeOK, UpdatePasskey

LEMMA RemoveType ==
  ASSUME TypeOK, NEW r \in Requests, DeletePasskey(r)
  PROVE  TypeOK'
<1>1. job' \in [Requests -> Jobs] /\ spoiled' \subseteq Users \X Promises
  BY GotoType, IdleJob DEF DeletePasskey
<1>2. DOMAIN passkeys' \subseteq Keys /\ \A k \in DOMAIN passkeys' : passkeys'[k] \in PasskeyRows
  BY DelType DEF TypeOK, DeletePasskey
<1> QED
  BY <1>1, <1>2 DEF TypeOK, DeletePasskey

LEMMA ExpireType ==
  ASSUME TypeOK, NEW u, ExpireChallenge(u)
  PROVE  TypeOK'
<1>1. DOMAIN challenge' \subseteq Users /\ \A x \in DOMAIN challenge' : challenge'[x] \in Challenges
  BY DelType DEF TypeOK, ExpireChallenge
<1> QED
  BY <1>1 DEF TypeOK, ExpireChallenge

LEMMA AbortType ==
  ASSUME TypeOK, NEW r \in Requests, Abort(r)
  PROVE  TypeOK'
<1>1. job' \in [Requests -> Jobs]
  BY IdleJob DEF TypeOK, Abort
<1>2. spoiled' \subseteq Users \X Promises
  <2>1. job[r].at = "UpdateUserPassword" => job[r].user \in Users
    BY JobShapes DEF TypeOK
  <2> QED
    BY <2>1 DEF TypeOK, Abort, Waits, Promises
<1> QED
  BY <1>1, <1>2 DEF TypeOK, Abort

LEMMA NextTypeOK == TypeOK /\ [Next]_vars => TypeOK'
<1> SUFFICES ASSUME TypeOK, [Next]_vars PROVE TypeOK'
  OBVIOUS
<1>1. CASE UNCHANGED vars
  BY <1>1 DEF vars, TypeOK
<1>2. ASSUME NEW r \in Requests, NEW u \in Users, PasswordRequest(r, u) PROVE TypeOK'
  BY <1>2, IssueType, ChangeType, CheckType DEF PasswordRequest, FreshPasswords
<1>3. ASSUME NEW r \in Requests, NEW u \in Users, PasskeyRequest(r, u) PROVE TypeOK'
  BY <1>3, OptionsType, VerifyType, OwnType DEF PasskeyRequest
<1>4. ASSUME NEW r \in Requests, Continue(r) PROVE TypeOK'
  BY <1>4, SendType, UpdateType, DeleteUserType, SetChallengeType, GetChallengeType,
     DelChallengeType, SaveType, RenameType, RemoveType DEF Continue
<1>5. ASSUME NEW r \in Requests, Abort(r) PROVE TypeOK'
  BY <1>5, AbortType
<1>6. ASSUME NEW u \in Users, NEW p \in Passwords, Register(u, p) PROVE TypeOK'
  BY <1>6, RegisterType
<1>7. ASSUME NEW u \in DOMAIN challenge, ExpireChallenge(u) PROVE TypeOK'
  BY <1>7, ExpireType
<1> QED
  BY <1>1, <1>2, <1>3, <1>4, <1>5, <1>6, <1>7 DEF Next

\* Every variable has its type (Accounts.TypeOK).
THEOREM TypeCorrect == Spec => []TypeOK
  BY InitTypeOK, NextTypeOK, PTL DEF Spec

-----------------------------------------------------------------------------
(* Passwords.                                                              *)

\* A mailed password that is about to be stored is one that the user was told.
MailsTold ==
  \A r \in Requests : Waits(r, "UpdateUserPassword") /\ job[r].old = NoPassword =>
    job[r].password \in known[job[r].user]

PasswordInv == TypeOK /\ MailsTold /\ NeverLockedOut

\* What a user was told is not forgotten.
LEMMA GiveGrows ==
  ASSUME TypeOK, NEW u \in Users, NEW p \in Passwords, Give(u, p)
  PROVE  p \in known'[u] /\ \A v \in Users : known[v] \subseteq known'[v]
  BY DEF TypeOK, Give

\* A step that stores no password, and starts no request that is about to store
\* one it mailed.
LEMMA PasswordsKept ==
  ASSUME PasswordInv, TypeOK', \A v \in Users : known[v] \subseteq known'[v],
         DOMAIN users' \subseteq DOMAIN users, \A u \in DOMAIN users' : users'[u] = users[u],
         NEW r \in Requests, \A q \in Requests \ {r} : job'[q] = job[q],
         job'[r].at = "UpdateUserPassword" /\ job'[r].old = NoPassword =>
           job'[r].password \in known'[job'[r].user]
  PROVE  PasswordInv'
<1>1. MailsTold'
  <2> SUFFICES ASSUME NEW q \in Requests, job'[q].at = "UpdateUserPassword",
                      job'[q].old = NoPassword
               PROVE  job'[q].password \in known'[job'[q].user]
    BY DEF MailsTold, Waits
  <2>1. CASE q = r
    BY <2>1
  <2>2. CASE q # r
    <3>1. job'[q] = job[q]
      BY <2>2
    <3>2. job[q].user \in Users
      BY <3>1, JobShapes DEF PasswordInv, TypeOK
    <3> QED
      BY <3>1, <3>2 DEF PasswordInv, MailsTold, Waits
  <2> QED
    BY <2>1, <2>2
<1>2. NeverLockedOut'
  BY DEF NeverLockedOut, PasswordInv, TypeOK
<1> QED
  BY <1>1, <1>2 DEF PasswordInv

LEMMA PasswordRequestStep ==
  ASSUME PasswordInv, TypeOK', NEW r \in Requests, NEW u \in Users, PasswordRequest(r, u)
  PROVE  PasswordInv'
<1> USE DEF PasswordInv
<1>1. ASSUME NEW p \in FreshPasswords, IssuePassword(r, u, p) PROVE PasswordInv'
  <2> DEFINE j == [at |-> "SendEmail", user |-> u, password |-> p, old |-> NoPassword]
  <2>1. job' = [job EXCEPT ![r] = j] /\ users' = users /\ known' = known
    BY <1>1 DEF IssuePassword, Start
  <2>2. j.at # "UpdateUserPassword"
    OBVIOUS
  <2> HIDE DEF j
  <2> QED
    BY <2>1, <2>2, Moves, PasswordsKept
<1>2. ASSUME NEW old \in Passwords, NEW p \in Passwords, ChangePassword(r, u, old, p)
      PROVE  PasswordInv'
  <2> DEFINE j == [at |-> "UpdateUserPassword", user |-> u, password |-> p, old |-> old]
  <2>1. job' = [job EXCEPT ![r] = j] /\ users' = users /\ known' = known
    BY <1>2 DEF ChangePassword, Start
  <2>2. j.old # NoPassword
    BY NoPasswordAssumption
  <2> HIDE DEF j
  <2> QED
    BY <2>1, <2>2, Moves, PasswordsKept
<1>3. ASSUME NEW old \in Passwords, CheckPassword(r, u, old) PROVE PasswordInv'
  <2> DEFINE j == [at |-> "DeleteUser", user |-> u, old |-> old]
  <2>1. job' = [job EXCEPT ![r] = j] /\ users' = users /\ known' = known
    BY <1>3 DEF CheckPassword, Start
  <2>2. j.at # "UpdateUserPassword"
    OBVIOUS
  <2> HIDE DEF j
  <2> QED
    BY <2>1, <2>2, Moves, PasswordsKept
<1> QED
  BY <1>1, <1>2, <1>3 DEF PasswordRequest

LEMMA SendStep ==
  ASSUME PasswordInv, TypeOK', NEW r \in Requests, SendEmail(r)
  PROVE  PasswordInv'
<1> USE DEF PasswordInv
<1> DEFINE j == [job[r] EXCEPT !.at = "UpdateUserPassword"]
<1>1. job[r] \in Jobs /\ job[r].at = "SendEmail" /\ Goto(r, j)
  BY DEF TypeOK, SendEmail, Waits, Go
<1>2. /\ j.user = job[r].user /\ j.password = job[r].password
      /\ j.user \in Users /\ j.password \in Passwords
  BY <1>1, MailedJob, JobShapes
<1> HIDE DEF j
<1>3. j.password \in known'[j.user] /\ \A v \in Users : known[v] \subseteq known'[v]
  BY <1>2, GiveGrows DEF SendEmail
<1>4. job'[r] = j /\ \A q \in Requests \ {r} : job'[q] = job[q]
  BY <1>1, Moves
<1> QED
  BY <1>3, <1>4, PasswordsKept DEF SendEmail

LEMMA UpdateStep ==
  ASSUME PasswordInv, TypeOK', NEW r \in Requests, UpdateUserPassword(r)
  PROVE  PasswordInv'
<1> USE DEF PasswordInv
<1> DEFINE u == job[r].user
           p == job[r].password
<1>1. u \in Users /\ p \in Passwords /\ job[r].at = "UpdateUserPassword"
  BY JobShapes DEF TypeOK, UpdateUserPassword, Waits
<1>2. job'[r] = Idle /\ \A q \in Requests \ {r} : job'[q] = job[q]
  BY Moves DEF UpdateUserPassword
<1>3. CASE u \notin DOMAIN users
  <2>1. users' = users /\ known' = known
    BY <1>3 DEF UpdateUserPassword
  <2> QED
    BY <1>2, <2>1, PasswordsKept, IdleJob
<1>4. CASE u \in DOMAIN users
  <2>1. users' = [users EXCEPT ![u] = p]
    BY <1>4 DEF UpdateUserPassword
  <2>2. p \in known'[u] /\ \A v \in Users : known[v] \subseteq known'[v]
    <3>1. CASE job[r].old = NoPassword
      <4>1. known' = known
        BY <1>4, <3>1 DEF UpdateUserPassword
      <4> QED
        BY <1>1, <3>1, <4>1 DEF MailsTold, Waits
    <3>2. CASE job[r].old # NoPassword
      <4>1. Give(u, p)
        BY <1>4, <3>2 DEF UpdateUserPassword
      <4> QED
        BY <1>1, <4>1, GiveGrows
    <3> QED
      BY <3>1, <3>2
  <2>3. NeverLockedOut'
    BY <2>1, <2>2 DEF NeverLockedOut, TypeOK
  <2>4. MailsTold'
    <3> SUFFICES ASSUME NEW q \in Requests, job'[q].at = "UpdateUserPassword",
                        job'[q].old = NoPassword
                 PROVE  job'[q].password \in known'[job'[q].user]
      BY DEF MailsTold, Waits
    <3>1. q # r /\ job'[q] = job[q]
      BY <1>2, IdleJob
    <3>2. job[q].user \in Users
      BY <3>1, JobShapes DEF TypeOK
    <3> QED
      BY <2>2, <3>1, <3>2 DEF MailsTold, Waits
  <2> QED
    BY <2>3, <2>4
<1> QED
  BY <1>3, <1>4

\* Steps that leave the passwords alone and no request behind that stores one.
LEMMA PasskeyRequestStep ==
  ASSUME PasswordInv, TypeOK', NEW r \in Requests, NEW u \in Users, PasskeyRequest(r, u)
  PROVE  PasswordInv'
<1> USE DEF PasswordInv
<1>1. users' = users /\ known' = known
  BY DEF PasskeyRequest, RegisterOptions, VerifyRegistration, GetAuthenticator
<1>2. PICK j : job' = [job EXCEPT ![r] = j] /\ j.at # "UpdateUserPassword"
  <2>1. ASSUME NEW c \in Challenges, RegisterOptions(r, u, c)
        PROVE  \E j : job' = [job EXCEPT ![r] = j] /\ j.at # "UpdateUserPassword"
    <3> DEFINE i == [at |-> "SetChallenge", user |-> u, challenge |-> c]
    <3>1. job' = [job EXCEPT ![r] = i] /\ i.at = "SetChallenge"
      BY <2>1 DEF RegisterOptions, Start
    <3> HIDE DEF i
    <3> QED
      BY <3>1
  <2>2. ASSUME NEW k \in Keys, NEW c \in DOMAIN offered, VerifyRegistration(r, u, k, c)
        PROVE  \E j : job' = [job EXCEPT ![r] = j] /\ j.at # "UpdateUserPassword"
    <3> DEFINE i == [at |-> "GetChallenge", user |-> u, challenge |-> c, key |-> k]
    <3>1. job' = [job EXCEPT ![r] = i] /\ i.at = "GetChallenge"
      BY <2>2 DEF VerifyRegistration, Start
    <3> HIDE DEF i
    <3> QED
      BY <3>1
  <2>3. ASSUME NEW k \in Keys, NEW call \in {"UpdatePasskey", "DeletePasskey"},
               GetAuthenticator(r, u, k, call)
        PROVE  \E j : job' = [job EXCEPT ![r] = j] /\ j.at # "UpdateUserPassword"
    <3> DEFINE i == [at |-> call, user |-> u, key |-> k]
    <3>1. job' = [job EXCEPT ![r] = i] /\ i.at = call
      BY <2>3 DEF GetAuthenticator, Goto
    <3> HIDE DEF i
    <3> QED
      BY <3>1
  <2> QED
    BY <2>1, <2>2, <2>3 DEF PasskeyRequest
<1> QED
  BY <1>1, <1>2, Moves, PasswordsKept

LEMMA ContinueStep ==
  ASSUME PasswordInv, TypeOK', NEW r \in Requests, Continue(r)
  PROVE  PasswordInv'
<1> USE DEF PasswordInv
<1>1. CASE SendEmail(r)
  BY <1>1, SendStep
<1>2. CASE UpdateUserPassword(r)
  BY <1>2, UpdateStep
<1>3. CASE DeleteUser(r)
  <2>1. known' = known /\ DOMAIN users' \subseteq DOMAIN users
        /\ \A u \in DOMAIN users' : users'[u] = users[u]
    BY <1>3 DEF DeleteUser, Del, Restrict
  <2>2. job'[r] = Idle /\ \A q \in Requests \ {r} : job'[q] = job[q]
    BY <1>3, Moves DEF DeleteUser
  <2> QED
    BY <2>1, <2>2, PasswordsKept, IdleJob
<1>4. CASE GetChallenge(r) \/ DelChallenge(r)
  <2> DEFINE j(call) == [job[r] EXCEPT !.at = call]
  <2>1. users' = users /\ known' = known
    BY <1>4 DEF GetChallenge, DelChallenge
  <2>2. job[r] \in Jobs /\ job[r].at \in {"GetChallenge", "DelChallenge"}
    BY <1>4 DEF TypeOK, GetChallenge, DelChallenge, Waits
  <2>3. \A call \in {"DelChallenge", "SaveAuthenticator"} : j(call).at = call
    BY <2>2, AnsweredJob
  <2>4. \/ job' = [job EXCEPT ![r] = Idle]
        \/ \E call \in {"DelChallenge", "SaveAuthenticator"} : job' = [job EXCEPT ![r] = j(call)]
    BY <1>4 DEF GetChallenge, DelChallenge, Go, Goto
  <2> HIDE DEF j
  <2>5. PICK i : job' = [job EXCEPT ![r] = i] /\ i.at # "UpdateUserPassword"
    BY <2>3, <2>4, IdleJob
  <2> QED
    BY <2>1, <2>5, Moves, PasswordsKept
<1>5. CASE SetChallenge(r) \/ DeletePasskey(r)
           \/ \E n \in Names : SaveAuthenticator(r, n) \/ UpdatePasskey(r, n)
  <2>1. users' = users /\ known' = known /\ Goto(r, Idle)
    BY <1>5 DEF SetChallenge, DeletePasskey, SaveAuthenticator, UpdatePasskey
  <2>2. job'[r] = Idle /\ \A q \in Requests \ {r} : job'[q] = job[q]
    BY <2>1, Moves
  <2> QED
    BY <2>1, <2>2, PasswordsKept, IdleJob
<1> QED
  BY <1>1, <1>2, <1>3, <1>4, <1>5 DEF Continue

LEMMA AbortStep ==
  ASSUME PasswordInv, TypeOK', NEW r \in Requests, Abort(r)
  PROVE  PasswordInv'
<1> USE DEF PasswordInv
<1>1. users' = users /\ known' = known /\ job' = [job EXCEPT ![r] = Idle]
  BY DEF Abort
<1>2. job'[r] = Idle /\ \A q \in Requests \ {r} : job'[q] = job[q]
  BY <1>1, Moves
<1> QED
  BY <1>1, <1>2, PasswordsKept, IdleJob

LEMMA RegisterStep ==
  ASSUME PasswordInv, TypeOK', NEW u \in Users, NEW p \in Passwords, Register(u, p)
  PROVE  PasswordInv'
<1> USE DEF PasswordInv
<1>1. users' = Put(users, u, p) /\ job' = job /\ Give(u, p)
  BY DEF Register
<1>2. p \in known'[u] /\ \A v \in Users : known[v] \subseteq known'[v]
  BY <1>1, GiveGrows
<1>3. MailsTold'
  <2> SUFFICES ASSUME NEW q \in Requests, job[q].at = "UpdateUserPassword",
                      job[q].old = NoPassword
               PROVE  job[q].password \in known'[job[q].user]
    BY <1>1 DEF MailsTold, Waits
  <2>1. job[q].user \in Users
    BY JobShapes DEF TypeOK
  <2> QED
    BY <1>2, <2>1 DEF MailsTold, Waits
<1>4. NeverLockedOut'
  <2> SUFFICES ASSUME NEW v \in DOMAIN users' PROVE users'[v] \in known'[v]
    BY DEF NeverLockedOut
  <2>1. CASE v = u
    BY <1>1, <1>2, <2>1 DEF Put
  <2>2. CASE v # u
    <3>1. v \in DOMAIN users /\ users'[v] = users[v]
      BY <1>1, <2>2 DEF Put
    <3> QED
      BY <1>2, <3>1 DEF NeverLockedOut, TypeOK
  <2> QED
    BY <2>1, <2>2
<1> QED
  BY <1>3, <1>4

LEMMA PasswordInvStep == PasswordInv /\ [Next]_vars => PasswordInv'
<1> SUFFICES ASSUME PasswordInv, [Next]_vars PROVE PasswordInv'
  OBVIOUS
<1>0. TypeOK'
  BY NextTypeOK DEF PasswordInv
<1>1. CASE UNCHANGED vars
  BY <1>1 DEF vars, PasswordInv, TypeOK, MailsTold, NeverLockedOut, Waits
<1>2. ASSUME NEW r \in Requests, NEW u \in Users, PasswordRequest(r, u) \/ PasskeyRequest(r, u)
      PROVE  PasswordInv'
  BY <1>0, <1>2, PasswordRequestStep, PasskeyRequestStep
<1>3. ASSUME NEW r \in Requests, Continue(r) \/ Abort(r) PROVE PasswordInv'
  BY <1>0, <1>3, ContinueStep, AbortStep
<1>4. ASSUME NEW u \in Users, NEW p \in Passwords, Register(u, p) PROVE PasswordInv'
  BY <1>0, <1>4, RegisterStep
<1>5. ASSUME NEW u \in DOMAIN challenge, ExpireChallenge(u) PROVE PasswordInv'
  BY <1>0, <1>5 DEF ExpireChallenge, PasswordInv, MailsTold, NeverLockedOut, Waits
<1> QED
  BY <1>1, <1>2, <1>3, <1>4, <1>5 DEF Next

\* With any number of requests, users and failures, the password that works is
\* one that the user chose or was mailed (Accounts.NeverLockedOut).
THEOREM NobodyLockedOut == Spec => []NeverLockedOut
<1>1. Init => PasswordInv
  BY InitTypeOK, IdleJob DEF Init, PasswordInv, MailsTold, NeverLockedOut, Waits
<1>2. PasswordInv => NeverLockedOut
  BY DEF PasswordInv
<1> QED
  BY <1>1, <1>2, PasswordInvStep, PTL DEF Spec

-----------------------------------------------------------------------------
(* Passkeys.  The history is a parameter, as what holds of a request must  *)
(* go on holding when it grows.                                            *)

OfferedTo(c, u, o) == c \in DOMAIN o /\ o[c] = u

\* A passkey answers a challenge of its owner.
OwnPasskey(row, o) == OfferedTo(row.challenge, row.user, o)

\* What a request about a challenge has found out.
OwnJob(j, o) ==
  j.at \in {"SetChallenge", "DelChallenge", "SaveAuthenticator"} =>
    OfferedTo(j.challenge, j.user, o)

ChallengesOwn == \A u \in DOMAIN challenge : OfferedTo(challenge[u], u, offered)
JobsOwn == \A r \in Requests : OwnJob(job[r], offered)
PasskeysOwn == \A k \in DOMAIN passkeys : OwnPasskey(passkeys[k], offered)
OwnersExist == \A k \in DOMAIN passkeys : passkeys[k].user \in DOMAIN users

PasskeyInv == TypeOK /\ ChallengesOwn /\ JobsOwn /\ PasskeysOwn /\ OwnersExist

\* A history grows: what it says is not taken back.
Grows(f, g) == DOMAIN f \subseteq DOMAIN g /\ \A x \in DOMAIN f : g[x] = f[x]

LEMMA OfferedGrows ==
  ASSUME NEW o, NEW p, Grows(o, p)
  PROVE  \A c, u : OfferedTo(c, u, o) => OfferedTo(c, u, p)
  BY DEF OfferedTo, Grows

LEMMA OwnIdle == \A o : OwnJob(Idle, o)
  BY IdleJob DEF OwnJob

LEMMA GrowsRefl == \A f : Grows(f, f)
  BY DEF Grows

\* A step of one request that keeps the history, and what is stored own.
LEMMA OwnStep ==
  ASSUME PasskeyInv, TypeOK', Grows(offered, offered'),
         NEW r \in Requests, OwnJob(job'[r], offered'),
         \A q \in Requests \ {r} : job'[q] = job[q],
         \A u \in DOMAIN challenge' :
           \/ OfferedTo(challenge'[u], u, offered')
           \/ u \in DOMAIN challenge /\ challenge'[u] = challenge[u],
         \A k \in DOMAIN passkeys' :
           /\ \/ OwnPasskey(passkeys'[k], offered')
              \/ /\ k \in DOMAIN passkeys /\ passkeys'[k].user = passkeys[k].user
                 /\ passkeys'[k].challenge = passkeys[k].challenge
           /\ passkeys'[k].user \in DOMAIN users'
  PROVE  PasskeyInv'
<1>1. ChallengesOwn'
  <2> SUFFICES ASSUME NEW u \in DOMAIN challenge' PROVE OfferedTo(challenge'[u], u, offered')
    BY DEF ChallengesOwn
  <2> QED
    BY DEF PasskeyInv, ChallengesOwn, OfferedTo, Grows
<1>2. JobsOwn'
  <2> SUFFICES ASSUME NEW q \in Requests PROVE OwnJob(job'[q], offered')
    BY DEF JobsOwn
  <2>1. CASE q = r
    BY <2>1
  <2>2. CASE q # r
    <3>1. job'[q] = job[q] /\ OwnJob(job[q], offered)
      BY <2>2 DEF PasskeyInv, JobsOwn
    <3> QED
      BY <3>1, OfferedGrows DEF OwnJob
  <2> QED
    BY <2>1, <2>2
<1>3. PasskeysOwn'
  <2> SUFFICES ASSUME NEW k \in DOMAIN passkeys'
               PROVE  OwnPasskey(passkeys'[k], offered')
    BY DEF PasskeysOwn
  <2>1. CASE /\ k \in DOMAIN passkeys /\ passkeys'[k].user = passkeys[k].user
             /\ passkeys'[k].challenge = passkeys[k].challenge
    <3>1. OwnPasskey(passkeys[k], offered')
      BY <2>1, OfferedGrows DEF PasskeyInv, PasskeysOwn, OwnPasskey
    <3> QED
      BY <2>1, <3>1 DEF OwnPasskey
  <2> QED
    BY <2>1
<1>4. OwnersExist'
  BY DEF OwnersExist
<1> QED
  BY <1>1, <1>2, <1>3, <1>4 DEF PasskeyInv

\* A step that touches neither challenges, histories nor passkeys, and deletes
\* nobody.
LEMMA OwnUntouched ==
  ASSUME PasskeyInv, TypeOK', UNCHANGED <<challenge, passkeys, offered>>,
         DOMAIN users \subseteq DOMAIN users',
         NEW r \in Requests, NEW j, job' = [job EXCEPT ![r] = j], OwnJob(j, offered)
  PROVE  PasskeyInv'
<1>1. job'[r] = j /\ \A q \in Requests \ {r} : job'[q] = job[q]
  BY Moves DEF PasskeyInv
<1>2. \A k \in DOMAIN passkeys' : passkeys'[k].user \in DOMAIN users'
  BY DEF PasskeyInv, OwnersExist
<1> QED
  BY <1>1, <1>2, OwnStep, GrowsRefl

LEMMA OwnPasswordRequest ==
  ASSUME PasskeyInv, TypeOK', NEW r \in Requests, NEW u \in Users, PasswordRequest(r, u)
  PROVE  PasskeyInv'
<1>1. UNCHANGED <<challenge, passkeys, offered>> /\ users' = users
  BY DEF PasswordRequest, IssuePassword, ChangePassword, CheckPassword
<1>2. ASSUME NEW p \in FreshPasswords, IssuePassword(r, u, p) PROVE PasskeyInv'
  <2> DEFINE j == [at |-> "SendEmail", user |-> u, password |-> p, old |-> NoPassword]
  <2>1. job' = [job EXCEPT ![r] = j] /\ OwnJob(j, offered)
    BY <1>2 DEF IssuePassword, Start, OwnJob
  <2> HIDE DEF j
  <2> QED
    BY <1>1, <2>1, OwnUntouched
<1>3. ASSUME NEW old \in Passwords, NEW p \in Passwords, ChangePassword(r, u, old, p)
      PROVE  PasskeyInv'
  <2> DEFINE j == [at |-> "UpdateUserPassword", user |-> u, password |-> p, old |-> old]
  <2>1. job' = [job EXCEPT ![r] = j] /\ OwnJob(j, offered)
    BY <1>3 DEF ChangePassword, Start, OwnJob
  <2> HIDE DEF j
  <2> QED
    BY <1>1, <2>1, OwnUntouched
<1>4. ASSUME NEW old \in Passwords, CheckPassword(r, u, old) PROVE PasskeyInv'
  <2> DEFINE j == [at |-> "DeleteUser", user |-> u, old |-> old]
  <2>1. job' = [job EXCEPT ![r] = j] /\ OwnJob(j, offered)
    BY <1>4 DEF CheckPassword, Start, OwnJob
  <2> HIDE DEF j
  <2> QED
    BY <1>1, <2>1, OwnUntouched
<1> QED
  BY <1>2, <1>3, <1>4 DEF PasswordRequest

LEMMA OwnSend ==
  ASSUME PasskeyInv, TypeOK', NEW r \in Requests, SendEmail(r)
  PROVE  PasskeyInv'
<1> DEFINE j == [job[r] EXCEPT !.at = "UpdateUserPassword"]
<1>1. job[r] \in Jobs /\ job[r].at = "SendEmail"
  BY DEF PasskeyInv, TypeOK, SendEmail, Waits
<1>2. job' = [job EXCEPT ![r] = j]
  BY DEF SendEmail, Go, Goto
<1>3. j.at = "UpdateUserPassword"
  BY <1>1, MailedJob
<1> HIDE DEF j
<1>4. OwnJob(j, offered)
  BY <1>3 DEF OwnJob
<1> QED
  BY <1>2, <1>4, OwnUntouched DEF SendEmail

LEMMA OwnUpdate ==
  ASSUME PasskeyInv, TypeOK', NEW r \in Requests, UpdateUserPassword(r)
  PROVE  PasskeyInv'
<1>1. UNCHANGED <<challenge, passkeys, offered>> /\ job' = [job EXCEPT ![r] = Idle]
  BY DEF UpdateUserPassword, Goto
<1>2. DOMAIN users \subseteq DOMAIN users'
  BY DEF UpdateUserPassword
<1> QED
  BY <1>1, <1>2, OwnUntouched, OwnIdle

LEMMA OwnDeleteUser ==
  ASSUME PasskeyInv, TypeOK', NEW r \in Requests, DeleteUser(r)
  PROVE  PasskeyInv'
<1>1. job'[r] = Idle /\ \A q \in Requests \ {r} : job'[q] = job[q]
  BY Moves DEF DeleteUser, PasskeyInv
<1>2. offered' = offered /\ challenge' = challenge
  BY DEF DeleteUser
<1>3. passkeys' = Cascade(job[r].user) /\ DOMAIN users' = DOMAIN users \ {job[r].user}
  BY DEF DeleteUser, Del, Restrict
<1>4. \A k \in DOMAIN passkeys' :
        /\ k \in DOMAIN passkeys /\ passkeys'[k] = passkeys[k]
        /\ passkeys'[k].user \in DOMAIN users'
  BY <1>3 DEF PasskeyInv, OwnersExist, Cascade, Restrict
<1> QED
  BY <1>1, <1>2, <1>4, OwnStep, OwnIdle, GrowsRefl

LEMMA OwnOptions ==
  ASSUME PasskeyInv, TypeOK', NEW r \in Requests, NEW u \in Users, NEW c \in Challenges,
         RegisterOptions(r, u, c)
  PROVE  PasskeyInv'
<1> DEFINE j == [at |-> "SetChallenge", user |-> u, challenge |-> c]
<1>1. job' = [job EXCEPT ![r] = j]
  BY DEF RegisterOptions, Start
<1>2. challenge' = challenge /\ passkeys' = passkeys /\ users' = users
  BY DEF RegisterOptions
<1>3. Grows(offered, offered') /\ OfferedTo(c, u, offered')
  BY DEF RegisterOptions, Grows, OfferedTo, Put
<1>4. OwnJob(j, offered')
  BY <1>3 DEF OwnJob
<1> HIDE DEF j
<1>5. job'[r] = j /\ \A q \in Requests \ {r} : job'[q] = job[q]
  BY <1>1, Moves DEF PasskeyInv
<1>6. \A k \in DOMAIN passkeys' : passkeys'[k].user \in DOMAIN users'
  BY <1>2 DEF PasskeyInv, OwnersExist
<1> QED
  BY <1>2, <1>3, <1>4, <1>5, <1>6, OwnStep, GrowsRefl

LEMMA OwnSetChallenge ==
  ASSUME PasskeyInv, TypeOK', NEW r \in Requests, SetChallenge(r)
  PROVE  PasskeyInv'
<1>1. job'[r] = Idle /\ \A q \in Requests \ {r} : job'[q] = job[q]
  BY Moves DEF SetChallenge, PasskeyInv
<1>2. OfferedTo(job[r].challenge, job[r].user, offered)
  BY DEF SetChallenge, Waits, PasskeyInv, JobsOwn, OwnJob
<1>3. UNCHANGED <<offered, passkeys, users>>
  BY DEF SetChallenge
<1>4. \A u \in DOMAIN challenge' :
        \/ OfferedTo(challenge'[u], u, offered')
        \/ u \in DOMAIN challenge /\ challenge'[u] = challenge[u]
  <2> DEFINE v == job[r].user
             c == job[r].challenge
  <2>1. challenge' = Put(challenge, v, c) /\ OfferedTo(c, v, offered')
    BY <1>2, <1>3 DEF SetChallenge
  <2> HIDE DEF v, c
  <2> QED
    BY <2>1 DEF Put
<1>5. \A k \in DOMAIN passkeys' : passkeys'[k].user \in DOMAIN users'
  BY <1>3 DEF PasskeyInv, OwnersExist
<1> QED
  BY <1>1, <1>3, <1>4, <1>5, OwnStep, OwnIdle, GrowsRefl

LEMMA OwnVerify ==
  ASSUME PasskeyInv, TypeOK', NEW r \in Requests, NEW u \in Users, NEW k \in Keys,
         NEW c \in DOMAIN offered, VerifyRegistration(r, u, k, c)
  PROVE  PasskeyInv'
<1> DEFINE j == [at |-> "GetChallenge", user |-> u, challenge |-> c, key |-> k]
<1>1. job' = [job EXCEPT ![r] = j]
  BY DEF VerifyRegistration, Start
<1>2. offered' = offered /\ challenge' = challenge /\ passkeys' = passkeys /\ users' = users
  BY DEF VerifyRegistration
<1>4. OwnJob(j, offered')
  BY DEF OwnJob
<1> HIDE DEF j
<1>5. job'[r] = j /\ \A q \in Requests \ {r} : job'[q] = job[q]
  BY <1>1, Moves DEF PasskeyInv
<1>6. \A x \in DOMAIN passkeys' : passkeys'[x].user \in DOMAIN users'
  BY <1>2 DEF PasskeyInv, OwnersExist
<1> QED
  BY <1>2, <1>4, <1>5, <1>6, OwnStep, GrowsRefl

LEMMA OwnGetChallenge ==
  ASSUME PasskeyInv, TypeOK', NEW r \in Requests, GetChallenge(r)
  PROVE  PasskeyInv'
<1>1. UNCHANGED <<challenge, passkeys, offered, users>>
  BY DEF GetChallenge
<1>2. CASE job' = [job EXCEPT ![r] = Idle]
  BY <1>1, <1>2, OwnUntouched, OwnIdle
<1>3. CASE job' # [job EXCEPT ![r] = Idle]
  <2> DEFINE j == [job[r] EXCEPT !.at = "DelChallenge"]
  <2>1. /\ job' = [job EXCEPT ![r] = j] /\ job[r].at = "GetChallenge"
        /\ job[r].user \in DOMAIN challenge /\ challenge[job[r].user] = job[r].challenge
    BY <1>3 DEF GetChallenge, Go, Goto, Waits
  <2>2. job[r] \in Jobs
    BY DEF PasskeyInv, TypeOK
  <2>3. /\ j.at = "DelChallenge" /\ j.user = job[r].user /\ j.key = job[r].key
        /\ j.challenge = job[r].challenge
    BY <2>1, <2>2, AnsweredJob
  <2> HIDE DEF j
  <2>4. OfferedTo(job[r].challenge, job[r].user, offered)
    BY <2>1 DEF PasskeyInv, ChallengesOwn
  <2>6. OwnJob(j, offered)
    BY <2>3, <2>4 DEF OwnJob
  <2> QED
    BY <1>1, <2>1, <2>6, OwnUntouched
<1> QED
  BY <1>2, <1>3

LEMMA OwnDelChallenge ==
  ASSUME PasskeyInv, TypeOK', NEW r \in Requests, DelChallenge(r)
  PROVE  PasskeyInv'
<1> DEFINE j == [job[r] EXCEPT !.at = "SaveAuthenticator"]
<1>1. job[r] \in Jobs /\ job[r].at = "DelChallenge" /\ job' = [job EXCEPT ![r] = j]
  BY DEF PasskeyInv, TypeOK, DelChallenge, Waits, Go, Goto
<1>2. /\ j.at = "SaveAuthenticator" /\ j.user = job[r].user /\ j.key = job[r].key
      /\ j.challenge = job[r].challenge
  BY <1>1, AnsweredJob
<1> HIDE DEF j
<1>3. UNCHANGED <<offered, passkeys, users>>
  BY DEF DelChallenge
<1>4. OwnJob(j, offered')
  BY <1>1, <1>2, <1>3 DEF PasskeyInv, JobsOwn, OwnJob
<1>5. job'[r] = j /\ \A q \in Requests \ {r} : job'[q] = job[q]
  BY <1>1, Moves DEF PasskeyInv
<1>6. \A u \in DOMAIN challenge' : u \in DOMAIN challenge /\ challenge'[u] = challenge[u]
  BY DEF DelChallenge, Del, Restrict
<1>7. \A k \in DOMAIN passkeys' : passkeys'[k].user \in DOMAIN users'
  BY <1>3 DEF PasskeyInv, OwnersExist
<1> QED
  BY <1>3, <1>4, <1>5, <1>6, <1>7, OwnStep, GrowsRefl

LEMMA OwnSave ==
  ASSUME PasskeyInv, TypeOK', NEW r \in Requests, NEW n \in Names, SaveAuthenticator(r, n)
  PROVE  PasskeyInv'
<1> DEFINE u == job[r].user
           c == job[r].challenge
           k == job[r].key
           row == NewPasskey(u, c, n)
<1>1. job'[r] = Idle /\ \A q \in Requests \ {r} : job'[q] = job[q]
  BY Moves DEF SaveAuthenticator, PasskeyInv
<1>2. OfferedTo(c, u, offered)
  BY DEF SaveAuthenticator, Waits, PasskeyInv, JobsOwn, OwnJob
<1>3. UNCHANGED <<offered, challenge, users>>
  BY DEF SaveAuthenticator
<1>4. passkeys' = passkeys \/ (u \in DOMAIN users /\ passkeys' = Put(passkeys, k, row))
  BY DEF SaveAuthenticator, Storable
<1>5. row.user = u /\ row.challenge = c
  BY DEF NewPasskey
<1>6. OwnPasskey(row, offered')
  BY <1>2, <1>3, <1>5 DEF OwnPasskey
<1> HIDE DEF u, c, k, row
<1>7. \A x \in DOMAIN passkeys' :
        /\ \/ OwnPasskey(passkeys'[x], offered')
           \/ x \in DOMAIN passkeys /\ passkeys'[x] = passkeys[x]
        /\ passkeys'[x].user \in DOMAIN users'
  <2>1. CASE passkeys' = passkeys
    BY <1>3, <2>1 DEF PasskeyInv, OwnersExist
  <2>2. CASE u \in DOMAIN users /\ passkeys' = Put(passkeys, k, row)
    BY <1>3, <1>5, <1>6, <2>2 DEF PasskeyInv, OwnersExist, Put
  <2> QED
    BY <1>4, <2>1, <2>2
<1> QED
  BY <1>1, <1>3, <1>7, OwnStep, OwnIdle, GrowsRefl

LEMMA OwnGetAuthenticator ==
  ASSUME PasskeyInv, TypeOK', NEW r \in Requests, NEW u \in Users, NEW k \in Keys,
         NEW call \in {"UpdatePasskey", "DeletePasskey"}, GetAuthenticator(r, u, k, call)
  PROVE  PasskeyInv'
<1> DEFINE j == [at |-> call, user |-> u, key |-> k]
<1>1. job' = [job EXCEPT ![r] = j] /\ UNCHANGED <<challenge, passkeys, offered, users>>
  BY DEF GetAuthenticator, Goto
<1>3. OwnJob(j, offered)
  BY DEF OwnJob
<1> HIDE DEF j
<1> QED
  BY <1>1, <1>3, OwnUntouched

LEMMA OwnRename ==
  ASSUME PasskeyInv, TypeOK', NEW r \in Requests, NEW n \in Names, UpdatePasskey(r, n)
  PROVE  PasskeyInv'
<1>1. job'[r] = Idle /\ \A q \in Requests \ {r} : job'[q] = job[q]
  BY Moves DEF UpdatePasskey, PasskeyInv
<1>2. UNCHANGED <<offered, challenge, users>>
  BY DEF UpdatePasskey
<1>3. \A k \in DOMAIN passkeys' :
        /\ k \in DOMAIN passkeys /\ passkeys'[k].user = passkeys[k].user
        /\ passkeys'[k].challenge = passkeys[k].challenge
        /\ passkeys'[k].user \in DOMAIN users'
  BY <1>2, RenameGet DEF PasskeyInv, OwnersExist
<1> QED
  BY <1>1, <1>2, <1>3, OwnStep, OwnIdle, GrowsRefl

LEMMA OwnRemove ==
  ASSUME PasskeyInv, TypeOK', NEW r \in Requests, DeletePasskey(r)
  PROVE  PasskeyInv'
<1>1. job'[r] = Idle /\ \A q \in Requests \ {r} : job'[q] = job[q]
  BY Moves DEF DeletePasskey, PasskeyInv
<1>2. UNCHANGED <<offered, challenge, users>>
  BY DEF DeletePasskey
<1>3. \A k \in DOMAIN passkeys' :
        /\ k \in DOMAIN passkeys /\ passkeys'[k] = passkeys[k]
        /\ passkeys'[k].user \in DOMAIN users'
  BY <1>2 DEF DeletePasskey, Del, Restrict, PasskeyInv, OwnersExist
<1> QED
  BY <1>1, <1>2, <1>3, OwnStep, OwnIdle, GrowsRefl

LEMMA OwnExpire ==
  ASSUME PasskeyInv, TypeOK', NEW u, ExpireChallenge(u)
  PROVE  PasskeyInv'
<1>1. \A v \in DOMAIN challenge' : v \in DOMAIN challenge /\ challenge'[v] = challenge[v]
  BY DEF ExpireChallenge, Del, Restrict
<1>2. UNCHANGED <<offered, passkeys, users, job>>
  BY DEF ExpireChallenge
<1> QED
  BY <1>1, <1>2 DEF PasskeyInv, ChallengesOwn, JobsOwn, PasskeysOwn, OwnersExist

LEMMA PasskeyInvStep == PasskeyInv /\ [Next]_vars => PasskeyInv'
<1> SUFFICES ASSUME PasskeyInv, [Next]_vars PROVE PasskeyInv'
  OBVIOUS
<1>0. TypeOK'
  BY NextTypeOK DEF PasskeyInv
<1>1. CASE UNCHANGED vars
  BY <1>0, <1>1 DEF vars, PasskeyInv, ChallengesOwn, JobsOwn, PasskeysOwn, OwnersExist
<1>2. ASSUME NEW r \in Requests, NEW u \in Users, PasswordRequest(r, u) PROVE PasskeyInv'
  BY <1>0, <1>2, OwnPasswordRequest
<1>3. ASSUME NEW r \in Requests, NEW u \in Users, PasskeyRequest(r, u) PROVE PasskeyInv'
  BY <1>0, <1>3, OwnOptions, OwnVerify, OwnGetAuthenticator DEF PasskeyRequest
<1>4. ASSUME NEW r \in Requests, Continue(r) PROVE PasskeyInv'
  BY <1>0, <1>4, OwnSend, OwnUpdate, OwnDeleteUser, OwnSetChallenge, OwnGetChallenge,
     OwnDelChallenge, OwnSave, OwnRename, OwnRemove DEF Continue
<1>5. ASSUME NEW r \in Requests, Abort(r) PROVE PasskeyInv'
  BY <1>0, <1>5, OwnUntouched, OwnIdle DEF Abort
<1>6. ASSUME NEW u \in Users, NEW p \in Passwords, Register(u, p) PROVE PasskeyInv'
  BY <1>0, <1>6 DEF Register, Put, PasskeyInv, ChallengesOwn, JobsOwn, PasskeysOwn, OwnersExist
<1>7. ASSUME NEW u \in DOMAIN challenge, ExpireChallenge(u) PROVE PasskeyInv'
  BY <1>0, <1>7, OwnExpire
<1> QED
  BY <1>1, <1>2, <1>3, <1>4, <1>5, <1>6, <1>7 DEF Next

LEMMA InitPasskeyInv == Init => PasskeyInv
  BY InitTypeOK, OwnIdle
  DEF Init, PasskeyInv, ChallengesOwn, JobsOwn, PasskeysOwn, OwnersExist

\* No passkey is saved for anybody but the user that its challenge was drawn for,
\* and none outlives its user (Accounts.PasskeysAnswerOwnChallenge).
THEOREM PasskeysCorrect == Spec => []PasskeysAnswerOwnChallenge
<1>1. PasskeyInv => PasskeysAnswerOwnChallenge
  BY DEF PasskeyInv, PasskeysOwn, OwnersExist, OwnPasskey, OfferedTo, PasskeysAnswerOwnChallenge
<1> QED
  BY <1>1, InitPasskeyInv, PasskeyInvStep, PTL DEF Spec

-----------------------------------------------------------------------------
(* Who touches passkeys.                                                   *)

\* The step that PasskeysTouchedByOwner speaks of.
Touched(k) == k \notin DOMAIN passkeys' \/ passkeys'[k] # passkeys[k]
ByOwner(k) ==
  \/ passkeys[k].user \notin DOMAIN users'
  \/ \E r \in Requests : job'[r] # job[r] /\ job[r].at \in {"UpdatePasskey", "DeletePasskey"}
                         /\ job[r].user = passkeys[k].user

\* The owner that was compared with is still the owner, unless the credential was
\* saved again in between.
Handles(r, k) == job[r].at \in {"UpdatePasskey", "DeletePasskey"} /\ job[r].key = k
SameOwner ==
  \A k \in DOMAIN passkeys \ reused : \A r \in Requests :
    Handles(r, k) => job[r].user = passkeys[k].user

OwnerInv == TypeOK /\ SameOwner

\* A step that adds no passkey and starts no rename or removal.
LEMMA OwnerKept ==
  ASSUME OwnerInv, TypeOK', reused' = reused,
         \A k \in DOMAIN passkeys' : k \in DOMAIN passkeys /\ passkeys'[k].user = passkeys[k].user,
         \A r \in Requests : job'[r] = job[r] \/ job'[r].at \notin {"UpdatePasskey", "DeletePasskey"}
  PROVE  OwnerInv'
  BY DEF OwnerInv, SameOwner, Handles

LEMMA OwnerSaved ==
  ASSUME OwnerInv, TypeOK', NEW r \in Requests, NEW n \in Names, SaveAuthenticator(r, n)
  PROVE  OwnerInv'
<1> DEFINE u == job[r].user
           k == job[r].key
<1>1. job'[r] = Idle /\ \A q \in Requests \ {r} : job'[q] = job[q]
  BY Moves DEF SaveAuthenticator, OwnerInv
<1>2. \A x : \A q \in Requests : Handles(q, x)' => Handles(q, x) /\ job'[q] = job[q]
  BY <1>1, IdleJob DEF Handles
<1>3. CASE ~Storable(u, k)
  BY <1>2, <1>3 DEF SaveAuthenticator, OwnerInv, SameOwner
<1>4. CASE Storable(u, k)
  <2>1. /\ DOMAIN passkeys' = DOMAIN passkeys \cup {k} /\ passkeys'[k].user = u
        /\ \A x \in DOMAIN passkeys : x # k => passkeys'[x] = passkeys[x]
        /\ reused' = IF Contested(u, k) THEN reused \cup {k} ELSE reused \ {k}
    BY <1>4 DEF SaveAuthenticator, Put, NewPasskey
  <2>2. SUFFICES ASSUME NEW x \in DOMAIN passkeys' \ reused', NEW q \in Requests, Handles(q, x)'
                 PROVE  job'[q].user = passkeys'[x].user
    BY DEF OwnerInv, SameOwner
  <2>3. Handles(q, x) /\ job'[q] = job[q]
    BY <1>2, <2>2
  <2>4. CASE x = k
    <3>1. ~Contested(u, k)
      BY <2>1, <2>2, <2>4
    <3>2. job[q].user = u
      BY <2>3, <2>4, <3>1 DEF Contested, Handles
    <3> QED
      BY <2>1, <2>3, <2>4, <3>2
  <2>5. CASE x # k
    BY <2>1, <2>2, <2>3, <2>5 DEF OwnerInv, SameOwner
  <2> QED
    BY <2>4, <2>5
<1> QED
  BY <1>3, <1>4

LEMMA OwnerFound ==
  ASSUME OwnerInv, TypeOK', NEW r \in Requests, NEW u \in Users, NEW k \in Keys,
         NEW call \in {"UpdatePasskey", "DeletePasskey"}, GetAuthenticator(r, u, k, call)
  PROVE  OwnerInv'
<1> DEFINE j == [at |-> call, user |-> u, key |-> k]
<1>1. job' = [job EXCEPT ![r] = j] /\ UNCHANGED <<passkeys, reused>> /\ passkeys[k].user = u
  BY DEF GetAuthenticator, Goto, Owns
<1>2. j.user = u /\ j.key = k
  OBVIOUS
<1> HIDE DEF j
<1>3. job'[r] = j /\ \A q \in Requests \ {r} : job'[q] = job[q]
  BY <1>1, Moves DEF OwnerInv
<1> QED
  BY <1>1, <1>2, <1>3 DEF OwnerInv, SameOwner, Handles

LEMMA OwnerElsewhere ==
  ASSUME OwnerInv, TypeOK', NEW r \in Requests,
         \/ SendEmail(r) \/ UpdateUserPassword(r) \/ DeleteUser(r) \/ SetChallenge(r)
         \/ GetChallenge(r) \/ DelChallenge(r) \/ DeletePasskey(r) \/ Abort(r)
         \/ \E n \in Names : UpdatePasskey(r, n)
  PROVE  OwnerInv'
<1>0. TypeOK /\ job[r] \in Jobs
  BY DEF OwnerInv, TypeOK
<1>1. reused' = reused
  BY DEF SendEmail, UpdateUserPassword, DeleteUser, SetChallenge, GetChallenge, DelChallenge,
     DeletePasskey, Abort, UpdatePasskey
<1>2. \A k \in DOMAIN passkeys' : k \in DOMAIN passkeys /\ passkeys'[k].user = passkeys[k].user
  <2>1. CASE \E n \in Names : UpdatePasskey(r, n)
    BY <1>0, <2>1, RenameGet
  <2>2. CASE DeleteUser(r)
    BY <2>2 DEF DeleteUser, Cascade, Restrict
  <2>3. CASE DeletePasskey(r)
    BY <2>3 DEF DeletePasskey, Del, Restrict
  <2>4. CASE UNCHANGED passkeys
    BY <2>4
  <2> QED
    BY <2>1, <2>2, <2>3, <2>4
    DEF SendEmail, UpdateUserPassword, SetChallenge, GetChallenge, DelChallenge, Abort
<1>3. \E j : job' = [job EXCEPT ![r] = j] /\ j.at \notin {"UpdatePasskey", "DeletePasskey"}
  <2>1. CASE job' = [job EXCEPT ![r] = Idle]
    BY <2>1, IdleJob
  <2>2. CASE SendEmail(r)
    <3>1. [job[r] EXCEPT !.at = "UpdateUserPassword"].at = "UpdateUserPassword"
      BY <1>0, <2>2, MailedJob DEF SendEmail, Waits
    <3> QED
      BY <2>2, <3>1 DEF SendEmail, Go, Goto
  <2>3. CASE GetChallenge(r) \/ DelChallenge(r)
    <3>1. \A call \in {"DelChallenge", "SaveAuthenticator"} : [job[r] EXCEPT !.at = call].at = call
      BY <1>0, <2>3, AnsweredJob DEF GetChallenge, DelChallenge, Waits
    <3> QED
      BY <2>1, <2>3, <3>1 DEF GetChallenge, DelChallenge, Go, Goto
  <2>4. CASE UpdateUserPassword(r) \/ DeleteUser(r) \/ SetChallenge(r) \/ DeletePasskey(r)
    BY <2>1, <2>4 DEF UpdateUserPassword, DeleteUser, SetChallenge, DeletePasskey, Goto
  <2>5. CASE Abort(r) \/ \E n \in Names : UpdatePasskey(r, n)
    BY <2>1, <2>5 DEF Abort, UpdatePasskey, Goto
  <2> QED
    BY <2>2, <2>3, <2>4, <2>5
<1> QED
  BY <1>0, <1>1, <1>2, <1>3, Moves, OwnerKept

LEMMA OwnerRequest ==
  ASSUME OwnerInv, TypeOK', NEW r \in Requests, NEW u \in Users,
         \/ PasswordRequest(r, u)
         \/ \E c \in Challenges : RegisterOptions(r, u, c)
         \/ \E k \in Keys, c \in DOMAIN offered : VerifyRegistration(r, u, k, c)
  PROVE  OwnerInv'
<1>1. \E j : job' = [job EXCEPT ![r] = j] /\ j.at \notin {"UpdatePasskey", "DeletePasskey"}
  <2>1. ASSUME NEW p, IssuePassword(r, u, p)
        PROVE  job'[r].at = "SendEmail" /\ \E j : job' = [job EXCEPT ![r] = j]
    BY <2>1 DEF IssuePassword, Start, OwnerInv, TypeOK
  <2>2. ASSUME NEW old, NEW p, ChangePassword(r, u, old, p)
        PROVE  job'[r].at = "UpdateUserPassword" /\ \E j : job' = [job EXCEPT ![r] = j]
    BY <2>2 DEF ChangePassword, Start, OwnerInv, TypeOK
  <2>3. ASSUME NEW old, CheckPassword(r, u, old)
        PROVE  job'[r].at = "DeleteUser" /\ \E j : job' = [job EXCEPT ![r] = j]
    BY <2>3 DEF CheckPassword, Start, OwnerInv, TypeOK
  <2>4. ASSUME NEW c, RegisterOptions(r, u, c)
        PROVE  job'[r].at = "SetChallenge" /\ \E j : job' = [job EXCEPT ![r] = j]
    BY <2>4 DEF RegisterOptions, Start, OwnerInv, TypeOK
  <2>5. ASSUME NEW k, NEW c, VerifyRegistration(r, u, k, c)
        PROVE  job'[r].at = "GetChallenge" /\ \E j : job' = [job EXCEPT ![r] = j]
    BY <2>5 DEF VerifyRegistration, Start, OwnerInv, TypeOK
  <2>6. /\ job'[r].at \notin {"UpdatePasskey", "DeletePasskey"}
        /\ \E j : job' = [job EXCEPT ![r] = j]
    BY <2>1, <2>2, <2>3, <2>4, <2>5 DEF PasswordRequest
  <2> QED
    BY <2>6 DEF OwnerInv, TypeOK
<1>2. UNCHANGED <<passkeys, reused>>
  BY DEF PasswordRequest, IssuePassword, ChangePassword, CheckPassword, RegisterOptions,
     VerifyRegistration
<1> QED
  BY <1>1, <1>2, Moves, OwnerKept DEF OwnerInv

LEMMA OwnerInvStep == OwnerInv /\ [Next]_vars => OwnerInv'
<1> SUFFICES ASSUME OwnerInv, [Next]_vars PROVE OwnerInv'
  OBVIOUS
<1>0. TypeOK'
  BY NextTypeOK DEF OwnerInv
<1>1. ASSUME UNCHANGED <<job, passkeys, reused>> PROVE OwnerInv'
  BY <1>0, <1>1, OwnerKept
<1>2. CASE UNCHANGED vars
  BY <1>1, <1>2 DEF vars
<1>3. ASSUME NEW r \in Requests, NEW u \in Users, PasswordRequest(r, u) \/ PasskeyRequest(r, u)
      PROVE  OwnerInv'
  BY <1>0, <1>3, OwnerRequest, OwnerFound DEF PasskeyRequest
<1>4. ASSUME NEW r \in Requests, Continue(r) \/ Abort(r) PROVE OwnerInv'
  BY <1>0, <1>4, OwnerElsewhere, OwnerSaved DEF Continue
<1>5. ASSUME NEW u \in Users, NEW p \in Passwords, Register(u, p) PROVE OwnerInv'
  BY <1>1, <1>5 DEF Register
<1>6. ASSUME NEW u \in DOMAIN challenge, ExpireChallenge(u) PROVE OwnerInv'
  BY <1>1, <1>6 DEF ExpireChallenge
<1> QED
  BY <1>2, <1>3, <1>4, <1>5, <1>6 DEF Next

LEMMA TouchStep ==
  ASSUME OwnerInv, [Next]_vars, NEW k \in DOMAIN passkeys \ reused, Touched(k)
  PROVE  ByOwner(k)
<1>1. CASE UNCHANGED vars
  BY <1>1 DEF vars, Touched
<1>2. ASSUME NEW r \in Requests, NEW u \in Users, PasswordRequest(r, u) \/ PasskeyRequest(r, u)
      PROVE  ByOwner(k)
  BY <1>2 DEF PasswordRequest, IssuePassword, ChangePassword, CheckPassword, PasskeyRequest,
     RegisterOptions, VerifyRegistration, GetAuthenticator, Touched
<1>3. ASSUME NEW r \in Requests, Continue(r) PROVE ByOwner(k)
  <2>1. CASE SendEmail(r) \/ UpdateUserPassword(r) \/ SetChallenge(r) \/ GetChallenge(r)
             \/ DelChallenge(r)
    BY <2>1 DEF SendEmail, UpdateUserPassword, SetChallenge, GetChallenge, DelChallenge, Touched
  <2>2. CASE DeleteUser(r)
    <3>1. passkeys[k].user = job[r].user
      BY <2>2, CascadeGet DEF DeleteUser, Touched
    <3>2. job[r].user \notin DOMAIN users'
      BY <2>2 DEF DeleteUser, Del, Restrict
    <3> QED
      BY <3>1, <3>2 DEF ByOwner
  <2>3. ASSUME NEW n \in Names, SaveAuthenticator(r, n) PROVE ByOwner(k)
    <3>1. passkeys' = passkeys \/ job[r].key \notin DOMAIN passkeys
      BY <2>3 DEF SaveAuthenticator, Storable
    <3>2. k \in DOMAIN passkeys' /\ passkeys'[k] = passkeys[k]
      BY <2>3, <3>1 DEF SaveAuthenticator, Put
    <3> QED
      BY <3>2 DEF Touched
  <2>4. ASSUME NEW n \in Names, UpdatePasskey(r, n) PROVE ByOwner(k)
    <3>1. k = job[r].key
      BY <2>4, RenameGet DEF OwnerInv, Touched
    <3>2. job[r].at = "UpdatePasskey" /\ job'[r] = Idle
      BY <2>4, Moves DEF UpdatePasskey, Waits, OwnerInv
    <3> QED
      BY <3>1, <3>2, IdleJob DEF OwnerInv, SameOwner, Handles, ByOwner
  <2>5. CASE DeletePasskey(r)
    <3>1. k = job[r].key
      BY <2>5 DEF DeletePasskey, Del, Restrict, Touched
    <3>2. job[r].at = "DeletePasskey" /\ job'[r] = Idle
      BY <2>5, Moves DEF DeletePasskey, Waits, OwnerInv
    <3> QED
      BY <3>1, <3>2, IdleJob DEF OwnerInv, SameOwner, Handles, ByOwner
  <2> QED
    BY <1>3, <2>1, <2>2, <2>3, <2>4, <2>5 DEF Continue
<1>4. CASE \/ \E r \in Requests : Abort(r)
           \/ \E u \in Users, p \in Passwords : Register(u, p)
           \/ \E u \in DOMAIN challenge : ExpireChallenge(u)
  BY <1>4 DEF Abort, Register, ExpireChallenge, Touched
<1> QED
  BY <1>1, <1>2, <1>3, <1>4 DEF Next

\* Nobody renames or removes somebody else's passkey, although the owner is
\* compared one call before; a credential that another user saved again in
\* between is excepted (Accounts.PasskeysTouchedByOwner).
THEOREM TouchedCorrect == Spec => PasskeysTouchedByOwner
<1>1. OwnerInv /\ [Next]_vars =>
        [\A k \in DOMAIN passkeys \ reused :
           (k \notin DOMAIN passkeys' \/ passkeys'[k] # passkeys[k])
           => \/ passkeys[k].user \notin DOMAIN users'
              \/ \E r \in Requests : job'[r] # job[r] /\ job[r].at \in {"UpdatePasskey", "DeletePasskey"}
                                     /\ job[r].user = passkeys[k].user]_vars
  BY TouchStep DEF Touched, ByOwner
<1>2. Init => OwnerInv
  BY InitTypeOK DEF Init, OwnerInv, SameOwner
<1> QED
  BY <1>1, <1>2, OwnerInvStep, PTL DEF Spec, PasskeysTouchedByOwner

=============================================================================
