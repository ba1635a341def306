------------------------------ MODULE Accounts ------------------------------
(***************************************************************************)
(* What a user keeps in order to sign in: the password, which can be       *)
(* issued by mail, changed and asked for at the deletion of the account,   *)
(* and the passkeys, which are registered under a challenge, renamed and   *)
(* removed (UserService and UserRepository, src/src/user).                 *)
(*                                                                         *)
(* One action is one call of a store or of the mail server with the code   *)
(* up to the next await, as in Oauth.  The first of two reads of the user  *)
(* is left out where the handler does not use what it returned.  A user is *)
(* looked up by an email that never changes and is not registered again,   *)
(* so that the read by email finds whom the guard found.                   *)
(***************************************************************************)
EXTENDS Naturals, Functions

CONSTANTS
  Users,        \* the uuids that can be drawn; a user's email never changes
  Passwords,    \* a temporary one is drawn, so nobody has it yet
  Keys,         \* credential ids, which whoever answers a challenge chooses
  Challenges,   \* never drawn twice
  Names,        \* what passkeys are called
  Requests,
  NoPassword,   \* what a request for a temporary password is asked for
  Failures      \* TRUE: a call may fail at any point

ASSUME NoPasswordAssumption == NoPassword \notin Passwords

ASSUME FailuresAssumption == Failures \in BOOLEAN

VARIABLES
  users,      \* user -> the password whose hash is in the row
  passkeys,   \* credential id -> row of Authenticator
  challenge,  \* user -> the challenge in Redis, one per user
  job,        \* what each request is waiting for
  known,      \* history: the passwords that each user chose or was mailed
  last,       \* history: user -> the last of them
  offered,    \* history: challenge -> the user that it was drawn for
  reused,     \* history: the credential ids that were saved for a user while a
              \* rename or removal for another one was still in flight
  spoiled     \* history: <<user, promise>> pairs, where a promise is off

vars == <<users, passkeys, challenge, job, known, last, offered, reused, spoiled>>

Idle == [at |-> "Idle"]

\* The calls that decide about the password, and those about the challenge.
PasswordCalls == {"SendEmail", "UpdateUserPassword", "DeleteUser"}
ChallengeCalls == {"SetChallenge", "GetChallenge", "DelChallenge", "SaveAuthenticator"}

\* "password", "challenge": two requests about it were in flight at a time.
\* "mail": a password was mailed and then not stored.
Promises == {"password", "challenge", "mail"}

PasskeyRows == [user : Users, challenge : Challenges, name : Names]

Jobs ==
  {Idle}
  \cup [at : {"SendEmail", "UpdateUserPassword"}, user : Users, password : Passwords,
        old : Passwords \cup {NoPassword}]
  \cup [at : {"DeleteUser"}, user : Users, old : Passwords]
  \cup [at : {"SetChallenge"}, user : Users, challenge : Challenges]
  \cup [at : {"GetChallenge", "DelChallenge", "SaveAuthenticator"}, user : Users,
        challenge : Challenges, key : Keys]
  \cup [at : {"UpdatePasskey", "DeletePasskey"}, user : Users, key : Keys]

TypeOK ==
  /\ DOMAIN users \subseteq Users /\ \A u \in DOMAIN users : users[u] \in Passwords
  /\ DOMAIN passkeys \subseteq Keys /\ \A k \in DOMAIN passkeys : passkeys[k] \in PasskeyRows
  /\ DOMAIN challenge \subseteq Users /\ \A u \in DOMAIN challenge : challenge[u] \in Challenges
  /\ job \in [Requests -> Jobs]
  /\ known \in [Users -> SUBSET Passwords]
  /\ last \in [Users -> Passwords \cup {NoPassword}]
  /\ DOMAIN offered \subseteq Challenges /\ \A c \in DOMAIN offered : offered[c] \in Users
  /\ reused \subseteq Keys
  /\ spoiled \subseteq Users \X Promises

Init ==
  /\ users = <<>> /\ passkeys = <<>> /\ challenge = <<>>
  /\ job = [r \in Requests |-> Idle]
  /\ known = [u \in Users |-> {}] /\ last = [u \in Users |-> NoPassword]
  /\ offered = <<>> /\ reused = {} /\ spoiled = {}

-----------------------------------------------------------------------------
(* Helpers.                                                                *)

Put(store, k, v) == [x \in DOMAIN store \cup {k} |-> IF x = k THEN v ELSE store[x]]
Del(store, k) == Restrict(store, DOMAIN store \ {k})

Waits(r, call) == job[r].at = call
Busy(u, calls) == \E r \in Requests : job[r].at \in calls /\ job[r].user = u

Goto(r, next) == job' = [job EXCEPT ![r] = next] /\ UNCHANGED spoiled
Go(r, call) == Goto(r, [job[r] EXCEPT !.at = call])

\* A request about the promise p to next.user starts, perhaps besides another.
Start(r, next, calls, p) ==
  /\ job' = [job EXCEPT ![r] = next]
  /\ spoiled' = IF Busy(next.user, calls) THEN spoiled \cup {<<next.user, p>>} ELSE spoiled

\* The user gets to know a password.
Give(u, p) ==
  /\ known' = [known EXCEPT ![u] = @ \cup {p}]
  /\ last' = [last EXCEPT ![u] = p]

\* The guard of every request but issuePassword: the user of the access token
\* is looked up, and the row is what the handler gets.
SignedIn(u) == u \in DOMAIN users

-----------------------------------------------------------------------------
(* Passwords: POST /user, POST and PATCH /user/password, DELETE /user.     *)

\* The last call of register, which Verification follows in full.
Register(u, p) ==
  /\ last[u] = NoPassword
  /\ users' = Put(users, u, p)
  /\ Give(u, p)
  /\ UNCHANGED <<passkeys, challenge, job, offered, reused, spoiled>>

\* Passwords that nobody has seen.
FreshPasswords ==
  {p \in Passwords : /\ \A u \in Users : p \notin known[u]
                     /\ \A r \in Requests : Waits(r, "SendEmail") => job[r].password # p}

\* Anybody asks for a temporary password for u: the read by email.
IssuePassword(r, u, p) ==
  /\ Waits(r, "Idle")
  /\ u \in DOMAIN users
  /\ Start(r, [at |-> "SendEmail", user |-> u, password |-> p, old |-> NoPassword],
           PasswordCalls, "password")
  /\ UNCHANGED <<users, passkeys, challenge, known, last, offered, reused>>

\* Mutant: a mail that could not be sent is not noticed.
SendEmailUnnoticed(r) ==
  /\ Waits(r, "SendEmail")
  /\ Go(r, "UpdateUserPassword")
  /\ UNCHANGED <<users, passkeys, challenge, known, last, offered, reused>>

\* The mail goes out while the old password is still the one that works.
SendEmail(r) ==
  /\ Waits(r, "SendEmail")
  /\ Give(job[r].user, job[r].password)
  /\ Go(r, "UpdateUserPassword")
  /\ UNCHANGED <<users, passkeys, challenge, offered, reused>>

\* Mutant: the old password is not compared.
FitsAny(password, old) == TRUE

\* bcrypt.compareSync: the password that was entered is the one of the row.
Fits(password, old) == password = old

\* The old password is compared with the row that the guard read.
ChangePassword(r, u, old, p) ==
  /\ Waits(r, "Idle")
  /\ SignedIn(u)
  /\ Fits(users[u], old)
  /\ Start(r, [at |-> "UpdateUserPassword", user |-> u, password |-> p, old |-> old],
           PasswordCalls, "password")
  /\ UNCHANGED <<users, passkeys, challenge, known, last, offered, reused>>

\* Mutant: only a change by the user is stored.
UpdateChangedPassword(r) ==
  LET u == job[r].user IN
  /\ Waits(r, "UpdateUserPassword")
  /\ IF u \in DOMAIN users /\ job[r].old # NoPassword
       THEN users' = [users EXCEPT ![u] = job[r].password] /\ Give(u, job[r].password)
       ELSE UNCHANGED <<users, known, last>>
  /\ Goto(r, Idle)
  /\ UNCHANGED <<passkeys, challenge, offered, reused>>

\* The last call of both, refused when the user is gone.  The user knows a
\* changed password from here on and a mailed one already.
UpdateUserPassword(r) ==
  LET u == job[r].user IN
  /\ Waits(r, "UpdateUserPassword")
  /\ users' = IF u \in DOMAIN users THEN [users EXCEPT ![u] = job[r].password] ELSE users
  /\ IF u \in DOMAIN users /\ job[r].old # NoPassword
       THEN Give(u, job[r].password) ELSE UNCHANGED <<known, last>>
  /\ Goto(r, Idle)
  /\ UNCHANGED <<passkeys, challenge, offered, reused>>

\* The handler reads the row again and compares the password with it.
CheckPassword(r, u, old) ==
  /\ Waits(r, "Idle")
  /\ SignedIn(u)
  /\ Fits(users[u], old)
  /\ Start(r, [at |-> "DeleteUser", user |-> u, old |-> old], PasswordCalls, "password")
  /\ UNCHANGED <<users, passkeys, challenge, known, last, offered, reused>>

\* The user's passkeys go with the user; the challenge stays in Redis.
Cascade(u) == Restrict(passkeys, {k \in DOMAIN passkeys : passkeys[k].user # u})

DeleteUser(r) ==
  /\ Waits(r, "DeleteUser")
  /\ users' = Del(users, job[r].user)
  /\ passkeys' = Cascade(job[r].user)
  /\ Goto(r, Idle)
  /\ UNCHANGED <<challenge, known, last, offered, reused>>

-----------------------------------------------------------------------------
(* Passkeys: POST /user/passkey and /user/passkey/verify, PATCH and DELETE *)
(* /user/passkey/:id.                                                      *)

\* The read of the user by email; the challenge c is drawn.
RegisterOptions(r, u, c) ==
  /\ Waits(r, "Idle")
  /\ SignedIn(u)
  /\ c \notin DOMAIN offered
  /\ offered' = Put(offered, c, u)
  /\ Start(r, [at |-> "SetChallenge", user |-> u, challenge |-> c], ChallengeCalls, "challenge")
  /\ UNCHANGED <<users, passkeys, challenge, known, last, reused>>

\* The user's former challenge is overwritten.
SetChallenge(r) ==
  /\ Waits(r, "SetChallenge")
  /\ challenge' = Put(challenge, job[r].user, job[r].challenge)
  /\ Goto(r, Idle)
  /\ UNCHANGED <<users, passkeys, known, last, offered, reused>>

\* u presents a credential with the id k and an answer to the challenge c, not
\* necessarily one of u's: the read of the user by email.
VerifyRegistration(r, u, k, c) ==
  /\ Waits(r, "Idle")
  /\ SignedIn(u)
  /\ Start(r, [at |-> "GetChallenge", user |-> u, challenge |-> c, key |-> k],
           ChallengeCalls, "challenge")
  /\ UNCHANGED <<users, passkeys, challenge, known, last, offered, reused>>

\* Mutant: the challenge is used up before the answer is verified.
GetAnyChallenge(r) ==
  /\ Waits(r, "GetChallenge")
  /\ IF job[r].user \in DOMAIN challenge THEN Go(r, "DelChallenge") ELSE Goto(r, Idle)
  /\ UNCHANGED <<users, passkeys, challenge, known, last, offered, reused>>

\* The read of the user's challenge, and verifyRegistrationResponse: an answer
\* to another one is refused and leaves the challenge.
GetChallenge(r) ==
  LET u == job[r].user IN
  /\ Waits(r, "GetChallenge")
  /\ IF u \in DOMAIN challenge /\ challenge[u] = job[r].challenge
       THEN Go(r, "DelChallenge") ELSE Goto(r, Idle)
  /\ UNCHANGED <<users, passkeys, challenge, known, last, offered, reused>>

\* Mutant: the challenge stays valid.
DelChallengeMissed(r) ==
  /\ Waits(r, "DelChallenge")
  /\ Go(r, "SaveAuthenticator")
  /\ UNCHANGED <<users, passkeys, challenge, known, last, offered, reused>>

\* Whichever challenge the user has by now goes.
DelChallenge(r) ==
  /\ Waits(r, "DelChallenge")
  /\ challenge' = Del(challenge, job[r].user)
  /\ Go(r, "SaveAuthenticator")
  /\ UNCHANGED <<users, passkeys, known, last, offered, reused>>

\* Mutant: the row has no name.
NewPasskeyBare(u, c, n) == [user |-> u, challenge |-> c]

NewPasskey(u, c, n) == [user |-> u, challenge |-> c, name |-> n]

\* Mutant: the foreign key is not checked.
StorableAny(u, k) == k \notin DOMAIN passkeys

\* The credential id is the primary key, the user a foreign key.
Storable(u, k) == k \notin DOMAIN passkeys /\ u \in DOMAIN users

\* Somebody else, whose passkey k once was, is about to rename or remove it.
Contested(u, k) ==
  \E r \in Requests :
    job[r].at \in {"UpdatePasskey", "DeletePasskey"} /\ job[r].key = k /\ job[r].user # u

SaveAuthenticator(r, n) ==
  LET u == job[r].user
      k == job[r].key IN
  /\ Waits(r, "SaveAuthenticator")
  /\ IF Storable(u, k)
       THEN /\ passkeys' = Put(passkeys, k, NewPasskey(u, job[r].challenge, n))
            /\ reused' = IF Contested(u, k) THEN reused \cup {k} ELSE reused \ {k}
       ELSE UNCHANGED <<passkeys, reused>>
  /\ Goto(r, Idle)
  /\ UNCHANGED <<users, challenge, known, last, offered>>

\* Mutant: the passkey need not be the caller's.
OwnsAny(u, k) == k \in DOMAIN passkeys

\* The read of the passkey and of whose it is.
Owns(u, k) == k \in DOMAIN passkeys /\ passkeys[k].user = u

\* updatePasskey and deletePasskey start alike.
GetAuthenticator(r, u, k, call) ==
  /\ Waits(r, "Idle")
  /\ SignedIn(u)
  /\ Owns(u, k)
  /\ Goto(r, [at |-> call, user |-> u, key |-> k])
  /\ UNCHANGED <<users, passkeys, challenge, known, last, offered, reused>>

\* Refused when the passkey is gone.
UpdatePasskey(r, n) ==
  LET k == job[r].key IN
  /\ Waits(r, "UpdatePasskey")
  /\ passkeys' = IF k \in DOMAIN passkeys THEN [passkeys EXCEPT ![k].name = n] ELSE passkeys
  /\ Goto(r, Idle)
  /\ UNCHANGED <<users, challenge, known, last, offered, reused>>

DeletePasskey(r) ==
  /\ Waits(r, "DeletePasskey")
  /\ passkeys' = Del(passkeys, job[r].key)
  /\ Goto(r, Idle)
  /\ UNCHANGED <<users, challenge, known, last, offered, reused>>

-----------------------------------------------------------------------------
(* Around the requests.                                                    *)

\* Redis drops a challenge after ten minutes, which may be at any moment
\* relative to the requests.
ExpireChallenge(u) ==
  /\ challenge' = Del(challenge, u)
  /\ UNCHANGED <<users, passkeys, job, known, last, offered, reused, spoiled>>

\* A call fails or the process dies; the requests end where they are.
Abort(r) ==
  /\ Failures
  /\ ~Waits(r, "Idle")
  /\ job' = [job EXCEPT ![r] = Idle]
  /\ spoiled' = IF Waits(r, "UpdateUserPassword") /\ job[r].old = NoPassword
                  THEN spoiled \cup {<<job[r].user, "mail">>} ELSE spoiled
  /\ UNCHANGED <<users, passkeys, challenge, known, last, offered, reused>>

\* The endpoints for passwords and the deletion of the account.
PasswordRequest(r, u) ==
  \/ \E p \in FreshPasswords : IssuePassword(r, u, p)
  \/ \E old, p \in Passwords : ChangePassword(r, u, old, p)
  \/ \E old \in Passwords : CheckPassword(r, u, old)

\* The endpoints for passkeys.
PasskeyRequest(r, u) ==
  \/ \E c \in Challenges : RegisterOptions(r, u, c)
  \/ \E k \in Keys, c \in DOMAIN offered : VerifyRegistration(r, u, k, c)
  \/ \E k \in Keys, call \in {"UpdatePasskey", "DeletePasskey"} : GetAuthenticator(r, u, k, call)

Continue(r) ==
  \/ SendEmail(r) \/ UpdateUserPassword(r) \/ DeleteUser(r)
  \/ SetChallenge(r) \/ GetChallenge(r) \/ DelChallenge(r)
  \/ \E n \in Names : SaveAuthenticator(r, n) \/ UpdatePasskey(r, n)
  \/ DeletePasskey(r)

Next ==
  \/ \E r \in Requests : \/ \E u \in Users : PasswordRequest(r, u) \/ PasskeyRequest(r, u)
                         \/ Continue(r) \/ Abort(r)
  \/ \E u \in Users, p \in Passwords : Register(u, p)
  \/ \E u \in DOMAIN challenge : ExpireChallenge(u)

Spec == Init /\ [][Next]_vars

-----------------------------------------------------------------------------
(* Correctness.                                                            *)

\* Whatever fails and whatever overlaps, a user has been told the password that
\* works: the mail with a temporary one goes out before the row changes
\* (issuePassword), so a failure may leave a useless mail but locks nobody out.
NeverLockedOut == \A u \in DOMAIN users : users[u] \in known[u]

\* The password that a user was told last is the one that works, unless two
\* requests about the password overlapped or the mailed one could not be stored:
\* nothing else makes an account fall back to an older password
\* (issuePassword, changePassword).
NewestPasswordWorks ==
  \A u \in DOMAIN users :
    \/ users[u] = last[u]
    \/ Busy(u, {"UpdateUserPassword"})
    \/ spoiled \cap {<<u, "password">>, <<u, "mail">>} # {}

\* An account goes only by a request that was given the password of that very
\* moment, and a password becomes only what such a request asked for or what the
\* user was mailed already, although the comparison is made with a row read
\* before; unless two such requests of the user overlapped (changePassword
\* compares with the guard's row, deleteUser with its own).
PasswordAskedFor ==
  [][\A u \in DOMAIN users :
       (u \notin DOMAIN users' \/ users'[u] # users[u]) /\ <<u, "password">> \notin spoiled
       => \E r \in Requests :
            /\ job'[r] # job[r] /\ job[r].at \in PasswordCalls /\ job[r].user = u
            /\ u \in DOMAIN users' => users'[u] = job[r].password
            /\ \/ job[r].old = users[u]
               \/ job[r].old = NoPassword /\ u \in DOMAIN users' /\ users'[u] \in known[u]]_vars

\* A passkey belongs to a user that exists, and it answers a challenge drawn for
\* that user: no answer made for somebody else is ever saved, and none after the
\* user's deletion (registerOptions, verifyRegistration, the foreign key).
PasskeysAnswerOwnChallenge ==
  \A k \in DOMAIN passkeys :
    LET row == passkeys[k] IN
    /\ row.user \in DOMAIN users
    /\ row.challenge \in DOMAIN offered /\ offered[row.challenge] = row.user

\* A challenge is good for one passkey, whatever fails between the calls, unless
\* two requests about the user's challenge overlap (verifyRegistration deletes
\* the challenge before it saves the passkey).
OnePasskeyPerChallenge ==
  \A j, k \in DOMAIN passkeys :
    /\ passkeys[j].challenge = passkeys[k].challenge
    /\ <<passkeys[j].user, "challenge">> \notin spoiled
    => j = k

\* Only the right answer uses up a challenge: a wrong or foreign one, and a
\* failing request, leave the user free to answer, unless two requests about
\* the challenge overlap, where the deletion may hit the newer challenge
\* (verifyRegistration).
ChallengeKept ==
  [][\A u \in DOMAIN challenge \ DOMAIN challenge' :
       \/ job' = job
       \/ <<u, "challenge">> \in spoiled
       \/ \E r \in Requests : /\ job'[r] # job[r] /\ Waits(r, "DelChallenge")
                              /\ job[r].user = u /\ job[r].challenge = challenge[u]]_vars

\* A passkey changes or goes only by a request of its owner or with the owner's
\* account, although its owner is compared before and the statement names only
\* the credential; unless the credential went in between and another user saved
\* it again, whose passkey is then touched (updatePasskey, deletePasskey).
PasskeysTouchedByOwner ==
  [][\A k \in DOMAIN passkeys \ reused :
       (k \notin DOMAIN passkeys' \/ passkeys'[k] # passkeys[k])
       => \/ passkeys[k].user \notin DOMAIN users'
          \/ \E r \in Requests : job'[r] # job[r] /\ job[r].at \in {"UpdatePasskey", "DeletePasskey"}
                                 /\ job[r].user = passkeys[k].user]_vars

=============================================================================
