---------------------------- MODULE Verification ----------------------------
(***************************************************************************)
(* How users come to have a verified identity: VerifyService               *)
(* (src/src/verify) sends codes and turns them into signed verification    *)
(* tokens, UserService (src/src/user) registers users with such tokens and *)
(* verifies the phone number and the student id of those it has.           *)
(*                                                                         *)
(* One action is one call of a store or an outside service with the code   *)
(* up to the next await, as in Oauth.  A tick is a minute.                 *)
(***************************************************************************)
EXTENDS Naturals, Functions

CONSTANTS
  Users,                     \* the uuids that can be drawn
  Emails, StudentEmails,     \* those that end in @gm.gist.ac.kr are students'
  Phones, KoreanPhones, StudentIds,
  Values,                    \* the six-digit codes, of which two may be equal
  Requests,
  TokenTTL,                  \* lifetime of a verification token, in minutes
  MaxSends,                  \* bound of the codes sent to one address or number
  Failures                   \* TRUE: a call may fail and an answer may get lost

ASSUME SubjectsAssumption ==
  /\ StudentEmails \subseteq Emails /\ KoreanPhones \subseteq Phones
  /\ Emails \cap Phones = {}

ASSUME BoundsAssumption ==
  TokenTTL \in Nat \ {0} /\ MaxSends \in Nat /\ Failures \in BOOLEAN

\* How long a code is stored: 3 * 60 seconds.
CodeTTL == 3

Subjects == Emails \cup KoreanPhones
Hints == {"email", "phoneNumber", "studentId"}
HintOf(s) == IF s \in Emails THEN "email" ELSE "phoneNumber"

VARIABLES
  users,     \* user -> row of User
  codes,     \* subject -> its code in Redis; each hint has a prefix of its own
  tokens,    \* the verification tokens that were signed, with the minutes left
  sent,      \* the codes that were sent, with the subject they were sent to
  sends,     \* subject -> history: number of codes sent
  uses,      \* subject -> history: number of times a code of it was accepted
  proven,    \* history: the subjects that were proven, by hint
  job,       \* what each request is waiting for
  spoiled    \* history: the subjects with two uses of a code that overlapped, or
             \* with a deletion that failed

vars == <<users, codes, tokens, sent, sends, uses, proven, job, spoiled>>

Idle == [at |-> "Idle"]

\* What register hands to createUser, and the row it becomes.
Forms == [email : Emails, phone : Phones, phoneVerified : BOOLEAN, studentId : StudentIds]

Rows == [email : Emails, phone : Phones, phoneVerified : BOOLEAN,
         studentId : StudentIds, idVerified : BOOLEAN]

Proofs == [hint : Hints, sub : Subjects \cup StudentIds]

Jobs ==
  {Idle}
  \cup [at : {"SetCode"}, subject : Subjects, value : Values]
  \cup [at : {"DelCode", "DelPhoneCode"}, subject : Subjects]
  \cup [at : {"CreateUser"}, user : Users, form : Forms]
  \cup [at : {"UpdatePhone"}, user : Users, subject : KoreanPhones]
  \cup [at : {"UpdateStudentId"}, user : Users, studentId : StudentIds]

TypeOK ==
  /\ DOMAIN users \subseteq Users /\ \A u \in DOMAIN users : users[u] \in Rows
  /\ DOMAIN codes \subseteq Subjects
  /\ \A s \in DOMAIN codes : codes[s] \in [value : Values, age : 0..(CodeTTL - 1)]
  /\ tokens \subseteq [proof : Proofs, ttl : 1..TokenTTL]
  /\ sent \subseteq Subjects \X Values
  /\ sends \in [Subjects -> Nat] /\ uses \in [Subjects -> Nat]
  /\ proven \subseteq Proofs
  /\ job \in [Requests -> Jobs]
  /\ spoiled \subseteq Subjects

Init ==
  /\ users = <<>> /\ codes = <<>> /\ tokens = {} /\ sent = {} /\ proven = {}
  /\ sends = [s \in Subjects |-> 0] /\ uses = [s \in Subjects |-> 0]
  /\ job = [r \in Requests |-> Idle] /\ spoiled = {}

-----------------------------------------------------------------------------
Put(store, k, v) == [x \in DOMAIN store \cup {k} |-> IF x = k THEN v ELSE store[x]]
Del(store, k) == Restrict(store, DOMAIN store \ {k})

Waits(r, call) == job[r].at = call
Continues(r, next) == job' = [job EXCEPT ![r] = next]

\* The requests that use the code of s.
Using(s) == {r \in Requests : /\ job[r].at \in {"DelCode", "UpdatePhone", "DelPhoneCode"}
                              /\ job[r].subject = s}

Goto(r, next) == Continues(r, next) /\ UNCHANGED spoiled

\* A request matched the code of s, which others may be using.
Accept(r, next) ==
  LET s == next.subject IN
  /\ Continues(r, next)
  /\ spoiled' = IF Using(s) = {} THEN spoiled ELSE spoiled \cup {s}

Proof(hint, sub) == [hint |-> hint, sub |-> sub]

\* More than MaxSends is enough to be too many.
Count(history, s) == [history EXCEPT ![s] = IF @ > MaxSends THEN @ ELSE @ + 1]

-----------------------------------------------------------------------------
(* Codes: POST /verify/email, /verify/phone-number and /verify.            *)

\* Mutant: the code is stored before it is sent.
SendCodeLater(r, s, v) ==
  /\ Waits(r, "Idle")
  /\ sends[s] < MaxSends
  /\ Goto(r, [at |-> "SetCode", subject |-> s, value |-> v])
  /\ sends' = Count(sends, s)
  /\ UNCHANGED <<users, codes, tokens, sent, uses, proven>>

\* sendEmailCode and sendPhoneCode: the message goes out first.  Only Korean
\* numbers get one.
SendCode(r, s, v) ==
  /\ Waits(r, "Idle")
  /\ sends[s] < MaxSends
  /\ sent' = sent \cup {<<s, v>>}
  /\ sends' = Count(sends, s)
  /\ Goto(r, [at |-> "SetCode", subject |-> s, value |-> v])
  /\ UNCHANGED <<users, codes, tokens, uses, proven>>

SetCode(r) ==
  /\ Waits(r, "SetCode")
  /\ codes' = Put(codes, job[r].subject, [value |-> job[r].value, age |-> 0])
  /\ Goto(r, Idle)
  /\ UNCHANGED <<users, tokens, sent, sends, uses, proven>>

\* Somebody enters the code v for s: it is the stored one.
Matches(s, v) == s \in DOMAIN codes /\ codes[s].value = v

ValidateCode(r, s, v) ==
  /\ Waits(r, "Idle")
  /\ Matches(s, v)
  /\ proven' = proven \cup {Proof(HintOf(s), s)}
  /\ Accept(r, [at |-> "DelCode", subject |-> s])
  /\ UNCHANGED <<users, codes, tokens, sent, sends, uses>>

\* Mutant: the code stays valid.
DelCodeForgotten(r) ==
  LET s == job[r].subject IN
  /\ Waits(r, "DelCode")
  /\ tokens' = tokens \cup {[proof |-> Proof(HintOf(s), s), ttl |-> TokenTTL]}
  /\ uses' = Count(uses, s)
  /\ Goto(r, Idle)
  /\ UNCHANGED <<users, codes, sent, sends, proven>>

\* The code goes, and the answer is a token for its subject.
DelCode(r) ==
  LET s == job[r].subject IN
  /\ Waits(r, "DelCode")
  /\ codes' = Del(codes, s)
  /\ tokens' = tokens \cup {[proof |-> Proof(HintOf(s), s), ttl |-> TokenTTL]}
  /\ uses' = Count(uses, s)
  /\ Goto(r, Idle)
  /\ UNCHANGED <<users, sent, sends, proven>>

\* POST /verify/student-id: the university knows the person by this number.
VerifyStudentId(i) ==
  /\ tokens' = tokens \cup {[proof |-> Proof("studentId", i), ttl |-> TokenTTL]}
  /\ proven' = proven \cup {Proof("studentId", i)}
  /\ UNCHANGED <<users, codes, sent, sends, uses, job, spoiled>>

-----------------------------------------------------------------------------
(* Users: POST /user and the later verifications.                          *)

\* Mutant: the token's subject is not compared.
CertifiesHint(hint, sub) == \E t \in tokens : t.proof.hint = hint

\* Among the caller's tokens is one that certifies it.
Certifies(hint, sub) == \E t \in tokens : t.proof = Proof(hint, sub)

\* The checks of register: an email token for the email, a student id token for
\* a student's email, a phone token for a Korean number.
Register(r, u, form) ==
  /\ Waits(r, "Idle")
  /\ Certifies("email", form.email)
  /\ form.email \in StudentEmails => Certifies("studentId", form.studentId)
  /\ form.phone \in KoreanPhones => Certifies("phoneNumber", form.phone)
  /\ form.phoneVerified = (form.phone \in KoreanPhones)
  /\ Goto(r, [at |-> "CreateUser", user |-> u, form |-> form])
  /\ UNCHANGED <<users, codes, tokens, sent, sends, uses, proven>>

\* Mutant: the column is not unique.
Available(email) == TRUE

\* Emails are unique.
Unused(email) == \A u \in DOMAIN users : users[u].email # email

\* Everybody's student id is stored as verified.
RowOf(form) ==
  [email |-> form.email, phone |-> form.phone, phoneVerified |-> form.phoneVerified,
   studentId |-> form.studentId, idVerified |-> TRUE]

CreateUser(r) ==
  /\ Waits(r, "CreateUser")
  /\ users' = IF Unused(job[r].form.email)
                THEN Put(users, job[r].user, RowOf(job[r].form)) ELSE users
  /\ Goto(r, Idle)
  /\ UNCHANGED <<codes, tokens, sent, sends, uses, proven>>

\* A logged-in user enters the code for a number.
VerifyPhoneNumber(r, u, s, v) ==
  /\ Waits(r, "Idle")
  /\ u \in DOMAIN users
  /\ Matches(s, v)
  /\ proven' = proven \cup {Proof("phoneNumber", s)}
  /\ Accept(r, [at |-> "UpdatePhone", user |-> u, subject |-> s])
  /\ UNCHANGED <<users, codes, tokens, sent, sends, uses>>

\* Mutant: the new number takes over the old one's flag.
UpdatePhoneOnly(r) ==
  LET u == job[r].user
      s == job[r].subject IN
  /\ Waits(r, "UpdatePhone")
  /\ IF u \in DOMAIN users
       THEN /\ users' = [users EXCEPT ![u].phone = s]
            /\ uses' = Count(uses, s)
            /\ Goto(r, [at |-> "DelPhoneCode", subject |-> s])
       ELSE UNCHANGED <<users, uses>> /\ Goto(r, Idle)
  /\ UNCHANGED <<codes, tokens, sent, sends, proven>>

\* Refused when the user is gone; the code is then not deleted.
UpdatePhoneNumber(r) ==
  LET u == job[r].user
      s == job[r].subject IN
  /\ Waits(r, "UpdatePhone")
  /\ IF u \in DOMAIN users
       THEN /\ users' = [users EXCEPT ![u].phone = s, ![u].phoneVerified = TRUE]
            /\ uses' = Count(uses, s)
            /\ Goto(r, [at |-> "DelPhoneCode", subject |-> s])
       ELSE UNCHANGED <<users, uses>> /\ Goto(r, Idle)
  /\ UNCHANGED <<codes, tokens, sent, sends, proven>>

DelPhoneCode(r) ==
  /\ Waits(r, "DelPhoneCode")
  /\ codes' = Del(codes, job[r].subject)
  /\ Goto(r, Idle)
  /\ UNCHANGED <<users, tokens, sent, sends, uses, proven>>

\* The university knows the user by this number.
VerifyUsersStudentId(r, u, i) ==
  /\ Waits(r, "Idle")
  /\ u \in DOMAIN users
  /\ proven' = proven \cup {Proof("studentId", i)}
  /\ Goto(r, [at |-> "UpdateStudentId", user |-> u, studentId |-> i])
  /\ UNCHANGED <<users, codes, tokens, sent, sends, uses>>

UpdateStudentId(r) ==
  LET u == job[r].user IN
  /\ Waits(r, "UpdateStudentId")
  /\ users' = IF u \in DOMAIN users
                THEN [users EXCEPT ![u].studentId = job[r].studentId,
                                   ![u].idVerified = TRUE]
                ELSE users
  /\ Goto(r, Idle)
  /\ UNCHANGED <<codes, tokens, sent, sends, uses, proven>>

-----------------------------------------------------------------------------
(* Around the requests.                                                    *)

DeleteUser(u) ==
  /\ users' = Del(users, u)
  /\ UNCHANGED <<codes, tokens, sent, sends, uses, proven, job, spoiled>>

\* Mutant: a code lives a minute too long.
RestLate(store) == [s \in {x \in DOMAIN store : store[x].age < CodeTTL} |->
                      [store[s] EXCEPT !.age = @ + 1]]

\* Redis drops a code when its time to live has passed.
Rest(store) == [s \in {x \in DOMAIN store : store[x].age + 1 < CodeTTL} |->
                  [store[s] EXCEPT !.age = @ + 1]]

Minute ==
  /\ codes' = Rest(codes)
  /\ tokens' = {[t EXCEPT !.ttl = @ - 1] : t \in {x \in tokens : x.ttl > 1}}
  /\ UNCHANGED <<users, sent, sends, uses, proven, job, spoiled>>

\* A call fails, the process dies, or the answer is lost.
Abort(r) ==
  /\ Failures
  /\ ~Waits(r, "Idle")
  /\ Continues(r, Idle)
  /\ spoiled' = IF Waits(r, "DelPhoneCode") THEN spoiled \cup {job[r].subject} ELSE spoiled
  /\ UNCHANGED <<users, codes, tokens, sent, sends, uses, proven>>

\* A uuid is never drawn twice.
FreshUsers == Users \ (DOMAIN users \cup {job[r].user : r \in
                {q \in Requests : job[q].at \in {"CreateUser", "UpdatePhone", "UpdateStudentId"}}})

\* The user's endpoints for what has to be verified.
UserRequest(r) ==
  \/ \E u \in FreshUsers, form \in Forms : Register(r, u, form)
  \/ \E u \in Users, s \in KoreanPhones, v \in Values : VerifyPhoneNumber(r, u, s, v)
  \/ \E u \in Users, i \in StudentIds : VerifyUsersStudentId(r, u, i)

\* The endpoints for codes, and those.
Arrive(r) ==
  \/ \E s \in Subjects, v \in Values : SendCode(r, s, v) \/ ValidateCode(r, s, v)
  \/ UserRequest(r)

Continue(r) ==
  SetCode(r) \/ DelCode(r) \/ CreateUser(r) \/ UpdatePhoneNumber(r) \/ DelPhoneCode(r)
  \/ UpdateStudentId(r)

Next ==
  \/ \E r \in Requests : Arrive(r) \/ Continue(r) \/ Abort(r)
  \/ \E i \in StudentIds : VerifyStudentId(i)
  \/ \E u \in DOMAIN users : DeleteUser(u)
  \/ Minute

Spec == Init /\ [][Next]_vars

-----------------------------------------------------------------------------
(* Correctness.                                                            *)

ProvenRow(row) ==
  /\ Proof("email", row.email) \in proven
  /\ row.phoneVerified => Proof("phoneNumber", row.phone) \in proven
  /\ row.email \in StudentEmails => Proof("studentId", row.studentId) \in proven

\* Whatever requests run in between, a user's email, a student's student id and
\* a phone number that counts as verified were proven, each by a code sent to
\* it or by the university (validateCode, register, verifyPhoneNumber,
\* verifyStudentId).  The flag of the student id is the next property's.
IdentitiesProven == \A u \in DOMAIN users : ProvenRow(users[u])

\* A student id that clients are told is verified was proven (userinfo answers
\* is_student_id_verified with the column isIdVerified).
StudentIdFlagProven ==
  \A u \in DOMAIN users :
    users[u].idVerified => Proof("studentId", users[u].studentId) \in proven

\* No code is valid that its addressee was not sent, although sending and
\* storing are two calls that may fail (sendEmailCode, sendPhoneCode).
StoredCodesWereSent == \A s \in DOMAIN codes : <<s, codes[s].value>> \in sent

\* Two registrations at a time do not give an email address two accounts
\* (register, the unique column).
OneAccountPerEmail ==
  \A u, v \in DOMAIN users : users[u].email = users[v].email => u = v

\* No more verifications succeed than codes were sent, by whichever endpoint and
\* whatever fails before, unless two of them overlap or the deletion of the
\* code fails (validateCode and verifyPhoneNumber delete the same keys).
CodesUsedOnce == \A s \in Subjects \ spoiled : uses[s] <= sends[s]

\* Seen from outside the registrations and verifications are a registry that
\* takes over only what was proven, in whatever order codes are sent, matched
\* and deleted and tokens expire, except for the student id of those who are no
\* student: no interleaving overwrites an account, changes an email, or leaves a
\* replaced phone number with the flag of another (register, verifyPhoneNumber,
\* verifyStudentId, deleteUser).
Registered == INSTANCE Registry
ImplementsRegistry == Registered!Spec

=============================================================================
