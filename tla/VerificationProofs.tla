------------------------- MODULE VerificationProofs -------------------------
(***************************************************************************)
(* Theorems about Verification, for every value of its constants.          *)
(***************************************************************************)
EXTENDS Verification, FiniteSetTheorems, TLAPS

\* The label of a request tells its variables.
LEMMA JobShapes ==
  ASSUME NEW j \in Jobs
  PROVE  /\ j.at = "SetCode" => j.subject \in Subjects /\ j.value \in Values
         /\ j.at \in {"DelCode", "DelPhoneCode"} => j.subject \in Subjects
         /\ j.at = "CreateUser" => j.user \in Users /\ j.form \in Forms
         /\ j.at = "UpdatePhone" => j.user \in Users /\ j.subject \in KoreanPhones
         /\ j.at = "UpdateStudentId" => j.user \in Users /\ j.studentId \in StudentIds
  BY DEF Jobs, Idle

\* A store after a key is written or deleted.
LEMMA PutGet ==
  ASSUME NEW f, NEW k, NEW v
  PROVE  /\ DOMAIN Put(f, k, v) = DOMAIN f \cup {k}
         /\ Put(f, k, v)[k] = v
         /\ \A x \in DOMAIN f : x # k => Put(f, k, v)[x] = f[x]
  BY DEF Put

LEMMA DelGet ==
  ASSUME NEW f, NEW k
  PROVE  /\ DOMAIN Del(f, k) = DOMAIN f \ {k}
         /\ \A x \in DOMAIN f \ {k} : Del(f, k)[x] = f[x]
  BY DEF Del, Restrict

\* A store of values of one kind stays one.
LEMMA PutType ==
  ASSUME NEW D, NEW T, NEW f, DOMAIN f \subseteq D, \A x \in DOMAIN f : f[x] \in T,
         NEW k \in D, NEW v \in T
  PROVE  DOMAIN Put(f, k, v) \subseteq D /\ \A x \in DOMAIN Put(f, k, v) : Put(f, k, v)[x] \in T
  BY DEF Put

LEMMA DelType ==
  ASSUME NEW D, NEW T, NEW f, DOMAIN f \subseteq D, \A x \in DOMAIN f : f[x] \in T, NEW k
  PROVE  DOMAIN Del(f, k) \subseteq D /\ \A x \in DOMAIN Del(f, k) : Del(f, k)[x] \in T
  BY DEF Del, Restrict

LEMMA GotoType ==
  ASSUME TypeOK, NEW r \in Requests, NEW j \in Jobs, Goto(r, j)
  PROVE  job' \in [Requests -> Jobs] /\ spoiled' \subseteq Subjects
  BY DEF TypeOK, Goto, Continues

LEMMA AcceptType ==
  ASSUME TypeOK, NEW r \in Requests, NEW j \in Jobs, j.subject \in Subjects, Accept(r, j)
  PROVE  job' \in [Requests -> Jobs] /\ spoiled' \subseteq Subjects
  BY DEF TypeOK, Accept, Continues

LEMMA MovesOn ==
  ASSUME TypeOK, NEW r \in Requests, NEW j, Continues(r, j)
  PROVE  job'[r] = j /\ \A q \in Requests \ {r} : job'[q] = job[q]
  BY DEF TypeOK, Continues

LEMMA IdleJob == Idle \in Jobs
  BY DEF Jobs

LEMMA ProofType ==
  /\ \A s \in Subjects : Proof(HintOf(s), s) \in Proofs
  /\ \A s \in KoreanPhones : Proof("phoneNumber", s) \in Proofs
  /\ \A i \in StudentIds : Proof("studentId", i) \in Proofs
  BY DEF Proof, Proofs, HintOf, Hints, Subjects

LEMMA CountType ==
  ASSUME NEW h \in [Subjects -> Nat], NEW s \in Subjects
  PROVE  Count(h, s) \in [Subjects -> Nat]
  BY DEF Count

-----------------------------------------------------------------------------
(* Types.                                                                  *)

LEMMA InitTypeOK == Init => TypeOK
  BY DEF Init, TypeOK, Jobs, Idle

LEMMA SendType ==
  ASSUME TypeOK, NEW r \in Requests, NEW s \in Subjects, NEW v \in Values, SendCode(r, s, v)
  PROVE  TypeOK'
<1>1. [at |-> "SetCode", subject |-> s, value |-> v] \in Jobs
  BY DEF Jobs
<1>2. job' \in [Requests -> Jobs] /\ spoiled' \subseteq Subjects
  BY <1>1, GotoType DEF SendCode
<1>3. sends' \in [Subjects -> Nat]
  BY CountType DEF SendCode, TypeOK
<1> QED
  BY <1>2, <1>3 DEF SendCode, TypeOK

LEMMA SetCodeType ==
  ASSUME TypeOK, NEW r \in Requests, SetCode(r)
  PROVE  TypeOK'
<1> DEFINE s == job[r].subject
           e == [value |-> job[r].value, age |-> 0]
<1>1. s \in Subjects /\ job[r].value \in Values
  BY JobShapes DEF TypeOK, SetCode, Waits
<1>2. e \in [value : Values, age : 0..(CodeTTL - 1)]
  BY <1>1 DEF CodeTTL
<1>3. job' \in [Requests -> Jobs] /\ spoiled' \subseteq Subjects
  BY GotoType, IdleJob DEF SetCode
<1>4. DOMAIN codes' \subseteq Subjects
      /\ \A x \in DOMAIN codes' : codes'[x] \in [value : Values, age : 0..(CodeTTL - 1)]
  <2>1. codes' = Put(codes, s, e)
    BY DEF SetCode
  <2> HIDE DEF s, e
  <2> DEFINE T == [value : Values, age : 0..(CodeTTL - 1)]
  <2>2. DOMAIN codes \subseteq Subjects /\ (\A x \in DOMAIN codes : codes[x] \in T) /\ e \in T
    BY <1>2 DEF TypeOK
  <2> HIDE DEF T
  <2>3. DOMAIN codes' \subseteq Subjects /\ \A x \in DOMAIN codes' : codes'[x] \in T
    BY <1>1, <2>1, <2>2, PutType
  <2> QED
    BY <2>3 DEF T
<1> QED
  BY <1>3, <1>4 DEF SetCode, TypeOK

LEMMA ValidateType ==
  ASSUME TypeOK, NEW r \in Requests, NEW s \in Subjects, NEW v \in Values, ValidateCode(r, s, v)
  PROVE  TypeOK'
<1>1. [at |-> "DelCode", subject |-> s] \in Jobs
  BY DEF Jobs
<1>2. job' \in [Requests -> Jobs] /\ spoiled' \subseteq Subjects
  BY <1>1, AcceptType DEF ValidateCode
<1> QED
  BY <1>2, ProofType DEF ValidateCode, TypeOK

\* Codes that are deleted leave the others as they were.
LEMMA DelCodesType ==
  ASSUME TypeOK, NEW s, codes' = Del(codes, s)
  PROVE  /\ DOMAIN codes' \subseteq Subjects
         /\ \A x \in DOMAIN codes' : codes'[x] \in [value : Values, age : 0..(CodeTTL - 1)]
<1> DEFINE T == [value : Values, age : 0..(CodeTTL - 1)]
<1>1. DOMAIN codes \subseteq Subjects /\ \A x \in DOMAIN codes : codes[x] \in T
  BY DEF TypeOK
<1> HIDE DEF T
<1>2. DOMAIN codes' \subseteq Subjects /\ \A x \in DOMAIN codes' : codes'[x] \in T
  BY <1>1, DelType
<1> QED
  BY <1>2 DEF T

LEMMA DelCodeType ==
  ASSUME TypeOK, NEW r \in Requests, DelCode(r)
  PROVE  TypeOK'
<1> DEFINE s == job[r].subject
<1>1. s \in Subjects
  BY JobShapes DEF TypeOK, DelCode, Waits
<1>2. job' \in [Requests -> Jobs] /\ spoiled' \subseteq Subjects
  BY GotoType, IdleJob DEF DelCode
<1>3. [proof |-> Proof(HintOf(s), s), ttl |-> TokenTTL] \in [proof : Proofs, ttl : 1..TokenTTL]
  BY <1>1, ProofType, BoundsAssumption
<1>4. uses' \in [Subjects -> Nat]
  BY <1>1, CountType DEF DelCode, TypeOK
<1> QED
  BY <1>2, <1>3, <1>4, DelCodesType DEF DelCode, TypeOK

LEMMA RegisterType ==
  ASSUME TypeOK, NEW r \in Requests, NEW u \in Users, NEW form \in Forms, Register(r, u, form)
  PROVE  TypeOK'
<1>1. [at |-> "CreateUser", user |-> u, form |-> form] \in Jobs
  BY DEF Jobs
<1>2. job' \in [Requests -> Jobs] /\ spoiled' \subseteq Subjects
  BY <1>1, GotoType DEF Register
<1> QED
  BY <1>2 DEF Register, TypeOK

\* A form becomes a row with the same email, number and student id.
LEMMA RowOfForm ==
  ASSUME NEW form \in Forms
  PROVE  /\ RowOf(form) \in Rows /\ RowOf(form).idVerified
         /\ RowOf(form).email = form.email
         /\ RowOf(form).phone = form.phone /\ RowOf(form).phoneVerified = form.phoneVerified
         /\ RowOf(form).studentId = form.studentId
  BY DEF Forms, Rows, RowOf

LEMMA CreateUserType ==
  ASSUME TypeOK, NEW r \in Requests, CreateUser(r)
  PROVE  TypeOK'
<1> DEFINE row == RowOf(job[r].form)
<1>1. job[r].user \in Users /\ row \in Rows
  BY JobShapes, RowOfForm DEF TypeOK, CreateUser, Waits
<1>2. job' \in [Requests -> Jobs] /\ spoiled' \subseteq Subjects
  BY GotoType, IdleJob DEF CreateUser
<1>3. DOMAIN users' \subseteq Users /\ \A u \in DOMAIN users' : users'[u] \in Rows
  <2>1. users' = users \/ users' = Put(users, job[r].user, row)
    BY DEF CreateUser
  <2> HIDE DEF row
  <2>2. DOMAIN users \subseteq Users /\ \A u \in DOMAIN users : users[u] \in Rows
    BY DEF TypeOK
  <2>3. CASE users' = Put(users, job[r].user, row)
    <3> HIDE DEF Put
    <3>1. DOMAIN Put(users, job[r].user, row) \subseteq Users
          /\ \A u \in DOMAIN Put(users, job[r].user, row) :
               Put(users, job[r].user, row)[u] \in Rows
      BY <1>1, <2>2, PutType
    <3> QED
      BY <2>3, <3>1
  <2> QED
    BY <2>1, <2>2, <2>3
<1> QED
  BY <1>2, <1>3 DEF CreateUser, TypeOK

LEMMA VerifyPhoneType ==
  ASSUME TypeOK, NEW r \in Requests, NEW u \in Users, NEW s \in KoreanPhones, NEW v \in Values,
         VerifyPhoneNumber(r, u, s, v)
  PROVE  TypeOK'
<1>1. [at |-> "UpdatePhone", user |-> u, subject |-> s] \in Jobs
  BY DEF Jobs
<1>2. job' \in [Requests -> Jobs] /\ spoiled' \subseteq Subjects
  BY <1>1, AcceptType DEF VerifyPhoneNumber, Subjects
<1> QED
  BY <1>2, ProofType DEF VerifyPhoneNumber, TypeOK

\* The rows after an update of a user's phone number.
LEMMA PhoneRows ==
  ASSUME TypeOK, NEW r \in Requests, UpdatePhoneNumber(r)
  PROVE  /\ DOMAIN users' = DOMAIN users
         /\ \A u \in DOMAIN users :
              \/ users'[u] = users[u]
              \/ /\ users'[u] = [users[u] EXCEPT !.phone = job[r].subject, !.phoneVerified = TRUE]
                 /\ u = job[r].user
<1>1. CASE job[r].user \notin DOMAIN users
  BY <1>1 DEF UpdatePhoneNumber
<1>2. CASE job[r].user \in DOMAIN users
  BY <1>2 DEF UpdatePhoneNumber
<1> QED
  BY <1>1, <1>2

LEMMA UpdatePhoneType ==
  ASSUME TypeOK, NEW r \in Requests, UpdatePhoneNumber(r)
  PROVE  TypeOK'
<1> DEFINE s == job[r].subject
<1>1. s \in KoreanPhones /\ s \in Subjects /\ KoreanPhones \subseteq Phones
  BY JobShapes, SubjectsAssumption DEF TypeOK, UpdatePhoneNumber, Waits, Subjects
<1>2. [at |-> "DelPhoneCode", subject |-> s] \in Jobs
  BY <1>1 DEF Jobs
<1>3. job' \in [Requests -> Jobs] /\ spoiled' \subseteq Subjects
  BY <1>2, GotoType, IdleJob DEF UpdatePhoneNumber
<1>4. uses' \in [Subjects -> Nat]
  BY <1>1, CountType DEF UpdatePhoneNumber, TypeOK
<1>5. DOMAIN users' \subseteq Users /\ \A u \in DOMAIN users' : users'[u] \in Rows
  <2>1. DOMAIN users' \subseteq Users
    BY PhoneRows DEF TypeOK
  <2>2. ASSUME NEW u \in DOMAIN users' PROVE users'[u] \in Rows
    <3>1. users[u] \in Rows
      BY PhoneRows DEF TypeOK
    <3>2. [users[u] EXCEPT !.phone = s, !.phoneVerified = TRUE] \in Rows
      BY <1>1, <3>1 DEF Rows
    <3> QED
      BY <3>1, <3>2, PhoneRows
  <2> QED
    BY <2>1, <2>2
<1> QED
  BY <1>3, <1>4, <1>5 DEF UpdatePhoneNumber, TypeOK

LEMMA DelPhoneCodeType ==
  ASSUME TypeOK, NEW r \in Requests, DelPhoneCode(r)
  PROVE  TypeOK'
<1>1. job' \in [Requests -> Jobs] /\ spoiled' \subseteq Subjects
  BY GotoType, IdleJob DEF DelPhoneCode
<1> QED
  BY <1>1, DelCodesType DEF DelPhoneCode, TypeOK

LEMMA VerifyUsersType ==
  ASSUME TypeOK, NEW r \in Requests, NEW u \in Users, NEW i \in StudentIds,
         VerifyUsersStudentId(r, u, i)
  PROVE  TypeOK'
<1>1. [at |-> "UpdateStudentId", user |-> u, studentId |-> i] \in Jobs
  BY DEF Jobs
<1>2. job' \in [Requests -> Jobs] /\ spoiled' \subseteq Subjects
  BY <1>1, GotoType DEF VerifyUsersStudentId
<1> QED
  BY <1>2, ProofType DEF VerifyUsersStudentId, TypeOK

\* The rows after an update of a user's student id.
LEMMA StudentRows ==
  ASSUME TypeOK, NEW r \in Requests, UpdateStudentId(r)
  PROVE  /\ DOMAIN users' = DOMAIN users
         /\ \A u \in DOMAIN users :
              \/ users'[u] = users[u]
              \/ users'[u] = [users[u] EXCEPT !.studentId = job[r].studentId, !.idVerified = TRUE]
<1>1. CASE job[r].user \notin DOMAIN users
  BY <1>1 DEF UpdateStudentId
<1>2. CASE job[r].user \in DOMAIN users
  BY <1>2 DEF UpdateStudentId
<1> QED
  BY <1>1, <1>2

LEMMA UpdateStudentType ==
  ASSUME TypeOK, NEW r \in Requests, UpdateStudentId(r)
  PROVE  TypeOK'
<1>1. job[r].studentId \in StudentIds
  BY JobShapes DEF TypeOK, UpdateStudentId, Waits
<1>2. job' \in [Requests -> Jobs] /\ spoiled' \subseteq Subjects
  BY GotoType, IdleJob DEF UpdateStudentId
<1>3. ASSUME NEW u \in DOMAIN users' PROVE users'[u] \in Rows
  <2>1. users[u] \in Rows
    BY StudentRows DEF TypeOK
  <2>2. [users[u] EXCEPT !.studentId = job[r].studentId, !.idVerified = TRUE] \in Rows
    BY <1>1, <2>1 DEF Rows
  <2> QED
    BY <2>1, <2>2, StudentRows
<1>4. DOMAIN users' \subseteq Users
  BY StudentRows DEF TypeOK
<1> QED
  BY <1>2, <1>3, <1>4 DEF UpdateStudentId, TypeOK

LEMMA MinuteType ==
  ASSUME TypeOK, Minute
  PROVE  TypeOK'
<1>1. DOMAIN codes' \subseteq Subjects
  BY DEF Minute, Rest, TypeOK
<1>2. ASSUME NEW s \in DOMAIN codes'
      PROVE  codes'[s] \in [value : Values, age : 0..(CodeTTL - 1)]
  <2>1. /\ s \in DOMAIN codes
        /\ codes[s].age + 1 < CodeTTL
        /\ codes'[s] = [codes[s] EXCEPT !.age = @ + 1]
    BY DEF Minute, Rest
  <2>2. codes[s] \in [value : Values, age : 0..(CodeTTL - 1)]
    BY <2>1 DEF TypeOK
  <2> QED
    BY <2>1, <2>2 DEF CodeTTL
<1>3. ASSUME NEW t \in tokens'
      PROVE  t \in [proof : Proofs, ttl : 1..TokenTTL]
  <2>1. PICK x \in tokens : x.ttl > 1 /\ t = [x EXCEPT !.ttl = @ - 1]
    BY DEF Minute
  <2>2. x \in [proof : Proofs, ttl : 1..TokenTTL]
    BY DEF TypeOK
  <2> QED
    BY <2>1, <2>2, BoundsAssumption
<1> QED
  BY <1>1, <1>2, <1>3 DEF Minute, TypeOK

LEMMA StepTypeOK == TypeOK /\ [Next]_vars => TypeOK'
<1> SUFFICES ASSUME TypeOK, [Next]_vars PROVE TypeOK'
  OBVIOUS
<1>1. ASSUME NEW r \in Requests, Arrive(r) PROVE TypeOK'
  BY <1>1, SendType, ValidateType, RegisterType, VerifyPhoneType, VerifyUsersType
     DEF Arrive, UserRequest, FreshUsers
<1>2. ASSUME NEW r \in Requests, Continue(r) PROVE TypeOK'
  BY <1>2, SetCodeType, DelCodeType, CreateUserType, UpdatePhoneType, DelPhoneCodeType,
     UpdateStudentType DEF Continue
<1>3. ASSUME NEW r \in Requests, Abort(r) PROVE TypeOK'
  <2>1. job' \in [Requests -> Jobs] /\ spoiled' \subseteq Subjects
    BY <1>3, IdleJob, JobShapes DEF Abort, Continues, TypeOK, Waits
  <2> QED
    BY <1>3, <2>1 DEF Abort, TypeOK
<1>4. ASSUME NEW i \in StudentIds, VerifyStudentId(i) PROVE TypeOK'
  <2>1. [proof |-> Proof("studentId", i), ttl |-> TokenTTL] \in [proof : Proofs, ttl : 1..TokenTTL]
    BY ProofType, BoundsAssumption
  <2> QED
    BY <1>4, <2>1, ProofType DEF VerifyStudentId, TypeOK
<1>5. ASSUME NEW u \in DOMAIN users, DeleteUser(u) PROVE TypeOK'
  <2>1. DOMAIN Del(users, u) \subseteq Users
        /\ \A x \in DOMAIN Del(users, u) : Del(users, u)[x] \in Rows
    BY DelType DEF TypeOK
  <2> QED
    BY <1>5, <2>1 DEF DeleteUser, TypeOK
<1>6. CASE Minute
  BY <1>6, MinuteType
<1>7. CASE UNCHANGED vars
  BY <1>7 DEF vars, TypeOK
<1> QED
  BY <1>1, <1>2, <1>3, <1>4, <1>5, <1>6, <1>7 DEF Next

\* Whatever requests run, codes, tokens, users and requests keep their types: a
\* stored code never outlives its time to live (VerifyService, UserService).
THEOREM TypeCorrect == Spec => []TypeOK
  BY InitTypeOK, StepTypeOK, PTL DEF Spec

-----------------------------------------------------------------------------
(* Stored identities were proven.                                          *)

\* A verification token certifies what was proven, ...
TokensProven == \A t \in tokens : t.proof \in proven

\* ... and so does what a request carries from its check to its write.
RowIn(row, P) ==
  /\ Proof("email", row.email) \in P
  /\ row.phoneVerified => Proof("phoneNumber", row.phone) \in P
  /\ row.email \in StudentEmails => Proof("studentId", row.studentId) \in P

JobIn(j, P) ==
  /\ j.at = "DelCode" => Proof(HintOf(j.subject), j.subject) \in P
  /\ j.at = "CreateUser" => RowIn(j.form, P)
  /\ j.at = "UpdatePhone" => Proof("phoneNumber", j.subject) \in P
  /\ j.at = "UpdateStudentId" => Proof("studentId", j.studentId) \in P

JobsProven == \A r \in Requests : JobIn(job[r], proven)

ProvenInv == TypeOK /\ TokensProven /\ JobsProven /\ IdentitiesProven

LEMMA RowsProven == IdentitiesProven <=> \A u \in DOMAIN users : RowIn(users[u], proven)
  BY DEF IdentitiesProven, ProvenRow, RowIn

\* Proofs are never taken back.
LEMMA ProvenGrows == [Next]_vars => proven \subseteq proven'
  BY DEF Next, vars, Arrive, UserRequest, Continue, SendCode, ValidateCode, Register,
         VerifyPhoneNumber,
         VerifyUsersStudentId, SetCode, DelCode, CreateUser, UpdatePhoneNumber, DelPhoneCode,
         UpdateStudentId, Abort, VerifyStudentId, DeleteUser, Minute

LEMMA ProvenMonotone ==
  ASSUME NEW P, NEW Q, P \subseteq Q
  PROVE  /\ \A j : JobIn(j, P) => JobIn(j, Q)
         /\ \A row : RowIn(row, P) => RowIn(row, Q)
  BY DEF JobIn, RowIn

LEMMA TokensStep ==
  ASSUME ProvenInv, [Next]_vars
  PROVE  TokensProven'
<1>1. proven \subseteq proven'
  BY ProvenGrows
<1>2. CASE tokens' \subseteq tokens
  BY <1>1, <1>2 DEF ProvenInv, TokensProven
<1>3. ASSUME NEW r \in Requests, DelCode(r) PROVE TokensProven'
  BY <1>3 DEF ProvenInv, TokensProven, JobsProven, JobIn, DelCode, Waits
<1>4. ASSUME NEW i \in StudentIds, VerifyStudentId(i) PROVE TokensProven'
  BY <1>4 DEF ProvenInv, TokensProven, VerifyStudentId
<1>5. CASE Minute
  <2>1. ASSUME NEW t \in tokens' PROVE t.proof \in proven
    <3>1. PICK x \in tokens : t = [x EXCEPT !.ttl = @ - 1]
      BY <1>5 DEF Minute
    <3>2. x \in [proof : Proofs, ttl : 1..TokenTTL] /\ x.proof \in proven
      BY DEF ProvenInv, TypeOK, TokensProven
    <3> QED
      BY <3>1, <3>2
  <2> QED
    BY <1>5, <2>1 DEF Minute, TokensProven
<1> QED
  BY <1>2, <1>3, <1>4, <1>5
     DEF Next, vars, Arrive, UserRequest, Continue, SendCode, ValidateCode, Register,
         VerifyPhoneNumber,
         VerifyUsersStudentId, SetCode, CreateUser, UpdatePhoneNumber, DelPhoneCode,
         UpdateStudentId, Abort, DeleteUser

\* The one request that moves carries what it has checked.
LEMMA MoveProven ==
  ASSUME ProvenInv, proven \subseteq proven', NEW r \in Requests, NEW j, Continues(r, j),
         JobIn(j, proven')
  PROVE  JobsProven'
<1>1. job'[r] = j /\ \A q \in Requests \ {r} : job'[q] = job[q]
  BY MovesOn DEF ProvenInv
<1>2. \A q \in Requests : JobIn(job[q], proven')
  BY ProvenMonotone DEF ProvenInv, JobsProven
<1> QED
  BY <1>1, <1>2 DEF JobsProven

LEMMA IdleProven == \A P : JobIn(Idle, P)
  BY DEF JobIn, Idle

LEMMA JobsStep ==
  ASSUME ProvenInv, [Next]_vars
  PROVE  JobsProven'
<1>1. proven \subseteq proven'
  BY ProvenGrows
<1>2. ASSUME NEW r \in Requests, Continues(r, Idle) PROVE JobsProven'
  BY <1>1, <1>2, MoveProven, IdleProven
<1>3. CASE job' = job
  BY <1>1, <1>3, ProvenMonotone DEF ProvenInv, JobsProven
<1>4. ASSUME NEW r \in Requests, NEW s \in Subjects, NEW v \in Values, SendCode(r, s, v)
      PROVE  JobsProven'
  BY <1>1, <1>4, MoveProven DEF SendCode, Goto, JobIn
<1>5. ASSUME NEW r \in Requests, NEW s \in Subjects, NEW v \in Values, ValidateCode(r, s, v)
      PROVE  JobsProven'
  BY <1>1, <1>5, MoveProven DEF ValidateCode, Accept, JobIn
<1>6. ASSUME NEW r \in Requests, NEW u \in Users, NEW form \in Forms, Register(r, u, form)
      PROVE  JobsProven'
  <2>1. RowIn(form, proven)
    BY <1>6 DEF Register, Certifies, ProvenInv, TokensProven, RowIn
  <2> QED
    BY <1>1, <1>6, <2>1, MoveProven, ProvenMonotone DEF Register, Goto, JobIn
<1>7. ASSUME NEW r \in Requests, NEW u \in Users, NEW s \in KoreanPhones, NEW v \in Values,
             VerifyPhoneNumber(r, u, s, v)
      PROVE  JobsProven'
  BY <1>1, <1>7, MoveProven DEF VerifyPhoneNumber, Accept, JobIn
<1>8. ASSUME NEW r \in Requests, NEW u \in Users, NEW i \in StudentIds,
             VerifyUsersStudentId(r, u, i)
      PROVE  JobsProven'
  BY <1>1, <1>8, MoveProven DEF VerifyUsersStudentId, Goto, JobIn
<1>9. ASSUME NEW r \in Requests, UpdatePhoneNumber(r)
      PROVE  JobsProven'
  <2>1. JobIn([at |-> "DelPhoneCode", subject |-> job[r].subject], proven')
    BY DEF JobIn
  <2> QED
    BY <1>1, <1>2, <1>9, <2>1, MoveProven DEF UpdatePhoneNumber, Goto
<1> QED
  BY <1>2, <1>3, <1>4, <1>5, <1>6, <1>7, <1>8, <1>9
     DEF Next, vars, Arrive, UserRequest, Continue, FreshUsers, Goto, SetCode, DelCode,
         CreateUser, DelPhoneCode,
         UpdateStudentId, Abort, VerifyStudentId, DeleteUser, Minute

LEMMA IdentitiesStep ==
  ASSUME ProvenInv, [Next]_vars
  PROVE  IdentitiesProven'
<1>1. \A row : RowIn(row, proven) => RowIn(row, proven')
  BY ProvenGrows, ProvenMonotone
<1>2. SUFFICES ASSUME NEW u \in DOMAIN users' PROVE RowIn(users'[u], proven')
  BY DEF IdentitiesProven, ProvenRow, RowIn
<1>3. CASE u \in DOMAIN users /\ users'[u] = users[u]
  BY <1>1, <1>3, RowsProven DEF ProvenInv
<1>4. ASSUME NEW r \in Requests, CreateUser(r) PROVE RowIn(users'[u], proven')
  <2>1. RowIn(job[r].form, proven') /\ job[r].form \in Forms
    BY <1>1, <1>4, JobShapes DEF ProvenInv, TypeOK, JobsProven, JobIn, CreateUser, Waits
  <2>2. \/ u \in DOMAIN users /\ users'[u] = users[u]
        \/ users'[u] = RowOf(job[r].form)
    BY <1>4 DEF CreateUser, Put
  <2>3. RowIn(RowOf(job[r].form), proven')
    BY <2>1, RowOfForm DEF RowIn
  <2> QED
    BY <1>3, <2>2, <2>3
<1>5. ASSUME NEW r \in Requests, UpdatePhoneNumber(r) PROVE RowIn(users'[u], proven')
  <2>1. u \in DOMAIN users
    BY <1>5, PhoneRows DEF ProvenInv
  <2>2. users[u] \in Rows /\ RowIn(users[u], proven)
    BY <2>1, RowsProven DEF ProvenInv, TypeOK
  <2>3. Proof("phoneNumber", job[r].subject) \in proven /\ proven' = proven
    BY <1>5 DEF ProvenInv, JobsProven, JobIn, UpdatePhoneNumber, Waits
  <2>4. CASE users'[u] = [users[u] EXCEPT !.phone = job[r].subject, !.phoneVerified = TRUE]
    BY <2>2, <2>3, <2>4 DEF Rows, RowIn
  <2> QED
    BY <1>3, <1>5, <2>1, <2>4, PhoneRows DEF ProvenInv
<1>6. ASSUME NEW r \in Requests, UpdateStudentId(r) PROVE RowIn(users'[u], proven')
  <2>1. u \in DOMAIN users
    BY <1>6, StudentRows DEF ProvenInv
  <2>2. users[u] \in Rows /\ RowIn(users[u], proven)
    BY <2>1, RowsProven DEF ProvenInv, TypeOK
  <2>3. Proof("studentId", job[r].studentId) \in proven /\ proven' = proven
    BY <1>6 DEF ProvenInv, JobsProven, JobIn, UpdateStudentId, Waits
  <2>4. CASE users'[u] = [users[u] EXCEPT !.studentId = job[r].studentId, !.idVerified = TRUE]
    BY <2>2, <2>3, <2>4 DEF Rows, RowIn
  <2> QED
    BY <1>3, <1>6, <2>1, <2>4, StudentRows DEF ProvenInv
<1>7. ASSUME NEW x, DeleteUser(x) PROVE RowIn(users'[u], proven')
  BY <1>3, <1>7, DelGet DEF DeleteUser
<1>8. CASE UNCHANGED users
  BY <1>3, <1>8
<1> QED
  BY <1>4, <1>5, <1>6, <1>7, <1>8
     DEF Next, vars, Arrive, UserRequest, Continue, SendCode, ValidateCode, Register,
         VerifyPhoneNumber,
         VerifyUsersStudentId, SetCode, DelCode, DelPhoneCode, Abort, VerifyStudentId, Minute

\* Every email, every student's student id and every verified phone number of a
\* user was proven, for any number of users and concurrent requests; the student
\* id of others need not be, whatever their flag says (register,
\* verifyPhoneNumber, verifyStudentId).
THEOREM IdentitiesCorrect == Spec => []IdentitiesProven
<1>1. Init => ProvenInv
  BY InitTypeOK DEF Init, ProvenInv, TokensProven, JobsProven, JobIn, IdentitiesProven, Idle
<1>2. ProvenInv /\ [Next]_vars => ProvenInv'
  BY StepTypeOK, TokensStep, JobsStep, IdentitiesStep DEF ProvenInv
<1>3. ProvenInv => IdentitiesProven
  BY DEF ProvenInv
<1> QED
  BY <1>1, <1>2, <1>3, PTL DEF Spec

-----------------------------------------------------------------------------
(* Valid codes were sent.                                                  *)

\* What a request is about to store was sent.
SentInv ==
  /\ TypeOK
  /\ \A r \in Requests : Waits(r, "SetCode") => <<job[r].subject, job[r].value>> \in sent
  /\ StoredCodesWereSent

LEMMA SentStep ==
  ASSUME SentInv, [Next]_vars
  PROVE  SentInv'
<1>1. TypeOK'
  BY StepTypeOK DEF SentInv
<1>2. sent \subseteq sent'
  BY DEF Next, vars, Arrive, UserRequest, Continue, SendCode, ValidateCode, Register,
         VerifyPhoneNumber,
         VerifyUsersStudentId, SetCode, DelCode, CreateUser, UpdatePhoneNumber, DelPhoneCode,
         UpdateStudentId, Abort, VerifyStudentId, DeleteUser, Minute
<1>3. (\A r \in Requests : Waits(r, "SetCode") => <<job[r].subject, job[r].value>> \in sent)'
  <2>1. ASSUME NEW r \in Requests, NEW j, Continues(r, j), j.at # "SetCode"
        PROVE  \A q \in Requests : job'[q].at = "SetCode" =>
                 <<job'[q].subject, job'[q].value>> \in sent'
    BY <1>2, <2>1, MovesOn DEF SentInv, Waits
  <2>2. ASSUME NEW r \in Requests, NEW s \in Subjects, NEW v \in Values, SendCode(r, s, v)
        PROVE  \A q \in Requests : job'[q].at = "SetCode" =>
                 <<job'[q].subject, job'[q].value>> \in sent'
    BY <1>2, <2>2, MovesOn DEF SentInv, Waits, SendCode, Goto
  <2>3. CASE job' = job
    BY <1>2, <2>3 DEF SentInv, Waits
  <2> QED
    BY <2>1, <2>2, <2>3
       DEF Next, vars, Arrive, UserRequest, Continue, ValidateCode, Register,
           VerifyPhoneNumber, Waits,
           VerifyUsersStudentId, SetCode, DelCode, CreateUser, UpdatePhoneNumber, DelPhoneCode,
           UpdateStudentId, Abort, VerifyStudentId, DeleteUser, Minute, Idle, Goto, Accept
<1>4. StoredCodesWereSent'
  <2>1. SUFFICES ASSUME NEW s \in DOMAIN codes' PROVE <<s, codes'[s].value>> \in sent'
    BY DEF StoredCodesWereSent
  <2>2. CASE s \in DOMAIN codes /\ codes'[s].value = codes[s].value
    BY <1>2, <2>2 DEF SentInv, StoredCodesWereSent
  <2>3. ASSUME NEW r \in Requests, SetCode(r) PROVE <<s, codes'[s].value>> \in sent'
    BY <1>2, <2>2, <2>3 DEF SetCode, Put, SentInv, Waits
  <2>4. ASSUME NEW x, codes' = Del(codes, x) PROVE <<s, codes'[s].value>> \in sent'
    BY <2>2, <2>4, DelGet
  <2>5. CASE Minute
    <3>1. s \in DOMAIN codes /\ codes'[s] = [codes[s] EXCEPT !.age = @ + 1]
      BY <2>5 DEF Minute, Rest
    <3>2. codes[s] \in [value : Values, age : 0..(CodeTTL - 1)]
      BY <3>1 DEF SentInv, TypeOK
    <3> QED
      BY <2>2, <3>1, <3>2
  <2>6. CASE UNCHANGED codes
    BY <2>2, <2>6
  <2> QED
    BY <2>3, <2>4, <2>5, <2>6
       DEF Next, vars, Arrive, UserRequest, Continue, SendCode, ValidateCode, Register,
           VerifyPhoneNumber,
           VerifyUsersStudentId, DelCode, CreateUser, UpdatePhoneNumber, DelPhoneCode,
           UpdateStudentId, Abort, VerifyStudentId, DeleteUser
<1> QED
  BY <1>1, <1>3, <1>4 DEF SentInv

\* A valid code was sent to the subject it proves, whatever fails between
\* sending and storing (sendEmailCode, sendPhoneCode).
THEOREM SentCorrect == Spec => []StoredCodesWereSent
<1>1. Init => SentInv
  BY InitTypeOK DEF Init, SentInv, StoredCodesWereSent, Waits, Idle
<1>2. SentInv => StoredCodesWereSent
  BY DEF SentInv
<1> QED
  BY <1>1, <1>2, SentStep, PTL DEF Spec

-----------------------------------------------------------------------------
(* One account per email.                                                  *)

LEMMA AccountsStep ==
  ASSUME TypeOK, OneAccountPerEmail, [Next]_vars
  PROVE  OneAccountPerEmail'
<1>1. CASE /\ DOMAIN users' \subseteq DOMAIN users
           /\ \A u \in DOMAIN users' : users'[u].email = users[u].email
  BY <1>1 DEF OneAccountPerEmail
<1>2. ASSUME NEW r \in Requests, CreateUser(r) PROVE OneAccountPerEmail'
  <2> DEFINE form == job[r].form
  <2>0. RowOf(form).email = form.email
    BY <1>2, JobShapes, RowOfForm DEF TypeOK, CreateUser, Waits
  <2>1. CASE ~Unused(form.email)
    BY <1>1, <1>2, <2>1 DEF CreateUser
  <2>2. CASE Unused(form.email)
    <3>1. /\ DOMAIN users' = DOMAIN users \cup {job[r].user}
          /\ \A x \in DOMAIN users' : users'[x] = IF x = job[r].user THEN RowOf(form) ELSE users[x]
      BY <1>2, <2>2 DEF CreateUser, Put
    <3>2. SUFFICES ASSUME NEW u \in DOMAIN users', NEW v \in DOMAIN users',
                          users'[u].email = users'[v].email
                   PROVE  u = v
      BY DEF OneAccountPerEmail
    <3>3. \A x \in DOMAIN users : users[x].email # RowOf(form).email
      BY <2>0, <2>2 DEF Unused
    <3> HIDE DEF form
    <3> QED
      BY <3>1, <3>2, <3>3 DEF OneAccountPerEmail
  <2> QED
    BY <2>1, <2>2
<1>3. ASSUME NEW r \in Requests, UpdatePhoneNumber(r) PROVE OneAccountPerEmail'
  <2>1. ASSUME NEW u \in DOMAIN users' PROVE u \in DOMAIN users /\ users'[u].email = users[u].email
    <3>1. u \in DOMAIN users /\ users[u] \in Rows
      BY <1>3, PhoneRows DEF TypeOK
    <3>2. [users[u] EXCEPT !.phone = job[r].subject, !.phoneVerified = TRUE].email = users[u].email
      BY <3>1 DEF Rows
    <3> QED
      BY <1>3, <3>1, <3>2, PhoneRows
  <2> QED
    BY <1>1, <2>1
<1>4. ASSUME NEW r \in Requests, UpdateStudentId(r) PROVE OneAccountPerEmail'
  <2>1. ASSUME NEW u \in DOMAIN users' PROVE u \in DOMAIN users /\ users'[u].email = users[u].email
    <3>1. u \in DOMAIN users /\ users[u] \in Rows
      BY <1>4, StudentRows DEF TypeOK
    <3>2. [users[u] EXCEPT !.studentId = job[r].studentId, !.idVerified = TRUE].email
          = users[u].email
      BY <3>1 DEF Rows
    <3> QED
      BY <1>4, <3>1, <3>2, StudentRows
  <2> QED
    BY <1>1, <2>1
<1>5. ASSUME NEW x, DeleteUser(x) PROVE OneAccountPerEmail'
  <2>1. users' = Del(users, x)
    BY <1>5 DEF DeleteUser
  <2>2. DOMAIN users' \subseteq DOMAIN users /\ \A u \in DOMAIN users' : users'[u] = users[u]
    BY <2>1, DelGet
  <2> QED
    BY <1>1, <2>2
<1>6. CASE UNCHANGED users
  BY <1>1, <1>6
<1> QED
  BY <1>2, <1>3, <1>4, <1>5, <1>6
     DEF Next, vars, Arrive, UserRequest, Continue, SendCode, ValidateCode, Register,
         VerifyPhoneNumber,
         VerifyUsersStudentId, SetCode, DelCode, DelPhoneCode, Abort, VerifyStudentId, Minute

\* An email address never gets a second account, whatever registrations and
\* later changes of the rows run at once (register, createUser).
THEOREM AccountsCorrect == Spec => []OneAccountPerEmail
<1>1. Init => OneAccountPerEmail
  BY DEF Init, OneAccountPerEmail
<1> QED
  BY <1>1, InitTypeOK, StepTypeOK, AccountsStep, PTL DEF Spec

-----------------------------------------------------------------------------
(* No more verifications than codes.                                       *)

\* The requests that are about to store a code of s, and those that matched it
\* and have not counted as a verification yet.
Storing(s) == {r \in Requests : Waits(r, "SetCode") /\ job[r].subject = s}
Deciding(s) == {r \in Using(s) : job[r].at \in {"DelCode", "UpdatePhone"}}

\* Whether one more verification may come of the code that is stored: the code of
\* a request that has counted is about to go.
Open(s) == Deciding(s) # {} \/ (s \in DOMAIN codes /\ Using(s) = {})
Owed(s) == IF Open(s) THEN 1 ELSE 0

\* The verifications there were and those that may still come were all sent for.
Covered(s) ==
  IsFiniteSet(Storing(s)) /\ uses[s] + Cardinality(Storing(s)) + Owed(s) <= sends[s]

UsesNoticed == \A s \in Subjects \ spoiled : \A r, q \in Using(s) : r = q

CountInv == TypeOK /\ UsesNoticed /\ \A s \in Subjects \ spoiled : Covered(s)

UsingCalls == {"DelCode", "UpdatePhone", "DelPhoneCode"}

\* What a step of r does to the requests of s.
LEMMA SetsMove ==
  ASSUME NEW r \in Requests, \A q \in Requests \ {r} : job'[q] = job[q], NEW s
  PROVE  /\ Using(s)' \ {r} = Using(s) \ {r}
         /\ Storing(s)' \ {r} = Storing(s) \ {r}
         /\ Deciding(s)' \ {r} = Deciding(s) \ {r}
  BY DEF Using, Storing, Deciding, Waits

LEMMA UsesNoticedStep ==
  ASSUME UsesNoticed, spoiled \subseteq spoiled', NEW r \in Requests,
         \A q \in Requests \ {r} : job'[q] = job[q],
         job'[r].at \in UsingCalls =>
           \/ job[r].at \in UsingCalls /\ job[r].subject = job'[r].subject
           \/ Using(job'[r].subject) # {} => job'[r].subject \in spoiled'
  PROVE  UsesNoticed'
<1> SUFFICES ASSUME NEW s \in Subjects, s \notin spoiled', NEW p \in Using(s)',
                    NEW q \in Using(s)'
             PROVE  p = q
  BY DEF UsesNoticed
<1>1. s \in Subjects \ spoiled
  OBVIOUS
<1>2. \A x \in Using(s)' : x # r => x \in Using(s)
  BY SetsMove
<1>3. CASE r \notin Using(s)'
  BY <1>1, <1>2, <1>3 DEF UsesNoticed
<1>4. CASE r \in Using(s)'
  <2>1. job'[r].at \in UsingCalls /\ job'[r].subject = s
    BY <1>4 DEF Using, UsingCalls
  <2>2. r \in Using(s) \/ Using(s) = {}
    BY <2>1 DEF Using, UsingCalls
  <2> QED
    BY <1>1, <1>2, <2>2 DEF UsesNoticed
<1> QED
  BY <1>3, <1>4

LEMMA CountGet ==
  ASSUME NEW h \in [Subjects -> Nat], NEW s \in Subjects, NEW g, g = Count(h, s)
  PROVE  /\ g[s] \in h[s]..(h[s] + 1)
         /\ h[s] < MaxSends => g[s] = h[s] + 1
         /\ \A x \in Subjects : x # s => g[x] = h[x]
  BY BoundsAssumption DEF Count

\* No code more is about to be stored, and no verification more is possible.
LEMMA CoveredStep ==
  ASSUME TypeOK, TypeOK', NEW s \in Subjects, Covered(s), Storing(s)' \subseteq Storing(s),
         sends'[s] = sends[s], uses'[s] + Owed(s)' <= uses[s] + Owed(s)
  PROVE  Covered(s)'
<1> DEFINE n == Cardinality(Storing(s))
           m == Cardinality(Storing(s)')
<1>1. IsFiniteSet(Storing(s)') /\ m <= n /\ n \in Nat /\ m \in Nat
  BY FS_Subset, FS_CardinalityType DEF Covered
<1>2. uses[s] \in Nat /\ uses'[s] \in Nat /\ sends[s] \in Nat
  BY DEF TypeOK
<1>3. Owed(s) \in Nat /\ Owed(s)' \in Nat
  BY DEF Owed
<1>4. uses[s] + n + Owed(s) <= sends[s]
  BY DEF Covered
<1> HIDE DEF n, m
<1>5. uses'[s] + m + Owed(s)' <= sends'[s]
  BY <1>1, <1>2, <1>3, <1>4
<1> QED
  BY <1>1, <1>5 DEF Covered, m

\* A step of r that stores no code, counts nothing, and starts no use of a code.
LEMMA CountQuiet ==
  ASSUME CountInv, TypeOK', NEW r \in Requests, \A q \in Requests \ {r} : job'[q] = job[q],
         spoiled \subseteq spoiled', UNCHANGED <<uses, sends>>,
         DOMAIN codes' \subseteq DOMAIN codes,
         job'[r].at \notin UsingCalls \cup {"SetCode"},
         job[r].at = "DelPhoneCode" =>
           job[r].subject \notin DOMAIN codes' \/ job[r].subject \in spoiled'
  PROVE  CountInv'
<1>1. UsesNoticed'
  BY UsesNoticedStep DEF CountInv
<1>2. ASSUME NEW s \in Subjects, s \notin spoiled' PROVE Covered(s)'
  <2>1. Covered(s)
    BY <1>2 DEF CountInv
  <2>2. Storing(s)' \subseteq Storing(s) /\ r \notin Using(s)' /\ r \notin Deciding(s)'
    BY SetsMove DEF Storing, Using, Deciding, Waits, UsingCalls
  <2>3. Open(s)' => Open(s)
    <3>1. CASE Using(s) = {}
      BY <2>2, <3>1, SetsMove DEF Open, Deciding
    <3>2. CASE Deciding(s) # {}
      BY <3>2 DEF Open
    <3>3. CASE Using(s) # {} /\ Deciding(s) = {}
      <4>1. PICK q \in Using(s) : job[q].at = "DelPhoneCode" /\ job[q].subject = s
        BY <3>3 DEF Using, Deciding
      <4>2. CASE q = r
        BY <1>2, <2>2, <3>3, <4>1, <4>2, SetsMove DEF Open
      <4>3. CASE q # r
        BY <2>2, <3>3, <4>1, <4>3, SetsMove DEF Open
      <4> QED
        BY <4>2, <4>3
    <3> QED
      BY <3>1, <3>2, <3>3
  <2>4. uses'[s] + Owed(s)' <= uses[s] + Owed(s)
    BY <2>3 DEF Owed, CountInv, TypeOK
  <2> QED
    BY <2>1, <2>2, <2>4, CoveredStep DEF CountInv
<1> QED
  BY <1>1, <1>2 DEF CountInv


LEMMA IdleLabel == Idle.at \notin UsingCalls \cup {"SetCode"}
  BY DEF Idle, UsingCalls

\* Each message that goes out is good for one code.
LEMMA CountSend ==
  ASSUME CountInv, TypeOK', NEW r \in Requests, NEW s \in Subjects, NEW v \in Values,
         SendCode(r, s, v)
  PROVE  CountInv'
<1> DEFINE j == [at |-> "SetCode", subject |-> s, value |-> v]
<1>1. job'[r] = j /\ \A q \in Requests \ {r} : job'[q] = job[q]
  BY MovesOn DEF SendCode, Goto, CountInv
<1>2. j.at = "SetCode" /\ j.subject = s
  OBVIOUS
<1> HIDE DEF j
<1>3. job[r].at = "Idle" /\ spoiled' = spoiled /\ UNCHANGED <<codes, uses>>
  BY DEF SendCode, Waits, Goto
<1>4. UsesNoticed'
  BY <1>1, <1>2, <1>3, UsesNoticedStep DEF CountInv, UsingCalls
<1>5. sends'[s] = sends[s] + 1 /\ \A x \in Subjects : x # s => sends'[x] = sends[x]
  BY CountGet DEF SendCode, CountInv, TypeOK
<1>6. ASSUME NEW x \in Subjects, x \notin spoiled PROVE Covered(x)'
  <2>1. Covered(x)
    BY <1>6 DEF CountInv
  <2>2. Using(x)' = Using(x) /\ Deciding(x)' = Deciding(x)
    BY <1>1, <1>2, <1>3 DEF Using, Deciding
  <2>3. Owed(x)' = Owed(x) /\ Owed(x) \in Nat
    BY <1>3, <2>2 DEF Owed, Open
  <2>4. CASE x # s
    <3>1. Storing(x)' \subseteq Storing(x)
      BY <1>1, <1>2, <1>3, <2>4 DEF Storing, Waits
    <3> QED
      BY <1>3, <1>5, <2>1, <2>3, <2>4, <3>1, CoveredStep DEF CountInv, TypeOK
  <2>5. CASE x = s
    <3> DEFINE n == Cardinality(Storing(x))
               m == Cardinality(Storing(x)')
    <3>1. Storing(x)' = Storing(x) \cup {r} /\ r \notin Storing(x)
      BY <1>1, <1>2, <1>3, <2>5 DEF Storing, Waits
    <3>2. IsFiniteSet(Storing(x)') /\ m = n + 1 /\ n \in Nat
      BY <2>1, <3>1, FS_AddElement, FS_CardinalityType DEF Covered
    <3>3. uses[x] + n + Owed(x) <= sends[x] /\ uses[x] \in Nat /\ sends[x] \in Nat
      BY <2>1 DEF Covered, CountInv, TypeOK
    <3>4. sends'[x] = sends[x] + 1 /\ uses'[x] = uses[x]
      BY <1>3, <1>5, <2>5
    <3> HIDE DEF n, m
    <3>5. uses'[x] + m + Owed(x)' <= sends'[x]
      BY <2>3, <3>2, <3>3, <3>4
    <3> QED
      BY <3>2, <3>5 DEF Covered, m
  <2> QED
    BY <2>4, <2>5
<1> QED
  BY <1>3, <1>4, <1>6 DEF CountInv

LEMMA CountSet ==
  ASSUME CountInv, TypeOK', NEW r \in Requests, SetCode(r)
  PROVE  CountInv'
<1> DEFINE s == job[r].subject
<1>1. job'[r] = Idle /\ \A q \in Requests \ {r} : job'[q] = job[q]
  BY MovesOn DEF SetCode, Goto, CountInv
<1>2. job[r].at = "SetCode" /\ spoiled' = spoiled /\ UNCHANGED <<sends, uses>>
  BY DEF SetCode, Waits, Goto
<1>3. DOMAIN codes' = DOMAIN codes \cup {s}
  BY DEF SetCode, Put
<1>4. UsesNoticed'
  BY <1>1, <1>2, IdleLabel, UsesNoticedStep DEF CountInv
<1>5. ASSUME NEW x \in Subjects, x \notin spoiled PROVE Covered(x)'
  <2>1. Covered(x)
    BY <1>5 DEF CountInv
  <2>2. Using(x)' = Using(x) /\ Deciding(x)' = Deciding(x)
    BY <1>1, <1>2, IdleLabel DEF Using, Deciding, UsingCalls
  <2>3. CASE x # s
    <3>1. Storing(x)' \subseteq Storing(x)
      BY <1>1, IdleLabel DEF Storing, Waits
    <3>2. Owed(x)' = Owed(x) /\ Owed(x) \in Nat
      BY <1>3, <2>2, <2>3 DEF Owed, Open
    <3> QED
      BY <1>2, <2>1, <3>1, <3>2, CoveredStep DEF CountInv, TypeOK
  <2>4. CASE x = s
    <3> DEFINE n == Cardinality(Storing(x))
               m == Cardinality(Storing(x)')
    <3>1. Storing(x)' = Storing(x) \ {r} /\ r \in Storing(x)
      BY <1>1, <1>2, <2>4, IdleLabel DEF Storing, Waits
    <3>2. IsFiniteSet(Storing(x)') /\ m = n - 1 /\ n \in Nat
      BY <2>1, <3>1, FS_RemoveElement, FS_CardinalityType DEF Covered
    <3>3. uses[x] + n + Owed(x) <= sends[x] /\ uses[x] \in Nat /\ sends[x] \in Nat
      BY <2>1 DEF Covered, CountInv, TypeOK
    <3>4. Owed(x) \in 0..1 /\ Owed(x)' \in 0..1
      BY DEF Owed
    <3> HIDE DEF n, m
    <3>5. uses'[x] + m + Owed(x)' <= sends'[x]
      BY <1>2, <3>2, <3>3, <3>4
    <3> QED
      BY <3>2, <3>5 DEF Covered, m
  <2> QED
    BY <2>3, <2>4
<1> QED
  BY <1>2, <1>4, <1>5 DEF CountInv

\* A code that is there is matched: that verification was owed before.
LEMMA CountAccept ==
  ASSUME CountInv, TypeOK', NEW r \in Requests, NEW s \in Subjects, NEW j,
         j.at \in {"DelCode", "UpdatePhone"}, j.subject = s, job[r].at = "Idle",
         Accept(r, j), s \in DOMAIN codes, UNCHANGED <<codes, sends, uses>>
  PROVE  CountInv'
<1>1. job'[r] = j /\ \A q \in Requests \ {r} : job'[q] = job[q]
  BY MovesOn DEF Accept, CountInv
<1>2. spoiled \subseteq spoiled' /\ (Using(s) # {} => s \in spoiled')
  BY DEF Accept
<1>3. UsesNoticed'
  BY <1>1, <1>2, UsesNoticedStep DEF CountInv
<1>4. ASSUME NEW x \in Subjects, x \notin spoiled' PROVE Covered(x)'
  <2>1. Covered(x)
    BY <1>2, <1>4 DEF CountInv
  <2>2. Storing(x)' \subseteq Storing(x)
    BY <1>1 DEF Storing, Waits
  <2>3. Open(x)' => Open(x)
    <3>1. CASE x = s
      BY <1>2, <1>4, <3>1 DEF Open
    <3>2. CASE x # s
      <4>1. Using(x)' = Using(x) /\ Deciding(x)' = Deciding(x)
        BY <1>1, <3>2 DEF Using, Deciding
      <4> QED
        BY <4>1 DEF Open
    <3> QED
      BY <3>1, <3>2
  <2>4. uses'[x] + Owed(x)' <= uses[x] + Owed(x)
    BY <2>3 DEF Owed, CountInv, TypeOK
  <2> QED
    BY <2>1, <2>2, <2>4, CoveredStep DEF CountInv
<1> QED
  BY <1>3, <1>4 DEF CountInv

\* A verification is counted, and none is possible with that code any more: it is
\* deleted, or r is about to delete it.
LEMMA CountUse ==
  ASSUME CountInv, TypeOK', NEW r \in Requests, \A q \in Requests \ {r} : job'[q] = job[q],
         spoiled' = spoiled, sends' = sends, DOMAIN codes' \subseteq DOMAIN codes,
         NEW s \in Subjects, job[r].at \in {"DelCode", "UpdatePhone"}, job[r].subject = s,
         uses' = Count(uses, s),
         \/ job'[r] = Idle /\ s \notin DOMAIN codes'
         \/ job'[r].at = "DelPhoneCode" /\ job'[r].subject = s
  PROVE  CountInv'
<1>1. UsesNoticed'
  BY IdleLabel, UsesNoticedStep DEF CountInv, UsingCalls
<1>2. uses'[s] \in uses[s]..(uses[s] + 1) /\ \A x \in Subjects : x # s => uses'[x] = uses[x]
  BY CountGet DEF CountInv, TypeOK
<1>3. ASSUME NEW x \in Subjects, x \notin spoiled PROVE Covered(x)'
  <2>1. Covered(x)
    BY <1>3 DEF CountInv
  <2>2. Storing(x)' \subseteq Storing(x)
    BY IdleLabel DEF Storing, Waits
  <2>3. uses[x] \in Nat /\ uses'[x] \in Nat
    BY DEF CountInv, TypeOK
  <2>4. uses'[x] + Owed(x)' <= uses[x] + Owed(x)
    <3>1. CASE x = s
      <4>1. r \in Deciding(x) /\ r \in Using(x)
        BY <3>1 DEF Deciding, Using
      <4>2. \A q \in Using(x) : q = r
        BY <1>3, <4>1 DEF CountInv, UsesNoticed
      <4>3. r \notin Deciding(x)' /\ (x \in DOMAIN codes' => r \in Using(x)')
        BY <3>1, IdleLabel DEF Deciding, Using, UsingCalls
      <4>4. Deciding(x)' = {}
        BY <4>2, <4>3, SetsMove DEF Deciding
      <4>5. Open(x) /\ ~Open(x)'
        BY <4>1, <4>3, <4>4 DEF Open
      <4>6. Owed(x) = 1 /\ Owed(x)' = 0
        BY <4>5 DEF Owed
      <4> QED
        BY <1>2, <2>3, <3>1, <4>6
    <3>2. CASE x # s
      <4>1. Using(x)' = Using(x) /\ Deciding(x)' = Deciding(x)
        BY <3>2, IdleLabel DEF Using, Deciding, UsingCalls
      <4>2. Owed(x)' <= Owed(x) /\ Owed(x) \in Nat /\ Owed(x)' \in Nat
        BY <4>1 DEF Owed, Open
      <4> QED
        BY <1>2, <2>3, <3>2, <4>2
    <3> QED
      BY <3>1, <3>2
  <2> QED
    BY <2>1, <2>2, <2>4, CoveredStep DEF CountInv
<1> QED
  BY <1>1, <1>3 DEF CountInv


LEMMA CountArrive ==
  ASSUME CountInv, TypeOK', NEW r \in Requests, Arrive(r)
  PROVE  CountInv'
<1>1. ASSUME NEW s \in Subjects, NEW v \in Values, SendCode(r, s, v) PROVE CountInv'
  BY <1>1, CountSend
<1>2. ASSUME NEW s \in Subjects, NEW v \in Values, ValidateCode(r, s, v) PROVE CountInv'
  <2> DEFINE j == [at |-> "DelCode", subject |-> s]
  <2>1. /\ Accept(r, j) /\ s \in DOMAIN codes /\ job[r].at = "Idle"
        /\ UNCHANGED <<codes, sends, uses>>
    BY <1>2 DEF ValidateCode, Matches, Waits
  <2>2. j.at = "DelCode" /\ j.subject = s
    OBVIOUS
  <2> HIDE DEF j
  <2> QED
    BY <2>1, <2>2, CountAccept
<1>3. ASSUME NEW u \in Users, NEW s \in KoreanPhones, NEW v \in Values,
             VerifyPhoneNumber(r, u, s, v)
      PROVE  CountInv'
  <2> DEFINE j == [at |-> "UpdatePhone", user |-> u, subject |-> s]
  <2>1. /\ Accept(r, j) /\ s \in DOMAIN codes /\ job[r].at = "Idle"
        /\ UNCHANGED <<codes, sends, uses>>
    BY <1>3 DEF VerifyPhoneNumber, Matches, Waits
  <2>2. j.at = "UpdatePhone" /\ j.subject = s /\ s \in Subjects
    BY DEF Subjects
  <2> HIDE DEF j
  <2> QED
    BY <2>1, <2>2, CountAccept
<1>4. ASSUME NEW u \in Users, NEW form \in Forms, Register(r, u, form) PROVE CountInv'
  <2> DEFINE j == [at |-> "CreateUser", user |-> u, form |-> form]
  <2>1. Continues(r, j) /\ UNCHANGED <<spoiled, codes, sends, uses>> /\ job[r].at = "Idle"
    BY <1>4 DEF Register, Goto, Waits
  <2>2. j.at \notin UsingCalls \cup {"SetCode"}
    BY DEF UsingCalls
  <2> HIDE DEF j
  <2>3. job'[r] = j /\ \A q \in Requests \ {r} : job'[q] = job[q]
    BY <2>1, MovesOn DEF CountInv
  <2> QED
    BY <2>1, <2>2, <2>3, CountQuiet
<1>5. ASSUME NEW u \in Users, NEW i \in StudentIds, VerifyUsersStudentId(r, u, i) PROVE CountInv'
  <2> DEFINE j == [at |-> "UpdateStudentId", user |-> u, studentId |-> i]
  <2>1. Continues(r, j) /\ UNCHANGED <<spoiled, codes, sends, uses>> /\ job[r].at = "Idle"
    BY <1>5 DEF VerifyUsersStudentId, Goto, Waits
  <2>2. j.at \notin UsingCalls \cup {"SetCode"}
    BY DEF UsingCalls
  <2> HIDE DEF j
  <2>3. job'[r] = j /\ \A q \in Requests \ {r} : job'[q] = job[q]
    BY <2>1, MovesOn DEF CountInv
  <2> QED
    BY <2>1, <2>2, <2>3, CountQuiet
<1> QED
  BY <1>1, <1>2, <1>3, <1>4, <1>5 DEF Arrive, UserRequest, FreshUsers

LEMMA CountContinue ==
  ASSUME CountInv, TypeOK', NEW r \in Requests, Continue(r)
  PROVE  CountInv'
<1>1. CASE SetCode(r)
  BY <1>1, CountSet
<1>2. CASE DelCode(r)
  <2>1. job[r].at = "DelCode" /\ job[r].subject \in Subjects
    BY <1>2, JobShapes DEF DelCode, Waits, CountInv, TypeOK
  <2>2. job'[r] = Idle /\ \A q \in Requests \ {r} : job'[q] = job[q]
    BY <1>2, MovesOn DEF DelCode, Goto, CountInv
  <2>3. DOMAIN codes' = DOMAIN codes \ {job[r].subject}
    BY <1>2 DEF DelCode, Del, Restrict
  <2>4. UNCHANGED <<spoiled, sends>> /\ uses' = Count(uses, job[r].subject)
    BY <1>2 DEF DelCode, Goto
  <2> QED
    BY <2>1, <2>2, <2>3, <2>4, CountUse
<1>3. CASE UpdatePhoneNumber(r) /\ job[r].user \in DOMAIN users
  <2> DEFINE s == job[r].subject
             j == [at |-> "DelPhoneCode", subject |-> s]
  <2>1. job[r].at = "UpdatePhone" /\ s \in Subjects
    BY <1>3, JobShapes DEF UpdatePhoneNumber, Waits, CountInv, TypeOK, Subjects
  <2>2. Continues(r, j) /\ UNCHANGED <<spoiled, codes, sends>> /\ uses' = Count(uses, s)
    BY <1>3 DEF UpdatePhoneNumber, Goto
  <2>3. j.at = "DelPhoneCode" /\ j.subject = s
    OBVIOUS
  <2> HIDE DEF j
  <2>4. job'[r] = j /\ \A q \in Requests \ {r} : job'[q] = job[q]
    BY <2>2, MovesOn DEF CountInv
  <2> QED
    BY <2>1, <2>2, <2>3, <2>4, CountUse
<1>4. CASE UpdatePhoneNumber(r) /\ job[r].user \notin DOMAIN users
  <2>1. /\ Continues(r, Idle) /\ UNCHANGED <<spoiled, codes, sends, uses>>
        /\ job[r].at = "UpdatePhone"
    BY <1>4 DEF UpdatePhoneNumber, Goto, Waits
  <2>2. job'[r] = Idle /\ \A q \in Requests \ {r} : job'[q] = job[q]
    BY <2>1, MovesOn DEF CountInv
  <2> QED
    BY <2>1, <2>2, IdleLabel, CountQuiet
<1>5. CASE DelPhoneCode(r)
  <2>1. /\ Continues(r, Idle) /\ UNCHANGED <<spoiled, sends, uses>>
        /\ DOMAIN codes' = DOMAIN codes \ {job[r].subject}
    BY <1>5 DEF DelPhoneCode, Goto, Del, Restrict
  <2>2. job'[r] = Idle /\ \A q \in Requests \ {r} : job'[q] = job[q]
    BY <2>1, MovesOn DEF CountInv
  <2> QED
    BY <2>1, <2>2, IdleLabel, CountQuiet
<1>6. CASE CreateUser(r) \/ UpdateStudentId(r)
  <2>1. /\ Continues(r, Idle) /\ UNCHANGED <<spoiled, codes, sends, uses>>
        /\ job[r].at # "DelPhoneCode"
    BY <1>6 DEF CreateUser, UpdateStudentId, Goto, Waits
  <2>2. job'[r] = Idle /\ \A q \in Requests \ {r} : job'[q] = job[q]
    BY <2>1, MovesOn DEF CountInv
  <2> QED
    BY <2>1, <2>2, IdleLabel, CountQuiet
<1> QED
  BY <1>1, <1>2, <1>3, <1>4, <1>5, <1>6 DEF Continue

LEMMA CountAbort ==
  ASSUME CountInv, TypeOK', NEW r \in Requests, Abort(r)
  PROVE  CountInv'
<1>1. /\ Continues(r, Idle) /\ UNCHANGED <<codes, sends, uses>> /\ spoiled \subseteq spoiled'
      /\ job[r].at = "DelPhoneCode" => job[r].subject \in spoiled'
  BY DEF Abort, Waits
<1>2. job'[r] = Idle /\ \A q \in Requests \ {r} : job'[q] = job[q]
  BY <1>1, MovesOn DEF CountInv
<1> QED
  BY <1>1, <1>2, IdleLabel, CountQuiet

LEMMA CountStep == CountInv /\ [Next]_vars => CountInv'
<1> SUFFICES ASSUME CountInv, [Next]_vars PROVE CountInv'
  OBVIOUS
<1>0. TypeOK'
  BY StepTypeOK DEF CountInv
<1>1. ASSUME DOMAIN codes' \subseteq DOMAIN codes, UNCHANGED <<job, spoiled, sends, uses>>
      PROVE  CountInv'
  <2>1. UsesNoticed'
    BY <1>1 DEF CountInv, UsesNoticed, Using
  <2>2. ASSUME NEW s \in Subjects, s \notin spoiled PROVE Covered(s)'
    <3>1. Covered(s)
      BY <2>2 DEF CountInv
    <3>2. /\ Using(s)' = Using(s) /\ Deciding(s)' = Deciding(s)
          /\ Storing(s)' \subseteq Storing(s)
      BY <1>1 DEF Using, Deciding, Storing, Waits
    <3>3. uses'[s] + Owed(s)' <= uses[s] + Owed(s)
      BY <1>1, <3>2 DEF Owed, Open, CountInv, TypeOK
    <3> QED
      BY <1>0, <1>1, <3>1, <3>2, <3>3, CoveredStep DEF CountInv
  <2> QED
    BY <1>0, <1>1, <2>1, <2>2 DEF CountInv
<1>2. ASSUME NEW r \in Requests, Arrive(r) \/ Continue(r) \/ Abort(r) PROVE CountInv'
  BY <1>0, <1>2, CountArrive, CountContinue, CountAbort
<1>3. CASE \/ \E i \in StudentIds : VerifyStudentId(i)
           \/ \E u \in DOMAIN users : DeleteUser(u)
           \/ Minute \/ UNCHANGED vars
  BY <1>1, <1>3 DEF VerifyStudentId, DeleteUser, Minute, Rest, vars
<1> QED
  BY <1>2, <1>3 DEF Next

LEMMA InitCount == Init => CountInv
<1> SUFFICES ASSUME Init PROVE CountInv
  OBVIOUS
<1>1. ASSUME NEW s \in Subjects
      PROVE  /\ Using(s) = {} /\ Storing(s) = {} /\ Deciding(s) = {} /\ s \notin DOMAIN codes
             /\ sends[s] = 0 /\ uses[s] = 0
  BY DEF Init, Using, Storing, Deciding, Waits, Idle
<1>2. ASSUME NEW s \in Subjects PROVE Covered(s)
  <2>1. Owed(s) = 0
    BY <1>1 DEF Owed, Open
  <2> QED
    BY <1>1, <2>1, FS_EmptySet DEF Covered
<1> QED
  BY <1>1, <1>2, InitTypeOK DEF CountInv, UsesNoticed

\* However many codes are on their way at once, in whatever order they are stored,
\* used, deleted or dropped, no more verifications succeed than codes were sent;
\* of subjects with overlapping uses or a failed deletion, after which a code can
\* be used again, nothing is said (Verification.CodesUsedOnce).
THEOREM UsedOnceCorrect == Spec => []CodesUsedOnce
<1>1. CountInv => CodesUsedOnce
  <2> SUFFICES ASSUME CountInv, NEW s \in Subjects \ spoiled PROVE uses[s] <= sends[s]
    BY DEF CodesUsedOnce
  <2> DEFINE n == Cardinality(Storing(s))
  <2>1. n \in Nat /\ uses[s] + n + Owed(s) <= sends[s]
    BY FS_CardinalityType DEF CountInv, Covered
  <2>2. uses[s] \in Nat /\ sends[s] \in Nat /\ Owed(s) \in Nat
    BY DEF CountInv, TypeOK, Owed
  <2> HIDE DEF n
  <2> QED
    BY <2>1, <2>2
<1> QED
  BY <1>1, InitCount, CountStep, PTL DEF Spec


-----------------------------------------------------------------------------
(* Registry: every step of the service proves something, enters or changes *)
(* one user, or is not seen from outside.                                  *)

\* A registration on its way enters a user that nobody else is and will be.
EntersNew ==
  \A r \in Requests : Waits(r, "CreateUser") =>
    /\ job[r].user \notin DOMAIN users
    /\ \A q \in Requests \ {r} : Waits(q, "CreateUser") => job[q].user # job[r].user

EntersInv == ProvenInv /\ EntersNew

LEMMA EntersStep ==
  ASSUME EntersInv, [Next]_vars
  PROVE  EntersNew'
<1>0. TypeOK
  BY DEF EntersInv, ProvenInv
<1>1. ASSUME NEW r \in Requests, NEW j, Continues(r, j), j.at # "CreateUser",
             DOMAIN users' \subseteq DOMAIN users
      PROVE  EntersNew'
  BY <1>0, <1>1, MovesOn DEF EntersInv, EntersNew, Waits
<1>2. CASE UNCHANGED job /\ DOMAIN users' \subseteq DOMAIN users
  BY <1>2 DEF EntersInv, EntersNew, Waits
<1>3. ASSUME NEW r \in Requests, NEW u \in FreshUsers, NEW form, Register(r, u, form)
      PROVE  EntersNew'
  <2> DEFINE j == [at |-> "CreateUser", user |-> u, form |-> form]
  <2>1. j.user = u /\ Continues(r, j) /\ UNCHANGED users
    BY <1>3 DEF Register, Goto
  <2> HIDE DEF j
  <2>2. job'[r] = j /\ \A q \in Requests \ {r} : job'[q] = job[q]
    BY <1>0, <2>1, MovesOn
  <2>3. u \notin DOMAIN users /\ \A q \in Requests : Waits(q, "CreateUser") => job[q].user # u
    BY DEF FreshUsers, Waits
  <2> QED
    BY <2>1, <2>2, <2>3 DEF EntersInv, EntersNew, Waits
<1>4. ASSUME NEW r \in Requests, CreateUser(r) PROVE EntersNew'
  <2>1. job'[r] = Idle /\ \A q \in Requests \ {r} : job'[q] = job[q]
    BY <1>0, <1>4, MovesOn DEF CreateUser, Goto
  <2>2. Waits(r, "CreateUser") /\ DOMAIN users' \subseteq DOMAIN users \cup {job[r].user}
    BY <1>4 DEF CreateUser, Put
  <2> QED
    BY <2>1, <2>2 DEF EntersInv, EntersNew, Waits, Idle
<1>5. ASSUME NEW r \in Requests, UpdatePhoneNumber(r) \/ UpdateStudentId(r) PROVE EntersNew'
  <2>1. DOMAIN users' = DOMAIN users
    BY <1>0, <1>5, PhoneRows, StudentRows
  <2>2. Continues(r, Idle) \/ Continues(r, [at |-> "DelPhoneCode", subject |-> job[r].subject])
    BY <1>5 DEF UpdatePhoneNumber, UpdateStudentId, Goto
  <2> QED
    BY <1>1, <2>1, <2>2 DEF Idle
<1>6. ASSUME NEW r \in Requests,
             \/ \E s \in Subjects, v \in Values : SendCode(r, s, v) \/ ValidateCode(r, s, v)
             \/ \E u \in Users, s \in KoreanPhones, v \in Values : VerifyPhoneNumber(r, u, s, v)
             \/ \E u \in Users, i \in StudentIds : VerifyUsersStudentId(r, u, i)
      PROVE  EntersNew'
  BY <1>1, <1>6 DEF SendCode, ValidateCode, VerifyPhoneNumber, VerifyUsersStudentId, Goto, Accept
<1>7. ASSUME NEW r \in Requests, SetCode(r) \/ DelCode(r) \/ DelPhoneCode(r) \/ Abort(r)
      PROVE  EntersNew'
  BY <1>1, <1>7 DEF SetCode, DelCode, DelPhoneCode, Abort, Goto, Idle
<1>8. ASSUME NEW u, DeleteUser(u) PROVE EntersNew'
  BY <1>2, <1>8 DEF DeleteUser, Del, Restrict
<1>9. CASE UNCHANGED vars \/ Minute \/ \E i \in StudentIds : VerifyStudentId(i)
  BY <1>2, <1>9 DEF vars, Minute, VerifyStudentId
<1> QED
  BY <1>3, <1>4, <1>5, <1>6, <1>7, <1>8, <1>9 DEF Next, Arrive, UserRequest, Continue

LEMMA RegisteredStep ==
  ASSUME EntersInv, [Next]_vars
  PROVE  [Registered!Next]_<<users, proven>>
<1>0. TypeOK /\ ProvenInv
  BY DEF EntersInv, ProvenInv
<1>1. CASE UNCHANGED <<users, proven>>
  BY <1>1
<1>2. ASSUME NEW p \in Proofs, proven' = proven \cup {p}, UNCHANGED users
      PROVE  Registered!Next
  BY <1>2 DEF Registered!Next, Registered!Prove
<1>3. ASSUME NEW r \in Requests, NEW s \in Subjects, NEW v, ValidateCode(r, s, v)
      PROVE  Registered!Next
  BY <1>2, <1>3, ProofType DEF ValidateCode
<1>4. ASSUME NEW r \in Requests, NEW u, NEW s \in KoreanPhones, NEW v,
             VerifyPhoneNumber(r, u, s, v)
      PROVE  Registered!Next
  BY <1>2, <1>4 DEF VerifyPhoneNumber, Proof, Proofs, Hints, Subjects
<1>5. ASSUME NEW i \in StudentIds, NEW r, NEW u,
             VerifyStudentId(i) \/ VerifyUsersStudentId(r, u, i)
      PROVE  Registered!Next
  BY <1>2, <1>5 DEF VerifyStudentId, VerifyUsersStudentId, Proof, Proofs, Hints
<1>6. ASSUME NEW r \in Requests, CreateUser(r), users' # users
      PROVE  Registered!Next
  <2> DEFINE u == job[r].user
             form == job[r].form
             row == RowOf(form)
  <2>1. job[r].at = "CreateUser" /\ u \in Users /\ form \in Forms
    BY <1>0, <1>6, JobShapes DEF CreateUser, Waits, TypeOK
  <2>2. /\ users' = Put(users, u, row) /\ UNCHANGED proven
        /\ \A v \in DOMAIN users : users[v].email # form.email
    BY <1>6 DEF CreateUser, Unused
  <2>3. u \notin DOMAIN users
    BY <2>1 DEF EntersInv, EntersNew, Waits
  <2>4. RowIn(form, proven)
    BY <1>0, <2>1 DEF ProvenInv, JobsProven, JobIn
  <2> HIDE DEF form
  <2>5. /\ row \in Rows /\ row.idVerified /\ RowIn(row, proven)
        /\ row.email = form.email
    BY <2>1, <2>4, RowOfForm DEF RowIn
  <2> HIDE DEF u, row
  <2>6. Registered!Enter(u, row)
    BY <2>2, <2>3, <2>5 DEF Registered!Enter, Registered!Proven, Put, RowIn, Proof
  <2> QED
    BY <2>1, <2>5, <2>6 DEF Registered!Next
<1>7. ASSUME NEW r \in Requests, UpdatePhoneNumber(r), users' # users
      PROVE  Registered!Next
  <2> DEFINE u == job[r].user
             p == Proof("phoneNumber", job[r].subject)
  <2>1. job[r].at = "UpdatePhone" /\ u \in DOMAIN users /\ UNCHANGED proven
    BY <1>7 DEF UpdatePhoneNumber, Waits
  <2>2. p \in proven /\ p.hint = "phoneNumber" /\ p.sub = job[r].subject
    BY <1>0, <2>1 DEF ProvenInv, JobsProven, JobIn, Proof
  <2>3. users' = [users EXCEPT ![u].phone = p.sub, ![u].phoneVerified = TRUE]
    BY <1>7, <2>1, <2>2 DEF UpdatePhoneNumber
  <2>4. u \in Users /\ p \in Proofs
    BY <1>0, <2>1, <2>2 DEF TypeOK
  <2> HIDE DEF u, p
  <2>5. Registered!ExchangePhone(u, p)
    BY <2>1, <2>2, <2>3 DEF Registered!ExchangePhone
  <2> QED
    BY <2>4, <2>5 DEF Registered!Next
<1>8. ASSUME NEW r \in Requests, UpdateStudentId(r), users' # users
      PROVE  Registered!Next
  <2> DEFINE u == job[r].user
             p == Proof("studentId", job[r].studentId)
  <2>1. job[r].at = "UpdateStudentId" /\ u \in DOMAIN users /\ UNCHANGED proven
    BY <1>8 DEF UpdateStudentId, Waits
  <2>2. p \in proven /\ p.hint = "studentId" /\ p.sub = job[r].studentId
    BY <1>0, <2>1 DEF ProvenInv, JobsProven, JobIn, Proof
  <2>3. users' = [users EXCEPT ![u].studentId = p.sub, ![u].idVerified = TRUE]
    BY <1>8, <2>1, <2>2 DEF UpdateStudentId
  <2>4. u \in Users /\ p \in Proofs
    BY <1>0, <2>1, <2>2 DEF TypeOK
  <2> HIDE DEF u, p
  <2>5. Registered!ExchangeStudentId(u, p)
    BY <2>1, <2>2, <2>3 DEF Registered!ExchangeStudentId
  <2> QED
    BY <2>4, <2>5 DEF Registered!Next
<1>9. ASSUME NEW u \in DOMAIN users, DeleteUser(u) PROVE Registered!Next
  <2>1. Registered!Leave(u)
    BY <1>9 DEF DeleteUser, Del, Restrict, Registered!Leave
  <2> QED
    BY <1>0, <2>1 DEF TypeOK, Registered!Next
<1> QED
  BY <1>1, <1>3, <1>4, <1>5, <1>6, <1>7, <1>8, <1>9
     DEF Next, vars, Arrive, UserRequest, Continue, SendCode, Register, SetCode, DelCode,
         CreateUser, UpdatePhoneNumber, UpdateStudentId, DelPhoneCode, Abort, Minute

\* Every behaviour of verification and registration is one of the registry: any
\* interleaving of any number of requests takes over only what was proven, but for
\* the student id a non-student registers with, and overwrites nobody
\* (Verification.ImplementsRegistry).
THEOREM Refinement == Spec => ImplementsRegistry
<1>1. Init => EntersInv /\ Registered!Init
  BY InitTypeOK DEF Init, EntersInv, EntersNew, ProvenInv, TokensProven, JobsProven, JobIn,
     IdentitiesProven, Idle, Waits, Registered!Init
<1>2. EntersInv /\ [Next]_vars => EntersInv'
  BY StepTypeOK, TokensStep, JobsStep, IdentitiesStep, EntersStep DEF EntersInv, ProvenInv
<1>3. EntersInv /\ [Next]_vars => [Registered!Next]_<<users, proven>>
  BY RegisteredStep
<1> QED
  BY <1>1, <1>2, <1>3, PTL DEF Spec, ImplementsRegistry, Registered!Spec

=============================================================================
