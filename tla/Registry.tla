------------------------------ MODULE Registry ------------------------------
(***************************************************************************)
(* What the registry of users promises, without codes, tokens and          *)
(* requests: somebody enters with an email that was proven and that nobody *)
(* else has, keeps it, exchanges the phone number and the student id only  *)
(* for proven ones, and leaves.  No entry is overwritten.  The student id  *)
(* somebody enters with is proven if the email is a student's; anybody     *)
(* else's is taken on trust, and is marked as verified all the same.       *)
(***************************************************************************)
CONSTANTS Users, Rows, Proofs, StudentEmails

VARIABLES
  users,    \* those who have entered -> what is known of them
  proven    \* what somebody has proven

Init == users = <<>> /\ proven = {}

Proven(hint, sub) == [hint |-> hint, sub |-> sub] \in proven

Prove(p) ==
  /\ proven' = proven \cup {p}
  /\ UNCHANGED users

Enter(u, row) ==
  /\ u \notin DOMAIN users
  /\ \A v \in DOMAIN users : users[v].email # row.email
  /\ Proven("email", row.email)
  /\ row.phoneVerified => Proven("phoneNumber", row.phone)
  /\ row.email \in StudentEmails => Proven("studentId", row.studentId)
  /\ row.idVerified
  /\ users' = [x \in DOMAIN users \cup {u} |-> IF x = u THEN row ELSE users[x]]
  /\ UNCHANGED proven

\* A number that was proven counts as verified.
ExchangePhone(u, p) ==
  /\ u \in DOMAIN users /\ p \in proven /\ p.hint = "phoneNumber"
  /\ users' = [users EXCEPT ![u].phone = p.sub, ![u].phoneVerified = TRUE]
  /\ UNCHANGED proven

ExchangeStudentId(u, p) ==
  /\ u \in DOMAIN users /\ p \in proven /\ p.hint = "studentId"
  /\ users' = [users EXCEPT ![u].studentId = p.sub, ![u].idVerified = TRUE]
  /\ UNCHANGED proven

Leave(u) ==
  /\ users' = [x \in DOMAIN users \ {u} |-> users[x]]
  /\ UNCHANGED proven

Next ==
  \/ \E p \in Proofs : Prove(p)
  \/ \E u \in Users : \/ \E row \in Rows : Enter(u, row)
                      \/ \E p \in Proofs : ExchangePhone(u, p) \/ ExchangeStudentId(u, p)
                      \/ Leave(u)

Spec == Init /\ [][Next]_<<users, proven>>
=============================================================================
