------------------------ MODULE ClientMembersProofs ------------------------
(***************************************************************************)
(* Theorems about ClientMembers, for any users and any number of requests. *)
(***************************************************************************)
EXTENDS ClientMembers, TLAPS

\* The label of a request tells its variables.
LEMMA JobShapes ==
  ASSUME NEW j \in Jobs
  PROVE  /\ j.at = "SetRole" =>
              j \in [at : {"SetRole"}, by : Users, user : Users, role : Roles]
         /\ j.at \in {"FindUser", "AddLink", "ReadRole", "RemoveLink", "Transfer"} =>
              j \in [at : {"FindUser", "AddLink", "ReadRole", "RemoveLink", "Transfer"},
                     by : Users, user : Users]
         /\ j.at \in {"CreateClient", "UpdateSecret", "FindClient", "Slack", "RequestDelete"} =>
              j \in [at : {"CreateClient", "UpdateSecret", "FindClient", "Slack", "RequestDelete"},
                     by : Users]
  BY DEF Jobs, Idle

\* What a step of request r does to the requests.
LEMMA GotoStep ==
  ASSUME TypeOK, NEW r \in Requests, NEW j \in Jobs, Goto(r, j)
  PROVE  /\ job' \in [Requests -> Jobs] /\ contended' \in BOOLEAN /\ crossed' \in BOOLEAN
         /\ job'[r] = j /\ \A q \in Requests \ {r} : job'[q] = job[q]
         /\ contended => contended'
         /\ Contends(r, j.at) => contended'
         /\ crossed => crossed'
         /\ Crosses(r, j.at) => crossed'
         /\ crossed' => crossed \/ Contends(r, j.at)
  BY DEF TypeOK, Goto, Contends, Crosses, Changing

LEMMA IdleJob == Idle \in Jobs /\ Idle.at = "Idle"
  BY DEF Jobs, Idle

-----------------------------------------------------------------------------
(* Types.                                                                  *)

LEMMA LinkType ==
  ASSUME TypeOK, NEW u \in Users, NEW role \in Roles, Link(u, role)
  PROVE  DOMAIN roles' \subseteq Users /\ \A m \in DOMAIN roles' : roles'[m] \in Roles
  BY DEF TypeOK, Link

\* The rows of members that stay, without those of M.
LEMMA UnlinkType ==
  ASSUME TypeOK, NEW M, roles' = Restrict(roles, DOMAIN roles \ M)
  PROVE  /\ DOMAIN roles' = DOMAIN roles \ M
         /\ \A m \in DOMAIN roles' : roles'[m] = roles[m]
         /\ DOMAIN roles' \subseteq Users /\ \A m \in DOMAIN roles' : roles'[m] \in Roles
  BY DEF TypeOK, Restrict

\* Nothing but the request changes.
LEMMA MoveType ==
  ASSUME TypeOK, NEW r \in Requests, NEW j \in Jobs, Goto(r, j),
         UNCHANGED <<users, exists, roles, secret, announced, deletion>>
  PROVE  TypeOK'
  BY GotoStep DEF TypeOK

LEMMA ArriveType ==
  ASSUME TypeOK, NEW r \in Requests, Arrive(r) \/ Abort(r)
  PROVE  TypeOK'
<1>1. ASSUME NEW u \in Users,
             RegisterClient(r, u) \/ ResetClientSecret(r, u) \/ DeleteClientRequest(r, u)
      PROVE  TypeOK'
  <2>1. \A at \in {"CreateClient", "UpdateSecret", "FindClient"} : [at |-> at, by |-> u] \in Jobs
    BY DEF Jobs
  <2> QED
    BY <1>1, <2>1, MoveType DEF RegisterClient, ResetClientSecret, DeleteClientRequest
<1>2. ASSUME NEW u \in Users, NEW m \in Users, AddMember(r, u, m) \/ RemoveMember(r, u, m)
      PROVE  TypeOK'
  <2>1. \A at \in {"FindUser", "ReadRole"} : [at |-> at, by |-> u, user |-> m] \in Jobs
    BY DEF Jobs
  <2> QED
    BY <1>2, <2>1, MoveType DEF AddMember, RemoveMember
<1>3. ASSUME NEW u \in Users, NEW m \in Users, NEW role \in Roles, SetRole(r, u, m, role)
      PROVE  TypeOK'
  <2>1. /\ [at |-> "Transfer", by |-> u, user |-> m] \in Jobs
        /\ [at |-> "SetRole", by |-> u, user |-> m, role |-> role] \in Jobs
    BY DEF Jobs
  <2> QED
    BY <1>3, <2>1, MoveType DEF SetRole
<1>4. CASE Abort(r)
  BY <1>4, IdleJob, MoveType DEF Abort, Done
<1> QED
  BY <1>1, <1>2, <1>3, <1>4 DEF Arrive

\* The request in slot r goes on to its next query, or ends.
LEMMA GoType ==
  ASSUME TypeOK, NEW r \in Requests, NEW from, NEW to, Waits(r, from), Go(r, to),
         \/ from = "FindUser" /\ to = "AddLink"
         \/ from = "ReadRole" /\ to = "RemoveLink"
         \/ from = "FindClient" /\ to = "Slack"
         \/ from = "Slack" /\ to = "RequestDelete"
  PROVE  /\ Goto(r, [job[r] EXCEPT !.at = to]) /\ [job[r] EXCEPT !.at = to] \in Jobs
         /\ [job[r] EXCEPT !.at = to].at = to
         /\ [job[r] EXCEPT !.at = to].by = job[r].by
         /\ from \in {"FindUser", "ReadRole"} => [job[r] EXCEPT !.at = to].user = job[r].user
<1> DEFINE next == [job[r] EXCEPT !.at = to]
<1>1. job[r] \in Jobs /\ job[r].at = from
  BY DEF TypeOK, Waits
<1>2. CASE from \in {"FindUser", "ReadRole"}
  <2>1. job[r] \in [at : {"FindUser", "AddLink", "ReadRole", "RemoveLink", "Transfer"},
                    by : Users, user : Users]
    BY <1>1, <1>2, JobShapes
  <2>2. next \in [at : {"FindUser", "AddLink", "ReadRole", "RemoveLink", "Transfer"},
                  by : Users, user : Users]
    BY <1>2, <2>1
  <2>3. next \in Jobs
    BY <2>2 DEF Jobs
  <2> QED
    BY <1>2, <2>1, <2>3 DEF Go
<1>3. CASE from \in {"FindClient", "Slack"}
  <2>1. job[r] \in [at : {"CreateClient", "UpdateSecret", "FindClient", "Slack", "RequestDelete"},
                    by : Users]
    BY <1>1, <1>3, JobShapes
  <2>2. next \in [at : {"CreateClient", "UpdateSecret", "FindClient", "Slack", "RequestDelete"},
                  by : Users]
    BY <1>3, <2>1
  <2>3. next \in Jobs
    BY <2>2 DEF Jobs
  <2> QED
    BY <1>3, <2>1, <2>3 DEF Go
<1> QED
  BY <1>2, <1>3

LEMMA ContinueType ==
  ASSUME TypeOK, NEW r \in Requests, Continue(r)
  PROVE  TypeOK'
<1>1. job[r] \in Jobs
  BY DEF TypeOK
<1>2. CASE CreateClient(r)
  <2>1. job[r].by \in Users
    BY <1>1, <1>2, JobShapes DEF CreateClient, Waits
  <2>2. CASE Link(job[r].by, "OWNER") /\ exists'
    BY <1>2, <2>1, <2>2, LinkType, IdleJob, GotoStep DEF CreateClient, Done, TypeOK, Roles
  <2>3. CASE UNCHANGED <<exists, roles>>
    BY <1>2, <2>3, MoveType, IdleJob DEF CreateClient, Done
  <2> QED
    BY <1>2, <2>2, <2>3 DEF CreateClient
<1>3. CASE FindUser(r) \/ ReadRole(r) \/ FindClient(r)
  BY <1>3, GoType, IdleJob, MoveType DEF FindUser, ReadRole, FindClient, Done
<1>4. CASE AddLink(r) \/ SetRoleToUser(r)
  <2>1. job[r].user \in Users /\ (Waits(r, "SetRole") => job[r].role \in Roles)
    BY <1>1, <1>4, JobShapes DEF AddLink, SetRoleToUser, Waits
  <2>2. PICK role \in Roles : Link(job[r].user, role) \/ UNCHANGED roles
    BY <1>4, <2>1 DEF AddLink, SetRoleToUser, Roles
  <2>3. CASE Link(job[r].user, role)
    BY <1>4, <2>1, <2>3, LinkType, IdleJob, GotoStep DEF AddLink, SetRoleToUser, Done, TypeOK
  <2>4. CASE UNCHANGED roles
    BY <1>4, <2>4, MoveType, IdleJob DEF AddLink, SetRoleToUser, Done
  <2> QED
    BY <2>2, <2>3, <2>4
<1>5. CASE RemoveLink(r)
  BY <1>5, UnlinkType, IdleJob, GotoStep DEF RemoveLink, Done, TypeOK
<1>6. CASE TransferOwnership(r)
  <2>1. DOMAIN roles' = DOMAIN roles /\ \A m \in DOMAIN roles' : roles'[m] \in Roles
    BY <1>6 DEF TransferOwnership, Handed, TypeOK, Roles
  <2> QED
    BY <1>6, <2>1, IdleJob, GotoStep DEF TransferOwnership, Done, TypeOK
<1>7. CASE UpdateClientSecret(r) \/ DeleteRequestClient(r)
  <2>1. secret' \in {0, 1}
    BY <1>7 DEF UpdateClientSecret, DeleteRequestClient, TypeOK
  <2>2. deletion' \in BOOLEAN
    BY <1>7 DEF UpdateClientSecret, DeleteRequestClient, TypeOK, StillMember
  <2> QED
    BY <1>7, <2>1, <2>2, IdleJob, GotoStep
       DEF UpdateClientSecret, DeleteRequestClient, Done, TypeOK
<1>8. CASE PostMessage(r)
  BY <1>8, GoType, GotoStep DEF PostMessage, TypeOK
<1> QED
  BY <1>2, <1>3, <1>4, <1>5, <1>6, <1>7, <1>8 DEF Continue

LEMMA TypeStep ==
  ASSUME TypeOK, [Next]_vars
  PROVE  TypeOK'
<1>1. ASSUME NEW u, DeleteUser(u) PROVE TypeOK'
  BY <1>1, UnlinkType DEF DeleteUser, TypeOK
<1>2. CASE UNCHANGED vars
  BY <1>2 DEF vars, TypeOK
<1> QED
  BY <1>1, <1>2, ArriveType, ContinueType DEF Next

LEMMA InitTypeOK == Init => TypeOK
<1> SUFFICES ASSUME Init PROVE TypeOK
  OBVIOUS
<1>1. DOMAIN roles = {}
  BY DEF Init
<1>2. job \in [Requests -> Jobs]
  BY IdleJob DEF Init
<1> QED
  BY <1>1, <1>2 DEF Init, TypeOK

\* The client, its members and its requests keep their types.
THEOREM TypeCorrect == Spec => []TypeOK
  BY InitTypeOK, TypeStep, PTL DEF Spec

-----------------------------------------------------------------------------
(* Members exist.                                                          *)

LEMMA MembersArrive ==
  ASSUME NEW r \in Requests, Arrive(r) \/ Abort(r)
  PROVE  UNCHANGED <<users, exists, roles, secret, announced, deletion>>
  BY DEF Arrive, RegisterClient, AddMember, RemoveMember, SetRole, ResetClientSecret,
     DeleteClientRequest, Abort

LEMMA MembersStep ==
  ASSUME TypeOK, MembersExist, [Next]_vars
  PROVE  MembersExist'
<1>1. ASSUME NEW r \in Requests, Continue(r) PROVE MembersExist'
  <2>1. CASE CreateClient(r)
    BY <2>1 DEF CreateClient, Link, MembersExist
  <2>2. CASE AddLink(r)
    BY <2>2 DEF AddLink, Insertable, Link, MembersExist
  <2>3. CASE RemoveLink(r)
    BY <2>3 DEF RemoveLink, Restrict, MembersExist
  <2>4. CASE SetRoleToUser(r)
    BY <2>4 DEF SetRoleToUser, Link, MembersExist
  <2>5. CASE TransferOwnership(r)
    BY <2>5 DEF TransferOwnership, Handed, MembersExist
  <2>6. CASE \/ FindUser(r) \/ ReadRole(r) \/ UpdateClientSecret(r) \/ FindClient(r)
             \/ PostMessage(r) \/ DeleteRequestClient(r)
    BY <2>6 DEF FindUser, ReadRole, UpdateClientSecret, FindClient, PostMessage,
       DeleteRequestClient, MembersExist
  <2> QED
    BY <1>1, <2>1, <2>2, <2>3, <2>4, <2>5, <2>6 DEF Continue
<1>2. ASSUME NEW u \in users, DeleteUser(u) PROVE MembersExist'
  BY <1>2 DEF DeleteUser, Restrict, MembersExist
<1>3. CASE UNCHANGED vars
  BY <1>3 DEF vars, MembersExist
<1>4. ASSUME NEW r \in Requests, Arrive(r) \/ Abort(r) PROVE MembersExist'
  BY <1>4, MembersArrive DEF MembersExist
<1> QED
  BY <1>1, <1>2, <1>3, <1>4 DEF Next

\* Members exist, whatever deletions and additions run at once (addMember; the
\* foreign key and the cascade of UserClientRelation).
THEOREM MembersCorrect == Spec => []MembersExist
<1>1. Init => MembersExist
  BY DEF Init, MembersExist
<1> QED
  BY <1>1, InitTypeOK, TypeStep, MembersStep, PTL DEF Spec

-----------------------------------------------------------------------------
(* The ownership.                                                          *)

\* What holds of the requests in flight: every one but a registration is about
\* a client that exists, a plain change of role makes no owner, and a transfer
\* next to another change of roles was noticed.
RequestsSound ==
  /\ ~exists => DOMAIN roles = {}
  /\ \A r \in Requests : job[r].at \notin {"Idle", "CreateClient"} => exists
  /\ \A r \in Requests : job[r].at = "SetRole" => job[r].role # "OWNER"
  /\ \A q, r \in Requests :
       /\ q # r /\ {job[q].at, job[r].at} \subseteq Changing
       /\ "Transfer" \in {job[q].at, job[r].at}
       => contended
  /\ \A q, r \in Requests : q # r /\ job[q].at = "Transfer" /\ job[r].at = "Transfer" => crossed
  /\ crossed => contended

\* Request r goes to a label at which it changes nothing by itself.
LEMMA SoundGoto ==
  ASSUME TypeOK, RequestsSound, NEW r \in Requests, NEW j \in Jobs, Goto(r, j),
         j.at \notin {"Idle", "CreateClient"} => exists',
         exists => exists', ~exists' => DOMAIN roles' = {},
         j.at = "SetRole" => j.role # "OWNER"
  PROVE  RequestsSound'
<1>1. /\ job'[r] = j /\ \A q \in Requests \ {r} : job'[q] = job[q]
      /\ contended => contended'
      /\ Contends(r, j.at) => contended'
      /\ crossed => crossed'
      /\ Crosses(r, j.at) => crossed'
      /\ crossed' => crossed \/ Contends(r, j.at)
  BY GotoStep
<1>2. \A q \in Requests : job'[q].at \notin {"Idle", "CreateClient"} => exists'
  BY <1>1 DEF RequestsSound
<1>3. \A q \in Requests : job'[q].at = "SetRole" => job'[q].role # "OWNER"
  BY <1>1 DEF RequestsSound
<1>4. ASSUME NEW p \in Requests, NEW q \in Requests, p # q,
             {job'[p].at, job'[q].at} \subseteq Changing,
             "Transfer" \in {job'[p].at, job'[q].at}
      PROVE  contended'
  <2>1. CASE p # r /\ q # r
    BY <1>1, <1>4, <2>1 DEF RequestsSound
  <2>2. CASE p = r
    BY <1>1, <1>4, <2>2 DEF Contends
  <2>3. CASE q = r
    <3>1. /\ p \in Requests \ {r} /\ job'[p] = job[p]
          /\ {j.at, job[p].at} \subseteq Changing /\ "Transfer" \in {j.at, job[p].at}
      BY <1>1, <1>4, <2>3
    <3> QED
      BY <1>1, <3>1 DEF Contends
  <2> QED
    BY <2>1, <2>2, <2>3
<1>5. ASSUME NEW p \in Requests, NEW q \in Requests, p # q,
             job'[p].at = "Transfer", job'[q].at = "Transfer"
      PROVE  crossed'
  <2>1. CASE p # r /\ q # r
    BY <1>1, <1>5, <2>1 DEF RequestsSound
  <2>2. CASE p = r
    BY <1>1, <1>5, <2>2 DEF Crosses
  <2>3. CASE q = r
    BY <1>1, <1>5, <2>3 DEF Crosses
  <2> QED
    BY <2>1, <2>2, <2>3
<1>6. crossed' => contended'
  BY <1>1 DEF RequestsSound
<1> QED
  BY <1>2, <1>3, <1>4, <1>5, <1>6 DEF RequestsSound

LEMMA SoundArrive ==
  ASSUME TypeOK, RequestsSound, NEW r \in Requests, Arrive(r) \/ Abort(r)
  PROVE  RequestsSound'
<1>1. UNCHANGED <<exists, roles>>
  BY MembersArrive
<1>2. ASSUME NEW u \in Users, NEW role, Allowed(u, role) PROVE exists
  BY <1>2 DEF Allowed, RequestsSound, TypeOK
<1>3. ASSUME NEW u \in Users,
             RegisterClient(r, u) \/ ResetClientSecret(r, u) \/ DeleteClientRequest(r, u)
      PROVE  RequestsSound'
  <2>1. \A at \in {"CreateClient", "UpdateSecret", "FindClient"} : [at |-> at, by |-> u] \in Jobs
    BY DEF Jobs
  <2>2. CASE RegisterClient(r, u)
    BY <1>1, <2>1, <2>2, SoundGoto DEF RegisterClient, RequestsSound
  <2>3. CASE ResetClientSecret(r, u)
    BY <1>1, <1>2, <2>1, <2>3, SoundGoto DEF ResetClientSecret, RequestsSound
  <2>4. CASE DeleteClientRequest(r, u)
    BY <1>1, <1>2, <2>1, <2>4, SoundGoto DEF DeleteClientRequest, RequestsSound
  <2> QED
    BY <1>3, <2>2, <2>3, <2>4
<1>4. ASSUME NEW u \in Users, NEW m \in Users, AddMember(r, u, m) \/ RemoveMember(r, u, m)
      PROVE  RequestsSound'
  <2>1. \A at \in {"FindUser", "ReadRole"} : [at |-> at, by |-> u, user |-> m] \in Jobs
    BY DEF Jobs
  <2>2. CASE AddMember(r, u, m)
    BY <1>1, <1>2, <2>1, <2>2, SoundGoto DEF AddMember, RequestsSound
  <2>3. CASE RemoveMember(r, u, m)
    BY <1>1, <1>2, <2>1, <2>3, SoundGoto DEF RemoveMember, RequestsSound
  <2> QED
    BY <1>4, <2>2, <2>3
<1>5. ASSUME NEW u \in Users, NEW m \in Users, NEW role \in Roles, SetRole(r, u, m, role)
      PROVE  RequestsSound'
  <2> DEFINE transfer == [at |-> "Transfer", by |-> u, user |-> m]
             change == [at |-> "SetRole", by |-> u, user |-> m, role |-> role]
  <2>1. /\ transfer \in Jobs /\ transfer.at = "Transfer"
        /\ change \in Jobs /\ change.at = "SetRole" /\ change.role = role
    BY DEF Jobs
  <2>2. exists
    BY <1>2, <1>5 DEF SetRole
  <2>3. CASE role = "OWNER"
    <3>1. Goto(r, transfer)
      BY <1>5, <2>3 DEF SetRole
    <3> QED
      BY <1>1, <2>1, <2>2, <3>1, SoundGoto DEF RequestsSound
  <2>4. CASE role # "OWNER"
    <3>1. Goto(r, change)
      BY <1>5, <2>4 DEF SetRole
    <3> QED
      BY <1>1, <2>1, <2>2, <2>4, <3>1, SoundGoto DEF RequestsSound
  <2> QED
    BY <2>3, <2>4
<1>6. CASE Abort(r)
  BY <1>1, <1>6, IdleJob, SoundGoto DEF Abort, Done, RequestsSound
<1> QED
  BY <1>3, <1>4, <1>5, <1>6 DEF Arrive

LEMMA SoundContinue ==
  ASSUME TypeOK, RequestsSound, NEW r \in Requests, Continue(r)
  PROVE  RequestsSound'
<1>1. CASE CreateClient(r)
  BY <1>1, IdleJob, SoundGoto DEF CreateClient, Done, RequestsSound
<1>2. CASE FindUser(r) \/ ReadRole(r) \/ FindClient(r) \/ PostMessage(r)
  <2>1. exists /\ UNCHANGED <<exists, roles>>
    BY <1>2 DEF FindUser, ReadRole, FindClient, PostMessage, Waits, RequestsSound
  <2>2. PICK j \in Jobs : Goto(r, j) /\ j.at # "SetRole"
    <3>1. CASE Done(r)
      BY <3>1, IdleJob DEF Done
    <3>2. CASE FindUser(r) /\ Go(r, "AddLink")
      <4> DEFINE j == [job[r] EXCEPT !.at = "AddLink"]
      <4>1. j \in Jobs /\ Goto(r, j) /\ j.at = "AddLink"
        BY <3>2, GoType DEF FindUser
      <4> QED
        BY <4>1
    <3>3. CASE ReadRole(r) /\ Go(r, "RemoveLink")
      <4> DEFINE j == [job[r] EXCEPT !.at = "RemoveLink"]
      <4>1. j \in Jobs /\ Goto(r, j) /\ j.at = "RemoveLink"
        BY <3>3, GoType DEF ReadRole
      <4> QED
        BY <4>1
    <3>4. CASE FindClient(r) /\ Go(r, "Slack")
      <4> DEFINE j == [job[r] EXCEPT !.at = "Slack"]
      <4>1. j \in Jobs /\ Goto(r, j) /\ j.at = "Slack"
        BY <3>4, GoType DEF FindClient
      <4> QED
        BY <4>1
    <3>5. CASE PostMessage(r)
      <4> DEFINE j == [job[r] EXCEPT !.at = "RequestDelete"]
      <4>1. j \in Jobs /\ Goto(r, j) /\ j.at = "RequestDelete"
        BY <3>5, GoType DEF PostMessage
      <4> QED
        BY <4>1
    <3> QED
      BY <1>2, <3>1, <3>2, <3>3, <3>4, <3>5 DEF FindUser, ReadRole, FindClient
  <2> QED
    BY <2>1, <2>2, SoundGoto DEF RequestsSound
<1>3. CASE \/ AddLink(r) \/ RemoveLink(r) \/ SetRoleToUser(r) \/ TransferOwnership(r)
           \/ UpdateClientSecret(r) \/ DeleteRequestClient(r)
  <2>1. exists /\ exists' /\ Goto(r, Idle)
    BY <1>3 DEF AddLink, RemoveLink, SetRoleToUser, TransferOwnership, UpdateClientSecret,
       DeleteRequestClient, Waits, Done, RequestsSound, TypeOK
  <2> QED
    BY <2>1, IdleJob, SoundGoto
<1> QED
  BY <1>1, <1>2, <1>3 DEF Continue

LEMMA SoundStep ==
  ASSUME TypeOK, RequestsSound, [Next]_vars
  PROVE  RequestsSound'
<1>1. ASSUME NEW u \in users, DeleteUser(u) PROVE RequestsSound'
  BY <1>1 DEF DeleteUser, Restrict, RequestsSound
<1>2. CASE UNCHANGED vars
  BY <1>2 DEF vars, RequestsSound
<1> QED
  BY <1>1, <1>2, SoundArrive, SoundContinue DEF Next

\* While no two transfers have overlapped, a transfer in flight was asked for by
\* the owner.  While no transfer has overlapped another change of roles, the
\* member whose role is about to be changed or removed is not the owner.
OwnersSound ==
  /\ ~crossed =>
       /\ \A u, v \in Owners : u = v
       /\ \A r \in Requests : job[r].at = "Transfer" => Owners \subseteq {job[r].by}
  /\ ~contended =>
       \A r \in Requests : job[r].at \in {"SetRole", "RemoveLink"} => job[r].user \notin Owners

LEMMA OwnersGoto ==
  ASSUME TypeOK, OwnersSound, NEW r \in Requests, NEW j \in Jobs, Goto(r, j),
         Owners' \subseteq Owners,
         ~crossed /\ j.at = "Transfer" => Owners' \subseteq {j.by},
         ~contended /\ j.at \in {"SetRole", "RemoveLink"} => j.user \notin Owners'
  PROVE  OwnersSound'
<1>1. /\ job'[r] = j /\ \A q \in Requests \ {r} : job'[q] = job[q]
      /\ contended => contended'
      /\ crossed => crossed'
  BY GotoStep
<1> QED
  BY <1>1 DEF OwnersSound

LEMMA OwnerRank ==
  ASSUME NEW role \in Roles, rank[role] >= rank["OWNER"]
  PROVE  role = "OWNER"
<1>1. rank["OWNER"] = 3 /\ rank["ADMIN"] = 2 /\ rank["MEMBER"] = 1
  BY DEF rank, Roles
<1> QED
  BY <1>1 DEF Roles

LEMMA OwnersArrive ==
  ASSUME TypeOK, RequestsSound, OwnersSound, NEW r \in Requests, Arrive(r) \/ Abort(r)
  PROVE  OwnersSound'
<1>1. Owners' = Owners
  BY MembersArrive DEF Owners
<1>2. ASSUME NEW u \in Users,
             RegisterClient(r, u) \/ ResetClientSecret(r, u) \/ DeleteClientRequest(r, u)
      PROVE  OwnersSound'
  <2>1. \A at \in {"CreateClient", "UpdateSecret", "FindClient"} : [at |-> at, by |-> u] \in Jobs
    BY DEF Jobs
  <2> QED
    BY <1>1, <1>2, <2>1, OwnersGoto DEF RegisterClient, ResetClientSecret, DeleteClientRequest
<1>3. ASSUME NEW u \in Users, NEW m \in Users, AddMember(r, u, m) \/ RemoveMember(r, u, m)
      PROVE  OwnersSound'
  <2>1. \A at \in {"FindUser", "ReadRole"} : [at |-> at, by |-> u, user |-> m] \in Jobs
    BY DEF Jobs
  <2> QED
    BY <1>1, <1>3, <2>1, OwnersGoto DEF AddMember, RemoveMember
<1>4. ASSUME NEW u \in Users, NEW m \in Users, NEW role \in Roles, SetRole(r, u, m, role)
      PROVE  OwnersSound'
  <2> DEFINE transfer == [at |-> "Transfer", by |-> u, user |-> m]
             change == [at |-> "SetRole", by |-> u, user |-> m, role |-> role]
  <2>1. /\ transfer \in Jobs /\ transfer.at = "Transfer" /\ transfer.by = u
        /\ change \in Jobs /\ change.at = "SetRole" /\ change.user = m
    BY DEF Jobs
  <2>2. u \in Owners /\ u # m
    BY <1>4, OwnerRank DEF SetRole, Allowed, TypeOK, Owners
  <2>3. ~crossed => Owners \subseteq {u}
    BY <2>2 DEF OwnersSound
  <2>6. ~contended => m \notin Owners
    BY <2>2, <2>3 DEF RequestsSound
  <2>4. CASE role = "OWNER"
    <3>1. Goto(r, transfer)
      BY <1>4, <2>4 DEF SetRole
    <3> QED
      BY <1>1, <2>1, <2>3, <3>1, OwnersGoto
  <2>5. CASE role # "OWNER"
    <3>1. Goto(r, change)
      BY <1>4, <2>5 DEF SetRole
    <3> QED
      BY <1>1, <2>1, <2>6, <3>1, OwnersGoto
  <2> QED
    BY <2>4, <2>5
<1>5. CASE Abort(r)
  BY <1>1, <1>5, IdleJob, OwnersGoto DEF Abort, Done
<1> QED
  BY <1>2, <1>3, <1>4, <1>5 DEF Arrive

\* The registration makes the first owner of a client nobody knows yet.
LEMMA OwnersCreate ==
  ASSUME TypeOK, RequestsSound, OwnersSound, NEW r \in Requests, CreateClient(r)
  PROVE  OwnersSound'
<1>1. Goto(r, Idle)
  BY DEF CreateClient, Done
<1>2. CASE UNCHANGED roles
  BY <1>1, <1>2, IdleJob, OwnersGoto DEF Owners
<1>3. CASE ~exists /\ Link(job[r].by, "OWNER")
  <2>1. Owners' \subseteq {job[r].by}
    BY <1>3 DEF Link, Owners, RequestsSound
  <2>2. \A q \in Requests : job'[q].at \in {"Idle", "CreateClient"}
    BY <1>1, <1>3, IdleJob, GotoStep DEF RequestsSound
  <2> QED
    BY <2>1, <2>2 DEF OwnersSound
<1> QED
  BY <1>2, <1>3 DEF CreateClient

\* A transfer alone among the changes of roles passes the ownership on.
LEMMA OwnersTransfer ==
  ASSUME TypeOK, RequestsSound, OwnersSound, NEW r \in Requests, TransferOwnership(r)
  PROVE  OwnersSound'
<1>1. Goto(r, Idle)
  BY DEF TransferOwnership, Done
<1>2. CASE UNCHANGED roles
  BY <1>1, <1>2, IdleJob, OwnersGoto DEF Owners
<1>3. CASE roles' = Handed(job[r].by, job[r].user)
  <2>1. Owners' \subseteq (Owners \ {job[r].by}) \cup {job[r].user}
    BY <1>3 DEF Handed, Owners
  <2>2. job[r].at = "Transfer"
    BY DEF TransferOwnership, Waits
  <2>3. /\ job'[r] = Idle /\ \A q \in Requests \ {r} : job'[q] = job[q]
        /\ contended => contended'
        /\ crossed => crossed'
    BY <1>1, IdleJob, GotoStep
  <2>4. ASSUME ~crossed'
        PROVE  /\ \A u, v \in Owners' : u = v
               /\ \A q \in Requests : job'[q].at # "Transfer"
    <3>1. Owners' \subseteq {job[r].user}
      BY <2>1, <2>2, <2>3, <2>4 DEF OwnersSound
    <3>2. \A q \in Requests \ {r} : job[q].at # "Transfer"
      BY <2>2, <2>3, <2>4 DEF RequestsSound
    <3> QED
      BY <2>3, <3>1, <3>2, IdleJob
  <2>5. ASSUME ~contended'
        PROVE  \A q \in Requests : job'[q].at \notin {"SetRole", "RemoveLink"}
    <3>1. \A q \in Requests \ {r} : job[q].at \notin Changing
      BY <2>2, <2>3, <2>5 DEF RequestsSound, Changing
    <3> QED
      BY <2>3, <3>1, IdleJob DEF Changing
  <2> QED
    BY <2>4, <2>5 DEF OwnersSound
<1> QED
  BY <1>2, <1>3 DEF TransferOwnership

LEMMA OwnersContinue ==
  ASSUME TypeOK, RequestsSound, OwnersSound, NEW r \in Requests, Continue(r)
  PROVE  OwnersSound'
<1>1. CASE FindUser(r) \/ FindClient(r) \/ PostMessage(r)
  <2>1. Owners' = Owners
    BY <1>1 DEF FindUser, FindClient, PostMessage, Owners
  <2>2. CASE Done(r)
    BY <2>1, <2>2, IdleJob, OwnersGoto DEF Done
  <2>3. CASE FindUser(r) /\ Go(r, "AddLink")
    <3> DEFINE j == [job[r] EXCEPT !.at = "AddLink"]
    <3>1. j \in Jobs /\ Goto(r, j) /\ j.at = "AddLink"
      BY <2>3, GoType DEF FindUser
    <3> QED
      BY <2>1, <3>1, OwnersGoto
  <2>4. CASE FindClient(r) /\ Go(r, "Slack")
    <3> DEFINE j == [job[r] EXCEPT !.at = "Slack"]
    <3>1. j \in Jobs /\ Goto(r, j) /\ j.at = "Slack"
      BY <2>4, GoType DEF FindClient
    <3> QED
      BY <2>1, <3>1, OwnersGoto
  <2>5. CASE PostMessage(r)
    <3> DEFINE j == [job[r] EXCEPT !.at = "RequestDelete"]
    <3>1. j \in Jobs /\ Goto(r, j) /\ j.at = "RequestDelete"
      BY <2>5, GoType DEF PostMessage
    <3> QED
      BY <2>1, <3>1, OwnersGoto
  <2> QED
    BY <1>1, <2>2, <2>3, <2>4, <2>5 DEF FindUser, FindClient
<1>2. CASE ReadRole(r)
  <2>1. Owners' = Owners
    BY <1>2 DEF ReadRole, Owners
  <2>2. CASE Done(r)
    BY <2>1, <2>2, IdleJob, OwnersGoto DEF Done
  <2>3. CASE Removable(job[r].user) /\ Go(r, "RemoveLink")
    <3> DEFINE j == [job[r] EXCEPT !.at = "RemoveLink"]
    <3>1. j \in Jobs /\ Goto(r, j) /\ j.at = "RemoveLink" /\ j.user = job[r].user
      BY <1>2, <2>3, GoType DEF ReadRole
    <3>2. j.user \notin Owners
      BY <2>3, <3>1 DEF Removable, Owners
    <3> QED
      BY <2>1, <3>1, <3>2, OwnersGoto
  <2> QED
    BY <1>2, <2>2, <2>3 DEF ReadRole
<1>3. CASE \/ AddLink(r) \/ SetRoleToUser(r) \/ RemoveLink(r) \/ UpdateClientSecret(r)
           \/ DeleteRequestClient(r)
  <2>1. Goto(r, Idle)
    BY <1>3 DEF AddLink, SetRoleToUser, RemoveLink, UpdateClientSecret, DeleteRequestClient, Done
  <2>2. Owners' \subseteq Owners
    <3>1. CASE AddLink(r)
      BY <3>1 DEF AddLink, Link, Owners
    <3>2. CASE SetRoleToUser(r)
      BY <3>2 DEF SetRoleToUser, Waits, Link, Owners, RequestsSound
    <3>3. CASE RemoveLink(r)
      BY <3>3 DEF RemoveLink, Restrict, Owners
    <3>4. CASE UpdateClientSecret(r) \/ DeleteRequestClient(r)
      BY <3>4 DEF UpdateClientSecret, DeleteRequestClient, Owners
    <3> QED
      BY <1>3, <3>1, <3>2, <3>3, <3>4
  <2> QED
    BY <2>1, <2>2, IdleJob, OwnersGoto
<1> QED
  BY <1>1, <1>2, <1>3, OwnersCreate, OwnersTransfer DEF Continue

OwnersInv == TypeOK /\ RequestsSound /\ OwnersSound

LEMMA OwnersInit == Init => OwnersInv
<1> SUFFICES ASSUME Init PROVE OwnersInv
  OBVIOUS
<1>1. DOMAIN roles = {} /\ \A r \in Requests : job[r].at = "Idle"
  BY IdleJob DEF Init
<1> QED
  BY <1>1, InitTypeOK DEF Init, OwnersInv, RequestsSound, OwnersSound, Owners, Changing

LEMMA OwnersStep == OwnersInv /\ [Next]_vars => OwnersInv'
<1> SUFFICES ASSUME OwnersInv, [Next]_vars PROVE OwnersInv'
  OBVIOUS
<1>1. TypeOK /\ RequestsSound /\ OwnersSound
  BY DEF OwnersInv
<1>2. ASSUME NEW u \in users, DeleteUser(u) PROVE OwnersSound'
  <2>1. Owners' \subseteq Owners
    BY <1>2 DEF DeleteUser, Restrict, Owners
  <2> QED
    BY <1>1, <1>2, <2>1 DEF DeleteUser, OwnersSound
<1>3. ASSUME UNCHANGED vars PROVE OwnersSound'
  BY <1>1, <1>3 DEF vars, OwnersSound, Owners
<1>4. OwnersSound'
  BY <1>1, <1>2, <1>3, OwnersArrive, OwnersContinue DEF Next
<1> QED
  BY <1>1, <1>4, TypeStep, SoundStep DEF OwnersInv

\* No requests, however many at once, give a client two owners, unless two
\* transfers of the ownership overlap (setRole, transferOwnership).
THEOREM OwnerCorrect == Spec => []OneOwner
<1>1. OwnersInv => OneOwner
  BY DEF OwnersInv, OwnersSound, OneOwner
<1> QED
  BY <1>1, OwnersInit, OwnersStep, PTL DEF Spec

\* A step that takes nothing from an owner.
LEMMA OwnershipContinue ==
  ASSUME OwnersInv, ~contended, Owners # {}, NEW r \in Requests, Continue(r)
  PROVE  Owners' # {}
<1>1. TypeOK /\ RequestsSound /\ OwnersSound
  BY DEF OwnersInv
<1>2. CASE CreateClient(r)
  BY <1>1, <1>2 DEF CreateClient, RequestsSound, Owners
<1>3. CASE AddLink(r)
  BY <1>3 DEF AddLink, Insertable, Link, Owners
<1>4. CASE RemoveLink(r)
  <2>1. job[r].user \notin Owners
    BY <1>1, <1>4 DEF RemoveLink, Waits, OwnersSound
  <2> QED
    BY <1>4, <2>1 DEF RemoveLink, Restrict, Owners
<1>5. CASE SetRoleToUser(r)
  <2>1. job[r].user \notin Owners
    BY <1>1, <1>5 DEF SetRoleToUser, Waits, OwnersSound
  <2> QED
    BY <1>5, <2>1 DEF SetRoleToUser, Link, Owners
<1>6. CASE TransferOwnership(r)
  BY <1>6 DEF TransferOwnership, Handed, Owners
<1>7. CASE \/ FindUser(r) \/ ReadRole(r) \/ UpdateClientSecret(r) \/ FindClient(r)
           \/ PostMessage(r) \/ DeleteRequestClient(r)
  BY <1>7 DEF FindUser, ReadRole, UpdateClientSecret, FindClient, PostMessage,
     DeleteRequestClient, Owners
<1> QED
  BY <1>2, <1>3, <1>4, <1>5, <1>6, <1>7 DEF Continue

\* And none leaves it without an owner, whose account apart (removeMember,
\* setRole, transferOwnership).
THEOREM OwnershipCorrect == Spec => OwnershipKept
<1>1. ASSUME OwnersInv, [Next]_vars
      PROVE  [Owners # {} /\ ~contended => Owners' # {} \/ Owners \cap users' = {}]_vars
  <2> SUFFICES ASSUME Owners # {}, ~contended PROVE Owners' # {} \/ Owners \cap users' = {}
    OBVIOUS
  <2>1. ASSUME NEW u \in users, DeleteUser(u)
        PROVE  Owners' # {} \/ Owners \cap users' = {}
    BY <2>1 DEF DeleteUser, Restrict, Owners
  <2>2. ASSUME NEW r \in Requests, Arrive(r) \/ Abort(r) PROVE Owners' # {}
    BY <2>2, MembersArrive DEF Owners
  <2>3. CASE UNCHANGED vars
    BY <2>3 DEF vars, Owners
  <2> QED
    BY <1>1, <2>1, <2>2, <2>3, OwnershipContinue DEF Next
<1> QED
  BY <1>1, OwnersInit, OwnersStep, PTL DEF Spec, OwnershipKept

-----------------------------------------------------------------------------
(* The deletion request.                                                   *)

\* Who is about to mark the client has told the team.
MarkersTold == \A r \in Requests : job[r].at = "RequestDelete" => announced

LEMMA ToldStep ==
  ASSUME TypeOK, MarkersTold, DeletionAnnounced, [Next]_vars
  PROVE  MarkersTold' /\ DeletionAnnounced'
<1>1. ASSUME NEW r \in Requests, NEW j \in Jobs, Goto(r, j), UNCHANGED <<announced, deletion>>,
             j.at # "RequestDelete"
      PROVE  MarkersTold' /\ DeletionAnnounced'
  BY <1>1, GotoStep DEF MarkersTold, DeletionAnnounced
<1>2. ASSUME NEW r \in Requests, Arrive(r) \/ Abort(r)
      PROVE  MarkersTold' /\ DeletionAnnounced'
  <2>1. PICK j : Goto(r, j) /\ j.at # "RequestDelete"
    <3>1. CASE Abort(r)
      BY <3>1, IdleJob DEF Abort, Done
    <3>2. ASSUME NEW u, NEW m, NEW role, SetRole(r, u, m, role)
          PROVE  \E j : Goto(r, j) /\ j.at # "RequestDelete"
      BY <3>2 DEF SetRole
    <3>3. ASSUME NEW u, NEW m, AddMember(r, u, m) \/ RemoveMember(r, u, m)
          PROVE  \E j : Goto(r, j) /\ j.at # "RequestDelete"
      BY <3>3 DEF AddMember, RemoveMember
    <3>4. ASSUME NEW u,
                 RegisterClient(r, u) \/ ResetClientSecret(r, u) \/ DeleteClientRequest(r, u)
          PROVE  \E j : Goto(r, j) /\ j.at # "RequestDelete"
      BY <3>4 DEF RegisterClient, ResetClientSecret, DeleteClientRequest
    <3> QED
      BY <1>2, <3>1, <3>2, <3>3, <3>4 DEF Arrive
  <2>2. j = job'[r] /\ \A q \in Requests \ {r} : job'[q] = job[q]
    BY <2>1 DEF Goto, TypeOK
  <2> QED
    BY <1>2, <2>1, <2>2, MembersArrive DEF MarkersTold, DeletionAnnounced
<1>3. ASSUME NEW r \in Requests, Continue(r)
      PROVE  MarkersTold' /\ DeletionAnnounced'
  <2>1. CASE PostMessage(r)
    BY <2>1 DEF PostMessage, MarkersTold, DeletionAnnounced
  <2>2. CASE DeleteRequestClient(r)
    <3>1. Goto(r, Idle) /\ announced /\ announced'
      BY <2>2 DEF DeleteRequestClient, Done, Waits, MarkersTold
    <3> QED
      BY <3>1 DEF MarkersTold, DeletionAnnounced
  <2>3. CASE FindUser(r) /\ Go(r, "AddLink")
    <3> DEFINE j == [job[r] EXCEPT !.at = "AddLink"]
    <3>1. j \in Jobs /\ Goto(r, j) /\ j.at = "AddLink"
      BY <2>3, GoType DEF FindUser
    <3> QED
      BY <1>1, <2>3, <3>1 DEF FindUser
  <2>4. CASE ReadRole(r) /\ Go(r, "RemoveLink")
    <3> DEFINE j == [job[r] EXCEPT !.at = "RemoveLink"]
    <3>1. j \in Jobs /\ Goto(r, j) /\ j.at = "RemoveLink"
      BY <2>4, GoType DEF ReadRole
    <3> QED
      BY <1>1, <2>4, <3>1 DEF ReadRole
  <2>5. CASE FindClient(r) /\ Go(r, "Slack")
    <3> DEFINE j == [job[r] EXCEPT !.at = "Slack"]
    <3>1. j \in Jobs /\ Goto(r, j) /\ j.at = "Slack"
      BY <2>5, GoType DEF FindClient
    <3> QED
      BY <1>1, <2>5, <3>1 DEF FindClient
  <2>6. CASE Goto(r, Idle) /\ UNCHANGED <<announced, deletion>>
    BY <1>1, <2>6, IdleJob
  <2>7. CASE \/ CreateClient(r) \/ AddLink(r) \/ RemoveLink(r) \/ SetRoleToUser(r)
             \/ TransferOwnership(r) \/ UpdateClientSecret(r)
    BY <2>6, <2>7 DEF CreateClient, AddLink, RemoveLink, SetRoleToUser, TransferOwnership,
       UpdateClientSecret, Done
  <2>8. CASE FindUser(r) \/ ReadRole(r) \/ FindClient(r)
    BY <2>3, <2>4, <2>5, <2>6, <2>8 DEF FindUser, ReadRole, FindClient, Done
  <2> QED
    BY <1>3, <2>1, <2>2, <2>7, <2>8 DEF Continue
<1>4. ASSUME NEW u, DeleteUser(u) PROVE MarkersTold' /\ DeletionAnnounced'
  BY <1>4 DEF DeleteUser, MarkersTold, DeletionAnnounced
<1>5. CASE UNCHANGED vars
  BY <1>5 DEF vars, MarkersTold, DeletionAnnounced
<1> QED
  BY <1>2, <1>3, <1>4, <1>5 DEF Next

\* No client is marked for deletion without a message to the team
\* (deleteClientRequest).
THEOREM AnnouncedCorrect == Spec => []DeletionAnnounced
<1>1. Init => MarkersTold /\ DeletionAnnounced
  BY IdleJob DEF Init, MarkersTold, DeletionAnnounced
<1> QED
  BY <1>1, InitTypeOK, TypeStep, ToldStep, PTL DEF Spec
=============================================================================
