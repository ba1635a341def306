--------------------------- MODULE ClientMembers ---------------------------
(***************************************************************************)
(* Who may manage a client: ClientService, ClientRepository and            *)
(* ClientRoleGuard (src/src/client) over the rows of UserClientRelation.   *)
(*                                                                         *)
(* The module follows one client; the rows of another have other keys and  *)
(* no operation touches two clients.  The guard reads the caller's role    *)
(* before the handler starts, and the handler trusts it from then on: as   *)
(* in Oauth, one action is one query with the code up to the next await,   *)
(* and job[r].at names the query a request waits for.                      *)
(***************************************************************************)
EXTENDS Naturals, Functions

CONSTANTS Users, Requests,
          Failures     \* TRUE: a query or the Slack message may fail

ASSUME FailuresAssumption == Failures \in BOOLEAN

VARIABLES
  users,       \* users that have a row
  exists,      \* whether the client is registered
  roles,       \* member -> role; the client's rows of UserClientRelation
  secret,      \* which of the client's secrets is the current one
  announced,   \* whether the team was told of a deletion request
  deletion,    \* whether deleteRequestedAt is set
  job,         \* what each request is waiting for
  contended,   \* history: whether a transfer overlapped another change of roles
  crossed      \* history: whether two transfers overlapped

vars == <<users, exists, roles, secret, announced, deletion, job, contended, crossed>>

Roles == {"OWNER", "ADMIN", "MEMBER"}
rank == [role \in Roles |-> CASE role = "OWNER" -> 3 [] role = "ADMIN" -> 2 [] OTHER -> 1]

Idle == [at |-> "Idle"]

Jobs ==
  {Idle}
  \cup [at : {"CreateClient", "UpdateSecret", "FindClient", "Slack", "RequestDelete"}, by : Users]
  \cup [at : {"FindUser", "AddLink", "ReadRole", "RemoveLink", "Transfer"}, by : Users, user : Users]
  \cup [at : {"SetRole"}, by : Users, user : Users, role : Roles]

TypeOK ==
  /\ users \subseteq Users
  /\ {exists, announced, deletion, contended, crossed} \subseteq BOOLEAN
  /\ DOMAIN roles \subseteq Users
  /\ \A u \in DOMAIN roles : roles[u] \in Roles
  /\ secret \in {0, 1}
  /\ job \in [Requests -> Jobs]

Init ==
  /\ users = Users /\ exists = FALSE /\ roles = <<>> /\ secret = 0
  /\ announced = FALSE /\ deletion = FALSE
  /\ job = [r \in Requests |-> Idle] /\ contended = FALSE /\ crossed = FALSE

-----------------------------------------------------------------------------
Waits(r, query) == job[r].at = query

\* The requests that change the roles of members.
Changing == {"Transfer", "SetRole", "ReadRole", "RemoveLink"}

Contends(r, query) ==
  \E q \in Requests \ {r} : /\ {query, job[q].at} \subseteq Changing
                            /\ "Transfer" \in {query, job[q].at}

Crosses(r, query) ==
  \E q \in Requests \ {r} : query = "Transfer" /\ job[q].at = "Transfer"

Goto(r, next) ==
  /\ job' = [job EXCEPT ![r] = next]
  /\ crossed' = (crossed \/ Crosses(r, next.at))
  /\ contended' = (contended \/ Contends(r, next.at))

Go(r, query) == Goto(r, [job[r] EXCEPT !.at = query])
Done(r) == Goto(r, Idle)

\* Mutant: a row without a role.
LinkBare(u, role) ==
  roles' = [m \in DOMAIN roles \cup {u} |-> IF m = u THEN "" ELSE roles[m]]

\* Writes the row of member u, or overwrites its role.
Link(u, role) ==
  roles' = [m \in DOMAIN roles \cup {u} |-> IF m = u THEN role ELSE roles[m]]

\* ClientRoleGuard: the caller is a member and ranks high enough.
Allowed(u, required) == u \in DOMAIN roles /\ rank[roles[u]] >= rank[required]

-----------------------------------------------------------------------------
(* POST /client: the client and its owner are created in one statement.    *)

RegisterClient(r, u) ==
  /\ Waits(r, "Idle") /\ ~exists
  /\ u \in users
  /\ Goto(r, [at |-> "CreateClient", by |-> u])
  /\ UNCHANGED <<users, exists, roles, secret, announced, deletion>>

\* (One client is followed: of two racing registrations the later one is of
\* another client.)  The insert fails when the user is gone.
CreateClient(r) ==
  /\ Waits(r, "CreateClient")
  /\ IF job[r].by \in users /\ ~exists
       THEN exists' = TRUE /\ Link(job[r].by, "OWNER")
       ELSE UNCHANGED <<exists, roles>>
  /\ Done(r)
  /\ UNCHANGED <<users, secret, announced, deletion>>

-----------------------------------------------------------------------------
(* The members.                                                            *)

AddMember(r, u, m) ==
  /\ Waits(r, "Idle")
  /\ Allowed(u, "ADMIN")
  /\ Goto(r, [at |-> "FindUser", by |-> u, user |-> m])
  /\ UNCHANGED <<users, exists, roles, secret, announced, deletion>>

\* The user is looked up by email.
FindUser(r) ==
  /\ Waits(r, "FindUser")
  /\ IF job[r].user \in users THEN Go(r, "AddLink") ELSE Done(r)
  /\ UNCHANGED <<users, exists, roles, secret, announced, deletion>>

\* Mutant: the row has no foreign key.
InsertableAlways(m) == m \notin DOMAIN roles

\* The insert fails when the user is a member already or is gone by now.
Insertable(m) == m \in users /\ m \notin DOMAIN roles

AddLink(r) ==
  /\ Waits(r, "AddLink")
  /\ IF Insertable(job[r].user) THEN Link(job[r].user, "MEMBER") ELSE UNCHANGED roles
  /\ Done(r)
  /\ UNCHANGED <<users, exists, secret, announced, deletion>>

RemoveMember(r, u, m) ==
  /\ Waits(r, "Idle")
  /\ Allowed(u, "ADMIN")
  /\ Goto(r, [at |-> "ReadRole", by |-> u, user |-> m])
  /\ UNCHANGED <<users, exists, roles, secret, announced, deletion>>

\* Mutant: the role is not looked at.
RemovableAny(m) == m \in DOMAIN roles

\* The owner is not removed.
Removable(m) == m \in DOMAIN roles /\ roles[m] # "OWNER"

ReadRole(r) ==
  /\ Waits(r, "ReadRole")
  /\ IF Removable(job[r].user) THEN Go(r, "RemoveLink") ELSE Done(r)
  /\ UNCHANGED <<users, exists, roles, secret, announced, deletion>>

RemoveLink(r) ==
  /\ Waits(r, "RemoveLink")
  /\ roles' = Restrict(roles, DOMAIN roles \ {job[r].user})
  /\ Done(r)
  /\ UNCHANGED <<users, exists, secret, announced, deletion>>

\* The owner sets somebody else's role; giving away the ownership is a
\* transaction of its own.
SetRole(r, u, m, role) ==
  /\ Waits(r, "Idle")
  /\ Allowed(u, "OWNER")
  /\ u # m
  /\ IF role = "OWNER"
       THEN Goto(r, [at |-> "Transfer", by |-> u, user |-> m])
       ELSE Goto(r, [at |-> "SetRole", by |-> u, user |-> m, role |-> role])
  /\ UNCHANGED <<users, exists, roles, secret, announced, deletion>>

SetRoleToUser(r) ==
  /\ Waits(r, "SetRole")
  /\ IF job[r].user \in DOMAIN roles THEN Link(job[r].user, job[r].role) ELSE UNCHANGED roles
  /\ Done(r)
  /\ UNCHANGED <<users, exists, secret, announced, deletion>>

\* Mutant: the former owner keeps the role.
HandedOver(from, to) == [roles EXCEPT ![to] = "OWNER"]

Handed(from, to) == [roles EXCEPT ![from] = "ADMIN", ![to] = "OWNER"]

\* Both rows are updated, or neither when one of them is missing.  The row locks
\* make the two updates of the transaction one step; neither looks at the role
\* that it replaces.
TransferOwnership(r) ==
  LET from == job[r].by
      to == job[r].user IN
  /\ Waits(r, "Transfer")
  /\ roles' = IF {from, to} \subseteq DOMAIN roles
                THEN Handed(from, to) ELSE roles
  /\ Done(r)
  /\ UNCHANGED <<users, exists, secret, announced, deletion>>

-----------------------------------------------------------------------------
(* The client's secret and its deletion request.                           *)

ResetClientSecret(r, u) ==
  /\ Waits(r, "Idle")
  /\ Allowed(u, "ADMIN")
  /\ Goto(r, [at |-> "UpdateSecret", by |-> u])
  /\ UNCHANGED <<users, exists, roles, secret, announced, deletion>>

\* The updates of the client look for the caller's row once more.
StillMember(u) == u \in DOMAIN roles

UpdateClientSecret(r) ==
  /\ Waits(r, "UpdateSecret")
  /\ secret' = IF StillMember(job[r].by) THEN 1 - secret ELSE secret
  /\ Done(r)
  /\ UNCHANGED <<users, exists, roles, announced, deletion>>

DeleteClientRequest(r, u) ==
  /\ Waits(r, "Idle")
  /\ Allowed(u, "OWNER")
  /\ Goto(r, [at |-> "FindClient", by |-> u])
  /\ UNCHANGED <<users, exists, roles, secret, announced, deletion>>

\* Mutant: the request is marked before the message.
MarkFirst(r) ==
  /\ Waits(r, "FindClient")
  /\ IF StillMember(job[r].by) THEN Go(r, "RequestDelete") ELSE Done(r)
  /\ UNCHANGED <<users, exists, roles, secret, announced, deletion>>

FindClient(r) ==
  /\ Waits(r, "FindClient")
  /\ IF StillMember(job[r].by) THEN Go(r, "Slack") ELSE Done(r)
  /\ UNCHANGED <<users, exists, roles, secret, announced, deletion>>

\* The message to the team's Slack channel.
PostMessage(r) ==
  /\ Waits(r, "Slack")
  /\ announced' = TRUE
  /\ Go(r, "RequestDelete")
  /\ UNCHANGED <<users, exists, roles, secret, deletion>>

DeleteRequestClient(r) ==
  /\ Waits(r, "RequestDelete")
  /\ deletion' = (deletion \/ StillMember(job[r].by))
  /\ Done(r)
  /\ UNCHANGED <<users, exists, roles, secret, announced>>

-----------------------------------------------------------------------------
(* Around the requests.                                                    *)

\* UserService.deleteUser; the user's row goes with it (onDelete: Cascade).
DeleteUser(u) ==
  /\ users' = users \ {u}
  /\ roles' = Restrict(roles, DOMAIN roles \ {u})
  /\ UNCHANGED <<exists, secret, announced, deletion, job, contended, crossed>>

Abort(r) ==
  /\ Failures
  /\ ~Waits(r, "Idle")
  /\ Done(r)
  /\ UNCHANGED <<users, exists, roles, secret, announced, deletion>>

Arrive(r) ==
  \E u \in Users :
    \/ RegisterClient(r, u) \/ ResetClientSecret(r, u) \/ DeleteClientRequest(r, u)
    \/ \E m \in Users : \/ AddMember(r, u, m) \/ RemoveMember(r, u, m)
                        \/ \E role \in Roles : SetRole(r, u, m, role)

Continue(r) ==
  \/ CreateClient(r) \/ FindUser(r) \/ AddLink(r) \/ ReadRole(r) \/ RemoveLink(r)
  \/ SetRoleToUser(r) \/ TransferOwnership(r) \/ UpdateClientSecret(r)
  \/ FindClient(r) \/ PostMessage(r) \/ DeleteRequestClient(r)

Next ==
  \/ \E r \in Requests : Arrive(r) \/ Continue(r) \/ Abort(r)
  \/ \E u \in users : DeleteUser(u)

Spec == Init /\ [][Next]_vars

-----------------------------------------------------------------------------
(* Correctness.                                                            *)

Owners == {u \in DOMAIN roles : roles[u] = "OWNER"}

\* Members exist, although a user can be deleted between the lookup by email and
\* the insert (addMemberToClient; the relations of UserClientRelation).
MembersExist == DOMAIN roles \subseteq users

\* No client is marked for deletion that the team was not told about, however
\* the request fails on the way (deleteClientRequest: message first, mark last).
DeletionAnnounced == deletion => announced

\* Unless two transfers of the ownership overlap, the requests never give a client
\* two owners: not when other roles change, members come and go or accounts are
\* deleted while a transfer is in flight, not when it fails, not when the former
\* owner's other requests are still on their way (setRole, transferOwnership,
\* which replaces both roles without looking at them).
OneOwner == ~crossed => \A u, v \in Owners : u = v

\* And unless a transfer overlaps another change of roles, they never leave it
\* without one: only the deletion of the owner's account ends the ownership
\* without giving it to somebody else (removeMember, setRole, transferOwnership).
OwnershipKept ==
  [][Owners # {} /\ ~contended => Owners' # {} \/ Owners \cap users' = {}]_vars

-----------------------------------------------------------------------------
(* What a message of the code says, and a race breaks.                     *)

\* "Owner role cannot be removed" (client.service.ts:132): the member that a
\* request removes is not the owner.
OwnerNotRemoved ==
  [][\A r \in Requests :
       job[r].at = "RemoveLink" /\ job'[r] = Idle => job[r].user \notin Owners]_vars
=============================================================================
