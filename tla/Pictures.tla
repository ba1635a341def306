------------------------------ MODULE Pictures ------------------------------
(***************************************************************************)
(* The pictures of users and of a client: a column of the row names an     *)
(* object of the bucket, which the browser uploads itself through a signed *)
(* link (UserService, ClientService, ObjectService).                       *)
(*                                                                         *)
(* One action is one call of a store, as in Oauth; signing a link calls    *)
(* nobody.  A role may be given and taken away at any time, so that which  *)
(* one a member has when the role guard looks is left open; the statements *)
(* that follow ask only for a member.                                      *)
(***************************************************************************)
EXTENDS Naturals, Functions

CONSTANTS
  Users, Client,    \* the owners of pictures
  Names,            \* names of objects with a random part, never drawn twice
  FixedName,        \* stands for user/<uuid>/profile.webp, without a random part
  Requests,
  Failures          \* TRUE: a call may fail and an answer may get lost

ASSUME NamesAssumption == Client \notin Users /\ FixedName \notin Names

ASSUME FailuresAssumption == Failures \in BOOLEAN

Owners == Users \cup {Client}

VARIABLES
  users,      \* the users that exist
  members,    \* those among them with a role in the client
  picture,    \* owner -> the name in the row
  stored,     \* the names of the objects in the bucket
  links,      \* the names that somebody holds a valid link for
  job,        \* what each request is waiting for
  past,       \* history: the names that were in a row and are not any more
  deleted,    \* history: the names that the bucket was asked to delete
  contended,  \* history: the owners with two requests in flight at a time
  broken      \* history: the owners with a deletion that ended halfway

vars == <<users, members, picture, stored, links, job, past, deleted, contended, broken>>

Idle == [at |-> "Idle"]

Jobs ==
  {Idle} \cup
  [at : {"SetPicture", "Reply", "ClearUser", "DelUserObject", "DelClientObject", "ClearClient"},
   owner : Owners, by : Users, name : Names]

TypeOK ==
  /\ members \subseteq users /\ users \subseteq Users
  /\ DOMAIN picture \subseteq users \cup {Client}
  /\ \A o \in DOMAIN picture : picture[o] \in Names
  /\ stored \cup links \subseteq Names /\ deleted \subseteq Names \cup {FixedName}
  /\ job \in [Requests -> Jobs]
  /\ past \subseteq Names
  /\ contended \cup broken \subseteq Owners

Init ==
  /\ users = Users /\ members = Users
  /\ picture = <<>> /\ stored = {} /\ links = {}
  /\ job = [r \in Requests |-> Idle]
  /\ past = {} /\ deleted = {} /\ contended = {} /\ broken = {}

-----------------------------------------------------------------------------
(* Helpers.                                                                *)

Waits(r, call) == job[r].at = call
Busy == {r \in Requests : ~Waits(r, "Idle")}

Start(r, next) ==
  /\ job' = [job EXCEPT ![r] = next]
  /\ contended' = IF \E q \in Busy : job[q].owner = next.owner
                    THEN contended \cup {next.owner} ELSE contended
Goto(r, next) == job' = [job EXCEPT ![r] = next] /\ UNCHANGED contended
Go(r, call) == Goto(r, [job[r] EXCEPT !.at = call])

\* What the row of o names from now on; the former name becomes past.
SetName(o, k) == picture' = [x \in DOMAIN picture \cup {o} |-> IF x = o THEN k ELSE picture[x]]
ClearName(o) == picture' = Restrict(picture, DOMAIN picture \ {o})
Retire(o) == past' = past \cup {picture[x] : x \in DOMAIN picture \cap {o}}

\* The condition of the statements, and what the guards ask: the user's own
\* row, or the client's with a present member.
MayWrite(o, u) == IF o = Client THEN u \in members ELSE u = o /\ u \in users

\* Mutant: a name that was used before.
NamesAgain == Names \ ({picture[o] : o \in DOMAIN picture} \cup {job[r].name : r \in Busy})

FreshNames ==
  Names \ ({picture[o] : o \in DOMAIN picture} \cup {job[r].name : r \in Busy} \cup past)

-----------------------------------------------------------------------------
(* PATCH /user/picture and /client/:clientId/picture.                      *)

\* The guards pass, a name is drawn and its link signed.
UpdatePicture(r, o, u, k) ==
  /\ Waits(r, "Idle")
  /\ MayWrite(o, u)
  /\ Start(r, [at |-> "SetPicture", owner |-> o, by |-> u, name |-> k])
  /\ UNCHANGED <<users, members, picture, stored, links, past, deleted, broken>>

\* Mutant: the answer does not wait for the row.
SetPictureUnawaited(r) ==
  /\ Waits(r, "SetPicture")
  /\ Go(r, "Reply")
  /\ UNCHANGED <<users, members, picture, stored, links, past, deleted, broken>>

\* Refused when the user is gone, or no member any more.
SetPicture(r) ==
  LET o == job[r].owner IN
  /\ Waits(r, "SetPicture")
  /\ IF MayWrite(o, job[r].by)
       THEN SetName(o, job[r].name) /\ Retire(o) /\ Go(r, "Reply")
       ELSE UNCHANGED <<picture, past>> /\ Goto(r, Idle)
  /\ UNCHANGED <<users, members, stored, links, deleted, broken>>

\* The answer arrives: from now on the browser can upload.
Reply(r) ==
  /\ Waits(r, "Reply")
  /\ links' = links \cup {job[r].name}
  /\ Goto(r, Idle)
  /\ UNCHANGED <<users, members, picture, stored, past, deleted, broken>>

Upload(k) ==
  /\ stored' = stored \cup {k}
  /\ UNCHANGED <<users, members, picture, links, job, past, deleted, contended, broken>>

\* After fifteen minutes, which may be at any moment relative to the requests.
ExpireLink(k) ==
  /\ links' = links \ {k}
  /\ UNCHANGED <<users, members, picture, stored, job, past, deleted, contended, broken>>

-----------------------------------------------------------------------------
(* DELETE /user/picture: the row, then an object.                          *)

\* The read of the user, who has a picture.
DeleteUserPicture(r, u) ==
  /\ Waits(r, "Idle")
  /\ u \in users \cap DOMAIN picture
  /\ Start(r, [at |-> "ClearUser", owner |-> u, by |-> u, name |-> picture[u]])
  /\ UNCHANGED <<users, members, picture, stored, links, past, deleted, broken>>

ClearUserPicture(r) ==
  LET u == job[r].owner IN
  /\ Waits(r, "ClearUser")
  /\ IF u \in users
       THEN ClearName(u) /\ Retire(u) /\ Go(r, "DelUserObject")
       ELSE UNCHANGED <<picture, past>> /\ Goto(r, Idle)
  /\ UNCHANGED <<users, members, stored, links, deleted, broken>>

\* ObjectService.deleteObject.
DeleteObject(k) == stored' = stored \ {k} /\ deleted' = deleted \cup {k}

\* The name that is deleted is not the one that was in the row.
DelUserObject(r) ==
  /\ Waits(r, "DelUserObject")
  /\ DeleteObject(FixedName)
  /\ Goto(r, Idle)
  /\ UNCHANGED <<users, members, picture, links, past, broken>>

-----------------------------------------------------------------------------
(* DELETE /client/:clientId/picture: the object, then the row.             *)

\* The guards pass; the read of the client, which has a picture.
DeleteClientPicture(r, u) ==
  /\ Waits(r, "Idle")
  /\ u \in members
  /\ Client \in DOMAIN picture
  /\ Start(r, [at |-> "DelClientObject", owner |-> Client, by |-> u, name |-> picture[Client]])
  /\ UNCHANGED <<users, members, picture, stored, links, past, deleted, broken>>

\* Mutant: the name has no random part, as for users.
DelClientFixedObject(r) ==
  /\ Waits(r, "DelClientObject")
  /\ DeleteObject(FixedName)
  /\ Go(r, "ClearClient")
  /\ UNCHANGED <<users, members, picture, links, past, broken>>

\* Mutant: the row keeps the name.
DelClientObjectOnly(r) ==
  /\ Waits(r, "DelClientObject")
  /\ DeleteObject(job[r].name)
  /\ Goto(r, Idle)
  /\ UNCHANGED <<users, members, picture, links, past, broken>>

DelClientObject(r) ==
  /\ Waits(r, "DelClientObject")
  /\ DeleteObject(job[r].name)
  /\ Go(r, "ClearClient")
  /\ UNCHANGED <<users, members, picture, links, past, broken>>

\* Whatever the row names by now; refused when the caller is no member any more.
ClearClientPicture(r) ==
  /\ Waits(r, "ClearClient")
  /\ IF job[r].by \in members
       THEN ClearName(Client) /\ Retire(Client) /\ UNCHANGED broken
       ELSE UNCHANGED <<picture, past>> /\ broken' = broken \cup {Client}
  /\ Goto(r, Idle)
  /\ UNCHANGED <<users, members, stored, links, deleted>>

-----------------------------------------------------------------------------
(* Around the requests.                                                    *)

\* Mutant: the memberships stay.
StaffKept(u) == members

\* The memberships go with the user, the object stays.
Staff(u) == members \ {u}

DeleteUser(u) ==
  /\ users' = users \ {u}
  /\ members' = Staff(u)
  /\ ClearName(u) /\ Retire(u)
  /\ UNCHANGED <<stored, links, job, deleted, contended, broken>>

AddMember(u) ==
  /\ members' = members \cup {u}
  /\ UNCHANGED <<users, picture, stored, links, job, past, deleted, contended, broken>>

RemoveMember(u) ==
  /\ members' = members \ {u}
  /\ UNCHANGED <<users, picture, stored, links, job, past, deleted, contended, broken>>

\* A call fails, the process dies, or an answer is lost.
Abort(r) ==
  /\ Failures
  /\ r \in Busy
  /\ Goto(r, Idle)
  /\ broken' = IF job[r].at \in {"DelUserObject", "ClearClient"}
                 THEN broken \cup {job[r].owner} ELSE broken
  /\ UNCHANGED <<users, members, picture, stored, links, past, deleted>>

UserRequest(r) ==
  \E u \in Users : (\E k \in FreshNames : UpdatePicture(r, u, u, k)) \/ DeleteUserPicture(r, u)

ClientRequest(r) ==
  \E u \in Users : (\E k \in FreshNames : UpdatePicture(r, Client, u, k)) \/ DeleteClientPicture(r, u)

Continue(r) ==
  SetPicture(r) \/ Reply(r) \/ ClearUserPicture(r) \/ DelUserObject(r)
  \/ DelClientObject(r) \/ ClearClientPicture(r)

Next ==
  \/ \E r \in Requests : UserRequest(r) \/ ClientRequest(r) \/ Continue(r) \/ Abort(r)
  \/ \E k \in links : Upload(k) \/ ExpireLink(k)
  \/ \E u \in users : DeleteUser(u) \/ AddMember(u) \/ RemoveMember(u)

Spec == Init /\ [][Next]_vars

-----------------------------------------------------------------------------
(* Correctness.                                                            *)

\* A row does not go on naming an object that the service deleted, except
\* between the two calls of a deletion, after one that ended halfway (a failing
\* call, or a caller who stopped being a member), or when a second deletion
\* of the same picture is still at it (deleteClientPicture: first the object,
\* then the row).
NoDanglingPicture ==
  \A o \in DOMAIN picture : picture[o] \in deleted =>
    o \in broken \/ \E r \in Requests : Waits(r, "ClearClient") /\ job[r].owner = o

\* When a deletion by an owner of O is through, the image that the row named
\* has been deleted from the bucket (and is there only if it was uploaded anew),
\* unless a deletion ended halfway or another request about the row overlapped.
TakesDown(O) ==
  \A r \in Busy :
    /\ job[r].at \in {"DelUserObject", "ClearClient"} /\ job'[r] = Idle
    /\ job[r].owner \in O \ (contended \cup broken')
    => job[r].name \in deleted' \/ job[r].name \notin stored'

\* So for the client's picture (deleteClientPicture).
ClientPictureTakenDown == [][TakesDown({Client})]_vars

\* And, says the description of DELETE /user/picture (user.controller.ts:251),
\* for a user's: "api for deleting user profile image" (deleteUserPicture).
UserPictureTakenDown == [][TakesDown(Users)]_vars

\* Whoever gets a link can rely on it: the row names the object that it is for,
\* unless another request about the same row overlaps or the user is gone
\* (updateUserPicture, updateClientPicture: the answer waits for the row).
LinkFitsRow ==
  \A r \in Requests : Waits(r, "Reply") /\ job[r].owner \in (users \cup {Client}) \ contended =>
    job[r].owner \in DOMAIN picture /\ picture[job[r].owner] = job[r].name

\* With all requests, failures and departures, what the rows name is what
\* Gallery promises.
G == INSTANCE Gallery WITH owners <- users \cup {Client}, shown <- picture, past <- past
ImplementsGallery == G!Spec

=============================================================================
