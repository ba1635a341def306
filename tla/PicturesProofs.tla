--------------------------- MODULE PicturesProofs ---------------------------
(***************************************************************************)
(* Theorems about Pictures, for every value of its constants.              *)
(***************************************************************************)
EXTENDS Pictures, TLAPS

Calls == {"SetPicture", "Reply", "ClearUser", "DelUserObject", "DelClientObject", "ClearClient"}

\* The variables of a request.
LEMMA JobShapes ==
  ASSUME NEW j \in Jobs, j.at # "Idle"
  PROVE  j \in [at : Calls, owner : Owners, by : Users, name : Names]
  BY DEF Jobs, Idle, Calls

LEMMA JobMade ==
  ASSUME NEW at \in Calls, NEW o \in Owners, NEW u \in Users, NEW k \in Names
  PROVE  [at |-> at, owner |-> o, by |-> u, name |-> k] \in Jobs
  BY DEF Jobs, Calls

LEMMA IdleJob == Idle \in Jobs /\ Idle.at = "Idle"
  BY DEF Jobs, Idle

\* A request that goes on keeps its variables.
LEMMA JobGoes ==
  ASSUME NEW j \in Jobs, j.at # "Idle", NEW call \in Calls, NEW i, i = [j EXCEPT !.at = call]
  PROVE  /\ i \in Jobs /\ i.at = call
         /\ i.owner = j.owner /\ i.by = j.by /\ i.name = j.name
<1>1. j \in [at : Calls, owner : Owners, by : Users, name : Names]
  BY JobShapes
<1>2. i \in [at : Calls, owner : Owners, by : Users, name : Names]
  BY <1>1
<1>3. i \in Jobs
  BY <1>2 DEF Jobs, Calls
<1> QED
  BY <1>1, <1>3

\* One request moves, the others stay where they are.
LEMMA Moves ==
  ASSUME TypeOK, NEW r \in Requests, NEW j, job' = [job EXCEPT ![r] = j]
  PROVE  job'[r] = j /\ \A q \in Requests \ {r} : job'[q] = job[q]
  BY DEF TypeOK

LEMMA GotoType ==
  ASSUME TypeOK, NEW r \in Requests, NEW j \in Jobs, Goto(r, j)
  PROVE  job' \in [Requests -> Jobs] /\ contended' \subseteq Owners
  BY DEF TypeOK, Goto

LEMMA GoType ==
  ASSUME TypeOK, NEW r \in Requests, job[r].at # "Idle", NEW call \in Calls, Go(r, call)
  PROVE  job' \in [Requests -> Jobs] /\ contended' \subseteq Owners
<1> DEFINE j == [job[r] EXCEPT !.at = call]
<1>1. j \in Jobs /\ Goto(r, j)
  BY JobGoes DEF TypeOK, Go
<1> HIDE DEF j
<1> QED
  BY <1>1, GotoType

LEMMA StartType ==
  ASSUME TypeOK, NEW r \in Requests, NEW j \in Jobs, j.owner \in Owners, Start(r, j)
  PROVE  job' \in [Requests -> Jobs] /\ contended' \subseteq Owners
  BY DEF TypeOK, Start

\* The rows after a picture is set or cleared.
LEMMA SetType ==
  ASSUME TypeOK, NEW o \in users \cup {Client}, NEW k \in Names, SetName(o, k), Retire(o)
  PROVE  /\ DOMAIN picture' \subseteq users \cup {Client}
         /\ \A x \in DOMAIN picture' : picture'[x] \in Names
         /\ past' \subseteq Names
  BY DEF TypeOK, SetName, Retire

LEMMA ClearType ==
  ASSUME TypeOK, NEW o, ClearName(o), Retire(o)
  PROVE  /\ DOMAIN picture' \subseteq (users \cup {Client}) \ {o}
         /\ \A x \in DOMAIN picture' : picture'[x] \in Names
         /\ past' \subseteq Names
  BY DEF TypeOK, ClearName, Retire, Restrict

-----------------------------------------------------------------------------
(* Types.                                                                  *)

LEMMA InitTypeOK == Init => TypeOK
  BY DEF Init, TypeOK, Jobs

LEMMA UpdateType ==
  ASSUME TypeOK, NEW r \in Requests, NEW o \in Owners, NEW u \in Users, NEW k \in Names,
         UpdatePicture(r, o, u, k)
  PROVE  TypeOK'
<1> DEFINE j == [at |-> "SetPicture", owner |-> o, by |-> u, name |-> k]
<1>1. j \in Jobs /\ j.owner \in Owners /\ Start(r, j)
  BY JobMade DEF Calls, UpdatePicture
<1> HIDE DEF j
<1>2. job' \in [Requests -> Jobs] /\ contended' \subseteq Owners
  BY <1>1, StartType
<1> QED
  BY <1>2 DEF TypeOK, UpdatePicture

LEMMA SetPictureType ==
  ASSUME TypeOK, NEW r \in Requests, SetPicture(r)
  PROVE  TypeOK'
<1>1. /\ job[r].at = "SetPicture" /\ job[r].owner \in Owners /\ job[r].by \in Users
      /\ job[r].name \in Names
  BY JobShapes DEF TypeOK, SetPicture, Waits
<1>2. CASE MayWrite(job[r].owner, job[r].by)
  <2>1. job' \in [Requests -> Jobs] /\ contended' \subseteq Owners
    BY <1>1, <1>2, GoType DEF SetPicture, Calls
  <2>2. job[r].owner \in users \cup {Client}
    BY <1>1, <1>2 DEF MayWrite, Owners
  <2> QED
    BY <1>1, <1>2, <2>1, <2>2, SetType DEF TypeOK, SetPicture
<1>3. CASE ~MayWrite(job[r].owner, job[r].by)
  <2>1. job' \in [Requests -> Jobs] /\ contended' \subseteq Owners
    BY <1>3, GotoType, IdleJob DEF SetPicture
  <2> QED
    BY <1>3, <2>1 DEF TypeOK, SetPicture
<1> QED
  BY <1>2, <1>3

LEMMA ReplyType ==
  ASSUME TypeOK, NEW r \in Requests, Reply(r)
  PROVE  TypeOK'
<1>1. job[r].name \in Names
  BY JobShapes DEF TypeOK, Reply, Waits
<1>2. job' \in [Requests -> Jobs] /\ contended' \subseteq Owners
  BY GotoType, IdleJob DEF Reply
<1> QED
  BY <1>1, <1>2 DEF TypeOK, Reply

LEMMA DeletePictureType ==
  ASSUME TypeOK, NEW r \in Requests, NEW u \in Users,
         DeleteUserPicture(r, u) \/ DeleteClientPicture(r, u)
  PROVE  TypeOK'
<1>1. PICK at \in Calls, o \in Owners, k \in Names :
        Start(r, [at |-> at, owner |-> o, by |-> u, name |-> k])
  BY DEF DeleteUserPicture, DeleteClientPicture, TypeOK, Calls, Owners
<1> DEFINE j == [at |-> at, owner |-> o, by |-> u, name |-> k]
<1>2. j \in Jobs /\ j.owner \in Owners /\ Start(r, j)
  BY <1>1, JobMade
<1> HIDE DEF j
<1>3. job' \in [Requests -> Jobs] /\ contended' \subseteq Owners
  BY <1>2, StartType
<1> QED
  BY <1>3 DEF TypeOK, DeleteUserPicture, DeleteClientPicture

LEMMA ClearUserType ==
  ASSUME TypeOK, NEW r \in Requests, ClearUserPicture(r)
  PROVE  TypeOK'
<1>1. job[r].at = "ClearUser"
  BY DEF ClearUserPicture, Waits
<1>2. job' \in [Requests -> Jobs] /\ contended' \subseteq Owners
  BY <1>1, GoType, GotoType, IdleJob DEF ClearUserPicture, Calls
<1>3. CASE job[r].owner \in users
  BY <1>2, <1>3, ClearType DEF TypeOK, ClearUserPicture
<1>4. CASE job[r].owner \notin users
  BY <1>2, <1>4 DEF TypeOK, ClearUserPicture
<1> QED
  BY <1>3, <1>4

LEMMA DelObjectType ==
  ASSUME TypeOK, NEW r \in Requests, DelUserObject(r) \/ DelClientObject(r)
  PROVE  TypeOK'
<1>1. job[r].at \in {"DelUserObject", "DelClientObject"} /\ job[r].name \in Names
  BY JobShapes DEF TypeOK, DelUserObject, DelClientObject, Waits
<1>2. job' \in [Requests -> Jobs] /\ contended' \subseteq Owners
  BY <1>1, GoType, GotoType, IdleJob DEF DelUserObject, DelClientObject, Calls
<1> QED
  BY <1>1, <1>2 DEF TypeOK, DelUserObject, DelClientObject, DeleteObject

LEMMA ClearClientType ==
  ASSUME TypeOK, NEW r \in Requests, ClearClientPicture(r)
  PROVE  TypeOK'
<1>1. job' \in [Requests -> Jobs] /\ contended' \subseteq Owners
  BY GotoType, IdleJob DEF ClearClientPicture
<1>2. CASE job[r].by \in members
  BY <1>1, <1>2, ClearType DEF TypeOK, ClearClientPicture
<1>3. CASE job[r].by \notin members
  BY <1>1, <1>3 DEF TypeOK, ClearClientPicture, Owners
<1> QED
  BY <1>2, <1>3

LEMMA DeleteUserType ==
  ASSUME TypeOK, NEW u \in users, DeleteUser(u)
  PROVE  TypeOK'
<1>1. /\ DOMAIN picture' \subseteq (users \cup {Client}) \ {u}
      /\ \A x \in DOMAIN picture' : picture'[x] \in Names
      /\ past' \subseteq Names
  BY ClearType DEF DeleteUser
<1> QED
  BY <1>1 DEF TypeOK, DeleteUser, Staff

LEMMA AbortType ==
  ASSUME TypeOK, NEW r \in Requests, Abort(r)
  PROVE  TypeOK'
<1>1. job[r].owner \in Owners
  BY JobShapes DEF TypeOK, Abort, Busy, Waits
<1>2. job' \in [Requests -> Jobs] /\ contended' \subseteq Owners
  BY GotoType, IdleJob DEF Abort
<1> QED
  BY <1>1, <1>2 DEF TypeOK, Abort

LEMMA NextTypeOK == TypeOK /\ [Next]_vars => TypeOK'
<1> SUFFICES ASSUME TypeOK, [Next]_vars PROVE TypeOK'
  OBVIOUS
<1>1. CASE UNCHANGED vars
  BY <1>1 DEF vars, TypeOK
<1>2. ASSUME NEW r \in Requests, UserRequest(r) \/ ClientRequest(r) PROVE TypeOK'
  BY <1>2, UpdateType, DeletePictureType
  DEF UserRequest, ClientRequest, FreshNames, NamesAgain, Owners
<1>3. ASSUME NEW r \in Requests, Continue(r) PROVE TypeOK'
  BY <1>3, SetPictureType, ReplyType, ClearUserType, DelObjectType, ClearClientType DEF Continue
<1>4. ASSUME NEW r \in Requests, Abort(r) PROVE TypeOK'
  BY <1>4, AbortType
<1>5. ASSUME NEW k \in links, Upload(k) \/ ExpireLink(k) PROVE TypeOK'
  BY <1>5 DEF TypeOK, Upload, ExpireLink
<1>6. ASSUME NEW u \in users, DeleteUser(u) PROVE TypeOK'
  BY <1>6, DeleteUserType
<1>7. ASSUME NEW u \in users, AddMember(u) \/ RemoveMember(u) PROVE TypeOK'
  BY <1>7 DEF TypeOK, AddMember, RemoveMember
<1> QED
  BY <1>1, <1>2, <1>3, <1>4, <1>5, <1>6, <1>7 DEF Next

\* Every variable has its type (Pictures.TypeOK).
THEOREM TypeCorrect == Spec => []TypeOK
  BY InitTypeOK, NextTypeOK, PTL DEF Spec

-----------------------------------------------------------------------------
(* Names.  A name is drawn, in a row, or past, and never goes back.        *)

Distinct == \A o, p \in DOMAIN picture : picture[o] = picture[p] => o = p
PastGone == \A o \in DOMAIN picture : picture[o] \notin past

\* A request that read or wrote a name: the row still has it, or it is past.
JobsNamed ==
  \A r \in Requests : job[r].at \notin {"Idle", "SetPicture"} =>
    \/ job[r].name \in past
    \/ job[r].owner \in DOMAIN picture /\ picture[job[r].owner] = job[r].name

\* A request that is about to write a name is the only one that knows it.
JobsDrawn ==
  \A r \in Requests : job[r].at = "SetPicture" =>
    /\ job[r].name \notin past
    /\ \A o \in DOMAIN picture : picture[o] # job[r].name
    /\ \A q \in Requests \ {r} : job[q].at = "SetPicture" => job[q].name # job[r].name

NamesInv == TypeOK /\ Distinct /\ PastGone /\ JobsNamed /\ JobsDrawn

\* What a step does to the rows: a name stays, or becomes past, or is one of F.
Moved(F) ==
  /\ past \subseteq past'
  /\ \A k \in past' \ past : \E x \in DOMAIN picture : picture[x] = k
  /\ \A x \in DOMAIN picture' :
       \/ picture'[x] \in F
       \/ x \in DOMAIN picture /\ picture'[x] = picture[x] /\ picture[x] \notin past'
  /\ \A x \in DOMAIN picture :
       \/ picture[x] \in past'
       \/ x \in DOMAIN picture' /\ picture'[x] = picture[x]
  /\ \A x, y \in DOMAIN picture' : picture'[x] \in F /\ picture'[y] \in F => x = y

LEMMA ClearMoves ==
  ASSUME Distinct, PastGone, NEW o, ClearName(o), Retire(o)
  PROVE  Moved({})
  BY DEF Distinct, PastGone, ClearName, Retire, Restrict, Moved

LEMMA SetMoves ==
  ASSUME Distinct, PastGone, NEW o, NEW k, SetName(o, k), Retire(o),
         \A x \in DOMAIN picture : picture[x] # k
  PROVE  Moved({k})
<1>1. picture' = [x \in DOMAIN picture \cup {o} |-> IF x = o THEN k ELSE picture[x]]
  BY DEF SetName
<1>2. past' = past \cup {picture[x] : x \in DOMAIN picture \cap {o}}
  BY DEF Retire
<1>3. past' = past \cup (IF o \in DOMAIN picture THEN {picture[o]} ELSE {})
  BY <1>2
<1>4. past \subseteq past' /\ \A n \in past' \ past : \E x \in DOMAIN picture : picture[x] = n
  BY <1>3
<1>5. \A x \in DOMAIN picture : x # o => picture[x] \notin past'
  BY <1>3 DEF Distinct, PastGone
<1>6. \A x \in DOMAIN picture' :
        \/ picture'[x] \in {k}
        \/ x \in DOMAIN picture /\ picture'[x] = picture[x] /\ picture[x] \notin past'
  BY <1>1, <1>5
<1>7. \A x \in DOMAIN picture :
        \/ picture[x] \in past'
        \/ x \in DOMAIN picture' /\ picture'[x] = picture[x]
  BY <1>1, <1>3
<1>8. \A x, y \in DOMAIN picture' : picture'[x] \in {k} /\ picture'[y] \in {k} => x = y
  BY <1>1
<1> QED
  BY <1>4, <1>6, <1>7, <1>8 DEF Moved

LEMMA StayMoves ==
  ASSUME PastGone, UNCHANGED <<picture, past>>
  PROVE  Moved({})
  BY DEF PastGone, Moved

LEMMA RowsMove ==
  ASSUME Distinct, PastGone, NEW F, Moved(F),
         \A k \in F : k \notin past /\ \A x \in DOMAIN picture : picture[x] # k
  PROVE  Distinct' /\ PastGone'
<1>1. Distinct'
  BY DEF Distinct, Moved
<1>2. PastGone'
  BY DEF PastGone, Moved
<1> QED
  BY <1>1, <1>2

LEMMA NamedMoves ==
  ASSUME NEW F, Moved(F), NEW o, NEW k, k \in past \/ (o \in DOMAIN picture /\ picture[o] = k)
  PROVE  k \in past' \/ (o \in DOMAIN picture' /\ picture'[o] = k)
  BY DEF Moved

LEMMA DrawnMoves ==
  ASSUME NEW F, Moved(F), NEW k, k \notin F, k \notin past,
         \A o \in DOMAIN picture : picture[o] # k
  PROVE  k \notin past' /\ \A o \in DOMAIN picture' : picture'[o] # k
  BY DEF Moved

\* A step of a request that is not the draw of a name.
LEMMA NamesStep ==
  ASSUME NamesInv, TypeOK', NEW F, Moved(F),
         NEW r \in Requests, \A q \in Requests \ {r} : job'[q] = job[q],
         \A k \in F : job[r].at = "SetPicture" /\ job[r].name = k,
         job'[r].at # "SetPicture",
         job'[r].at # "Idle" =>
           \/ job'[r].name \in past'
           \/ job'[r].owner \in DOMAIN picture' /\ picture'[job'[r].owner] = job'[r].name
  PROVE  NamesInv'
<1> USE DEF NamesInv
<1>1. Distinct' /\ PastGone'
  <2>1. \A k \in F : k \notin past /\ \A x \in DOMAIN picture : picture[x] # k
    BY DEF JobsDrawn
  <2> QED
    BY <2>1, RowsMove
<1>2. JobsNamed'
  <2> SUFFICES ASSUME NEW q \in Requests, job'[q].at \notin {"Idle", "SetPicture"}
               PROVE  \/ job'[q].name \in past'
                      \/ /\ job'[q].owner \in DOMAIN picture'
                         /\ picture'[job'[q].owner] = job'[q].name
    BY DEF JobsNamed
  <2>1. CASE q = r
    BY <2>1
  <2>2. CASE q # r
    <3> DEFINE o == job[q].owner
               k == job[q].name
    <3>1. job'[q] = job[q]
      BY <2>2
    <3>2. k \in past \/ (o \in DOMAIN picture /\ picture[o] = k)
      BY <3>1 DEF JobsNamed
    <3> HIDE DEF o, k
    <3>3. k \in past' \/ (o \in DOMAIN picture' /\ picture'[o] = k)
      BY <3>2, NamedMoves
    <3> QED
      BY <3>1, <3>3 DEF o, k
  <2> QED
    BY <2>1, <2>2
<1>3. JobsDrawn'
  <2> SUFFICES ASSUME NEW q \in Requests, job'[q].at = "SetPicture"
               PROVE  /\ job'[q].name \notin past'
                      /\ \A o \in DOMAIN picture' : picture'[o] # job'[q].name
                      /\ \A p \in Requests \ {q} : job'[p].at = "SetPicture" =>
                           job'[p].name # job'[q].name
    BY DEF JobsDrawn
  <2>1. q # r /\ job'[q] = job[q] /\ job[q].at = "SetPicture"
    OBVIOUS
  <2> DEFINE k == job[q].name
  <2>2. k \notin F /\ k \notin past /\ \A o \in DOMAIN picture : picture[o] # k
    BY <2>1 DEF JobsDrawn
  <2> HIDE DEF k
  <2>3. k \notin past' /\ \A o \in DOMAIN picture' : picture'[o] # k
    BY <2>2, DrawnMoves
  <2>4. \A p \in Requests \ {q} : job'[p].at = "SetPicture" => job'[p].name # k
    BY <2>1 DEF JobsDrawn, k
  <2> QED
    BY <2>1, <2>3, <2>4 DEF k
<1> QED
  BY <1>1, <1>2, <1>3

\* A step of nobody's request.
LEMMA NamesAround ==
  ASSUME NamesInv, TypeOK', Moved({}), job' = job
  PROVE  NamesInv'
<1> USE DEF NamesInv
<1>1. Distinct' /\ PastGone'
  BY RowsMove
<1>2. JobsNamed'
  BY NamedMoves DEF JobsNamed
<1>3. JobsDrawn'
  BY DrawnMoves DEF JobsDrawn
<1> QED
  BY <1>1, <1>2, <1>3

LEMMA NamesUpdate ==
  ASSUME NamesInv, TypeOK', NEW r \in Requests, NEW o \in Owners, NEW u \in Users,
         NEW k \in FreshNames, UpdatePicture(r, o, u, k)
  PROVE  NamesInv'
<1> USE DEF NamesInv
<1> DEFINE j == [at |-> "SetPicture", owner |-> o, by |-> u, name |-> k]
<1>1. job' = [job EXCEPT ![r] = j] /\ picture' = picture /\ past' = past
  BY DEF UpdatePicture, Start
<1>2. j.at = "SetPicture" /\ j.name = k
  OBVIOUS
<1> HIDE DEF j
<1>3. job'[r] = j /\ \A q \in Requests \ {r} : job'[q] = job[q]
  BY <1>1, Moves
<1>4. /\ k \notin past /\ \A x \in DOMAIN picture : picture[x] # k
      /\ \A q \in Requests : job[q].at # "Idle" => job[q].name # k
  BY DEF FreshNames, NamesAgain, Busy, Waits
<1>5. JobsNamed'
  BY <1>1, <1>2, <1>3 DEF JobsNamed
<1>6. JobsDrawn'
  <2> SUFFICES ASSUME NEW q \in Requests, job'[q].at = "SetPicture"
               PROVE  /\ job'[q].name \notin past
                      /\ \A x \in DOMAIN picture : picture[x] # job'[q].name
                      /\ \A p \in Requests \ {q} : job'[p].at = "SetPicture" =>
                           job'[p].name # job'[q].name
    BY <1>1 DEF JobsDrawn
  <2>1. CASE q = r
    BY <1>2, <1>3, <1>4, <2>1
  <2>2. CASE q # r
    BY <1>2, <1>3, <1>4, <2>2 DEF JobsDrawn
  <2> QED
    BY <2>1, <2>2
<1> QED
  BY <1>1, <1>5, <1>6 DEF Distinct, PastGone

LEMMA NamesSet ==
  ASSUME NamesInv, TypeOK', NEW r \in Requests, SetPicture(r)
  PROVE  NamesInv'
<1> USE DEF NamesInv
<1>1. job[r].at = "SetPicture"
  BY DEF SetPicture, Waits
<1>2. CASE MayWrite(job[r].owner, job[r].by)
  <2> DEFINE j == [job[r] EXCEPT !.at = "Reply"]
             o == job[r].owner
             k == job[r].name
  <2>1. job' = [job EXCEPT ![r] = j] /\ SetName(o, k) /\ Retire(o)
    BY <1>2 DEF SetPicture, Go, Goto
  <2>2. j.at = "Reply" /\ j.owner = o /\ j.name = k
    BY <1>1, JobGoes DEF TypeOK, Calls
  <2>3. /\ \A x \in {k} : job[r].at = "SetPicture" /\ job[r].name = x
        /\ \A x \in DOMAIN picture : picture[x] # k
    BY <1>1 DEF JobsDrawn
  <2> HIDE DEF j, o, k
  <2>4. Moved({k}) /\ o \in DOMAIN picture' /\ picture'[o] = k
    BY <2>1, <2>3, SetMoves DEF SetName
  <2>5. job'[r] = j /\ \A q \in Requests \ {r} : job'[q] = job[q]
    BY <2>1, Moves
  <2> QED
    BY <2>2, <2>3, <2>4, <2>5, NamesStep
<1>3. CASE ~MayWrite(job[r].owner, job[r].by)
  <2>1. job' = [job EXCEPT ![r] = Idle] /\ UNCHANGED <<picture, past>>
    BY <1>3 DEF SetPicture, Goto
  <2>2. job'[r] = Idle /\ \A q \in Requests \ {r} : job'[q] = job[q]
    BY <2>1, Moves
  <2> QED
    BY <2>1, <2>2, StayMoves, NamesStep, IdleJob
<1> QED
  BY <1>2, <1>3

\* A request that has read a name goes on, is done or given up.
LEMMA NamesGo ==
  ASSUME NamesInv, TypeOK', NEW r \in Requests, Moved({}),
         \/ Goto(r, Idle)
         \/ job[r].at \notin {"Idle", "SetPicture"} /\ \E call \in Calls \ {"SetPicture"} : Go(r, call)
  PROVE  NamesInv'
<1> USE DEF NamesInv
<1>1. CASE Goto(r, Idle)
  <2>1. job'[r] = Idle /\ \A q \in Requests \ {r} : job'[q] = job[q]
    BY <1>1, Moves DEF Goto
  <2> QED
    BY <2>1, NamesStep, IdleJob
<1>2. ASSUME job[r].at \notin {"Idle", "SetPicture"}, NEW call \in Calls \ {"SetPicture"},
             Go(r, call)
      PROVE  NamesInv'
  <2> DEFINE j == [job[r] EXCEPT !.at = call]
             o == job[r].owner
             k == job[r].name
  <2>1. job' = [job EXCEPT ![r] = j]
    BY <1>2 DEF Go, Goto
  <2>2. j.at = call /\ j.owner = o /\ j.name = k
    BY <1>2, JobGoes DEF TypeOK
  <2>3. k \in past \/ (o \in DOMAIN picture /\ picture[o] = k)
    BY <1>2 DEF JobsNamed
  <2> HIDE DEF j, o, k
  <2>4. k \in past' \/ (o \in DOMAIN picture' /\ picture'[o] = k)
    BY <2>3, NamedMoves
  <2>5. job'[r] = j /\ \A q \in Requests \ {r} : job'[q] = job[q]
    BY <2>1, Moves
  <2> QED
    BY <2>2, <2>4, <2>5, NamesStep
<1> QED
  BY <1>1, <1>2

LEMMA NamesRead ==
  ASSUME NamesInv, TypeOK', NEW r \in Requests, NEW u \in Users,
         DeleteUserPicture(r, u) \/ DeleteClientPicture(r, u)
  PROVE  NamesInv'
<1> USE DEF NamesInv
<1>1. PICK at \in {"ClearUser", "DelClientObject"}, o \in DOMAIN picture :
        Start(r, [at |-> at, owner |-> o, by |-> u, name |-> picture[o]])
  BY DEF DeleteUserPicture, DeleteClientPicture
<1> DEFINE j == [at |-> at, owner |-> o, by |-> u, name |-> picture[o]]
<1>2. /\ job' = [job EXCEPT ![r] = j]
      /\ j.at = at /\ j.owner = o /\ j.name = picture[o]
  BY <1>1 DEF Start
<1> HIDE DEF j
<1>3. job'[r] = j /\ \A q \in Requests \ {r} : job'[q] = job[q]
  BY <1>2, Moves
<1>4. UNCHANGED <<picture, past>>
  BY DEF DeleteUserPicture, DeleteClientPicture
<1> QED
  BY <1>2, <1>3, <1>4, StayMoves, NamesStep

\* What a step does to the rows, whoever takes it.
LEMMA ContinueMoves ==
  ASSUME NamesInv, NEW r \in Requests, Continue(r), ~SetPicture(r)
  PROVE  Moved({})
<1> USE DEF NamesInv
<1>1. CASE ClearUserPicture(r)
  BY <1>1, ClearMoves, StayMoves DEF ClearUserPicture
<1>2. CASE ClearClientPicture(r)
  BY <1>2, ClearMoves, StayMoves DEF ClearClientPicture
<1>3. CASE Reply(r) \/ DelUserObject(r) \/ DelClientObject(r)
  <2>1. UNCHANGED <<picture, past>>
    BY <1>3 DEF Reply, DelUserObject, DelClientObject
  <2> QED
    BY <2>1, StayMoves
<1> QED
  BY <1>1, <1>2, <1>3 DEF Continue

LEMMA NamesContinue ==
  ASSUME NamesInv, TypeOK', NEW r \in Requests, Continue(r)
  PROVE  NamesInv'
<1>1. CASE SetPicture(r)
  BY <1>1, NamesSet
<1>2. CASE ~SetPicture(r)
  <2>1. Moved({})
    BY <1>2, ContinueMoves
  <2>2. \/ Goto(r, Idle)
        \/ /\ job[r].at \notin {"Idle", "SetPicture"}
           /\ \E call \in Calls \ {"SetPicture"} : Go(r, call)
    BY <1>2 DEF Continue, Reply, ClearUserPicture, DelUserObject, DelClientObject,
       ClearClientPicture, Waits, Calls
  <2> QED
    BY <2>1, <2>2, NamesGo
<1> QED
  BY <1>1, <1>2

LEMMA NamesInvStep == NamesInv /\ [Next]_vars => NamesInv'
<1> SUFFICES ASSUME NamesInv, [Next]_vars PROVE NamesInv'
  OBVIOUS
<1>0. TypeOK'
  BY NextTypeOK DEF NamesInv
<1>1. CASE UNCHANGED vars
  BY <1>0, <1>1, NamesAround, StayMoves DEF vars, NamesInv
<1>2. ASSUME NEW r \in Requests, UserRequest(r) \/ ClientRequest(r) PROVE NamesInv'
  BY <1>0, <1>2, NamesUpdate, NamesRead DEF UserRequest, ClientRequest, Owners
<1>3. ASSUME NEW r \in Requests, Continue(r) PROVE NamesInv'
  BY <1>0, <1>3, NamesContinue
<1>4. ASSUME NEW r \in Requests, Abort(r) PROVE NamesInv'
  BY <1>0, <1>4, NamesGo, StayMoves DEF Abort, NamesInv
<1>5. ASSUME NEW u \in users, DeleteUser(u) PROVE NamesInv'
  BY <1>0, <1>5, NamesAround, ClearMoves DEF DeleteUser, NamesInv
<1>6. CASE \/ \E k \in links : Upload(k) \/ ExpireLink(k)
           \/ \E u \in users : AddMember(u) \/ RemoveMember(u)
  BY <1>0, <1>6, NamesAround, StayMoves DEF Upload, ExpireLink, AddMember, RemoveMember, NamesInv
<1> QED
  BY <1>1, <1>2, <1>3, <1>4, <1>5, <1>6 DEF Next

LEMMA InitNamesInv == Init => NamesInv
  BY InitTypeOK, IdleJob DEF Init, NamesInv, Distinct, PastGone, JobsNamed, JobsDrawn

-----------------------------------------------------------------------------
(* Deleted objects.                                                        *)

\* Whose picture a request deletes, and that it deletes the object first.
KindJob(j, d) ==
  /\ j.at \in {"ClearUser", "DelUserObject"} => j.owner \in Users
  /\ j.at \in {"DelClientObject", "ClearClient"} => j.owner = Client
  /\ j.at = "ClearClient" => j.name \in d

JobsKind == \A r \in Requests : KindJob(job[r], deleted)

\* Only names that the client's row had are deleted, and the fixed one.
DeletedKnown ==
  \A k \in deleted : \/ k = FixedName
                     \/ k \in past \/ (Client \in DOMAIN picture /\ picture[Client] = k)

DeletedInv == NamesInv /\ JobsKind /\ DeletedKnown /\ NoDanglingPicture

LEMMA KindGrows ==
  ASSUME NEW j, NEW d, NEW e, d \subseteq e, KindJob(j, d)
  PROVE  KindJob(j, e)
  BY DEF KindJob

LEMMA KindIdle == \A d : KindJob(Idle, d)
  BY IdleJob DEF KindJob

LEMMA ClientNoUser == Client \notin Users
  BY NamesAssumption

\* A step of a request that deletes no object of a row, or the client's.
LEMMA DeletedStep ==
  ASSUME DeletedInv, NamesInv', NEW F, Moved(F), F \subseteq Names,
         NEW r \in Requests, \A q \in Requests \ {r} : job'[q] = job[q],
         \A k \in F : job[r].at = "SetPicture" /\ job[r].name = k,
         KindJob(job'[r], deleted'), broken \subseteq broken', deleted \subseteq deleted',
         \A k \in deleted' \ deleted :
           \/ k = FixedName
           \/ job[r].at = "DelClientObject" /\ job'[r].at = "ClearClient" /\ job[r].name = k,
         job[r].at = "ClearClient" => Client \notin DOMAIN picture' \/ Client \in broken'
  PROVE  DeletedInv'
<1> USE DEF DeletedInv
<1>1. JobsKind'
  <2> SUFFICES ASSUME NEW q \in Requests PROVE KindJob(job'[q], deleted')
    BY DEF JobsKind
  <2>1. CASE q = r
    BY <2>1
  <2>2. CASE q # r
    <3>1. job'[q] = job[q] /\ KindJob(job[q], deleted)
      BY <2>2 DEF JobsKind
    <3> QED
      BY <3>1, KindGrows
  <2> QED
    BY <2>1, <2>2
\* The object that the request deletes is the client's, or was.
<1>2. job[r].at = "DelClientObject" =>
        job[r].name \in past \/ (Client \in DOMAIN picture /\ picture[Client] = job[r].name)
  BY DEF JobsKind, KindJob, NamesInv, JobsNamed
<1>3. DeletedKnown'
  <2> SUFFICES ASSUME NEW k \in deleted', k # FixedName
               PROVE  k \in past' \/ (Client \in DOMAIN picture' /\ picture'[Client] = k)
    BY DEF DeletedKnown
  <2>1. k \in past \/ (Client \in DOMAIN picture /\ picture[Client] = k)
    BY <1>2 DEF DeletedKnown
  <2> QED
    BY <2>1, NamedMoves
<1>4. NoDanglingPicture'
  <2> SUFFICES ASSUME NEW o \in DOMAIN picture', picture'[o] \in deleted', o \notin broken'
               PROVE  \E q \in Requests : job'[q].at = "ClearClient" /\ job'[q].owner = o
    BY DEF NoDanglingPicture, Waits
  <2>1. picture'[o] \notin F
    <3> SUFFICES ASSUME picture'[o] \in F PROVE FALSE
      OBVIOUS
    <3>1. job[r].at = "SetPicture" /\ job[r].name = picture'[o]
      OBVIOUS
    <3>2. picture'[o] \notin deleted
      BY <3>1, NamesAssumption DEF DeletedKnown, NamesInv, JobsDrawn
    <3> QED
      BY <3>1, <3>2, NamesAssumption
  <2>2. o \in DOMAIN picture /\ picture'[o] = picture[o] /\ picture[o] \notin past
    BY <2>1 DEF Moved
  <2>3. CASE picture[o] \in deleted
    <3>1. PICK q \in Requests : job[q].at = "ClearClient" /\ job[q].owner = o
      BY <2>2, <2>3 DEF NoDanglingPicture, Waits
    <3>2. o = Client
      BY <3>1 DEF JobsKind, KindJob
    <3>3. q # r
      BY <3>1, <3>2
    <3> QED
      BY <3>1, <3>3
  <2>4. CASE picture[o] \notin deleted
    <3>1. picture[o] # FixedName
      BY <2>2, NamesAssumption DEF NamesInv, TypeOK
    <3>2. job[r].at = "DelClientObject" /\ job'[r].at = "ClearClient" /\ job[r].name = picture[o]
      BY <2>2, <2>4, <3>1
    <3>3. o = Client
      BY <1>2, <2>2, <3>2 DEF NamesInv, Distinct
    <3>4. job'[r].owner = Client
      BY <3>2 DEF KindJob
    <3> QED
      BY <3>2, <3>3, <3>4
  <2> QED
    BY <2>3, <2>4
<1> QED
  BY <1>1, <1>3, <1>4

\* A step of nobody's request.
LEMMA DeletedAround ==
  ASSUME DeletedInv, NamesInv', Moved({}), UNCHANGED <<job, deleted, broken>>
  PROVE  DeletedInv'
<1> USE DEF DeletedInv
<1>1. JobsKind'
  BY DEF JobsKind
<1>2. DeletedKnown'
  BY NamedMoves DEF DeletedKnown
<1>3. NoDanglingPicture'
  BY DEF NoDanglingPicture, Waits, Moved
<1> QED
  BY <1>1, <1>2, <1>3

LEMMA DeletedRequest ==
  ASSUME DeletedInv, NamesInv', NEW r \in Requests, UserRequest(r) \/ ClientRequest(r)
  PROVE  DeletedInv'
<1>1. UNCHANGED <<picture, past, deleted, broken>> /\ job[r].at = "Idle"
  BY DEF UserRequest, ClientRequest, UpdatePicture, DeleteUserPicture, DeleteClientPicture, Waits
<1>2. PICK at \in Calls, o \in Owners, u \in Users, k \in Names :
        /\ Start(r, [at |-> at, owner |-> o, by |-> u, name |-> k])
        /\ \/ at = "SetPicture"
           \/ at = "ClearUser" /\ o \in Users
           \/ at = "DelClientObject" /\ o = Client
  BY DEF UserRequest, ClientRequest, UpdatePicture, DeleteUserPicture, DeleteClientPicture, Calls,
     Owners, FreshNames, NamesAgain, DeletedInv, NamesInv, TypeOK
<1> DEFINE j == [at |-> at, owner |-> o, by |-> u, name |-> k]
<1>3. job' = [job EXCEPT ![r] = j] /\ KindJob(j, deleted')
  BY <1>2 DEF Start, KindJob
<1> HIDE DEF j
<1>4. job'[r] = j /\ \A q \in Requests \ {r} : job'[q] = job[q]
  BY <1>3, Moves DEF DeletedInv, NamesInv
<1>5. Moved({})
  BY <1>1, StayMoves DEF DeletedInv, NamesInv
<1> QED
  BY <1>1, <1>3, <1>4, <1>5, DeletedStep

LEMMA DeletedSet ==
  ASSUME DeletedInv, NamesInv', NEW r \in Requests, SetPicture(r)
  PROVE  DeletedInv'
<1> USE DEF DeletedInv, NamesInv
<1> DEFINE o == job[r].owner
           k == job[r].name
           j == [job[r] EXCEPT !.at = "Reply"]
<1>1. /\ job[r].at = "SetPicture" /\ job[r] \in Jobs /\ k \in Names
      /\ \A x \in DOMAIN picture : picture[x] # k
  BY JobShapes DEF SetPicture, Waits, TypeOK, JobsDrawn
<1>2. deleted' = deleted /\ broken' = broken
  BY DEF SetPicture
<1>3. CASE MayWrite(o, job[r].by)
  <2>1. job' = [job EXCEPT ![r] = j] /\ SetName(o, k) /\ Retire(o)
    BY <1>3 DEF SetPicture, Go, Goto
  <2>2. KindJob(j, deleted')
    BY <1>1, JobGoes DEF KindJob, Calls
  <2>3. \A x \in {k} : job[r].at = "SetPicture" /\ job[r].name = x
    BY <1>1
  <2> HIDE DEF o, j, k
  <2>4. Moved({k})
    BY <1>1, <2>1, SetMoves
  <2>5. job'[r] = j /\ \A q \in Requests \ {r} : job'[q] = job[q]
    BY <2>1, Moves
  <2> QED
    BY <1>1, <1>2, <2>2, <2>3, <2>4, <2>5, DeletedStep
<1>4. CASE ~MayWrite(o, job[r].by)
  <2>1. job' = [job EXCEPT ![r] = Idle] /\ UNCHANGED <<picture, past>>
    BY <1>4 DEF SetPicture, Goto
  <2>2. job'[r] = Idle /\ \A q \in Requests \ {r} : job'[q] = job[q]
    BY <2>1, Moves
  <2> QED
    BY <1>1, <1>2, <2>1, <2>2, StayMoves, DeletedStep, KindIdle
<1> QED
  BY <1>3, <1>4

\* Requests that are done or given up.
LEMMA DeletedEnd ==
  ASSUME DeletedInv, NamesInv', NEW r \in Requests, Goto(r, Idle), Moved({}),
         broken \subseteq broken', deleted \subseteq deleted', deleted' \subseteq deleted \cup {FixedName},
         job[r].at = "ClearClient" => Client \notin DOMAIN picture' \/ Client \in broken'
  PROVE  DeletedInv'
<1>1. job'[r] = Idle /\ \A q \in Requests \ {r} : job'[q] = job[q]
  BY Moves DEF Goto, DeletedInv, NamesInv
<1> QED
  BY <1>1, DeletedStep, KindIdle

\* Requests that go on.
LEMMA DeletedGo ==
  ASSUME DeletedInv, NamesInv', NEW r \in Requests, Moved({}), broken' = broken,
         \/ ClearUserPicture(r) /\ Go(r, "DelUserObject") /\ deleted' = deleted
         \/ DelClientObject(r)
  PROVE  DeletedInv'
<1> USE DEF DeletedInv, NamesInv
<1>1. PICK call \in {"DelUserObject", "ClearClient"} :
        /\ Go(r, call)
        /\ \/ call = "DelUserObject" /\ job[r].at = "ClearUser" /\ deleted' = deleted
           \/ /\ call = "ClearClient" /\ job[r].at = "DelClientObject"
              /\ deleted' = deleted \cup {job[r].name}
  BY DEF ClearUserPicture, DelClientObject, Waits, DeleteObject
<1> DEFINE j == [job[r] EXCEPT !.at = call]
<1>2. job' = [job EXCEPT ![r] = j] /\ job[r] \in Jobs /\ KindJob(job[r], deleted)
  BY <1>1 DEF Go, Goto, TypeOK, JobsKind
<1>3. j.at = call /\ j.owner = job[r].owner /\ j.name = job[r].name
  BY <1>1, <1>2, JobGoes DEF Calls
<1> HIDE DEF j
<1>4. KindJob(j, deleted')
  BY <1>1, <1>2, <1>3 DEF KindJob
<1>5. job'[r] = j /\ \A q \in Requests \ {r} : job'[q] = job[q]
  BY <1>2, Moves
<1> QED
  BY <1>1, <1>3, <1>4, <1>5, DeletedStep

LEMMA DeletedContinue ==
  ASSUME DeletedInv, NamesInv', NEW r \in Requests, Continue(r)
  PROVE  DeletedInv'
<1>1. CASE SetPicture(r)
  BY <1>1, DeletedSet
<1>2. CASE ~SetPicture(r)
  <2>0. Moved({})
    BY <1>2, ContinueMoves DEF DeletedInv
  <2>1. CASE Reply(r)
    BY <2>0, <2>1, DeletedEnd DEF Reply, Waits
  <2>2. CASE ClearUserPicture(r)
    <3>1. broken' = broken /\ deleted' = deleted /\ job[r].at = "ClearUser"
          /\ (Goto(r, Idle) \/ Go(r, "DelUserObject"))
      BY <2>2 DEF ClearUserPicture, Waits
    <3> QED
      BY <2>0, <2>2, <3>1, DeletedEnd, DeletedGo
  <2>3. CASE DelUserObject(r)
    BY <2>0, <2>3, DeletedEnd DEF DelUserObject, DeleteObject, Waits
  <2>4. CASE DelClientObject(r)
    BY <2>0, <2>4, DeletedGo DEF DelClientObject
  <2>5. CASE ClearClientPicture(r)
    <3>1. Client \notin DOMAIN picture' \/ Client \in broken'
      BY <2>5 DEF ClearClientPicture, ClearName, Restrict
    <3>2. Goto(r, Idle) /\ deleted' = deleted /\ broken \subseteq broken'
      BY <2>5 DEF ClearClientPicture
    <3> QED
      BY <2>0, <3>1, <3>2, DeletedEnd
  <2> QED
    BY <1>2, <2>1, <2>2, <2>3, <2>4, <2>5 DEF Continue
<1> QED
  BY <1>1, <1>2

LEMMA DeletedAbort ==
  ASSUME DeletedInv, NamesInv', NEW r \in Requests, Abort(r)
  PROVE  DeletedInv'
<1>1. Moved({})
  BY StayMoves DEF Abort, DeletedInv, NamesInv
<1>2. job[r].at = "ClearClient" => job[r].owner = Client
  BY DEF DeletedInv, JobsKind, KindJob
<1>3. job[r].at = "ClearClient" => Client \in broken'
  BY <1>2 DEF Abort
<1> QED
  BY <1>1, <1>3, DeletedEnd DEF Abort

LEMMA DeletedInvStep == DeletedInv /\ [Next]_vars => DeletedInv'
<1> SUFFICES ASSUME DeletedInv, [Next]_vars PROVE DeletedInv'
  OBVIOUS
<1>0. NamesInv' /\ Distinct /\ PastGone
  BY NamesInvStep DEF DeletedInv, NamesInv
<1>1. CASE UNCHANGED vars
  BY <1>0, <1>1, DeletedAround, StayMoves DEF vars
<1>2. ASSUME NEW r \in Requests, UserRequest(r) \/ ClientRequest(r) PROVE DeletedInv'
  BY <1>0, <1>2, DeletedRequest
<1>3. ASSUME NEW r \in Requests, Continue(r) PROVE DeletedInv'
  BY <1>0, <1>3, DeletedContinue
<1>4. ASSUME NEW r \in Requests, Abort(r) PROVE DeletedInv'
  BY <1>0, <1>4, DeletedAbort
<1>5. ASSUME NEW u \in users, DeleteUser(u) PROVE DeletedInv'
  BY <1>0, <1>5, DeletedAround, ClearMoves DEF DeleteUser
<1>6. CASE \/ \E k \in links : Upload(k) \/ ExpireLink(k)
           \/ \E u \in users : AddMember(u) \/ RemoveMember(u)
  BY <1>0, <1>6, DeletedAround, StayMoves DEF Upload, ExpireLink, AddMember, RemoveMember
<1> QED
  BY <1>1, <1>2, <1>3, <1>4, <1>5, <1>6 DEF Next

LEMMA InitDeletedInv == Init => DeletedInv
  BY InitNamesInv, KindIdle DEF Init, DeletedInv, JobsKind, DeletedKnown, NoDanglingPicture

\* With any number of requests and users, no row goes on naming a deleted object
\* but for a deletion that is under way or ended halfway
\* (Pictures.NoDanglingPicture).
THEOREM DanglingCorrect == Spec => []NoDanglingPicture
<1>1. DeletedInv => NoDanglingPicture
  BY DEF DeletedInv
<1> QED
  BY <1>1, InitDeletedInv, DeletedInvStep, PTL DEF Spec

\* A deletion of the client's picture that is through has deleted the image
\* (Pictures.ClientPictureTakenDown).
THEOREM TakenDownCorrect == Spec => ClientPictureTakenDown
<1>1. DeletedInv /\ [Next]_vars => [TakesDown({Client})]_vars
  <2> SUFFICES ASSUME DeletedInv, [Next]_vars PROVE TakesDown({Client})
    OBVIOUS
  <2>1. deleted \subseteq deleted'
    BY DEF Next, UserRequest, ClientRequest, UpdatePicture, DeleteUserPicture,
       DeleteClientPicture, Continue, SetPicture, Reply, ClearUserPicture, DelUserObject,
       DelClientObject, ClearClientPicture, DeleteObject, Abort, Upload, ExpireLink, DeleteUser,
       AddMember, RemoveMember, vars
  <2>2. \A r \in Requests : job[r].at \in {"DelUserObject", "ClearClient"} /\ job[r].owner = Client
          => job[r].name \in deleted
    BY ClientNoUser DEF DeletedInv, JobsKind, KindJob
  <2> QED
    BY <2>1, <2>2 DEF TakesDown, Busy
<1> QED
  BY <1>1, InitDeletedInv, DeletedInvStep, PTL DEF Spec, ClientPictureTakenDown

-----------------------------------------------------------------------------
(* Links.                                                                  *)

\* Two requests about one row were noticed.
Noticed ==
  \A r, q \in Requests : r # q /\ job[r].at # "Idle" /\ job[q].at # "Idle"
                         /\ job[r].owner = job[q].owner => job[r].owner \in contended

LinkInv == DeletedInv /\ Noticed /\ LinkFitsRow

\* A step of a request, which touches no row but its own.
LEMMA LinkStep ==
  ASSUME LinkInv, DeletedInv', NEW r \in Requests, \A q \in Requests \ {r} : job'[q] = job[q],
         contended \subseteq contended', users' = users,
         job'[r].at # "Idle" =>
           \/ job[r].at # "Idle" /\ job'[r].owner = job[r].owner
           \/ \A q \in Requests \ {r} : job[q].at # "Idle" /\ job[q].owner = job'[r].owner
                => job'[r].owner \in contended',
         \/ picture' = picture
         \/ /\ job[r].at # "Idle"
            /\ \A o \in DOMAIN picture \ {job[r].owner} :
                 o \in DOMAIN picture' /\ picture'[o] = picture[o],
         job'[r].at = "Reply" =>
           job'[r].owner \in DOMAIN picture' /\ picture'[job'[r].owner] = job'[r].name
  PROVE  LinkInv'
<1> USE DEF LinkInv
<1>1. Noticed'
  <2> SUFFICES ASSUME NEW p \in Requests, NEW q \in Requests, p # q, job'[p].at # "Idle",
                      job'[q].at # "Idle", job'[p].owner = job'[q].owner
               PROVE  job'[p].owner \in contended'
    BY DEF Noticed
  <2>1. CASE p # r /\ q # r
    BY <2>1 DEF Noticed
  <2>2. CASE p = r
    BY <2>2 DEF Noticed
  <2>3. CASE q = r
    BY <2>3 DEF Noticed
  <2> QED
    BY <2>1, <2>2, <2>3
<1>2. LinkFitsRow'
  <2> SUFFICES ASSUME NEW q \in Requests, job'[q].at = "Reply",
                      job'[q].owner \in (users \cup {Client}) \ contended'
               PROVE  job'[q].owner \in DOMAIN picture' /\ picture'[job'[q].owner] = job'[q].name
    BY DEF LinkFitsRow, Waits
  <2>1. CASE q = r
    BY <2>1
  <2>2. CASE q # r
    <3>1. job'[q] = job[q] /\ job[q].owner \notin contended
      BY <2>2
    <3>2. job[q].owner \in DOMAIN picture /\ picture[job[q].owner] = job[q].name
      BY <3>1 DEF LinkFitsRow, Waits
    <3>3. job[r].at # "Idle" => job[r].owner # job[q].owner
      BY <2>2, <3>1 DEF Noticed
    <3> QED
      BY <3>1, <3>2, <3>3
  <2> QED
    BY <2>1, <2>2
<1> QED
  BY <1>1, <1>2

LEMMA LinkRequest ==
  ASSUME LinkInv, DeletedInv', NEW r \in Requests, UserRequest(r) \/ ClientRequest(r)
  PROVE  LinkInv'
<1>1. picture' = picture /\ users' = users
  BY DEF UserRequest, ClientRequest, UpdatePicture, DeleteUserPicture, DeleteClientPicture
<1>2. PICK at \in {"SetPicture", "ClearUser", "DelClientObject"}, o \in Owners, u \in Users,
           k \in Names : Start(r, [at |-> at, owner |-> o, by |-> u, name |-> k])
  BY DEF UserRequest, ClientRequest, UpdatePicture, DeleteUserPicture, DeleteClientPicture,
     Owners, FreshNames, NamesAgain, LinkInv, DeletedInv, NamesInv, TypeOK
<1> DEFINE j == [at |-> at, owner |-> o, by |-> u, name |-> k]
<1>3. /\ job' = [job EXCEPT ![r] = j] /\ j.at # "Reply" /\ j.owner = o
      /\ contended' = IF \E q \in Busy : job[q].owner = o THEN contended \cup {o} ELSE contended
  BY <1>2 DEF Start
<1> HIDE DEF j
<1>4. job'[r] = j /\ \A q \in Requests \ {r} : job'[q] = job[q]
  BY <1>3, Moves DEF LinkInv, DeletedInv, NamesInv
<1>5. \A q \in Requests \ {r} : job[q].at # "Idle" /\ job[q].owner = o => o \in contended'
  BY <1>3 DEF Busy, Waits
<1> QED
  BY <1>1, <1>3, <1>4, <1>5, LinkStep

LEMMA LinkSet ==
  ASSUME LinkInv, DeletedInv', NEW r \in Requests, SetPicture(r)
  PROVE  LinkInv'
<1> USE DEF LinkInv, DeletedInv, NamesInv
<1> DEFINE o == job[r].owner
           k == job[r].name
           j == [job[r] EXCEPT !.at = "Reply"]
<1>1. job[r].at = "SetPicture" /\ job[r] \in Jobs /\ users' = users
  BY DEF SetPicture, Waits, TypeOK
<1>2. CASE MayWrite(o, job[r].by)
  <2>1. job' = [job EXCEPT ![r] = j] /\ SetName(o, k) /\ contended' = contended
    BY <1>2 DEF SetPicture, Go, Goto
  <2>2. j.at = "Reply" /\ j.owner = o /\ j.name = k
    BY <1>1, JobGoes DEF Calls
  <2>3. job'[r] = j /\ \A q \in Requests \ {r} : job'[q] = job[q]
    BY <2>1, Moves
  <2>4. /\ o \in DOMAIN picture' /\ picture'[o] = k
        /\ \A x \in DOMAIN picture \ {o} : x \in DOMAIN picture' /\ picture'[x] = picture[x]
    BY <2>1 DEF SetName
  <2> QED
    BY <1>1, <2>1, <2>2, <2>3, <2>4, LinkStep
<1>3. CASE ~MayWrite(o, job[r].by)
  <2>1. job' = [job EXCEPT ![r] = Idle] /\ picture' = picture /\ contended' = contended
    BY <1>3 DEF SetPicture, Goto
  <2>2. job'[r] = Idle /\ \A q \in Requests \ {r} : job'[q] = job[q]
    BY <2>1, Moves
  <2> QED
    BY <1>1, <2>1, <2>2, LinkStep, IdleJob
<1> QED
  BY <1>2, <1>3

\* The other steps of requests: none of them sends a link.
LEMMA LinkGo ==
  ASSUME LinkInv, DeletedInv', NEW r \in Requests, users' = users, job[r].at # "Idle",
         Goto(r, Idle) \/ \E call \in Calls \ {"Reply"} : Go(r, call),
         picture' = picture \/ ClearName(job[r].owner)
  PROVE  LinkInv'
<1> USE DEF LinkInv, DeletedInv, NamesInv
<1>1. \/ picture' = picture
      \/ \A o \in DOMAIN picture \ {job[r].owner} :
           o \in DOMAIN picture' /\ picture'[o] = picture[o]
  BY DEF ClearName, Restrict
<1>2. CASE Goto(r, Idle)
  <2>1. contended' = contended /\ job'[r] = Idle /\ \A q \in Requests \ {r} : job'[q] = job[q]
    BY <1>2, Moves DEF Goto
  <2> QED
    BY <1>1, <2>1, LinkStep, IdleJob
<1>3. ASSUME NEW call \in Calls \ {"Reply"}, Go(r, call) PROVE LinkInv'
  <2> DEFINE j == [job[r] EXCEPT !.at = call]
  <2>1. job' = [job EXCEPT ![r] = j] /\ contended' = contended
    BY <1>3 DEF Go, Goto
  <2>2. j.at = call /\ j.owner = job[r].owner
    BY JobGoes DEF TypeOK
  <2> HIDE DEF j
  <2>3. job'[r] = j /\ \A q \in Requests \ {r} : job'[q] = job[q]
    BY <2>1, Moves
  <2> QED
    BY <1>1, <2>1, <2>2, <2>3, LinkStep
<1> QED
  BY <1>2, <1>3

LEMMA LinkContinue ==
  ASSUME LinkInv, DeletedInv', NEW r \in Requests, Continue(r) \/ Abort(r)
  PROVE  LinkInv'
<1>1. CASE SetPicture(r)
  BY <1>1, LinkSet
<1>2. CASE Reply(r) \/ DelUserObject(r) \/ DelClientObject(r) \/ Abort(r)
  BY <1>2, LinkGo
  DEF Reply, DelUserObject, DelClientObject, Abort, Waits, Busy, Calls
<1>3. CASE ClearUserPicture(r)
  BY <1>3, LinkGo DEF ClearUserPicture, Waits, Calls
<1>4. CASE ClearClientPicture(r)
  <2>1. job[r].owner = Client /\ job[r].at = "ClearClient"
    BY <1>4 DEF ClearClientPicture, Waits, LinkInv, DeletedInv, JobsKind, KindJob
  <2> QED
    BY <1>4, <2>1, LinkGo DEF ClearClientPicture
<1> QED
  BY <1>1, <1>2, <1>3, <1>4 DEF Continue

LEMMA LinkDeleteUser ==
  ASSUME LinkInv, DeletedInv', NEW u \in users, DeleteUser(u)
  PROVE  LinkInv'
<1>1. job' = job /\ contended' = contended /\ users' = users \ {u}
  BY DEF DeleteUser
<1>2. u # Client
  BY ClientNoUser DEF LinkInv, DeletedInv, NamesInv, TypeOK
<1>3. \A o \in DOMAIN picture \ {u} : o \in DOMAIN picture' /\ picture'[o] = picture[o]
  BY DEF DeleteUser, ClearName, Restrict
<1>4. LinkFitsRow'
  BY <1>1, <1>2, <1>3 DEF LinkInv, LinkFitsRow, Waits
<1> QED
  BY <1>1, <1>4 DEF LinkInv, Noticed

LEMMA LinkInvStep == LinkInv /\ [Next]_vars => LinkInv'
<1> SUFFICES ASSUME LinkInv, [Next]_vars PROVE LinkInv'
  OBVIOUS
<1>0. DeletedInv'
  BY DeletedInvStep DEF LinkInv
<1>1. ASSUME UNCHANGED <<users, picture, job, contended>> PROVE LinkInv'
  BY <1>0, <1>1 DEF LinkInv, Noticed, LinkFitsRow, Waits
<1>2. CASE UNCHANGED vars \/ (\E k \in links : Upload(k) \/ ExpireLink(k))
           \/ \E u \in users : AddMember(u) \/ RemoveMember(u)
  BY <1>1, <1>2 DEF vars, Upload, ExpireLink, AddMember, RemoveMember
<1>3. ASSUME NEW r \in Requests, UserRequest(r) \/ ClientRequest(r) PROVE LinkInv'
  BY <1>0, <1>3, LinkRequest
<1>4. ASSUME NEW r \in Requests, Continue(r) \/ Abort(r) PROVE LinkInv'
  BY <1>0, <1>4, LinkContinue
<1>5. ASSUME NEW u \in users, DeleteUser(u) PROVE LinkInv'
  BY <1>0, <1>5, LinkDeleteUser
<1> QED
  BY <1>2, <1>3, <1>4, <1>5 DEF Next

\* Whoever is sent a link finds the object that it is for in the row, unless
\* another request about the row overlaps (Pictures.LinkFitsRow).
THEOREM LinksCorrect == Spec => []LinkFitsRow
<1>1. Init => LinkInv
  BY InitDeletedInv, IdleJob DEF Init, LinkInv, Noticed, LinkFitsRow, Waits
<1>2. LinkInv => LinkFitsRow
  BY DEF LinkInv
<1> QED
  BY <1>1, <1>2, LinkInvStep, PTL DEF Spec

-----------------------------------------------------------------------------
(* Refinement.                                                             *)

LEMMA InitGallery == Init => G!Init
  BY DEF Init, G!Init, Owners

\* A step that leaves the owners and the rows alone is a stutter of Gallery.
LEMMA Stutter ==
  ASSUME UNCHANGED <<users, picture, past>>
  PROVE  UNCHANGED <<users \cup {Client}, picture, past>>
  OBVIOUS

LEMMA ClearHides ==
  ASSUME NEW o, ClearName(o), Retire(o)
  PROVE  G!Hide(o)
  BY DEF ClearName, Retire, Restrict, G!Hide, G!Former

LEMMA SetShows ==
  ASSUME NamesInv, NEW r \in Requests, SetPicture(r)
  PROVE  G!Next \/ UNCHANGED <<users \cup {Client}, picture, past>>
<1> DEFINE o == job[r].owner
           k == job[r].name
<1>1. job[r].at = "SetPicture" /\ o \in Owners /\ k \in Names
  BY JobShapes DEF SetPicture, Waits, NamesInv, TypeOK
<1>2. CASE MayWrite(o, job[r].by)
  <2>1. SetName(o, k) /\ Retire(o) /\ users' = users
    BY <1>2 DEF SetPicture
  <2>2. o \in users \cup {Client}
    BY <1>1, <1>2 DEF MayWrite, Owners
  <2>3. k \notin G!Shown \cup past
    BY <1>1 DEF NamesInv, JobsDrawn, G!Shown
  <2> HIDE DEF o, k
  <2>4. G!Show(o, k)
    BY <2>1, <2>2, <2>3 DEF SetName, Retire, G!Show, G!Former
  <2> QED
    BY <1>1, <2>4 DEF G!Next
<1>3. CASE ~MayWrite(o, job[r].by)
  BY <1>3 DEF SetPicture
<1> QED
  BY <1>2, <1>3

LEMMA ClearSteps ==
  ASSUME NamesInv, NEW r \in Requests, ClearUserPicture(r) \/ ClearClientPicture(r)
  PROVE  G!Next \/ UNCHANGED <<users \cup {Client}, picture, past>>
<1>1. users' = users
  BY DEF ClearUserPicture, ClearClientPicture
<1>2. CASE UNCHANGED <<picture, past>>
  BY <1>1, <1>2
<1>3. CASE \E o \in Owners : ClearName(o) /\ Retire(o)
  BY <1>1, <1>3, ClearHides DEF G!Next
<1> QED
  BY <1>2, <1>3 DEF ClearUserPicture, ClearClientPicture, NamesInv, TypeOK, Owners

LEMMA StepGallery ==
  ASSUME NamesInv, [Next]_vars
  PROVE  G!Next \/ UNCHANGED <<users \cup {Client}, picture, past>>
<1>1. CASE UNCHANGED vars
  BY <1>1 DEF vars
<1>2. ASSUME NEW r \in Requests, UserRequest(r) \/ ClientRequest(r)
      PROVE  UNCHANGED <<users \cup {Client}, picture, past>>
  BY <1>2 DEF UserRequest, ClientRequest, UpdatePicture, DeleteUserPicture, DeleteClientPicture
<1>3. ASSUME NEW r \in Requests, Continue(r)
      PROVE  G!Next \/ UNCHANGED <<users \cup {Client}, picture, past>>
  <2>1. CASE Reply(r) \/ DelUserObject(r) \/ DelClientObject(r)
    BY <2>1 DEF Reply, DelUserObject, DelClientObject
  <2> QED
    BY <1>3, <2>1, SetShows, ClearSteps DEF Continue
<1>4. CASE \/ \E r \in Requests : Abort(r)
           \/ \E k \in links : Upload(k) \/ ExpireLink(k)
           \/ \E u \in users : AddMember(u) \/ RemoveMember(u)
  BY <1>4 DEF Abort, Upload, ExpireLink, AddMember, RemoveMember
<1>5. ASSUME NEW u \in users, DeleteUser(u) PROVE G!Next
  <2>1. u \in Owners /\ u # Client
    BY ClientNoUser DEF NamesInv, TypeOK, Owners
  <2>2. G!Hide(u)
    BY <1>5, ClearHides DEF DeleteUser
  <2>3. (users \cup {Client})' = (users \cup {Client}) \ {u}
    BY <1>5, <2>1 DEF DeleteUser
  <2> QED
    BY <2>1, <2>2, <2>3 DEF G!Next
<1> QED
  BY <1>1, <1>2, <1>3, <1>4, <1>5 DEF Next

\* Pictures implements Gallery (Pictures.ImplementsGallery): a name that was
\* taken out of a row never comes back, and departed users show nothing.
THEOREM Refinement == Spec => ImplementsGallery
<1>1. NamesInv /\ [Next]_vars => [G!Next]_<<users \cup {Client}, picture, past>>
  BY StepGallery
<1> QED
  BY <1>1, InitGallery, InitNamesInv, NamesInvStep, PTL DEF Spec, ImplementsGallery, G!Spec

=============================================================================
