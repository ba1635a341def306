------------------------------ MODULE Gallery ------------------------------
(***************************************************************************)
(* What pictures look like from outside, without requests, links and       *)
(* objects: an owner shows at most one picture, nobody shows a picture     *)
(* that somebody showed before (so that a name never stands for two        *)
(* images, and an image that was taken down stays down), and owners who    *)
(* leave show nothing any more.                                            *)
(***************************************************************************)
CONSTANTS Owners, Names

VARIABLES
  owners,   \* those who have not left
  shown,    \* owner -> the name of the picture
  past      \* the names that were shown and are not any more

Init == owners = Owners /\ shown = <<>> /\ past = {}

Shown == {shown[o] : o \in DOMAIN shown}

\* The owner's former picture, if any.
Former(o) == {shown[x] : x \in DOMAIN shown \cap {o}}

Show(o, k) ==
  /\ o \in owners
  /\ k \notin Shown \cup past
  /\ shown' = [x \in DOMAIN shown \cup {o} |-> IF x = o THEN k ELSE shown[x]]
  /\ past' = past \cup Former(o)
  /\ UNCHANGED owners

Hide(o) ==
  /\ shown' = [x \in DOMAIN shown \ {o} |-> shown[x]]
  /\ past' = past \cup Former(o)

Next ==
  \E o \in Owners : \/ \E k \in Names : Show(o, k)
                    \/ Hide(o) /\ UNCHANGED owners
                    \/ Hide(o) /\ owners' = owners \ {o}

Spec == Init /\ [][Next]_<<owners, shown, past>>
=============================================================================
