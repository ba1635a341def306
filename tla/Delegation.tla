---------------------------- MODULE Delegation ----------------------------
(***************************************************************************)
(* What the authorization server promises about delegated access, without  *)
(* codes, tokens, stores or requests: a client holds rights over a user's  *)
(* data only because the user's consent covered them at the moment they    *)
(* were delegated, and a right that has lapsed everywhere does not come    *)
(* back until it is delegated again.                                       *)
(***************************************************************************)
CONSTANTS Users, Clients, ClientScopes, TokenScopes

VARIABLES
  consent,   \* <<user, client>> -> the scopes the user consents to now
  live       \* the rights that some code, token or request still carries

Init == consent = <<>> /\ live = {}

\* The user agrees, for the first time or anew; nothing is delegated by it.
Agree(u, c, S) ==
  /\ consent' = [k \in DOMAIN consent \cup {<<u, c>>} |->
                   IF k = <<u, c>> THEN S ELSE consent[k]]
  /\ UNCHANGED live

\* Rights are delegated under the consent of this moment.
Delegate(u, c, S) ==
  /\ <<u, c>> \in DOMAIN consent
  /\ S \subseteq consent[<<u, c>>] \cup TokenScopes
  /\ live' = live \cup {[user |-> u, client |-> c, scope |-> S]}
  /\ UNCHANGED consent

\* Rights lapse: used up, revoked, expired or lost.
Lapse == live' \in SUBSET live /\ UNCHANGED consent

\* The user leaves, and with them their consents and some of the rights.
Leave(u) ==
  /\ consent' = [k \in {x \in DOMAIN consent : x[1] # u} |-> consent[k]]
  /\ live' \in SUBSET live

Next ==
  \/ \E u \in Users, c \in Clients :
       \/ \E S \in SUBSET ClientScopes : Agree(u, c, S)
       \/ \E S \in SUBSET (ClientScopes \cup TokenScopes) : Delegate(u, c, S)
  \/ Lapse
  \/ \E u \in Users : Leave(u)

Spec == Init /\ [][Next]_<<consent, live>>
=============================================================================
