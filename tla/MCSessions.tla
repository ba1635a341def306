----------------------------- MODULE MCSessions -----------------------------
(* Small instances of Sessions, without symmetry: liveness is checked.     *)
EXTENDS Sessions

\* Failures hit one of the logins at a time; nothing obliges a call to fail,
\* so that no fairness speaks of the steps left out.
OneFails == \A l, m \in failed' : l = m
=============================================================================
