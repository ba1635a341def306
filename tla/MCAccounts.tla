----------------------------- MODULE MCAccounts -----------------------------
(* Small instances of Accounts: everything that is drawn or made up is     *)
(* interchangeable, and so are users and request slots.                    *)
EXTENDS Accounts, TLC

Interchangeable ==
  Permutations(Users) \cup Permutations(Passwords) \cup Permutations(Keys)
  \cup Permutations(Challenges) \cup Permutations(Names) \cup Permutations(Requests)

\* A behaviour is about the passwords or about the passkeys: nobody both gets a
\* second password and draws a challenge.
OneConcern ==
  \/ offered = <<>>
  \/ \A u \in Users : known[u] \subseteq {last[u]}
=============================================================================
