--------------------------- MODULE MCVerification ---------------------------
(* Small instances of Verification: uuids are interchangeable, and so are  *)
(* codes and request slots.                                                *)
EXTENDS Verification, TLC

Interchangeable == Permutations(Users) \cup Permutations(Values) \cup Permutations(Requests)
=============================================================================
