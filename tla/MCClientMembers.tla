-------------------------- MODULE MCClientMembers --------------------------
(* Small instances of ClientMembers: users are interchangeable, and so are *)
(* request slots.                                                          *)
EXTENDS ClientMembers, TLC

Interchangeable == Permutations(Users) \cup Permutations(Requests)
=============================================================================
