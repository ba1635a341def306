----------------------------- MODULE MCPictures -----------------------------
(* Small instances of Pictures: users, names and request slots are         *)
(* interchangeable.                                                        *)
EXTENDS Pictures, TLC

Interchangeable == Permutations(Users) \cup Permutations(Names) \cup Permutations(Requests)
=============================================================================
