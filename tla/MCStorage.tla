----------------------------- MODULE MCStorage -----------------------------
(* Two users and two files; neither users nor files are told apart.        *)
EXTENDS StorageLifecycle, TLC

CONSTANTS u1, u2, c1, c2

StorageSymmetry == Permutations(Users) \cup Permutations(Cids)
=============================================================================
