--------------------------- MODULE MCFileStorage ---------------------------
(* A small instance of the contract: one cid, the read bit, masks with and *)
(* without it, and durations one of which is too long in the last block.   *)
EXTENDS FileStorage, FiniteSets, TLC

CONSTANTS u1, u2, u3, c1, p1, r

UserSymmetry == Permutations(Users)

MCBits == {r}
MCMasks == {{}, {r}}
MCDurations == {1, 2}

(* Bounds of the run: what two owners have deleted, two users are listed   *)
(* for twice, or two have had answered or cancelled, is checked and not    *)
(* followed further.                                                       *)
Followed == \A c \in Cids :
  /\ Cardinality(formerOwners[c]) <= 1
  /\ Cardinality({u \in Users : sharedUsers[c][u] > 1}) <= 1
  /\ Cardinality({u \in Users : requests[c][u] \notin {"None", "Pending"}}) <= 1
=============================================================================
