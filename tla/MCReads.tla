------------------------------ MODULE MCReads ------------------------------
(* Two users and one cid that can be put in the trash; the read and        *)
(* download bits, two blocks; a grant of block 1 runs out at block 2.      *)
EXTENDS Reads, TLC

CONSTANTS u1, u2, c1, p1, p2, r, d

UserSymmetry == Permutations(Users)

MCBits == {r, d}
MCMasks == {{r}, {r, d}}
MCDurations == 0..2

(* Bounds: the file is deleted by one of its owners only; requests whose   *)
(* answers do not depend on the path are not followed past a move to the   *)
(* trash, those that ask for any bit not past a grant or revoke of one of  *)
(* the two, nor those whose call failed to further calls.                  *)
OneDeleter == \A c \in Cids : \A u, v \in formerOwners[c] : u = v

Followed ==
  /\ OneDeleter
  /\ reader # Idle =>
       /\ reader.kind # "requests" => fileMetadata[reader.cid] \notin Trash
       /\ reader.kind # "download" => \A u \in Users : permissions[reader.cid][u] \in {{}, Bits}
  /\ failed => reader.phase \in {"answered", "denied"}
=============================================================================
