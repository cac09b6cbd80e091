--------------------------- MODULE MCTransactions ---------------------------
(* An owner with two files, one in a folder and one in the folder below,   *)
(* shared with one or two others for good or for one block, and content    *)
(* that is not registered yet.                                             *)
EXTENDS Transactions, TLC

CONSTANTS o, v, w, c1, c2, c3, r

MCBits == {r}
MCMasks == {{r}}
MCDurations == {1}
MCRank == o :> 0 @@ v :> 1 @@ w :> 2
MCPaths == {<<"F", "a">>, <<"F", "G", "b">>, <<"F", "H", "c">>, <<".trash", "a">>, <<"c">>}
MCPathsOf == c1 :> {<<"F", "a">>, <<".trash", "a">>} @@ c2 :> {<<"F", "G", "b">>, <<"F", "a">>}
             @@ c3 :> {<<"F", "G", "b">>, <<"F", "H", "c">>}
MCPicks == {{c1}, {c2}, {c1, c2}, {c3}}

PathOf == c1 :> <<"F", "a">> @@ c2 :> <<"F", "G", "b">>

(* Reached by two uploads and three grants of o in block 1: v has the first *)
(* file for one block, and v and w have the second for good.               *)
MCInit ==
  /\ block = 1
  /\ fileOwner = [c \in Cids |-> IF c = c3 THEN NoOwner ELSE o]
  /\ fileMetadata = [c \in Cids |-> IF c = c3 THEN NoPath ELSE PathOf[c]]
  /\ userFiles = [u \in Users |-> IF u = o THEN {<<c, PathOf[c]>> : c \in {c1, c2}} ELSE {}]
  /\ sharedUsers = [c \in Cids |-> [u \in Users |->
       IF <<c, u>> \in {<<c1, v>>, <<c2, v>>, <<c2, w>>} THEN 1 ELSE 0]]
  /\ expiresAtBlock = [c \in Cids |-> [u \in Users |-> IF <<c, u>> = <<c1, v>> THEN 2 ELSE 0]]
  /\ sharedFiles = [u \in Users |-> [c \in Cids |-> sharedUsers[c][u]]]
  /\ permissions = [c \in Cids |-> [u \in Users |->
                       IF u = fileOwner[c] \/ sharedUsers[c][u] = 1 THEN MCBits ELSE {}]]
  /\ requests = [c \in Cids |-> [u \in Users |-> "None"]]
  /\ requesters = [c \in Cids |-> {}]
  /\ ownerPending = [u \in Users |-> {}]
  /\ pendingIndex = {}
  /\ formerOwners = [c \in Cids |-> {}]
  /\ nonce = [u \in Users |-> 0]
  /\ wallet = {}
  /\ prep = Idle

MCSpec == MCInit /\ [][TxNext]_txVars
=============================================================================
