------------------------------- MODULE Views -------------------------------
(***************************************************************************)
(* What the contract answers to those who only read it.  A view is a       *)
(* single call, so it sees one state of the chain; handlers that make      *)
(* several calls are in Reads and Transactions.                            *)
(***************************************************************************)
EXTENDS FileStorage, Sequences

(* Owned files first, then the files shared with the user.                 *)
UserFiles(u) == userFiles[u] \cup
  {<<c, fileMetadata[c]>> : c \in {x \in Cids : sharedFiles[u][x] > 0}}

SharedUsersOf(c) == {u \in Users : sharedUsers[c][u] > 0}

PendingRequests(o) == ownerPending[o]

(* The grant of u is stored and its block has come: u had access and lost  *)
(* it without being revoked.                                               *)
Lapsed(c, u) == permissions[c][u] # {} /\ expiresAtBlock[c][u] \in 1..block

HasAccess(c, u) == EffectivePermissions(c, u) # {}

-----------------------------------------------------------------------------
(* POST /shared-users-batch: who a folder is shared with, one row for each *)
(* user in the list of one of its files.  The cids are taken in the order  *)
(* given; each call reads the chain, here all of them the same state.      *)

(* Mutant: no expiry counts as the soonest.                                *)
SoonerOrNone(old, new) == IF new < old THEN new ELSE old

(* The soonest deadline so far and that of another file, 0 for none.       *)
Sooner(old, new) == IF new # 0 /\ (old = 0 \/ new < old) THEN new ELSE old

NoRows == [best |-> [u \in {} |-> 0], live |-> {}]

(* The rows after one more file: best is the soonest deadline of each user *)
(* in a list, live those who can use one of the files.                     *)
WithFile(o, rows, c) ==
  LET here == IF fileOwner[c] = o THEN SharedUsersOf(c) ELSE {}
  IN  [best |-> [u \in DOMAIN rows.best \cup here |->
          IF u \notin here THEN rows.best[u]
          ELSE IF u \notin DOMAIN rows.best THEN expiresAtBlock[c][u]
          ELSE Sooner(rows.best[u], expiresAtBlock[c][u])],
       live |-> rows.live \cup {u \in here : HasAccess(c, u)}]

FolderRows(o, cids) ==
  LET Rows[i \in 0..Len(cids)] ==
        IF i = 0 THEN NoRows ELSE WithFile(o, Rows[i - 1], cids[i])
  IN  Rows[Len(cids)]

(* What the folder's owner is told of its recipients: whoever is listed    *)
(* for one of the files, lapsed only if they can use none of them, with    *)
(* the soonest deadline of any, whatever the order of the files.           *)
RowsAreRight(o, cids) ==
  LET rows == FolderRows(o, cids)
      own  == {c \in {cids[i] : i \in 1..Len(cids)} : fileOwner[c] = o}
      ends(u) == {expiresAtBlock[c][u] : c \in {c \in own : u \in SharedUsersOf(c)}}
  IN  /\ DOMAIN rows.best = UNION {SharedUsersOf(c) : c \in own}
      /\ \A u \in DOMAIN rows.best :
           /\ u \in rows.live <=> \E c \in own : u \in SharedUsersOf(c) /\ HasAccess(c, u)
           /\ rows.best[u] \in ends(u)
           /\ \A b \in ends(u) : b # 0 => rows.best[u] \in 1..b

(* Every folder of two files; two already meet in every order.             *)
FolderRowsAreRight == \A o \in Users, cids \in [1..2 -> Cids] : RowsAreRight(o, cids)
=============================================================================
