---------------------------- MODULE FileStorage ----------------------------
(***************************************************************************)
(* The FileStorage contract (smart-contracts/contracts/FileStorage.sol):   *)
(* who owns a file, who may use it and until which block, and which        *)
(* requests for more time are open.  A transaction is one atomic step: a   *)
(* require that fails reverts it, so its condition is a guard here.        *)
(*                                                                         *)
(* Solidity's unordered arrays (every removal swaps the last element in)   *)
(* are modelled by what they contain: sharedFiles and sharedUsers by the   *)
(* number of copies of an entry, because nothing in the contract keeps an  *)
(* entry from being pushed twice; the owner's files and pending requests   *)
(* by sets.  PendingQueue models the array that needs an index exactly.    *)
(*                                                                         *)
(* A batch is a set of cids.  A batch that names a cid twice is the same   *)
(* as two transactions in one block, or (uploadFiles) reverts.             *)
(***************************************************************************)
EXTENDS Integers

CONSTANTS
  Users,        \* addresses that send transactions or receive grants
  Cids,         \* content ids: equal bytes have equal cids
  Paths,        \* what FileMetadata.filename holds
  NoOwner,      \* address(0)
  NoPath,       \* the filename of a metadata slot that was never set
  Bits,         \* the bits of a permission word
  OwnerBits,    \* 0xFF: what an upload gives its sender
  Masks,        \* the masks callers pass
  Durations,    \* the durationBlocks callers pass
  MaxUint,      \* 2^256 - 1: checked arithmetic reverts above it
  MaxBlock,     \* bound of the model: last block that is mined
  MaxCopies     \* bound of the model: copies of one entry in a list

ASSUME FileStorageAssumption ==
  /\ NoOwner \notin Users
  /\ NoPath \notin Paths
  /\ OwnerBits \subseteq Bits
  /\ OwnerBits # {}
  /\ Masks \subseteq SUBSET Bits
  /\ Durations \subseteq Nat
  /\ MaxUint \in Nat
  /\ MaxBlock \in Nat
  /\ MaxCopies \in Nat

VARIABLES
  block,            \* block.number
  fileOwner,        \* cid -> owner, NoOwner when the file does not exist
  fileMetadata,     \* cid -> path
  userFiles,        \* owner -> set of <<cid, path>>
  sharedFiles,      \* user -> cid -> copies of the cid in the user's list
  sharedUsers,      \* cid -> user -> copies of the user in the file's list
  permissions,      \* cid -> user -> set of bits
  expiresAtBlock,   \* cid -> user -> block, 0 for no expiry
  requests,         \* cid -> user -> status of the user's request
  requesters,       \* cid -> users with a request, resolved or not
  ownerPending,     \* owner -> keys <<cid, requester>> in the owner's queue
  pendingIndex,     \* the keys whose slot number is not 0
  formerOwners      \* history: cid -> users who once deleted it as its owner

listVars    == <<sharedFiles, sharedUsers>>
fileVars    == <<fileOwner, fileMetadata, userFiles, formerOwners>>
accessVars  == <<permissions, expiresAtBlock>>
requestVars == <<requests, requesters, ownerPending, pendingIndex>>
vars == <<block, fileVars, listVars, accessVars, requestVars>>

Status == {"None", "Pending", "Approved", "Denied", "Cancelled"}
Keys   == Cids \X Users

Init ==
  /\ block = 1
  /\ fileOwner = [c \in Cids |-> NoOwner]
  /\ fileMetadata = [c \in Cids |-> NoPath]
  /\ userFiles = [u \in Users |-> {}]
  /\ sharedFiles = [u \in Users |-> [c \in Cids |-> 0]]
  /\ sharedUsers = [c \in Cids |-> [u \in Users |-> 0]]
  /\ permissions = [c \in Cids |-> [u \in Users |-> {}]]
  /\ expiresAtBlock = [c \in Cids |-> [u \in Users |-> 0]]
  /\ requests = [c \in Cids |-> [u \in Users |-> "None"]]
  /\ requesters = [c \in Cids |-> {}]
  /\ ownerPending = [u \in Users |-> {}]
  /\ pendingIndex = {}
  /\ formerOwners = [c \in Cids |-> {}]

(***************************************************************************)
(* What the contract answers: an expiry that the block number has reached  *)
(* masks whatever is still stored.                                         *)
(***************************************************************************)
EffectivePermissions(c, u) ==
  IF expiresAtBlock[c][u] # 0 /\ block >= expiresAtBlock[c][u]
  THEN {} ELSE permissions[c][u]

IsFileOwner(o, cs) == \A c \in cs : fileOwner[c] = o

-----------------------------------------------------------------------------
(* Registering, moving and deleting files.                                 *)

UploadEach(o, cs, path) ==
  /\ IsFileOwner(NoOwner, cs)
  /\ fileMetadata' = [c \in Cids |-> IF c \in cs THEN path[c] ELSE fileMetadata[c]]
  /\ userFiles' = [userFiles EXCEPT ![o] = @ \cup {<<c, path[c]>> : c \in cs}]
  /\ fileOwner' = [c \in Cids |-> IF c \in cs THEN o ELSE fileOwner[c]]
  /\ permissions' = [c \in Cids |-> [u \in Users |->
        IF c \in cs /\ u = o THEN OwnerBits ELSE permissions[c][u]]]
  /\ UNCHANGED <<block, expiresAtBlock, listVars, requestVars, formerOwners>>

UploadFile(o, c, p) == UploadEach(o, {c}, [x \in {c} |-> p])

UploadFiles(o, cs, path) == UploadEach(o, cs, path)

(* Mutant: the owner's copy of the metadata keeps the old path.            *)
MoveWithoutOwnersCopy(o, cs, path) ==
  /\ IsFileOwner(o, cs)
  /\ fileMetadata' = [c \in Cids |-> IF c \in cs THEN path[c] ELSE fileMetadata[c]]
  /\ UNCHANGED <<block, fileOwner, userFiles, listVars, accessVars, requestVars, formerOwners>>

MoveEach(o, cs, path) ==
  /\ IsFileOwner(o, cs)
  /\ fileMetadata' = [c \in Cids |-> IF c \in cs THEN path[c] ELSE fileMetadata[c]]
  /\ userFiles' = [userFiles EXCEPT ![o] =
        {<<f[1], IF f[1] \in cs THEN path[f[1]] ELSE f[2]>> : f \in @}]
  /\ UNCHANGED <<block, fileOwner, listVars, accessVars, requestVars, formerOwners>>

MoveFile(o, c, p) == MoveEach(o, {c}, [x \in {c} |-> p])

MoveFiles(o, cs, path) == MoveEach(o, cs, path)

AddPending(c, o, u) ==
  IF <<c, u>> \in pendingIndex
  THEN UNCHANGED <<ownerPending, pendingIndex>>
  ELSE /\ ownerPending' = [ownerPending EXCEPT ![o] = @ \cup {<<c, u>>}]
       /\ pendingIndex' = pendingIndex \cup {<<c, u>>}

(* Mutant: the slot number of a removed key is not deleted.                *)
RemovePendingKeepIndex(o, ks) ==
  /\ ownerPending' = [ownerPending EXCEPT ![o] = @ \ (ks \cap pendingIndex)]
  /\ UNCHANGED pendingIndex

RemovePending(o, ks) ==
  /\ ownerPending' = [ownerPending EXCEPT ![o] = @ \ (ks \cap pendingIndex)]
  /\ pendingIndex' = pendingIndex \ ks

(* Deleting cs takes one copy of the cid out of a user's list for each     *)
(* copy of the user in the file's list, and clears the bits and the expiry *)
(* of the users in that list.  The owner's own, set by the upload, stay.   *)
PopRecipients(cs) ==
  /\ sharedFiles' = [u \in Users |-> [c \in Cids |->
        IF c \notin cs THEN sharedFiles[u][c]
        ELSE IF sharedFiles[u][c] > sharedUsers[c][u]
             THEN sharedFiles[u][c] - sharedUsers[c][u] ELSE 0]]
  /\ permissions' = [c \in Cids |-> [u \in Users |->
        IF c \in cs /\ sharedUsers[c][u] > 0 THEN {} ELSE permissions[c][u]]]

ClearExpiry(cs) == expiresAtBlock' = [c \in Cids |-> [u \in Users |->
  IF c \in cs /\ sharedUsers[c][u] > 0 THEN 0 ELSE expiresAtBlock[c][u]]]

ClearSharedUsers(cs) == sharedUsers' = [c \in Cids |-> [u \in Users |->
  IF c \in cs THEN 0 ELSE sharedUsers[c][u]]]

(* Mutant: the gap that the last comment in deleteFile says is fixed.      *)
DropRecipientsKeepList(cs) ==
  PopRecipients(cs) /\ ClearExpiry(cs) /\ UNCHANGED sharedUsers

(* Mutant: the expiry of a recipient survives the delete.                  *)
DropRecipientsKeepExpiry(cs) ==
  PopRecipients(cs) /\ ClearSharedUsers(cs) /\ UNCHANGED expiresAtBlock

DropRecipients(cs) == PopRecipients(cs) /\ ClearExpiry(cs) /\ ClearSharedUsers(cs)

(* Mutant: only those who still are recipients lose their requests.        *)
DropRecipientsRequests(o, cs) ==
  /\ RemovePending(o, {k \in Keys : k[1] \in cs /\ sharedUsers[k[1]][k[2]] > 0})
  /\ requests' = [c \in Cids |-> [u \in Users |->
        IF c \in cs /\ sharedUsers[c][u] > 0 THEN "None" ELSE requests[c][u]]]
  /\ requesters' = [c \in Cids |-> IF c \in cs THEN {} ELSE requesters[c]]

DropRequests(o, cs) ==
  /\ RemovePending(o, {k \in Keys : k[1] \in cs /\ k[2] \in requesters[k[1]]})
  /\ requests' = [c \in Cids |-> [u \in Users |->
        IF c \in cs /\ u \in requesters[c] THEN "None" ELSE requests[c][u]]]
  /\ requesters' = [c \in Cids |-> IF c \in cs THEN {} ELSE requesters[c]]

(* Deletes files that o owns.                                              *)
DeleteEach(o, cs) ==
  /\ userFiles' = [userFiles EXCEPT ![o] = {f \in @ : f[1] \notin cs}]
  /\ DropRecipients(cs)
  /\ DropRequests(o, cs)
  /\ fileMetadata' = [c \in Cids |-> IF c \in cs THEN NoPath ELSE fileMetadata[c]]
  /\ fileOwner' = [c \in Cids |-> IF c \in cs THEN NoOwner ELSE fileOwner[c]]
  /\ formerOwners' = [c \in Cids |->
        IF c \in cs THEN formerOwners[c] \cup {o} ELSE formerOwners[c]]
  /\ UNCHANGED block

DeleteFile(o, c) == IsFileOwner(o, {c}) /\ DeleteEach(o, {c})

(* A folder delete skips the cids its sender does not own.                 *)
CleanFolder(o, cs) == DeleteEach(o, {c \in cs : fileOwner[c] = o})

-----------------------------------------------------------------------------
(* Granting and revoking.                                                  *)

(* Mutant: asks whether the user has access now, not whether bits are kept.*)
NoAccessNow(c, u) == EffectivePermissions(c, u) = {}

(* Whether _grant takes the user for new to the file and lists them.       *)
FirstGrant(c, u) == permissions[c][u] = {}

(* The MaxCopies conjunct is the model's bound, the others are the code's. *)
GrantEach(o, cs, u, mask, d) ==
  /\ IsFileOwner(o, cs)
  /\ block + d <= MaxUint
  /\ \A c \in cs : FirstGrant(c, u) => sharedFiles[u][c] < MaxCopies
  /\ sharedFiles' = [v \in Users |-> [c \in Cids |->
        IF v = u /\ c \in cs /\ FirstGrant(c, v)
        THEN sharedFiles[v][c] + 1 ELSE sharedFiles[v][c]]]
  /\ sharedUsers' = [c \in Cids |-> [v \in Users |->
        IF v = u /\ c \in cs /\ FirstGrant(c, v)
        THEN sharedUsers[c][v] + 1 ELSE sharedUsers[c][v]]]
  /\ permissions' = [c \in Cids |-> [v \in Users |->
        IF v = u /\ c \in cs THEN permissions[c][v] \cup mask ELSE permissions[c][v]]]
  /\ expiresAtBlock' = [c \in Cids |-> [v \in Users |->
        IF v = u /\ c \in cs THEN (IF d = 0 THEN 0 ELSE block + d)
        ELSE expiresAtBlock[c][v]]]

Grant(o, c, u, mask) ==
  GrantEach(o, {c}, u, mask, 0) /\ UNCHANGED <<block, fileVars, requestVars>>

GrantFiles(o, cs, u, mask) ==
  GrantEach(o, cs, u, mask, 0) /\ UNCHANGED <<block, fileVars, requestVars>>

GrantWithExpiry(o, c, u, mask, d) ==
  /\ d > 0
  /\ GrantEach(o, {c}, u, mask, d)
  /\ UNCHANGED <<block, fileVars, requestVars>>

GrantWithExpiryFiles(o, cs, u, mask, d) ==
  /\ d > 0
  /\ GrantEach(o, cs, u, mask, d)
  /\ UNCHANGED <<block, fileVars, requestVars>>

(* Mutant: pops although the entry was not found.                          *)
OneLessUnchecked(n) == n - 1

OneLess(n) == IF n > 0 THEN n - 1 ELSE 0

(* Mutant: the file's list of recipients is left alone.                    *)
PopUsersListOnly(cs, u) ==
  /\ sharedFiles' = [v \in Users |-> [c \in Cids |->
        IF v = u /\ c \in cs THEN OneLess(sharedFiles[v][c]) ELSE sharedFiles[v][c]]]
  /\ UNCHANGED sharedUsers

(* Mutant: the user's list of files is left alone.                         *)
PopFilesListOnly(cs, u) ==
  /\ sharedUsers' = [c \in Cids |-> [v \in Users |->
        IF v = u /\ c \in cs THEN OneLess(sharedUsers[c][v]) ELSE sharedUsers[c][v]]]
  /\ UNCHANGED sharedFiles

PopListed(cs, u) ==
  /\ sharedFiles' = [v \in Users |-> [c \in Cids |->
        IF v = u /\ c \in cs THEN OneLess(sharedFiles[v][c]) ELSE sharedFiles[v][c]]]
  /\ sharedUsers' = [c \in Cids |-> [v \in Users |->
        IF v = u /\ c \in cs THEN OneLess(sharedUsers[c][v]) ELSE sharedUsers[c][v]]]

(* Mutant: whatever a revoke leaves of the bits.                           *)
EmptiedAny(cs, u, mask) == cs

(* The files a revoke takes the last bit of: they lose the expiry and one  *)
(* copy in each list.                                                      *)
Emptied(cs, u, mask) == {c \in cs : permissions[c][u] \subseteq mask}

RevokeEach(o, cs, u, mask) ==
  /\ IsFileOwner(o, cs)
  /\ permissions' = [c \in Cids |-> [v \in Users |->
        IF v = u /\ c \in cs THEN permissions[c][v] \ mask ELSE permissions[c][v]]]
  /\ expiresAtBlock' = [c \in Cids |-> [v \in Users |->
        IF v = u /\ c \in Emptied(cs, u, mask) THEN 0 ELSE expiresAtBlock[c][v]]]
  /\ PopListed(Emptied(cs, u, mask), u)
  /\ UNCHANGED <<block, fileVars, requestVars>>

Revoke(o, c, u, mask) == RevokeEach(o, {c}, u, mask)

RevokeFiles(o, cs, u, mask) == RevokeEach(o, cs, u, mask)

-----------------------------------------------------------------------------
(* Asking for more time.                                                   *)

SetStatus(c, u, status) == requests' = [requests EXCEPT ![c][u] = status]

(* Mutant: anyone without access may ask.                                  *)
RequestWithoutGrant(u, c, d) ==
  /\ fileOwner[c] \notin {NoOwner, u}
  /\ d > 0
  /\ EffectivePermissions(c, u) = {}
  /\ requests[c][u] # "Pending"
  /\ requesters' = [requesters EXCEPT ![c] = @ \cup {u}]
  /\ SetStatus(c, u, "Pending")
  /\ AddPending(c, fileOwner[c], u)
  /\ UNCHANGED <<block, fileVars, listVars, accessVars>>

RequestAccess(u, c, d) ==
  /\ fileOwner[c] # NoOwner
  /\ u # fileOwner[c]
  /\ d > 0
  /\ expiresAtBlock[c][u] # 0
  /\ EffectivePermissions(c, u) = {}
  /\ requests[c][u] # "Pending"
  /\ requesters' = [requesters EXCEPT ![c] = @ \cup {u}]
  /\ SetStatus(c, u, "Pending")
  /\ AddPending(c, fileOwner[c], u)
  /\ UNCHANGED <<block, fileVars, listVars, accessVars>>

(* Resolves the pending request of u for c, in the queue of the owner.     *)
Resolve(c, u, status) ==
  /\ requests[c][u] = "Pending"
  /\ SetStatus(c, u, status)
  /\ RemovePending(fileOwner[c], {<<c, u>>})
  /\ UNCHANGED requesters

CancelRequest(u, c) ==
  /\ Resolve(c, u, "Cancelled")
  /\ UNCHANGED <<block, fileVars, listVars, accessVars>>

(* Mutant: an approval may have no end.                                    *)
ApproveWithoutDuration(o, c, u, mask, d) ==
  /\ Resolve(c, u, "Approved")
  /\ GrantEach(o, {c}, u, mask, d)
  /\ UNCHANGED <<block, fileVars>>

ApproveRequest(o, c, u, mask, d) ==
  /\ Resolve(c, u, "Approved")
  /\ d > 0
  /\ GrantEach(o, {c}, u, mask, d)
  /\ UNCHANGED <<block, fileVars>>

DenyRequest(o, c, u) ==
  /\ IsFileOwner(o, {c})
  /\ Resolve(c, u, "Denied")
  /\ UNCHANGED <<block, fileVars, listVars, accessVars>>

-----------------------------------------------------------------------------
(* A block is mined; MaxBlock bounds the model, not the chain.             *)
Mine ==
  /\ block < MaxBlock
  /\ block' = block + 1
  /\ UNCHANGED <<fileVars, listVars, accessVars, requestVars>>

(* A batch names at least one cid; without any it changes nothing.         *)
Batches == {cs \in SUBSET Cids : cs # {}}

FileTx(o) ==
  \/ \E c \in Cids, p \in Paths : UploadFile(o, c, p) \/ MoveFile(o, c, p)
  \/ \E c \in Cids : DeleteFile(o, c)
  \/ \E cs \in Batches :
       \/ CleanFolder(o, cs)
       \/ \E path \in [cs -> Paths] : UploadFiles(o, cs, path) \/ MoveFiles(o, cs, path)

SharingTx(o) == \E u \in Users, mask \in Masks :
  \/ \E c \in Cids :
       \/ Grant(o, c, u, mask)
       \/ Revoke(o, c, u, mask)
       \/ \E d \in Durations : GrantWithExpiry(o, c, u, mask, d)
  \/ \E cs \in Batches :
       \/ GrantFiles(o, cs, u, mask)
       \/ RevokeFiles(o, cs, u, mask)
       \/ \E d \in Durations : GrantWithExpiryFiles(o, cs, u, mask, d)

RequestTx(s) == \E c \in Cids :
  \/ CancelRequest(s, c)
  \/ \E d \in Durations : RequestAccess(s, c, d)
  \/ \E u \in Users :
       \/ DenyRequest(s, c, u)
       \/ \E mask \in Masks, d \in Durations : ApproveRequest(s, c, u, mask, d)

Next == Mine \/ \E s \in Users : FileTx(s) \/ SharingTx(s) \/ RequestTx(s)

Spec == Init /\ [][Next]_vars

-----------------------------------------------------------------------------
TypeOK ==
  /\ block \in Nat
  /\ fileOwner \in [Cids -> Users \cup {NoOwner}]
  /\ fileMetadata \in [Cids -> Paths \cup {NoPath}]
  /\ userFiles \in [Users -> SUBSET (Cids \X Paths)]
  /\ sharedFiles \in [Users -> [Cids -> Nat]]
  /\ sharedUsers \in [Cids -> [Users -> Nat]]
  /\ permissions \in [Cids -> [Users -> SUBSET Bits]]
  /\ expiresAtBlock \in [Cids -> [Users -> Nat]]
  /\ requests \in [Cids -> [Users -> Status]]
  /\ requesters \in [Cids -> SUBSET Users]
  /\ ownerPending \in [Users -> SUBSET Keys]
  /\ pendingIndex \in SUBSET Keys
  /\ formerOwners \in [Cids -> SUBSET Users]

-----------------------------------------------------------------------------
(* What the contract keeps true.  The conjuncts of IInv are inductive      *)
(* together, whatever masks the callers pass.                              *)

(* The two copies of the sharing relation agree: a file is as often in a   *)
(* user's list as the user is in the file's list (_grant, _revoke and      *)
(* deleteFile each edit both arrays by hand).                              *)
MirrorLists == \A c \in Cids, u \in Users : sharedFiles[u][c] = sharedUsers[c][u]

(* The owner's array of files, fileOwner and fileMetadata agree on which   *)
(* files exist, whose they are and at which path, through moves, deletes   *)
(* and re-uploads.                                                         *)
OwnerIndex == \A c \in Cids :
  /\ \A u \in Users, p \in Paths :
       <<c, p>> \in userFiles[u] <=> fileOwner[c] = u /\ fileMetadata[c] = p
  /\ fileOwner[c] = NoOwner <=> fileMetadata[c] = NoPath

(* An owner's queue holds exactly the pending requests for the owner's     *)
(* files, so every pending request can be seen and resolved by the one     *)
(* address that may resolve it, and the slot index knows it.               *)
PendingQueueExact ==
  /\ \A c \in Cids, u \in Users, o \in Users :
       <<c, u>> \in ownerPending[o] <=> fileOwner[c] = o /\ requests[c][u] = "Pending"
  /\ \A c \in Cids, u \in Users : <<c, u>> \in pendingIndex <=> requests[c][u] = "Pending"

(* _requesters lists exactly the users with a request on record, which is  *)
(* what deleteFile walks to leave none behind; a request on record is      *)
(* about an existing file and never its owner's.                           *)
RequestersExact == \A c \in Cids, u \in Users :
  /\ requests[c][u] # "None" <=> u \in requesters[c]
  /\ requests[c][u] # "None" => fileOwner[c] \notin {NoOwner, u}

(* Whoever has bits or an expiry stored for a cid is its owner, is in its  *)
(* list of recipients, or deleted it once as its owner: no other access    *)
(* survives a delete or appears for a file that is uploaded again.         *)
AccessAccountedFor == \A c \in Cids, u \in Users :
  permissions[c][u] # {} \/ expiresAtBlock[c][u] # 0 =>
    sharedUsers[c][u] > 0 \/ fileOwner[c] = u \/ u \in formerOwners[c]

(* A cid that no longer exists is in no list and no queue, and only those  *)
(* who deleted it as its owner keep bits on it (deleteFile).               *)
DeadFilesAreClean == \A c \in Cids, u \in Users : fileOwner[c] = NoOwner =>
  /\ sharedUsers[c][u] = 0 /\ sharedFiles[u][c] = 0
  /\ requests[c][u] = "None"
  /\ \A o \in Users : <<c, u>> \notin ownerPending[o]
  /\ permissions[c][u] # {} => u \in formerOwners[c]

IInv ==
  /\ TypeOK
  /\ MirrorLists
  /\ OwnerIndex
  /\ PendingQueueExact
  /\ RequestersExact
  /\ AccessAccountedFor
  /\ DeadFilesAreClean

-----------------------------------------------------------------------------
(* What the contract keeps true as long as no caller passes the mask 0.    *)

NoZeroMask == {} \notin Masks

(* A recipient is listed once and only while bits are stored for them, so  *)
(* one complete revoke takes the file out of their list; an expiry is      *)
(* stored only beside bits.                                                *)
ListedOnce == \A c \in Cids, u \in Users :
  /\ sharedUsers[c][u] <= 1
  /\ sharedUsers[c][u] = 1 => permissions[c][u] # {}
  /\ expiresAtBlock[c][u] # 0 => permissions[c][u] # {}

(* A request is opened only by a user who holds a timed grant that has run *)
(* out ("you had it and lost it", the comment on requestAccess).           *)
RequestsAreAboutLapsedGrants == [][\A c \in Cids, u \in Users :
  requests[c][u] # "Pending" /\ requests'[c][u] = "Pending" =>
    permissions[c][u] # {} /\ expiresAtBlock[c][u] \in 1..block]_vars

(* When a request becomes approved its requester can use the file in the   *)
(* same block, for a limited time, and is in the lists that a later revoke *)
(* or delete walks, unless they deleted the file once as its owner: their  *)
(* old bits make _grant take them for listed.                              *)
ApprovalGrantsAccess == [][\A c \in Cids, u \in Users :
  requests[c][u] = "Pending" /\ requests'[c][u] = "Approved" =>
    /\ EffectivePermissions(c, u)' # {}
    /\ expiresAtBlock'[c][u] > block'
    /\ sharedUsers'[c][u] > 0 \/ u \in formerOwners[c]]_vars

=============================================================================
