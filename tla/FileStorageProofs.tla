------------------------- MODULE FileStorageProofs -------------------------
(***************************************************************************)
(* What holds of the contract for every set of users, files, masks and     *)
(* durations.  TypeOK comes first, from one lemma per kind of transaction; *)
(* the other conjuncts of IInv follow the same layout.  What holds as long *)
(* as no caller passes the mask 0 is at the end.                           *)
(***************************************************************************)
EXTENDS FileStorage, TLAPS

(***************************************************************************)
(* Types: one lemma per transaction kind.                                  *)
(***************************************************************************)
(* Registering a set of cids (_uploadFile) keeps the types.                *)
LEMMA TypeUpload ==
  ASSUME TypeOK, NEW o \in Users, NEW cs \in SUBSET Cids, NEW path \in [cs -> Paths],
         UploadEach(o, cs, path)
  PROVE  TypeOK'
<1>1. {<<c, path[c]>> : c \in cs} \subseteq Cids \X Paths
  OBVIOUS
<1>2. userFiles' \in [Users -> SUBSET (Cids \X Paths)]
  BY <1>1 DEF TypeOK, UploadEach
<1>3. fileMetadata' \in [Cids -> Paths \cup {NoPath}] /\ fileOwner' \in [Cids -> Users \cup {NoOwner}]
  BY DEF TypeOK, UploadEach
<1>4. permissions' \in [Cids -> [Users -> SUBSET Bits]]
  BY FileStorageAssumption DEF TypeOK, UploadEach
<1> QED
  BY <1>2, <1>3, <1>4 DEF TypeOK, UploadEach, listVars, requestVars

(* Moving a set of cids (_moveFile) keeps the types.                       *)
LEMMA TypeMove ==
  ASSUME TypeOK, NEW o \in Users, NEW cs \in SUBSET Cids, NEW path \in [cs -> Paths],
         MoveEach(o, cs, path)
  PROVE  TypeOK'
<1>1. {<<f[1], IF f[1] \in cs THEN path[f[1]] ELSE f[2]>> : f \in userFiles[o]}
        \subseteq Cids \X Paths
  BY DEF TypeOK
<1>2. userFiles' \in [Users -> SUBSET (Cids \X Paths)]
  BY <1>1 DEF TypeOK, MoveEach
<1>3. fileMetadata' \in [Cids -> Paths \cup {NoPath}]
  BY DEF TypeOK, MoveEach
<1> QED
  BY <1>2, <1>3 DEF TypeOK, MoveEach, listVars, requestVars, accessVars

(* Removing keys from a queue (_removePending) keeps its types.            *)
LEMMA TypeRemovePending ==
  ASSUME TypeOK, NEW o, NEW ks, RemovePending(o, ks)
  PROVE  ownerPending' \in [Users -> SUBSET Keys] /\ pendingIndex' \in SUBSET Keys
  BY DEF TypeOK, RemovePending

(* Deleting a set of cids (deleteFile, cleanFolder) keeps the types.       *)
LEMMA TypeDelete ==
  ASSUME TypeOK, NEW o \in Users, NEW cs \in SUBSET Cids, DeleteEach(o, cs)
  PROVE  TypeOK'
<1>1. userFiles' \in [Users -> SUBSET (Cids \X Paths)]
  BY DEF TypeOK, DeleteEach
<1>2. sharedFiles' \in [Users -> [Cids -> Nat]] /\ sharedUsers' \in [Cids -> [Users -> Nat]]
  BY DEF TypeOK, DeleteEach, DropRecipients, PopRecipients, ClearSharedUsers
<1>3. permissions' \in [Cids -> [Users -> SUBSET Bits]]
  BY DEF TypeOK, DeleteEach, DropRecipients, PopRecipients
<1>4. expiresAtBlock' \in [Cids -> [Users -> Nat]]
  BY DEF TypeOK, DeleteEach, DropRecipients, ClearExpiry
<1>5. ownerPending' \in [Users -> SUBSET Keys] /\ pendingIndex' \in SUBSET Keys
  BY TypeRemovePending DEF DeleteEach, DropRequests
<1>6. requests' \in [Cids -> [Users -> Status]] /\ requesters' \in [Cids -> SUBSET Users]
  BY DEF TypeOK, DeleteEach, DropRequests, Status
<1>7. /\ fileMetadata' \in [Cids -> Paths \cup {NoPath}]
      /\ fileOwner' \in [Cids -> Users \cup {NoOwner}]
      /\ formerOwners' \in [Cids -> SUBSET Users]
      /\ block' \in Nat
  BY DEF TypeOK, DeleteEach
<1> QED
  BY <1>1, <1>2, <1>3, <1>4, <1>5, <1>6, <1>7 DEF TypeOK

(* Granting on a set of cids (_grant) keeps the types.                     *)
LEMMA TypeGrant ==
  ASSUME TypeOK, NEW o \in Users, NEW cs \in SUBSET Cids, NEW u \in Users,
         NEW mask \in Masks, NEW d \in Nat, GrantEach(o, cs, u, mask, d)
  PROVE  /\ sharedFiles' \in [Users -> [Cids -> Nat]]
         /\ sharedUsers' \in [Cids -> [Users -> Nat]]
         /\ permissions' \in [Cids -> [Users -> SUBSET Bits]]
         /\ expiresAtBlock' \in [Cids -> [Users -> Nat]]
<1>1. mask \subseteq Bits
  BY FileStorageAssumption
<1>2. permissions' \in [Cids -> [Users -> SUBSET Bits]]
  BY <1>1 DEF TypeOK, GrantEach
<1>3. sharedFiles' \in [Users -> [Cids -> Nat]] /\ sharedUsers' \in [Cids -> [Users -> Nat]]
  BY DEF TypeOK, GrantEach
<1>4. expiresAtBlock' \in [Cids -> [Users -> Nat]]
  BY DEF TypeOK, GrantEach
<1> QED
  BY <1>2, <1>3, <1>4

(* Revoking on a set of cids (_revoke) keeps the types.                    *)
LEMMA TypeRevoke ==
  ASSUME TypeOK, NEW o \in Users, NEW cs \in SUBSET Cids, NEW u \in Users,
         NEW mask \in Masks, RevokeEach(o, cs, u, mask)
  PROVE  TypeOK'
<1>1. permissions' \in [Cids -> [Users -> SUBSET Bits]]
  BY DEF TypeOK, RevokeEach
<1>2. expiresAtBlock' \in [Cids -> [Users -> Nat]]
  BY DEF TypeOK, RevokeEach
<1>3. sharedFiles' \in [Users -> [Cids -> Nat]] /\ sharedUsers' \in [Cids -> [Users -> Nat]]
  BY DEF TypeOK, RevokeEach, PopListed, OneLess
<1> QED
  BY <1>1, <1>2, <1>3 DEF TypeOK, RevokeEach, fileVars, requestVars

(* Resolving a request (cancel, approve, deny) keeps its types.            *)
LEMMA TypeResolve ==
  ASSUME TypeOK, NEW c \in Cids, NEW u \in Users, NEW status \in Status, Resolve(c, u, status)
  PROVE  /\ requests' \in [Cids -> [Users -> Status]]
         /\ requesters' \in [Cids -> SUBSET Users]
         /\ ownerPending' \in [Users -> SUBSET Keys]
         /\ pendingIndex' \in SUBSET Keys
<1>1. ownerPending' \in [Users -> SUBSET Keys] /\ pendingIndex' \in SUBSET Keys
  BY TypeRemovePending DEF Resolve
<1> QED
  BY <1>1 DEF TypeOK, Resolve, SetStatus

-----------------------------------------------------------------------------
(***************************************************************************)
(* A step of the contract is one of ten kinds: the single calls and the    *)
(* batches differ only in the set of cids they name.                       *)
(***************************************************************************)
GrantStep(o, cs, u, mask, d) ==
  GrantEach(o, cs, u, mask, d) /\ UNCHANGED <<block, fileVars, requestVars>>

DeleteStep(o, cs) == IsFileOwner(o, cs) /\ DeleteEach(o, cs)

(* Every transaction is one of the ten kinds the proofs treat, single or   *)
(* batch.                                                                  *)
LEMMA StepKinds ==
  ASSUME NEW ACTION P, Next,
         Mine => P,
         \A o \in Users, cs \in SUBSET Cids : \A path \in [cs -> Paths] :
           UploadEach(o, cs, path) \/ MoveEach(o, cs, path) => P,
         \A o \in Users, cs \in SUBSET Cids : DeleteStep(o, cs) => P,
         \A o, u \in Users, cs \in SUBSET Cids, mask \in Masks :
           RevokeEach(o, cs, u, mask) => P,
         \A o, u \in Users, cs \in SUBSET Cids, mask \in Masks, d \in Nat :
           GrantStep(o, cs, u, mask, d) => P,
         \A u \in Users, c \in Cids, d \in Durations : RequestAccess(u, c, d) => P,
         \A u \in Users, c \in Cids : CancelRequest(u, c) => P,
         \A o, u \in Users, c \in Cids : DenyRequest(o, c, u) => P,
         \A o, u \in Users, c \in Cids, mask \in Masks, d \in Durations :
           ApproveRequest(o, c, u, mask, d) => P
  PROVE  P
<1>1. CASE Mine
  BY <1>1
<1>2. ASSUME NEW o \in Users, FileTx(o) PROVE P
  <2>1. ASSUME NEW c \in Cids, NEW p \in Paths, UploadFile(o, c, p) \/ MoveFile(o, c, p)
        PROVE P
    <3>1. [x \in {c} |-> p] \in [{c} -> Paths] /\ {c} \in SUBSET Cids
      OBVIOUS
    <3> QED
      BY <2>1, <3>1 DEF UploadFile, MoveFile
  <2>2. ASSUME NEW c \in Cids, DeleteFile(o, c) PROVE P
    BY <2>2, {c} \in SUBSET Cids DEF DeleteFile, DeleteStep
  <2>3. ASSUME NEW cs \in SUBSET Cids, CleanFolder(o, cs) PROVE P
    <3> DEFINE mine == {c \in cs : fileOwner[c] = o}
    <3>1. mine \in SUBSET Cids /\ DeleteStep(o, mine)
      BY <2>3 DEF CleanFolder, DeleteStep, IsFileOwner
    <3> QED
      BY <3>1
  <2>4. ASSUME NEW cs \in SUBSET Cids, NEW path \in [cs -> Paths],
               UploadFiles(o, cs, path) \/ MoveFiles(o, cs, path)
        PROVE P
    BY <2>4 DEF UploadFiles, MoveFiles
  <2> QED
    BY <1>2, <2>1, <2>2, <2>3, <2>4 DEF FileTx, Batches
<1>3. ASSUME NEW o \in Users, SharingTx(o) PROVE P
  <2>1. PICK u \in Users, mask \in Masks :
          \/ \E c \in Cids :
               \/ Grant(o, c, u, mask)
               \/ Revoke(o, c, u, mask)
               \/ \E d \in Durations : GrantWithExpiry(o, c, u, mask, d)
          \/ \E cs \in Batches :
               \/ GrantFiles(o, cs, u, mask)
               \/ RevokeFiles(o, cs, u, mask)
               \/ \E d \in Durations : GrantWithExpiryFiles(o, cs, u, mask, d)
    BY <1>3 DEF SharingTx
  <2>2. \A c \in Cids : {c} \in SUBSET Cids
    OBVIOUS
  <2>3. CASE \E c \in Cids : \/ Grant(o, c, u, mask) \/ Revoke(o, c, u, mask)
                             \/ \E d \in Durations : GrantWithExpiry(o, c, u, mask, d)
    BY <2>2, <2>3, FileStorageAssumption, 0 \in Nat
       DEF Grant, Revoke, GrantWithExpiry, GrantStep
  <2>4. CASE \E cs \in Batches : \/ GrantFiles(o, cs, u, mask) \/ RevokeFiles(o, cs, u, mask)
                                 \/ \E d \in Durations : GrantWithExpiryFiles(o, cs, u, mask, d)
    BY <2>4, FileStorageAssumption, 0 \in Nat
       DEF GrantFiles, RevokeFiles, GrantWithExpiryFiles, GrantStep, Batches
  <2> QED
    BY <2>1, <2>3, <2>4
<1>4. ASSUME NEW s \in Users, RequestTx(s) PROVE P
  BY <1>4 DEF RequestTx
<1> QED
  BY <1>1, <1>2, <1>3, <1>4 DEF Next

(***************************************************************************)
(* TypeOK is an invariant: every variable of the contract stays in range.  *)
(***************************************************************************)
LEMMA TypeInit == Init => TypeOK
  BY FileStorageAssumption DEF Init, TypeOK, Status

(* Every transaction keeps every variable in its type.                     *)
LEMMA TypeNext == TypeOK /\ [Next]_vars => TypeOK'
<1> SUFFICES ASSUME TypeOK, [Next]_vars PROVE TypeOK'
  OBVIOUS
<1> USE DEF fileVars, requestVars, listVars, accessVars
<1>1. CASE UNCHANGED vars
  BY <1>1 DEF TypeOK, vars
<1>2. Mine => TypeOK'
  BY DEF Mine, TypeOK
<1>3. \A o \in Users, cs \in SUBSET Cids : \A path \in [cs -> Paths] :
        UploadEach(o, cs, path) \/ MoveEach(o, cs, path) => TypeOK'
  BY TypeUpload, TypeMove
<1>4. \A o \in Users, cs \in SUBSET Cids : DeleteStep(o, cs) => TypeOK'
  BY TypeDelete DEF DeleteStep
<1>5. \A o, u \in Users, cs \in SUBSET Cids, mask \in Masks :
        RevokeEach(o, cs, u, mask) => TypeOK'
  BY TypeRevoke
<1>6. ASSUME NEW o \in Users, NEW u \in Users, NEW cs \in SUBSET Cids, NEW mask \in Masks,
             NEW d \in Nat, GrantStep(o, cs, u, mask, d)
      PROVE TypeOK'
  <2>1. GrantEach(o, cs, u, mask, d)
    BY <1>6 DEF GrantStep
  <2> QED
    BY <1>6, <2>1, TypeGrant DEF GrantStep, TypeOK
<1>7. ASSUME NEW u \in Users, NEW c \in Cids, NEW d \in Durations, RequestAccess(u, c, d)
      PROVE TypeOK'
  <2>1. ownerPending' \in [Users -> SUBSET Keys] /\ pendingIndex' \in SUBSET Keys
    <3>1. <<c, u>> \in Keys
      BY DEF Keys
    <3>2. CASE <<c, u>> \in pendingIndex
      BY <1>7, <3>2 DEF RequestAccess, AddPending, TypeOK
    <3>3. CASE <<c, u>> \notin pendingIndex
      <4>1. /\ ownerPending' = [ownerPending EXCEPT
                   ![fileOwner[c]] = ownerPending[fileOwner[c]] \cup {<<c, u>>}]
            /\ pendingIndex' = pendingIndex \cup {<<c, u>>}
            /\ fileOwner[c] \in Users
        BY <1>7, <3>3 DEF RequestAccess, AddPending, TypeOK
      <4> QED
        BY <3>1, <4>1 DEF TypeOK
    <3> QED
      BY <3>2, <3>3
  <2>2. requests' \in [Cids -> [Users -> Status]] /\ requesters' \in [Cids -> SUBSET Users]
    BY <1>7 DEF RequestAccess, SetStatus, TypeOK, Status
  <2> QED
    BY <1>7, <2>1, <2>2 DEF RequestAccess, TypeOK
<1>8. ASSUME NEW u \in Users, NEW c \in Cids, CancelRequest(u, c) PROVE TypeOK'
  BY <1>8, TypeResolve DEF CancelRequest, TypeOK, Status
<1>9. ASSUME NEW o \in Users, NEW u \in Users, NEW c \in Cids, DenyRequest(o, c, u)
      PROVE TypeOK'
  BY <1>9, TypeResolve DEF DenyRequest, TypeOK, Status
<1>10. ASSUME NEW o \in Users, NEW u \in Users, NEW c \in Cids, NEW mask \in Masks,
              NEW d \in Durations, ApproveRequest(o, c, u, mask, d)
       PROVE TypeOK'
  <2>1. /\ requests' \in [Cids -> [Users -> Status]]
        /\ requesters' \in [Cids -> SUBSET Users]
        /\ ownerPending' \in [Users -> SUBSET Keys]
        /\ pendingIndex' \in SUBSET Keys
    BY <1>10, TypeResolve DEF ApproveRequest, Status
  <2>2. /\ sharedFiles' \in [Users -> [Cids -> Nat]]
        /\ sharedUsers' \in [Cids -> [Users -> Nat]]
        /\ permissions' \in [Cids -> [Users -> SUBSET Bits]]
        /\ expiresAtBlock' \in [Cids -> [Users -> Nat]]
    BY <1>10, TypeGrant, FileStorageAssumption, {c} \in SUBSET Cids DEF ApproveRequest
  <2> QED
    BY <1>10, <2>1, <2>2 DEF ApproveRequest, TypeOK
<1> QED
  <2>1. CASE Next
    BY ONLY <2>1, <1>2, <1>3, <1>4, <1>5, <1>6, <1>7, <1>8, <1>9, <1>10, StepKinds
  <2> QED
    BY <1>1, <2>1

(* Every variable of the contract keeps its type, whatever is sent to it.  *)
THEOREM TypeCorrect == Spec => []TypeOK
  BY TypeInit, TypeNext, PTL DEF Spec

-----------------------------------------------------------------------------
(***************************************************************************)
(* IInv is inductive.  TypeOK' comes from TypeNext; each lemma shows the   *)
(* other conjuncts for one kind of step.                                   *)
(***************************************************************************)
Shape == /\ MirrorLists /\ OwnerIndex /\ PendingQueueExact
         /\ RequestersExact /\ AccessAccountedFor /\ DeadFilesAreClean

(* DeadFilesAreClean survives a step that revives no cid, and gives a dead *)
(* one no listing, no request and no bits.                                 *)
LEMMA DeadStep ==
  ASSUME DeadFilesAreClean,
         \A c \in Cids, u \in Users : fileOwner'[c] = NoOwner =>
           /\ fileOwner[c] = NoOwner
           /\ sharedUsers[c][u] = 0 => sharedUsers'[c][u] = 0
           /\ sharedFiles[u][c] = 0 => sharedFiles'[u][c] = 0
           /\ requests'[c][u] = requests[c][u]
           /\ \A o \in Users : <<c, u>> \in ownerPending'[o] => <<c, u>> \in ownerPending[o]
           /\ permissions'[c][u] # {} => permissions[c][u] # {}
           /\ u \in formerOwners[c] => u \in formerOwners'[c]
  PROVE  DeadFilesAreClean'
<1> SUFFICES ASSUME NEW c \in Cids, NEW u \in Users, fileOwner'[c] = NoOwner
             PROVE  /\ sharedUsers'[c][u] = 0 /\ sharedFiles'[u][c] = 0
                    /\ requests'[c][u] = "None"
                    /\ \A o \in Users : <<c, u>> \notin ownerPending'[o]
                    /\ permissions'[c][u] # {} => u \in formerOwners'[c]
  BY DEF DeadFilesAreClean
<1>1. sharedUsers[c][u] = 0 /\ sharedFiles[u][c] = 0
  BY DEF DeadFilesAreClean
<1>2. requests[c][u] = "None"
  BY DEF DeadFilesAreClean
<1>3. \A o \in Users : <<c, u>> \notin ownerPending[o]
  BY DEF DeadFilesAreClean
<1>4. permissions[c][u] # {} => u \in formerOwners[c]
  BY DEF DeadFilesAreClean
<1> QED
  BY <1>1, <1>2, <1>3, <1>4

(* A mined block changes nothing that the invariant relates.               *)
LEMMA ShapeMine == ASSUME IInv, Mine PROVE Shape'
  BY DEF IInv, Shape, Mine, fileVars, listVars, accessVars, requestVars, MirrorLists,
     OwnerIndex, PendingQueueExact, RequestersExact, AccessAccountedFor, DeadFilesAreClean

(* Registering cids that do not exist keeps the invariant (_uploadFile).   *)
LEMMA ShapeUpload ==
  ASSUME IInv, NEW o \in Users, NEW cs \in SUBSET Cids, NEW path \in [cs -> Paths],
         UploadEach(o, cs, path)
  PROVE  Shape'
<1> USE DEF IInv, listVars, requestVars, IsFileOwner
<1>1. MirrorLists'
  BY DEF UploadEach, MirrorLists
<1>2. OwnerIndex'
  <2> SUFFICES ASSUME NEW c \in Cids
               PROVE /\ \A u \in Users, p \in Paths :
                          <<c, p>> \in userFiles'[u] <=> fileOwner'[c] = u /\ fileMetadata'[c] = p
                     /\ fileOwner'[c] = NoOwner <=> fileMetadata'[c] = NoPath
    BY DEF OwnerIndex
  <2>1. \A u \in Users, p \in Paths :
          <<c, p>> \in userFiles'[u]
            <=> <<c, p>> \in userFiles[u] \/ (u = o /\ c \in cs /\ p = path[c])
    BY DEF UploadEach, TypeOK
  <2>2. CASE c \in cs
    BY <2>1, <2>2, FileStorageAssumption DEF UploadEach, TypeOK, OwnerIndex
  <2>3. CASE c \notin cs
    BY <2>1, <2>3 DEF UploadEach, TypeOK, OwnerIndex
  <2> QED
    BY <2>2, <2>3
<1>3. PendingQueueExact'
  BY FileStorageAssumption DEF UploadEach, TypeOK, PendingQueueExact, RequestersExact
<1>4. RequestersExact'
  BY DEF UploadEach, TypeOK, RequestersExact
<1>5. AccessAccountedFor'
  BY FileStorageAssumption DEF UploadEach, TypeOK, AccessAccountedFor
<1>6. DeadFilesAreClean'
  <2>1. ASSUME NEW c \in Cids, NEW u \in Users, fileOwner'[c] = NoOwner
        PROVE  fileOwner[c] = NoOwner /\ permissions'[c][u] = permissions[c][u]
    BY <2>1, FileStorageAssumption DEF UploadEach, TypeOK
  <2>2. UNCHANGED <<sharedUsers, sharedFiles, requests, ownerPending, formerOwners>>
    BY DEF UploadEach
  <2> QED
    BY <2>1, <2>2, DeadStep
<1> QED
  BY <1>1, <1>2, <1>3, <1>4, <1>5, <1>6 DEF Shape

(* Moving files keeps the invariant: both copies of the path change        *)
(* (_moveFile).                                                            *)
LEMMA ShapeMove ==
  ASSUME IInv, NEW o \in Users, NEW cs \in SUBSET Cids, NEW path \in [cs -> Paths],
         MoveEach(o, cs, path)
  PROVE  Shape'
<1> USE DEF IInv, listVars, requestVars, accessVars, IsFileOwner
<1>1. OwnerIndex'
  <2> SUFFICES ASSUME NEW c \in Cids
               PROVE /\ \A u \in Users, p \in Paths :
                          <<c, p>> \in userFiles'[u] <=> fileOwner'[c] = u /\ fileMetadata'[c] = p
                     /\ fileOwner'[c] = NoOwner <=> fileMetadata'[c] = NoPath
    BY DEF OwnerIndex
  <2>1. \A u \in Users : u # o => userFiles'[u] = userFiles[u]
    BY DEF MoveEach, TypeOK
  <2>2. userFiles'[o] = {<<f[1], IF f[1] \in cs THEN path[f[1]] ELSE f[2]>> : f \in userFiles[o]}
    BY DEF MoveEach, TypeOK
  <2>3. \A p : <<c, p>> \in userFiles'[o] <=>
               \E q \in Paths : <<c, q>> \in userFiles[o] /\ p = IF c \in cs THEN path[c] ELSE q
    <3>1. userFiles[o] \subseteq Cids \X Paths
      BY DEF TypeOK
    <3>2. ASSUME NEW p, <<c, p>> \in userFiles'[o]
          PROVE  \E q \in Paths : <<c, q>> \in userFiles[o] /\ p = IF c \in cs THEN path[c] ELSE q
      <4>1. PICK f \in userFiles[o] : <<c, p>> = <<f[1], IF f[1] \in cs THEN path[f[1]] ELSE f[2]>>
        BY <2>2, <3>2
      <4>2. PICK b \in Cids, q \in Paths : f = <<b, q>>
        BY <3>1
      <4> QED
        BY <4>1, <4>2
    <3>3. ASSUME NEW p, NEW q \in Paths, <<c, q>> \in userFiles[o],
                 p = IF c \in cs THEN path[c] ELSE q
          PROVE  <<c, p>> \in userFiles'[o]
      <4> DEFINE f == <<c, q>>
      <4>1. f[1] = c /\ f[2] = q /\ f \in userFiles[o]
        BY <3>3
      <4>2. <<c, p>> = <<f[1], IF f[1] \in cs THEN path[f[1]] ELSE f[2]>>
        BY <3>3, <4>1
      <4> HIDE DEF f
      <4> QED
        BY <2>2, <4>1, <4>2
    <3> QED
      BY <3>2, <3>3
  <2>4. CASE c \in cs
    <3>1. fileOwner[c] = o /\ fileMetadata[c] \in Paths /\ <<c, fileMetadata[c]>> \in userFiles[o]
      BY <2>4, FileStorageAssumption DEF MoveEach, TypeOK, OwnerIndex
    <3>2. fileMetadata'[c] = path[c] /\ path[c] \in Paths /\ fileOwner' = fileOwner
      BY <2>4 DEF MoveEach, TypeOK
    <3>3. \A p \in Paths : <<c, p>> \in userFiles'[o] <=> p = path[c]
      BY <2>3, <2>4, <3>1
    <3>4. \A u \in Users, p \in Paths : u # o => <<c, p>> \notin userFiles'[u]
      BY <2>1, <3>1 DEF OwnerIndex
    <3> QED
      BY <3>1, <3>2, <3>3, <3>4, FileStorageAssumption
  <2>5. CASE c \notin cs
    <3>1. fileMetadata'[c] = fileMetadata[c] /\ fileOwner' = fileOwner
      BY <2>5 DEF MoveEach, TypeOK
    <3>2. \A p \in Paths : <<c, p>> \in userFiles'[o] <=> <<c, p>> \in userFiles[o]
      BY <2>3, <2>5
    <3> QED
      BY <2>1, <3>1, <3>2 DEF OwnerIndex
  <2> QED
    BY <2>4, <2>5
<1>2. MirrorLists' /\ PendingQueueExact' /\ RequestersExact' /\ AccessAccountedFor'
  BY DEF MoveEach, MirrorLists, PendingQueueExact, RequestersExact, AccessAccountedFor
<1>3. DeadFilesAreClean'
  BY DEF MoveEach, DeadFilesAreClean
<1> QED
  BY <1>1, <1>2, <1>3 DEF Shape

(* Deleting the sender's files keeps the invariant (deleteFile,            *)
(* cleanFolder).                                                           *)
LEMMA ShapeDelete ==
  ASSUME IInv, NEW o \in Users, NEW cs \in SUBSET Cids, DeleteStep(o, cs)
  PROVE  Shape'
<1> USE DEF IInv, DeleteStep, DeleteEach, IsFileOwner
<1>1. MirrorLists'
  BY DEF TypeOK, MirrorLists, DropRecipients, PopRecipients, ClearSharedUsers
<1>2. OwnerIndex'
  BY FileStorageAssumption DEF TypeOK, OwnerIndex
<1>3. RequestersExact'
  BY FileStorageAssumption DEF TypeOK, RequestersExact, DropRequests
<1>4. PendingQueueExact'
  <2> DEFINE gone == {k \in Keys : k[1] \in cs /\ k[2] \in requesters[k[1]]}
  <2>1. \A c \in Cids, u \in Users : <<c, u>> \in gone <=> c \in cs /\ u \in requesters[c]
    BY DEF Keys
  <2>2. \A c \in Cids, u \in Users : requests'[c][u] =
          IF c \in cs /\ u \in requesters[c] THEN "None" ELSE requests[c][u]
    BY DEF DropRequests
  <2>3. /\ ownerPending' = [ownerPending EXCEPT ![o] = @ \ (gone \cap pendingIndex)]
        /\ pendingIndex' = pendingIndex \ gone
    BY DEF DropRequests, RemovePending
  <2>4. \A c \in Cids, u \in Users : <<c, u>> \in pendingIndex' <=> requests'[c][u] = "Pending"
    <3> SUFFICES ASSUME NEW c \in Cids, NEW u \in Users
                 PROVE <<c, u>> \in pendingIndex' <=> requests'[c][u] = "Pending"
      OBVIOUS
    <3>1. <<c, u>> \in pendingIndex' <=> <<c, u>> \in pendingIndex /\ <<c, u>> \notin gone
      BY <2>3
    <3> QED
      BY <2>1, <2>2, <3>1 DEF PendingQueueExact
  <2>5. ASSUME NEW c \in Cids, NEW u \in Users, NEW v \in Users
        PROVE  <<c, u>> \in ownerPending'[v] <=> fileOwner'[c] = v /\ requests'[c][u] = "Pending"
    <3>1. CASE c \in cs
      <4>1. fileOwner'[c] = NoOwner /\ fileOwner[c] = o
        BY <3>1 DEF TypeOK
      <4>2. <<c, u>> \notin ownerPending'[v]
        <5>1. CASE requests[c][u] = "Pending" /\ v = o
          <6>1. <<c, u>> \in gone \cap pendingIndex
            BY <2>1, <3>1, <5>1 DEF PendingQueueExact, RequestersExact
          <6> HIDE DEF gone
          <6> QED
            BY <2>3, <5>1, <6>1 DEF TypeOK
        <5>2. CASE ~(requests[c][u] = "Pending" /\ v = o)
          <6>1. <<c, u>> \notin ownerPending[v]
            BY <4>1, <5>2 DEF PendingQueueExact
          <6> HIDE DEF gone
          <6> QED
            BY <2>3, <6>1 DEF TypeOK
        <5> QED
          BY <5>1, <5>2
      <4> QED
        BY <4>1, <4>2, FileStorageAssumption
    <3>2. CASE c \notin cs
      <4>1. fileOwner'[c] = fileOwner[c] /\ requests'[c][u] = requests[c][u]
        BY <2>2, <3>2 DEF TypeOK
      <4>2. <<c, u>> \in ownerPending'[v] <=> <<c, u>> \in ownerPending[v]
        BY <2>1, <2>3, <3>2 DEF TypeOK
      <4> QED
        BY <4>1, <4>2 DEF PendingQueueExact
    <3> QED
      BY <3>1, <3>2
  <2> QED
    BY <2>4, <2>5 DEF PendingQueueExact
<1>5. AccessAccountedFor'
  BY FileStorageAssumption DEF TypeOK, AccessAccountedFor,
     DropRecipients, PopRecipients, ClearSharedUsers, ClearExpiry
<1>6. DeadFilesAreClean'
  <2> SUFFICES ASSUME NEW c \in Cids, NEW u \in Users, fileOwner'[c] = NoOwner
               PROVE  /\ sharedUsers'[c][u] = 0 /\ sharedFiles'[u][c] = 0
                      /\ requests'[c][u] = "None"
                      /\ \A v \in Users : <<c, u>> \notin ownerPending'[v]
                      /\ permissions'[c][u] # {} => u \in formerOwners'[c]
    BY DEF DeadFilesAreClean
  <2>1. \A v \in Users : <<c, u>> \notin ownerPending'[v]
    BY <1>4, FileStorageAssumption DEF PendingQueueExact
  <2>2. requests'[c][u] = "None"
    BY <1>3 DEF RequestersExact
  <2>3. sharedUsers'[c][u] = 0 /\ sharedFiles'[u][c] = 0
    <3>1. sharedUsers'[c][u] = 0
      <4>1. CASE c \in cs
        BY <4>1 DEF DropRecipients, ClearSharedUsers
      <4>2. CASE c \notin cs
        BY <4>2 DEF TypeOK, DeadFilesAreClean, DropRecipients, ClearSharedUsers
      <4> QED
        BY <4>1, <4>2
    <3> QED
      BY <1>1, <3>1 DEF MirrorLists
  <2>4. permissions'[c][u] # {} => u \in formerOwners'[c]
    BY <1>5, <2>3, FileStorageAssumption DEF AccessAccountedFor
  <2> QED
    BY <2>1, <2>2, <2>3, <2>4
<1> QED
  BY <1>1, <1>2, <1>3, <1>4, <1>5, <1>6 DEF Shape

(* Revoking keeps the invariant: both lists lose the same entry            *)
(* (_revoke).                                                              *)
LEMMA ShapeRevoke ==
  ASSUME IInv, NEW o \in Users, NEW cs \in SUBSET Cids, NEW u \in Users,
         NEW mask \in Masks, RevokeEach(o, cs, u, mask)
  PROVE  Shape'
<1> USE DEF IInv, RevokeEach, IsFileOwner, fileVars, requestVars
<1> DEFINE emptied == Emptied(cs, u, mask)
<1>1. \A v \in Users, c \in Cids :
        /\ sharedFiles'[v][c] = IF v = u /\ c \in emptied
                                THEN OneLess(sharedFiles[v][c]) ELSE sharedFiles[v][c]
        /\ sharedUsers'[c][v] = IF v = u /\ c \in emptied
                                THEN OneLess(sharedUsers[c][v]) ELSE sharedUsers[c][v]
  BY DEF PopListed
<1>2. MirrorLists'
  BY <1>1 DEF MirrorLists
<1>3. OwnerIndex' /\ PendingQueueExact' /\ RequestersExact'
  BY DEF OwnerIndex, PendingQueueExact, RequestersExact
<1>4. ASSUME NEW c \in Cids, NEW v \in Users, permissions'[c][v] # {} \/ expiresAtBlock'[c][v] # 0
      PROVE  /\ permissions[c][v] # {} \/ expiresAtBlock[c][v] # 0
             /\ sharedUsers'[c][v] = sharedUsers[c][v]
  <2>1. ~(v = u /\ c \in emptied)
    BY <1>4 DEF Emptied, TypeOK
  <2>2. permissions'[c][v] \subseteq permissions[c][v] /\ expiresAtBlock'[c][v] = expiresAtBlock[c][v]
    BY <2>1
  <2> QED
    BY <1>1, <1>4, <2>1, <2>2
<1>5. AccessAccountedFor'
  BY <1>4 DEF AccessAccountedFor
<1>6. DeadFilesAreClean'
  <2>1. ASSUME NEW c \in Cids, NEW v \in Users
        PROVE  /\ sharedUsers[c][v] = 0 => sharedUsers'[c][v] = 0
               /\ sharedFiles[v][c] = 0 => sharedFiles'[v][c] = 0
    BY <1>1 DEF OneLess
  <2>2. ASSUME NEW c \in Cids, NEW v \in Users, permissions'[c][v] # {}
        PROVE  permissions[c][v] # {}
    BY <2>2
  <2>3. UNCHANGED <<fileOwner, requests, ownerPending, formerOwners>> /\ DeadFilesAreClean
    OBVIOUS
  <2> QED
    BY ONLY <2>1, <2>2, <2>3, DeadStep
<1> QED
  BY <1>2, <1>3, <1>5, <1>6 DEF Shape

(* What a grant by the owner does to the access part of the state.         *)
LEMMA ShapeGrantEach ==
  ASSUME IInv, NEW o \in Users, NEW cs \in SUBSET Cids, NEW u \in Users,
         NEW mask \in Masks, NEW d \in Nat, GrantEach(o, cs, u, mask, d), UNCHANGED fileVars
  PROVE  /\ MirrorLists' /\ OwnerIndex' /\ AccessAccountedFor'
         /\ \A c \in Cids, v \in Users : fileOwner[c] = NoOwner =>
              /\ sharedUsers'[c][v] = sharedUsers[c][v]
              /\ sharedFiles'[v][c] = sharedFiles[v][c]
              /\ permissions'[c][v] = permissions[c][v]
<1> USE DEF IInv, GrantEach, IsFileOwner, fileVars
<1>1. MirrorLists'
  BY DEF MirrorLists, TypeOK
<1>2. OwnerIndex'
  BY DEF OwnerIndex
<1>3. ASSUME NEW c \in Cids, NEW v \in Users
      PROVE  permissions'[c][v] # {} \/ expiresAtBlock'[c][v] # 0 =>
               sharedUsers'[c][v] > 0 \/ fileOwner'[c] = v \/ v \in formerOwners'[c]
  <2>1. CASE v = u /\ c \in cs
    BY <2>1 DEF AccessAccountedFor, TypeOK, FirstGrant
  <2>2. CASE ~(v = u /\ c \in cs)
    BY <2>2 DEF AccessAccountedFor, TypeOK
  <2> QED
    BY <2>1, <2>2
<1>4. AccessAccountedFor'
  BY <1>3 DEF AccessAccountedFor
<1>5. \A c \in cs : fileOwner[c] # NoOwner
  BY FileStorageAssumption
<1> QED
  BY <1>1, <1>2, <1>4, <1>5

(* Granting keeps the invariant: both lists gain the same entry (_grant).  *)
LEMMA ShapeGrant ==
  ASSUME IInv, NEW o \in Users, NEW cs \in SUBSET Cids, NEW u \in Users,
         NEW mask \in Masks, NEW d \in Nat, GrantStep(o, cs, u, mask, d)
  PROVE  Shape'
<1>1. GrantEach(o, cs, u, mask, d) /\ UNCHANGED fileVars /\ UNCHANGED requestVars
  BY DEF GrantStep
<1>2. PendingQueueExact' /\ RequestersExact'
  BY <1>1 DEF IInv, fileVars, requestVars, PendingQueueExact, RequestersExact
<1>3. DeadFilesAreClean'
  <2>1. UNCHANGED <<fileOwner, formerOwners, requests, ownerPending>> /\ DeadFilesAreClean
    BY <1>1 DEF IInv, fileVars, requestVars
  <2>2. \A c \in Cids, v \in Users : fileOwner[c] = NoOwner =>
          /\ sharedUsers'[c][v] = sharedUsers[c][v]
          /\ sharedFiles'[v][c] = sharedFiles[v][c]
          /\ permissions'[c][v] = permissions[c][v]
    BY <1>1, ShapeGrantEach
  <2> QED
    BY ONLY <2>1, <2>2, DeadStep
<1> QED
  BY <1>1, <1>2, <1>3, ShapeGrantEach DEF Shape

(* Opening a request keeps the invariant (requestAccess).                  *)
LEMMA ShapeRequest ==
  ASSUME IInv, NEW u \in Users, NEW c \in Cids, NEW d \in Durations, RequestAccess(u, c, d)
  PROVE  Shape'
<1> USE DEF IInv, RequestAccess, fileVars, listVars, accessVars
<1>1. requests' = [requests EXCEPT ![c][u] = "Pending"] /\ requests[c][u] # "Pending"
  BY DEF SetStatus
<1>2. RequestersExact'
  BY <1>1 DEF RequestersExact, TypeOK
<1>3. <<c, u>> \notin pendingIndex /\ fileOwner[c] \in Users
  BY <1>1 DEF PendingQueueExact, TypeOK
<1>4. /\ ownerPending' = [ownerPending EXCEPT
           ![fileOwner[c]] = ownerPending[fileOwner[c]] \cup {<<c, u>>}]
      /\ pendingIndex' = pendingIndex \cup {<<c, u>>}
  BY <1>3 DEF AddPending
<1>5. \A o \in Users : ownerPending'[o] =
        IF o = fileOwner[c] THEN ownerPending[o] \cup {<<c, u>>} ELSE ownerPending[o]
  BY <1>4 DEF TypeOK
<1>6. \A e \in Cids, v \in Users :
        requests'[e][v] = IF e = c /\ v = u THEN "Pending" ELSE requests[e][v]
  BY <1>1 DEF TypeOK
<1>7. PendingQueueExact'
  BY <1>4, <1>5, <1>6 DEF PendingQueueExact
<1>8. MirrorLists' /\ OwnerIndex' /\ AccessAccountedFor'
  BY DEF MirrorLists, OwnerIndex, AccessAccountedFor
<1>9. DeadFilesAreClean'
  <2>1. ASSUME NEW e \in Cids, NEW v \in Users, fileOwner[e] = NoOwner
        PROVE  requests'[e][v] = requests[e][v] /\ \A o \in Users :
                 <<e, v>> \in ownerPending'[o] => <<e, v>> \in ownerPending[o]
    <3>1. e # c
      BY <2>1
    <3>2. requests'[e][v] = requests[e][v]
      BY <1>6, <3>1
    <3>3. <<e, v>> # <<c, u>>
      BY <3>1
    <3>4. ASSUME NEW o \in Users, <<e, v>> \in ownerPending'[o]
          PROVE  <<e, v>> \in ownerPending[o]
      BY <1>5, <3>3, <3>4
    <3> QED
      BY <3>2, <3>4
  <2>2. UNCHANGED <<fileOwner, sharedUsers, sharedFiles, permissions, formerOwners>>
        /\ DeadFilesAreClean
    OBVIOUS
  <2> QED
    BY ONLY <2>1, <2>2, DeadStep
<1> QED
  BY <1>2, <1>7, <1>8, <1>9 DEF Shape

(* Resolving a pending request takes it, and no other, out of its queue.   *)
LEMMA ShapeResolve ==
  ASSUME IInv, NEW c \in Cids, NEW u \in Users,
         NEW status \in {"Approved", "Denied", "Cancelled"}, Resolve(c, u, status),
         UNCHANGED fileVars
  PROVE  /\ PendingQueueExact' /\ RequestersExact'
         /\ \A e \in Cids, v \in Users : fileOwner[e] = NoOwner =>
              /\ requests'[e][v] = requests[e][v]
              /\ \A o \in Users : <<e, v>> \in ownerPending'[o] => <<e, v>> \in ownerPending[o]
<1> USE DEF IInv, Resolve, fileVars
<1>1. \A e \in Cids, v \in Users :
        requests'[e][v] = IF e = c /\ v = u THEN status ELSE requests[e][v]
  BY DEF SetStatus, TypeOK
<1>2. <<c, u>> \in pendingIndex /\ fileOwner[c] \in Users
  BY DEF PendingQueueExact, RequestersExact, TypeOK
<1>3. pendingIndex' = pendingIndex \ {<<c, u>>}
  BY DEF RemovePending
<1>4. \A o \in Users : ownerPending'[o] =
        IF o = fileOwner[c] THEN ownerPending[o] \ {<<c, u>>} ELSE ownerPending[o]
  BY <1>2 DEF RemovePending, TypeOK
<1>5. PendingQueueExact'
  <2> SUFFICES ASSUME NEW e \in Cids, NEW v \in Users
               PROVE  /\ \A o \in Users : <<e, v>> \in ownerPending'[o]
                                            <=> fileOwner'[e] = o /\ requests'[e][v] = "Pending"
                      /\ <<e, v>> \in pendingIndex' <=> requests'[e][v] = "Pending"
    BY DEF PendingQueueExact
  <2>1. CASE e = c /\ v = u
    <3>1. \A o \in Users : <<e, v>> \in ownerPending[o] => o = fileOwner[c]
      BY <2>1 DEF PendingQueueExact
    <3> QED
      BY <1>1, <1>3, <1>4, <2>1, <3>1
  <2>2. CASE ~(e = c /\ v = u)
    <3>1. <<e, v>> # <<c, u>> /\ requests'[e][v] = requests[e][v]
      BY <1>1, <2>2
    <3>2. \A o \in Users : <<e, v>> \in ownerPending'[o] <=> <<e, v>> \in ownerPending[o]
      BY <1>4, <3>1
    <3> QED
      BY <1>3, <3>1, <3>2 DEF PendingQueueExact
  <2> QED
    BY <2>1, <2>2
<1>6. RequestersExact'
  BY <1>1 DEF RequestersExact
<1>7. fileOwner[c] # NoOwner
  BY <1>2, FileStorageAssumption
<1> QED
  BY <1>1, <1>4, <1>5, <1>6, <1>7

(* Cancelling and denying keep the invariant (cancelRequest,               *)
(* denyRequest).                                                           *)
LEMMA ShapeCancelOrDeny ==
  ASSUME IInv, NEW c \in Cids, NEW u \in Users, NEW status \in {"Denied", "Cancelled"},
         Resolve(c, u, status), UNCHANGED <<fileVars, listVars, accessVars>>
  PROVE  Shape'
<1>1. /\ PendingQueueExact' /\ RequestersExact'
      /\ \A e \in Cids, v \in Users : fileOwner[e] = NoOwner =>
           /\ requests'[e][v] = requests[e][v]
           /\ \A o \in Users : <<e, v>> \in ownerPending'[o] => <<e, v>> \in ownerPending[o]
  BY ShapeResolve
<1>2. MirrorLists' /\ OwnerIndex' /\ AccessAccountedFor'
  BY DEF IInv, fileVars, listVars, accessVars, MirrorLists, OwnerIndex, AccessAccountedFor
<1>3. DeadFilesAreClean'
  <2>1. UNCHANGED <<fileOwner, formerOwners, sharedUsers, sharedFiles, permissions>>
        /\ DeadFilesAreClean
    BY DEF IInv, fileVars, listVars, accessVars
  <2> QED
    BY ONLY <1>1, <2>1, DeadStep
<1> QED
  BY <1>1, <1>2, <1>3 DEF Shape

(* Approving, which also grants, keeps the invariant (approveRequest).     *)
LEMMA ShapeApprove ==
  ASSUME IInv, NEW o \in Users, NEW u \in Users, NEW c \in Cids, NEW mask \in Masks,
         NEW d \in Durations, ApproveRequest(o, c, u, mask, d)
  PROVE  Shape'
<1>1. /\ PendingQueueExact' /\ RequestersExact'
      /\ \A e \in Cids, v \in Users : fileOwner[e] = NoOwner =>
           /\ requests'[e][v] = requests[e][v]
           /\ \A p \in Users : <<e, v>> \in ownerPending'[p] => <<e, v>> \in ownerPending[p]
  BY ShapeResolve DEF ApproveRequest
<1>2. /\ MirrorLists' /\ OwnerIndex' /\ AccessAccountedFor'
      /\ \A e \in Cids, v \in Users : fileOwner[e] = NoOwner =>
           /\ sharedUsers'[e][v] = sharedUsers[e][v]
           /\ sharedFiles'[v][e] = sharedFiles[v][e]
           /\ permissions'[e][v] = permissions[e][v]
  <2>1. {c} \in SUBSET Cids /\ d \in Nat /\ GrantEach(o, {c}, u, mask, d) /\ UNCHANGED fileVars
    BY FileStorageAssumption DEF ApproveRequest
  <2> QED
    BY <2>1, ShapeGrantEach
<1>3. DeadFilesAreClean'
  <2>1. UNCHANGED <<fileOwner, formerOwners>> /\ DeadFilesAreClean
    BY DEF IInv, ApproveRequest, fileVars
  <2> QED
    BY ONLY <1>1, <1>2, <2>1, DeadStep
<1> QED
  BY <1>1, <1>2, <1>3 DEF Shape

(* The empty contract satisfies the invariant.                             *)
LEMMA InductiveInit == Init => IInv
<1> SUFFICES ASSUME Init PROVE IInv
  OBVIOUS
<1>1. TypeOK
  BY TypeInit
<1>2. OwnerIndex
  BY FileStorageAssumption DEF Init, OwnerIndex
<1>3. MirrorLists /\ PendingQueueExact /\ RequestersExact
  BY DEF Init, MirrorLists, PendingQueueExact, RequestersExact
<1>4. AccessAccountedFor /\ DeadFilesAreClean
  BY DEF Init, AccessAccountedFor, DeadFilesAreClean
<1> QED
  BY <1>1, <1>2, <1>3, <1>4 DEF IInv

(* Every transaction keeps the invariant.                                  *)
LEMMA InductiveNext == IInv /\ [Next]_vars => IInv'
<1> SUFFICES ASSUME IInv, [Next]_vars PROVE IInv'
  OBVIOUS
<1>0. TypeOK'
  BY TypeNext DEF IInv
<1>1. CASE UNCHANGED vars
  BY <1>1 DEF IInv, vars, fileVars, listVars, accessVars, requestVars, TypeOK, MirrorLists,
     OwnerIndex, PendingQueueExact, RequestersExact, AccessAccountedFor, DeadFilesAreClean
<1>2. Mine => Shape'
  BY ShapeMine
<1>3. \A o \in Users, cs \in SUBSET Cids : \A path \in [cs -> Paths] :
        UploadEach(o, cs, path) \/ MoveEach(o, cs, path) => Shape'
  BY ShapeUpload, ShapeMove
<1>4. \A o \in Users, cs \in SUBSET Cids : DeleteStep(o, cs) => Shape'
  BY ShapeDelete
<1>5. \A o, u \in Users, cs \in SUBSET Cids, mask \in Masks :
        RevokeEach(o, cs, u, mask) => Shape'
  BY ShapeRevoke
<1>6. \A o, u \in Users, cs \in SUBSET Cids, mask \in Masks, d \in Nat :
        GrantStep(o, cs, u, mask, d) => Shape'
  BY ShapeGrant
<1>7. \A u \in Users, c \in Cids, d \in Durations : RequestAccess(u, c, d) => Shape'
  BY ShapeRequest
<1>8. \A u \in Users, c \in Cids : CancelRequest(u, c) => Shape'
  BY ShapeCancelOrDeny DEF CancelRequest
<1>9. \A o, u \in Users, c \in Cids : DenyRequest(o, c, u) => Shape'
  BY ShapeCancelOrDeny DEF DenyRequest
<1>10. \A o, u \in Users, c \in Cids, mask \in Masks, d \in Durations :
         ApproveRequest(o, c, u, mask, d) => Shape'
  BY ShapeApprove
<1>11. CASE Next
  <2>1. Shape'
    BY ONLY <1>11, <1>2, <1>3, <1>4, <1>5, <1>6, <1>7, <1>8, <1>9, <1>10, StepKinds
  <2> QED
    BY <1>0, <2>1 DEF IInv, Shape
<1> QED
  BY <1>1, <1>11

(* IInv, the conjunction of the type invariant and of the six relations    *)
(* between the contract's mappings, holds in every state of the contract.  *)
THEOREM Invariant == Spec => []IInv
  BY InductiveInit, InductiveNext, PTL DEF Spec

(* The sharing relation kept in sharedFiles and in sharedUsers is one      *)
(* relation, for any number of users, files and masks (_grant, _revoke,    *)
(* deleteFile).                                                            *)
THEOREM ListsMirrorEachOther == Spec => []MirrorLists
<1>1. IInv => MirrorLists
  BY DEF IInv
<1> QED
  BY <1>1, Invariant, PTL

(* The owner's files, fileOwner and fileMetadata never disagree.           *)
THEOREM OwnerIndexCorrect == Spec => []OwnerIndex
<1>1. IInv => OwnerIndex
  BY DEF IInv
<1> QED
  BY <1>1, Invariant, PTL

(* Every pending request is in the queue of the owner who can resolve it,  *)
(* and the queue holds nothing else.                                       *)
THEOREM QueueCorrect == Spec => []PendingQueueExact
<1>1. IInv => PendingQueueExact
  BY DEF IInv
<1> QED
  BY <1>1, Invariant, PTL

(* _requesters is exactly what deleteFile must walk.                       *)
THEOREM RequestersCorrect == Spec => []RequestersExact
<1>1. IInv => RequestersExact
  BY DEF IInv
<1> QED
  BY <1>1, Invariant, PTL

(* Stored access always belongs to the owner, a listed recipient or a      *)
(* former owner.                                                           *)
THEOREM AccessCorrect == Spec => []AccessAccountedFor
<1>1. IInv => AccessAccountedFor
  BY DEF IInv
<1> QED
  BY <1>1, Invariant, PTL

(* deleteFile leaves no listing, no request and no queued key behind.      *)
THEOREM DeleteCorrect == Spec => []DeadFilesAreClean
<1>1. IInv => DeadFilesAreClean
  BY DEF IInv
<1> QED
  BY <1>1, Invariant, PTL

-----------------------------------------------------------------------------
(***************************************************************************)
(* What holds as long as no caller passes the mask 0: one entry for each   *)
(* recipient, requests about grants that have run out, and approvals that  *)
(* grant.  Each is proved for every kind of transaction over IInv.         *)
(***************************************************************************)
(* Nobody is listed in the empty contract.                                 *)
LEMMA ListedInit == Init => ListedOnce
<1> SUFFICES ASSUME Init, NEW c \in Cids, NEW u \in Users
             PROVE  sharedUsers[c][u] = 0 /\ expiresAtBlock[c][u] = 0
  BY DEF ListedOnce
<1>1. sharedUsers = [x \in Cids |-> [y \in Users |-> 0]]
  BY DEF Init
<1>2. expiresAtBlock = [x \in Cids |-> [y \in Users |-> 0]]
  BY DEF Init
<1> QED
  BY ONLY <1>1, <1>2, c \in Cids, u \in Users

(* A recipient is listed once and only while bits are stored, in every     *)
(* entry of a grant (_grant).                                              *)
LEMMA ListedGrant ==
  ASSUME NoZeroMask, TypeOK, ListedOnce, NEW o \in Users, NEW u \in Users,
         NEW cs \in SUBSET Cids, NEW mask \in Masks, NEW d \in Nat, GrantEach(o, cs, u, mask, d)
  PROVE  ListedOnce'
<1> SUFFICES ASSUME NEW c \in Cids, NEW v \in Users
             PROVE  /\ sharedUsers'[c][v] <= 1
                    /\ sharedUsers'[c][v] = 1 => permissions'[c][v] # {}
                    /\ expiresAtBlock'[c][v] # 0 => permissions'[c][v] # {}
  BY DEF ListedOnce
<1>0. /\ sharedUsers[c][v] \in Nat /\ sharedUsers[c][v] <= 1
      /\ sharedUsers[c][v] = 1 => permissions[c][v] # {}
      /\ expiresAtBlock[c][v] # 0 => permissions[c][v] # {}
  BY DEF TypeOK, ListedOnce
<1>1. CASE ~(v = u /\ c \in cs)
  <2>1. /\ sharedUsers'[c][v] = sharedUsers[c][v]
        /\ permissions'[c][v] = permissions[c][v]
        /\ expiresAtBlock'[c][v] = expiresAtBlock[c][v]
    BY <1>1 DEF GrantEach
  <2> QED
    BY ONLY <1>0, <2>1
<1>2. CASE v = u /\ c \in cs
  <2>1. permissions'[c][v] = permissions[c][v] \cup mask
    BY <1>2 DEF GrantEach
  <2>2. permissions'[c][v] # {}
    <3>1. mask # {}
      BY DEF NoZeroMask
    <3> QED
      BY ONLY <2>1, <3>1
  <2>3. sharedUsers'[c][v] =
          IF permissions[c][v] = {} THEN sharedUsers[c][v] + 1 ELSE sharedUsers[c][v]
    BY <1>2 DEF GrantEach, FirstGrant
  <2> QED
    BY ONLY <1>0, <2>2, <2>3
<1> QED
  BY <1>1, <1>2

(* Taking the last bit takes the one entry with it (_revoke).              *)
LEMMA ListedRevoke ==
  ASSUME TypeOK, ListedOnce, NEW o \in Users, NEW u \in Users,
         NEW cs \in SUBSET Cids, NEW mask \in Masks, RevokeEach(o, cs, u, mask)
  PROVE  ListedOnce'
<1> SUFFICES ASSUME NEW c \in Cids, NEW v \in Users
             PROVE  /\ sharedUsers'[c][v] <= 1
                    /\ sharedUsers'[c][v] = 1 => permissions'[c][v] # {}
                    /\ expiresAtBlock'[c][v] # 0 => permissions'[c][v] # {}
  BY DEF ListedOnce
<1>0. /\ sharedUsers[c][v] \in Nat /\ sharedUsers[c][v] <= 1
      /\ sharedUsers[c][v] = 1 => permissions[c][v] # {}
      /\ expiresAtBlock[c][v] # 0 => permissions[c][v] # {}
  BY DEF TypeOK, ListedOnce
<1>1. permissions'[c][v] =
        IF v = u /\ c \in cs THEN permissions[c][v] \ mask ELSE permissions[c][v]
  BY DEF RevokeEach
<1>2. /\ sharedUsers'[c][v] = IF v = u /\ c \in Emptied(cs, u, mask)
                              THEN OneLess(sharedUsers[c][v]) ELSE sharedUsers[c][v]
      /\ expiresAtBlock'[c][v] = IF v = u /\ c \in Emptied(cs, u, mask)
                                 THEN 0 ELSE expiresAtBlock[c][v]
  BY DEF RevokeEach, PopListed
<1>3. CASE v = u /\ c \in Emptied(cs, u, mask)
  BY <1>0, <1>2, <1>3 DEF OneLess
<1>4. CASE ~(v = u /\ c \in Emptied(cs, u, mask))
  <2>1. permissions[c][v] # {} => permissions'[c][v] # {}
    BY <1>1, <1>4 DEF Emptied
  <2> QED
    BY ONLY <1>0, <1>2, <1>4, <2>1
<1> QED
  BY <1>3, <1>4

(* A delete takes bits, expiry and entries together (deleteFile).          *)
LEMMA ListedDelete ==
  ASSUME TypeOK, ListedOnce, NEW o \in Users, NEW cs \in SUBSET Cids, DeleteEach(o, cs)
  PROVE  ListedOnce'
  BY DEF DeleteEach, DropRecipients, PopRecipients, ClearExpiry, ClearSharedUsers,
         ListedOnce, TypeOK

(* Every transaction with masks other than 0 keeps ListedOnce.             *)
LEMMA ListedNext ==
  ASSUME NoZeroMask, TypeOK, ListedOnce, [Next]_vars
  PROVE  ListedOnce'
<1>1. ASSUME UNCHANGED <<sharedUsers, permissions, expiresAtBlock>> PROVE ListedOnce'
  BY <1>1 DEF ListedOnce
<1>2. CASE UNCHANGED vars
  BY <1>1, <1>2 DEF vars, listVars, accessVars
<1>3. Mine => ListedOnce'
  BY <1>1 DEF Mine, listVars, accessVars
<1>4. \A o \in Users, cs \in SUBSET Cids : \A path \in [cs -> Paths] :
        UploadEach(o, cs, path) \/ MoveEach(o, cs, path) => ListedOnce'
  <2> SUFFICES ASSUME NEW o \in Users, NEW cs \in SUBSET Cids, NEW path \in [cs -> Paths],
                      UploadEach(o, cs, path) \/ MoveEach(o, cs, path)
               PROVE  ListedOnce'
    OBVIOUS
  <2>1. CASE MoveEach(o, cs, path)
    BY <1>1, <2>1 DEF MoveEach, listVars, accessVars
  <2>2. CASE UploadEach(o, cs, path)
    BY <2>2, FileStorageAssumption DEF UploadEach, listVars, ListedOnce
  <2> QED
    BY <2>1, <2>2
<1>5. \A o \in Users, cs \in SUBSET Cids : DeleteStep(o, cs) => ListedOnce'
  BY ListedDelete DEF DeleteStep
<1>6. \A o, u \in Users, cs \in SUBSET Cids, mask \in Masks :
        RevokeEach(o, cs, u, mask) => ListedOnce'
  BY ListedRevoke
<1>7. \A o, u \in Users, cs \in SUBSET Cids, mask \in Masks, d \in Nat :
        GrantStep(o, cs, u, mask, d) => ListedOnce'
  BY ListedGrant DEF GrantStep
<1>8. \A u \in Users, c \in Cids, d \in Durations : RequestAccess(u, c, d) => ListedOnce'
  BY <1>1 DEF RequestAccess, listVars, accessVars
<1>9. \A u \in Users, c \in Cids : CancelRequest(u, c) => ListedOnce'
  BY <1>1 DEF CancelRequest, listVars, accessVars
<1>10. \A o, u \in Users, c \in Cids : DenyRequest(o, c, u) => ListedOnce'
  BY <1>1 DEF DenyRequest, listVars, accessVars
<1>11. \A o, u \in Users, c \in Cids, mask \in Masks, d \in Durations :
         ApproveRequest(o, c, u, mask, d) => ListedOnce'
  <2> SUFFICES ASSUME NEW o \in Users, NEW u \in Users, NEW c \in Cids, NEW mask \in Masks,
                      NEW d \in Durations, ApproveRequest(o, c, u, mask, d)
               PROVE  ListedOnce'
    OBVIOUS
  <2>1. {c} \in SUBSET Cids /\ d \in Nat /\ GrantEach(o, {c}, u, mask, d)
    BY FileStorageAssumption DEF ApproveRequest
  <2> QED
    BY <2>1, ListedGrant
<1>12. CASE Next
  BY ONLY <1>12, <1>3, <1>4, <1>5, <1>6, <1>7, <1>8, <1>9, <1>10, <1>11, StepKinds
<1> QED
  BY <1>2, <1>12

(* If nobody passes the mask 0, a recipient has one entry in a file's list *)
(* and only while bits are stored, so one complete revoke ends the share,  *)
(* for any number of users, files, bits and durations.                     *)
THEOREM ListedOnceCorrect == NoZeroMask => (Spec => []ListedOnce)
<1> SUFFICES ASSUME NoZeroMask PROVE Spec => []ListedOnce
  OBVIOUS
<1>1. Init => ListedOnce
  BY ListedInit
<1>2. TypeOK /\ ListedOnce /\ [Next]_vars => ListedOnce'
  BY ListedNext
<1> QED
  BY <1>1, <1>2, TypeCorrect, PTL DEF Spec
-----------------------------------------------------------------------------
(***************************************************************************)
(* Requests and approvals, step by step.                                   *)
(***************************************************************************)
(* A request on record is not opened by this step.                         *)
NoneOpened == \A c \in Cids, u \in Users :
  requests'[c][u] = "Pending" => requests[c][u] = "Pending"

(* A pending request is not approved by this step.                         *)
NoneApproved == \A c \in Cids, u \in Users :
  requests'[c][u] = "Approved" => requests[c][u] # "Pending"

(* What RequestsAreAboutLapsedGrants says of a step.                       *)
OpenedIsLapsed == \A c \in Cids, u \in Users :
  requests[c][u] # "Pending" /\ requests'[c][u] = "Pending" =>
    permissions[c][u] # {} /\ expiresAtBlock[c][u] \in 1..block

(* What ApprovalGrantsAccess says of a step.                               *)
ApprovedIsGranted == \A c \in Cids, u \in Users :
  requests[c][u] = "Pending" /\ requests'[c][u] = "Approved" =>
    /\ EffectivePermissions(c, u)' # {}
    /\ expiresAtBlock'[c][u] > block'
    /\ sharedUsers'[c][u] > 0 \/ u \in formerOwners[c]

(* Only requestAccess opens a request and only approveRequest approves it. *)
LEMMA OthersNeitherOpenNorApprove ==
  ASSUME TypeOK,
         \/ UNCHANGED requests
         \/ \E o, cs : DropRequests(o, cs)
         \/ \E c \in Cids, u \in Users, status \in {"Denied", "Cancelled"} : Resolve(c, u, status)
  PROVE  NoneOpened /\ NoneApproved
<1>1. CASE UNCHANGED requests
  BY <1>1 DEF NoneOpened, NoneApproved
<1>2. CASE \E o, cs : DropRequests(o, cs)
  BY <1>2 DEF NoneOpened, NoneApproved, DropRequests
<1>3. CASE \E c \in Cids, u \in Users, status \in {"Denied", "Cancelled"} : Resolve(c, u, status)
  <2>1. PICK c \in Cids, u \in Users, status \in {"Denied", "Cancelled"} :
          requests' = [requests EXCEPT ![c][u] = status]
    BY <1>3 DEF Resolve, SetStatus
  <2> QED
    BY <2>1 DEF TypeOK, NoneOpened, NoneApproved
<1> QED
  BY <1>1, <1>2, <1>3

(* A step that asks for time is about a lapsed grant (requestAccess).      *)
LEMMA RequestOpensLapsed ==
  ASSUME TypeOK, ListedOnce, NEW u \in Users, NEW c \in Cids, NEW d, RequestAccess(u, c, d)
  PROVE  OpenedIsLapsed /\ NoneApproved
<1>1. requests' = [requests EXCEPT ![c][u] = "Pending"]
  BY DEF RequestAccess, SetStatus
<1>2. permissions[c][u] # {}
  BY DEF RequestAccess, ListedOnce
<1>3. expiresAtBlock[c][u] \in 1..block
  BY <1>2 DEF RequestAccess, EffectivePermissions, TypeOK
<1> QED
  BY <1>1, <1>2, <1>3 DEF OpenedIsLapsed, NoneApproved, TypeOK

(* An approval leaves its requester with access (approveRequest).          *)
LEMMA ApprovalGrants ==
  ASSUME NoZeroMask, IInv, IInv', NEW o \in Users, NEW u \in Users, NEW c \in Cids,
         NEW mask \in Masks, NEW d \in Durations, ApproveRequest(o, c, u, mask, d)
  PROVE  ApprovedIsGranted /\ NoneOpened
<1>1. requests' = [requests EXCEPT ![c][u] = "Approved"] /\ requests \in [Cids -> [Users -> Status]]
  BY DEF ApproveRequest, Resolve, SetStatus, IInv, TypeOK
<1>2. \A e \in Cids, v \in Users : ~(e = c /\ v = u) => requests'[e][v] = requests[e][v]
  BY <1>1
<1>3. block \in Nat /\ block' = block /\ d \in Nat /\ d > 0
  BY FileStorageAssumption DEF ApproveRequest, IInv, TypeOK
<1>4. permissions'[c][u] # {}
  <2>1. permissions'[c][u] = permissions[c][u] \cup mask
    BY DEF ApproveRequest, GrantEach
  <2>2. mask # {}
    BY DEF NoZeroMask
  <2> QED
    BY ONLY <2>1, <2>2
<1>5. expiresAtBlock'[c][u] = block + d
  BY <1>3 DEF ApproveRequest, GrantEach
<1>6. EffectivePermissions(c, u)' # {} /\ expiresAtBlock'[c][u] > block'
  BY <1>3, <1>4, <1>5 DEF EffectivePermissions
<1>7. sharedUsers'[c][u] > 0 \/ u \in formerOwners[c]
  <2>1. requests'[c][u] # "None"
    BY <1>1
  <2>2. fileOwner'[c] # u /\ formerOwners' = formerOwners
    BY <2>1 DEF IInv, RequestersExact, ApproveRequest, fileVars
  <2> QED
    BY <1>4, <2>2 DEF IInv, AccessAccountedFor
<1>8. ApprovedIsGranted
  BY <1>2, <1>6, <1>7 DEF ApprovedIsGranted
<1>9. NoneOpened
  BY <1>1, <1>2 DEF NoneOpened
<1> QED
  BY <1>8, <1>9

(* Both facts about every transaction.                                     *)
LEMMA RequestSteps ==
  ASSUME NoZeroMask, IInv, ListedOnce, IInv', Next
  PROVE  OpenedIsLapsed /\ ApprovedIsGranted
<1> DEFINE P == OpenedIsLapsed /\ ApprovedIsGranted
<1>0. TypeOK
  BY DEF IInv
<1>1. NoneOpened => OpenedIsLapsed
  BY DEF NoneOpened, OpenedIsLapsed
<1>2. NoneApproved => ApprovedIsGranted
  BY DEF NoneApproved, ApprovedIsGranted
<1>3. (UNCHANGED requests) => P
  BY <1>0, <1>1, <1>2, OthersNeitherOpenNorApprove
<1>4. \A c \in Cids, u \in Users, status \in {"Denied", "Cancelled"} : Resolve(c, u, status) => P
  BY <1>0, <1>1, <1>2, OthersNeitherOpenNorApprove
<1>5. \A o, cs : DropRequests(o, cs) => P
  BY <1>0, <1>1, <1>2, OthersNeitherOpenNorApprove
<1> HIDE DEF P
<1>6. Mine => P
  BY <1>3 DEF Mine, requestVars
<1>7. \A o \in Users, cs \in SUBSET Cids : \A path \in [cs -> Paths] :
        UploadEach(o, cs, path) \/ MoveEach(o, cs, path) => P
  BY <1>3 DEF UploadEach, MoveEach, requestVars
<1>8. \A o \in Users, cs \in SUBSET Cids : DeleteStep(o, cs) => P
  BY <1>5 DEF DeleteStep, DeleteEach
<1>9. \A o, u \in Users, cs \in SUBSET Cids, mask \in Masks : RevokeEach(o, cs, u, mask) => P
  BY <1>3 DEF RevokeEach, requestVars
<1>10. \A o, u \in Users, cs \in SUBSET Cids, mask \in Masks, d \in Nat :
         GrantStep(o, cs, u, mask, d) => P
  BY <1>3 DEF GrantStep, requestVars
<1>11. \A u \in Users, c \in Cids, d \in Durations : RequestAccess(u, c, d) => P
  BY <1>0, <1>2, RequestOpensLapsed DEF P
<1>12. \A u \in Users, c \in Cids : CancelRequest(u, c) => P
  BY <1>4 DEF CancelRequest
<1>13. \A o, u \in Users, c \in Cids : DenyRequest(o, c, u) => P
  BY <1>4 DEF DenyRequest
<1>14. \A o, u \in Users, c \in Cids, mask \in Masks, d \in Durations :
         ApproveRequest(o, c, u, mask, d) => P
  BY <1>1, ApprovalGrants DEF P
<1>15. P
  BY ONLY Next, <1>6, <1>7, <1>8, <1>9, <1>10, <1>11, <1>12, <1>13, <1>14, StepKinds
<1> QED
  BY <1>15 DEF P

(* If nobody passes the mask 0, a request is opened only by a user whose   *)
(* timed grant has run out (requestAccess).                                *)
THEOREM RequestsCorrect == NoZeroMask => (Spec => RequestsAreAboutLapsedGrants)
<1> SUFFICES ASSUME NoZeroMask PROVE Spec => RequestsAreAboutLapsedGrants
  OBVIOUS
<1>1. Spec => []ListedOnce
  BY ListedOnceCorrect
<1>2. IInv /\ IInv' /\ ListedOnce /\ [Next]_vars => [OpenedIsLapsed]_vars
  BY RequestSteps
<1> QED
  BY <1>1, <1>2, Invariant, PTL DEF Spec, RequestsAreAboutLapsedGrants, OpenedIsLapsed

(* If nobody passes the mask 0, the step that approves a request leaves    *)
(* its requester with access, until a later block, and in the lists that   *)
(* a revoke or a delete walks, unless they were the file's owner before    *)
(* (approveRequest).                                                       *)
THEOREM ApprovalsCorrect == NoZeroMask => (Spec => ApprovalGrantsAccess)
<1> SUFFICES ASSUME NoZeroMask PROVE Spec => ApprovalGrantsAccess
  OBVIOUS
<1>1. Spec => []ListedOnce
  BY ListedOnceCorrect
<1>2. IInv /\ IInv' /\ ListedOnce /\ [Next]_vars => [ApprovedIsGranted]_vars
  BY RequestSteps
<1> QED
  BY <1>1, <1>2, Invariant, PTL DEF Spec, ApprovalGrantsAccess, ApprovedIsGranted
=============================================================================
