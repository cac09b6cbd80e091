--------------------------- MODULE StorageProofs ---------------------------
(***************************************************************************)
(* What holds of the stored bytes for any number of users and cids.  The   *)
(* types, and that what is not exposed is stored, hold of every            *)
(* environment.  What exposes a file is narrowed down to crossed requests  *)
(* under PromptVerify and OwnFoldersOnly, the environment of the run.      *)
(***************************************************************************)
EXTENDS StorageLifecycle, TLAPS

UploadType == [phase : {"idle", "add", "check", "pin", "sign"}, todo : SUBSET Cids,
               cid : Cids \cup {NoCid}, accepted : SUBSET Cids]

VerifyType == [phase : {"idle", "unpin", "gc"}, todo : SUBSET Cids, args : SUBSET Cids]

(* The cids that an upload request still works on.                         *)
Names(r) == r.todo \cup {r.cid} \cup r.accepted

(* An upload request goes on: it takes up no other cid, and accepts one    *)
(* only when it is pinned.                                                 *)
GoesOn(r, s, kept) ==
  /\ s \in UploadType
  /\ \A c \in Cids : c \in Names(s) => c \in Names(r)
  /\ s.accepted \subseteq r.accepted \cup kept

(* The edits of a request's record: none, the end, and one for each call.  *)
LEMMA Unedited == ASSUME NEW r \in UploadType, NEW kept PROVE GoesOn(r, r, kept)
  BY DEF GoesOn, UploadType, Names

LEMMA EditEnd == ASSUME NEW r \in UploadType, NEW kept PROVE GoesOn(r, NoUpload, kept)
  BY StorageAssumption DEF GoesOn, UploadType, Names, NoUpload

LEMMA EditPhase ==
  ASSUME NEW r \in UploadType, NEW kept
  PROVE  GoesOn(r, [r EXCEPT !.phase = "pin"], kept) /\ GoesOn(r, [r EXCEPT !.phase = "sign"], kept)
  BY DEF GoesOn, UploadType, Names

LEMMA EditSkip ==
  ASSUME NEW r \in UploadType, NEW kept
  PROVE  GoesOn(r, [r EXCEPT !.phase = "add", !.cid = NoCid], kept)
  BY StorageAssumption DEF GoesOn, UploadType, Names

LEMMA EditFailed ==
  ASSUME NEW r \in UploadType, NEW kept, NEW c \in Cids
  PROVE  GoesOn(r, [r EXCEPT !.todo = @ \ {c}], kept)
  BY DEF GoesOn, UploadType, Names

LEMMA EditAdded ==
  ASSUME NEW r \in UploadType, NEW kept, NEW c \in r.todo
  PROVE  GoesOn(r, [r EXCEPT !.phase = "check", !.todo = @ \ {c}, !.cid = c], kept)
  BY DEF GoesOn, UploadType, Names

LEMMA EditAccepted ==
  ASSUME NEW r \in UploadType, NEW kept, r.cid \in kept, r.cid # NoCid
  PROVE  GoesOn(r, [r EXCEPT !.phase = "add", !.accepted = @ \cup {r.cid}, !.cid = NoCid], kept)
  BY StorageAssumption DEF GoesOn, UploadType, Names

(* A step of an upload request after its start and before it is mined.     *)
Handling == \E u \in Users :
  \/ \E c \in Cids : AddUnpinned(u, c) \/ AddFails(u, c)
  \/ CheckDuplicate(u) \/ Pin(u) \/ PrepareUpload(u) \/ AbandonUpload(u)

(* What every such step does (routers/upload.py).                          *)
Handled ==
  /\ upload' \in [Users -> UploadType]
  /\ \A v \in Users : GoesOn(upload[v], upload'[v], pinned')
  /\ pinned \subseteq pinned' /\ pinned' \subseteq blocks' /\ blocks' \subseteq Cids
  /\ UNCHANGED <<chainVars, delete, mined, verify>>

(* Only the record of the request itself changes.                          *)
LEMMA OneHandled ==
  ASSUME TypeOK, NEW u \in Users, NEW r, upload' = [upload EXCEPT ![u] = r],
         GoesOn(upload[u], r, pinned')
  PROVE  upload' \in [Users -> UploadType] /\ \A v \in Users : GoesOn(upload[v], upload'[v], pinned')
<1>1. upload \in [Users -> UploadType]
  BY DEF TypeOK, UploadType
<1>2. r \in UploadType
  BY DEF GoesOn
<1>3. \A v \in Users : v # u => GoesOn(upload[v], upload[v], pinned')
  BY <1>1, Unedited
<1> QED
  BY <1>1, <1>2, <1>3

(* The steps between the start and the registration.                       *)
LEMMA HandlingIsHandled ==
  ASSUME TypeOK, Handling
  PROVE  Handled
<1>0. PICK u \in Users : \/ \E c \in Cids : AddUnpinned(u, c) \/ AddFails(u, c)
                         \/ CheckDuplicate(u) \/ Pin(u) \/ PrepareUpload(u) \/ AbandonUpload(u)
  BY DEF Handling
<1> DEFINE r == upload[u]
<1>t. r \in UploadType /\ pinned \subseteq blocks /\ blocks \subseteq Cids
  BY DEF TypeOK, UploadType
<1>e. ASSUME NEW s, upload' = [upload EXCEPT ![u] = s], GoesOn(r, s, pinned'),
             pinned \subseteq pinned', pinned' \subseteq blocks', blocks' \subseteq Cids,
             UNCHANGED <<chainVars, delete, mined, verify>>
      PROVE  Handled
  <2>1. upload' \in [Users -> UploadType] /\ \A v \in Users : GoesOn(upload[v], upload'[v], pinned')
    BY <1>e, OneHandled
  <2> QED
    BY <1>e, <2>1 DEF Handled
<1>n. nodeVars' = nodeVars => pinned \subseteq pinned' /\ pinned' \subseteq blocks' /\ blocks' \subseteq Cids
  BY <1>t DEF nodeVars
<1>1. ASSUME NEW c \in Cids, AddUnpinned(u, c) PROVE Handled
  <2> DEFINE s == [r EXCEPT !.phase = "check", !.todo = @ \ {c}, !.cid = c]
  <2>1. c \in r.todo /\ blocks' = blocks \cup {c}
        /\ UNCHANGED <<chainVars, pinned, delete, mined, verify>>
    BY <1>1 DEF AddUnpinned
  <2>2. upload' = [upload EXCEPT ![u] = s]
    BY <1>1 DEF AddUnpinned
  <2> HIDE DEF r
  <2>3. GoesOn(r, s, pinned')
    BY ONLY <1>t, <2>1, EditAdded
  <2> HIDE DEF s
  <2> QED
    BY ONLY <1>e, <1>t, <2>1, <2>2, <2>3, c \in Cids
<1>2. ASSUME NEW c \in Cids, AddFails(u, c) PROVE Handled
  <2> DEFINE s == [r EXCEPT !.todo = @ \ {c}]
  <2>1. UNCHANGED <<chainVars, nodeVars, delete, mined, verify>>
    BY <1>2 DEF AddFails
  <2>2. upload' = [upload EXCEPT ![u] = s]
    BY <1>2 DEF AddFails
  <2> HIDE DEF r
  <2>3. GoesOn(r, s, pinned')
    BY ONLY <1>t, c \in Cids, EditFailed
  <2> HIDE DEF s
  <2> QED
    BY ONLY <1>e, <1>n, <2>1, <2>2, <2>3
<1>3. CASE CheckDuplicate(u)
  <2> DEFINE skipped == [r EXCEPT !.phase = "add", !.cid = NoCid]
             new     == [r EXCEPT !.phase = "pin"]
  <2>1. UNCHANGED <<chainVars, nodeVars, delete, mined, verify>>
    BY <1>3 DEF CheckDuplicate, RejectDuplicate
  <2>2. upload' = [upload EXCEPT ![u] = skipped] \/ upload' = [upload EXCEPT ![u] = new]
    BY <1>3 DEF CheckDuplicate, RejectDuplicate, Skip, TypeOK
  <2> HIDE DEF r
  <2>3. GoesOn(r, skipped, pinned')
    BY ONLY <1>t, EditSkip
  <2>4. GoesOn(r, new, pinned')
    BY ONLY <1>t, EditPhase
  <2> HIDE DEF skipped, new
  <2> QED
    BY ONLY <1>e, <1>n, <2>1, <2>2, <2>3, <2>4
<1>4. CASE Pin(u)
  <2>1. UNCHANGED <<chainVars, blocks, delete, mined, verify>>
    BY <1>4 DEF Pin
  <2>2. CASE r.cid \in blocks /\ pinned' = pinned \cup {r.cid} /\ Accept(u)
    <3> DEFINE s == [r EXCEPT !.phase = "add", !.accepted = @ \cup {r.cid}, !.cid = NoCid]
    <3>1. upload' = [upload EXCEPT ![u] = s]
      BY <2>2 DEF Accept
    <3>2. r.cid \in pinned' /\ r.cid # NoCid
      BY <1>t, <2>2, StorageAssumption
    <3> HIDE DEF r
    <3>3. GoesOn(r, s, pinned')
      BY ONLY <1>t, <3>2, EditAccepted
    <3> HIDE DEF s
    <3> QED
      BY ONLY <1>e, <1>t, <2>1, <2>2, <3>1, <3>3
  <2>3. CASE Skip(u) /\ UNCHANGED pinned
    <3> DEFINE s == [r EXCEPT !.phase = "add", !.cid = NoCid]
    <3>1. upload' = [upload EXCEPT ![u] = s]
      BY <2>3 DEF Skip
    <3> HIDE DEF r
    <3>2. GoesOn(r, s, pinned')
      BY ONLY <1>t, EditSkip
    <3> HIDE DEF s
    <3> QED
      BY ONLY <1>e, <1>t, <2>1, <2>3, <3>1, <3>2
  <2> QED
    BY <1>4, <2>2, <2>3 DEF Pin
<1>5. CASE PrepareUpload(u) \/ AbandonUpload(u)
  <2> DEFINE s == [r EXCEPT !.phase = "sign"]
  <2>1. UNCHANGED <<chainVars, nodeVars, delete, mined, verify>>
    BY <1>5 DEF PrepareUpload, AbandonUpload
  <2>2. upload' = [upload EXCEPT ![u] = s] \/ upload' = [upload EXCEPT ![u] = NoUpload]
    BY <1>5 DEF PrepareUpload, AbandonUpload
  <2> HIDE DEF r
  <2>3. GoesOn(r, s, pinned')
    BY ONLY <1>t, EditPhase
  <2>4. GoesOn(r, NoUpload, pinned')
    BY ONLY <1>t, EditEnd
  <2> HIDE DEF s
  <2> QED
    BY ONLY <1>e, <1>n, <2>1, <2>2, <2>3, <2>4
<1> QED
  BY <1>0, <1>1, <1>2, <1>3, <1>4, <1>5

-----------------------------------------------------------------------------
(***************************************************************************)
(* Types, and what every environment keeps.                                *)
(***************************************************************************)
(* What is released is among the arguments of the delete.                  *)
Sound == TypeOK /\ verify.todo \subseteq verify.args

(* Nothing is stored and nothing in progress.                              *)
LEMMA SoundInit == Init => Sound
  BY StorageAssumption DEF Init, Sound, TypeOK, NoUpload, NoVerify

(* The steps of a release edit its record (/verify-upload).                *)
LEMMA VerifyEdits ==
  ASSUME NEW v \in VerifyType, NEW c \in Cids, NEW p \in {v.phase, "gc"}, v.todo \subseteq v.args
  PROVE  /\ [v EXCEPT !.todo = @ \ {c}, !.phase = p] \in VerifyType
         /\ [v EXCEPT !.todo = @ \ {c}, !.phase = p].args = v.args
         /\ [v EXCEPT !.todo = @ \ {c}, !.phase = p].todo \subseteq v.args
  BY DEF VerifyType

(* The start and the registration of an upload.                            *)
LEMMA UploadTypes ==
  ASSUME Sound, exposed' \subseteq Cids, NEW u \in Users
  PROVE  /\ \A cs \in SUBSET Cids : StartUpload(u, cs) => Sound'
         /\ RegisterUpload(u) => Sound'
<1> USE DEF Sound, TypeOK, chainVars, nodeVars
<1>1. ASSUME NEW cs \in SUBSET Cids, StartUpload(u, cs) PROVE Sound'
  <2>1. [NoUpload EXCEPT !.phase = "add", !.todo = cs] \in UploadType
    BY DEF NoUpload, UploadType
  <2> QED
    BY <1>1, <2>1 DEF StartUpload, UploadType
<1>2. CASE RegisterUpload(u)
  <2>1. NoUpload \in UploadType
    BY DEF NoUpload, UploadType
  <2>2. fileOwner' \in [Cids -> Users \cup {NoOwner}]
    BY <1>2 DEF RegisterUpload
  <2>3. upload' \in [Users -> UploadType] /\ UNCHANGED <<sharedWith, nodeVars, delete, mined, verify>>
    BY <1>2, <2>1 DEF RegisterUpload, UploadType
  <2> QED
    BY <2>2, <2>3 DEF UploadType
<1> QED
  BY <1>1, <1>2

(* Sharing and deleting (file_ops.py, FileStorage.sol).                    *)
LEMMA DeleteTypes ==
  ASSUME Sound, exposed' \subseteq Cids, NEW u \in Users
  PROVE  /\ \A c \in Cids : Share(c, u) => Sound'
         /\ \A cs \in SUBSET Cids : PrepareDelete(u, cs) => Sound'
         /\ MineDelete(u) => Sound'
         /\ DropDelete(u) => Sound'
<1> USE DEF Sound, TypeOK, chainVars, nodeVars
<1>1. ASSUME NEW c \in Cids, Share(c, u) PROVE Sound'
  BY <1>1 DEF Share
<1>2. ASSUME NEW cs \in SUBSET Cids, PrepareDelete(u, cs) PROVE Sound'
  BY <1>2 DEF PrepareDelete
<1>3. CASE MineDelete(u)
  BY <1>3 DEF MineDelete
<1>4. CASE DropDelete(u)
  BY <1>4 DEF DropDelete
<1> QED
  BY <1>1, <1>2, <1>3, <1>4

(* Releasing and collecting (/verify-upload, ipfs-gc).                     *)
LEMMA ReleaseTypes ==
  ASSUME Sound, exposed' \subseteq Cids
  PROVE  /\ \A cs \in SUBSET Cids : StartVerify(cs) => Sound'
         /\ \A c \in Cids : Unpin(c) => Sound'
         /\ FinishVerify => Sound'
         /\ DailyGc => Sound'
<1> USE DEF Sound, TypeOK, chainVars, nodeVars
<1>1. ASSUME NEW cs \in SUBSET Cids, StartVerify(cs) PROVE Sound'
  BY <1>1 DEF StartVerify
<1>2. ASSUME NEW c \in Cids, Unpin(c) PROVE Sound'
  <2> DEFINE p == IF verify.todo = {c} THEN "gc" ELSE verify.phase
  <2>1. verify \in VerifyType /\ p \in {verify.phase, "gc"} /\ verify.todo \subseteq verify.args
    BY DEF VerifyType
  <2>2. verify' = [verify EXCEPT !.todo = @ \ {c}, !.phase = p]
    BY <1>2 DEF Unpin
  <2> HIDE DEF p
  <2>3. verify' \in VerifyType /\ verify'.todo \subseteq verify'.args
    BY <2>1, <2>2, VerifyEdits
  <2> QED
    BY <1>2, <2>3 DEF Unpin, VerifyType
<1>3. CASE FinishVerify
  BY <1>3 DEF FinishVerify, Sweep, NoVerify
<1>4. CASE DailyGc
  BY <1>4 DEF DailyGc, Sweep
<1> QED
  BY <1>1, <1>2, <1>3, <1>4

(* Every step keeps the types.                                             *)
LEMMA SoundNext == Sound /\ [Next]_vars => Sound'
<1> SUFFICES ASSUME Sound, [Next]_vars PROVE Sound'
  OBVIOUS
<1>1. CASE UNCHANGED vars
  BY <1>1 DEF vars, codeVars, chainVars, nodeVars, Sound, TypeOK
<1>2. ASSUME Handling, exposed' \subseteq Cids PROVE Sound'
  <2>1. Handled
    BY <1>2, HandlingIsHandled DEF Sound
  <2> QED
    BY <1>2, <2>1 DEF Handled, Sound, TypeOK, UploadType, chainVars
<1>3. CASE Next
  <2>1. exposed' \subseteq Cids /\ Step
    BY <1>3 DEF Next, Watch
  <2> QED
    BY <1>2, <2>1, UploadTypes, DeleteTypes, ReleaseTypes DEF Step, Handling
<1> QED
  BY <1>1, <1>3

(* Types, and no pin without its bytes, in every environment.              *)
THEOREM TypeCorrect == Spec => []TypeOK
<1>1. Sound => TypeOK
  BY DEF Sound
<1> QED
  BY <1>1, SoundInit, SoundNext, PTL DEF Spec

-----------------------------------------------------------------------------
(***************************************************************************)
(* What is accepted or registered is pinned or exposed.                    *)
(***************************************************************************)
Secured(c) == fileOwner[c] # NoOwner \/ \E u \in Users : c \in upload[u].accepted

Guarded == \A c \in Cids :
  /\ InUse(c) /\ Outstanding(c) => c \in exposed
  /\ Secured(c) => c \in pinned \/ c \in exposed

(* Nothing is accepted or registered at first.                             *)
LEMMA GuardedInit == Init => Guarded
  BY StorageAssumption
     DEF Init, Guarded, Secured, InUse, InFlight, Outstanding, NoUpload, NoVerify

(* No step of an upload leaves an accepted cid unpinned (upload.py).       *)
LEMMA UploadSecures ==
  ASSUME Sound, Guarded, NEW c \in Cids, Secured(c)',
         \/ Handling
         \/ \E u \in Users : RegisterUpload(u) \/ \E cs \in SUBSET Cids : StartUpload(u, cs)
  PROVE  c \in pinned' \/ c \in exposed
<1>0. upload \in [Users -> UploadType] /\ fileOwner \in [Cids -> Users \cup {NoOwner}]
  BY DEF Sound, TypeOK, UploadType
<1>1. CASE Handling
  <2>1. Handled
    BY <1>1, HandlingIsHandled DEF Sound
  <2>2. pinned \subseteq pinned' /\ fileOwner' = fileOwner
        /\ \A u \in Users : upload'[u].accepted \subseteq upload[u].accepted \cup pinned'
    BY <2>1 DEF Handled, GoesOn, chainVars
  <2> QED
    BY <2>2 DEF Guarded, Secured
<1>2. ASSUME NEW u \in Users, RegisterUpload(u) PROVE c \in pinned' \/ c \in exposed
  <2>1. upload' = [upload EXCEPT ![u] = NoUpload] /\ pinned' = pinned
    BY <1>2 DEF RegisterUpload, nodeVars
  <2>2. fileOwner'[c] = fileOwner[c] \/ c \in upload[u].accepted
    BY <1>0, <1>2 DEF RegisterUpload
  <2>3. \A v \in Users : c \in upload'[v].accepted => c \in upload[v].accepted
    BY <1>0, <2>1 DEF NoUpload
  <2> QED
    BY <2>1, <2>2, <2>3 DEF Guarded, Secured
<1>3. ASSUME NEW u \in Users, NEW cs \in SUBSET Cids, StartUpload(u, cs)
      PROVE  c \in pinned' \/ c \in exposed
  <2> DEFINE new == [NoUpload EXCEPT !.phase = "add", !.todo = cs]
  <2>1. upload' = [upload EXCEPT ![u] = new] /\ UNCHANGED <<fileOwner, pinned>>
    BY <1>3 DEF StartUpload, chainVars, nodeVars
  <2>2. new.accepted = {}
    BY DEF NoUpload
  <2> HIDE DEF new
  <2>3. \A v \in Users : c \in upload'[v].accepted => c \in upload[v].accepted
    BY <1>0, <2>1, <2>2
  <2> QED
    BY <2>1, <2>3 DEF Guarded, Secured
<1> QED
  BY <1>1, <1>2, <1>3

(* Sharing and deleting leave the pins alone.                              *)
LEMMA DeleteSecures ==
  ASSUME Sound, Guarded, NEW c \in Cids, Secured(c)', NEW u \in Users,
         \/ MineDelete(u) \/ DropDelete(u)
         \/ \E e \in Cids : Share(e, u)
         \/ \E cs \in SUBSET Cids : PrepareDelete(u, cs)
  PROVE  c \in pinned' \/ c \in exposed
<1>1. UNCHANGED <<pinned, upload>>
  BY DEF MineDelete, DropDelete, Share, PrepareDelete, nodeVars
<1>2. fileOwner'[c] # NoOwner => fileOwner[c] # NoOwner
  BY DEF MineDelete, DropDelete, Share, PrepareDelete, chainVars, Sound, TypeOK
<1> QED
  BY <1>1, <1>2 DEF Guarded, Secured

(* The list of cids that a release goes through stays as it was.           *)
LEMMA UnpinKeepsArgs ==
  ASSUME Sound, NEW c \in Cids, Unpin(c)
  PROVE  verify'.args = verify.args
<1> DEFINE p == IF verify.todo = {c} THEN "gc" ELSE verify.phase
<1>1. verify \in VerifyType /\ p \in {verify.phase, "gc"} /\ verify.todo \subseteq verify.args
  BY DEF VerifyType, Sound, TypeOK
<1>2. verify' = [verify EXCEPT !.todo = @ \ {c}, !.phase = p]
  BY DEF Unpin
<1> HIDE DEF p
<1> QED
  BY <1>1, <1>2, VerifyEdits

(* A release takes pins of its own arguments only.                         *)
LEMMA ReleaseSecures ==
  ASSUME Sound, Guarded, NEW c \in Cids, Secured(c)',
         \/ \E cs \in SUBSET Cids : StartVerify(cs)
         \/ \E e \in Cids : Unpin(e)
         \/ FinishVerify
         \/ DailyGc
  PROVE  c \in pinned' \/ c \in exposed \/ Outstanding(c)'
<1>1. ASSUME NEW e \in Cids, Unpin(e) PROVE c \in pinned' \/ c \in exposed \/ Outstanding(c)'
  <2>1. UNCHANGED <<fileOwner, upload>> /\ pinned \ {e} \subseteq pinned'
    BY ONLY <1>1 DEF Unpin, chainVars
  <2>2. e \in verify.todo
    BY ONLY <1>1, Zenon DEF Unpin
  <2>3. e \in verify'.args
    BY <1>1, <2>2, UnpinKeepsArgs DEF Sound
  <2> QED
    BY <2>1, <2>3 DEF Guarded, Secured, Outstanding
<1>2. ASSUME UNCHANGED <<fileOwner, upload, pinned>> PROVE c \in pinned' \/ c \in exposed
  BY <1>2 DEF Guarded, Secured
<1> QED
  BY <1>1, <1>2 DEF StartVerify, FinishVerify, DailyGc, chainVars, nodeVars

(* Every step keeps what is accepted or registered pinned or exposed.      *)
LEMMA GuardedNext == Sound /\ Guarded /\ [Next]_vars => Guarded'
<1> SUFFICES ASSUME Sound, Guarded, [Next]_vars PROVE Guarded'
  OBVIOUS
<1>1. CASE UNCHANGED vars
  BY <1>1 DEF vars, codeVars, chainVars, nodeVars, Guarded, Secured, InUse, InFlight, Outstanding
<1>2. CASE Next
  <2>1. Step /\ Watch
    BY <1>2 DEF Next
  <2>2. ASSUME NEW c \in Cids, InUse(c)', Outstanding(c)' PROVE c \in exposed'
    BY <2>1, <2>2 DEF Watch
  <2>3. ASSUME NEW c \in Cids, Secured(c)' PROVE c \in pinned' \/ c \in exposed'
    <3>1. c \in pinned' \/ c \in exposed \/ Outstanding(c)'
      BY <2>1, <2>3, UploadSecures, DeleteSecures, ReleaseSecures DEF Step, Handling
    <3>2. InUse(c)'
      BY <2>3 DEF Secured, InUse, InFlight
    <3> QED
      BY <2>1, <3>1, <3>2 DEF Watch
  <2> QED
    BY <2>2, <2>3 DEF Guarded
<1> QED
  BY <1>1, <1>2

(* In every environment, for any number of users, cids, failures of the    *)
(* node and sweeps: whatever is registered is pinned and stored, unless a  *)
(* mined delete that names it may release it or has done so (upload.py,    *)
(* ipfs.py, docker-compose.yml).                                           *)
THEOREM StoredCorrect == Spec => []StoredUnlessExposed
<1>1. Sound /\ Guarded => StoredUnlessExposed
  BY DEF Sound, TypeOK, Guarded, Secured, StoredUnlessExposed
<1> QED
  BY <1>1, GuardedInit, GuardedNext, SoundInit, SoundNext, PTL DEF Spec

-----------------------------------------------------------------------------
(***************************************************************************)
(* What exposes a cid, when deletes are verified before their cids are     *)
(* uploaded again and folders hold files of their owner only.              *)
(***************************************************************************)
OwnDeletes == \A u \in Users : \A c \in delete[u] : fileOwner[c] = u

(* A prepared delete names files of its sender as long as it is not mined. *)
LEMMA OwnDeletesNext == OwnFoldersOnly /\ Sound /\ OwnDeletes /\ [Next]_vars => OwnDeletes'
<1> SUFFICES ASSUME OwnFoldersOnly, Sound, OwnDeletes, [Next]_vars PROVE OwnDeletes'
  OBVIOUS
<1>0. /\ delete \in [Users -> SUBSET Cids] /\ fileOwner \in [Cids -> Users \cup {NoOwner}]
      /\ NoOwner \notin Users
  BY StorageAssumption DEF Sound, TypeOK
<1>1. ASSUME UNCHANGED <<fileOwner, delete>> PROVE OwnDeletes'
  BY <1>1 DEF OwnDeletes
<1>2. ASSUME NEW u \in Users, RegisterUpload(u) PROVE OwnDeletes'
  <2>1. \A c \in Cids : fileOwner[c] # NoOwner => fileOwner'[c] = fileOwner[c]
    BY <1>0, <1>2 DEF RegisterUpload
  <2>2. delete' = delete
    BY <1>2 DEF RegisterUpload
  <2> QED
    BY <1>0, <2>1, <2>2 DEF OwnDeletes
<1>3. ASSUME NEW u \in Users, MineDelete(u) PROVE OwnDeletes'
  <2>1. delete' = [delete EXCEPT ![u] = {}]
    BY <1>3 DEF MineDelete
  <2>2. \A c \in Cids : fileOwner[c] # u => fileOwner'[c] = fileOwner[c]
    BY <1>0, <1>3 DEF MineDelete, Owned
  <2> QED
    BY <1>0, <2>1, <2>2 DEF OwnDeletes
<1>4. ASSUME NEW u \in Users, DropDelete(u) PROVE OwnDeletes'
  BY <1>0, <1>4 DEF DropDelete, OwnDeletes, chainVars
<1>5. ASSUME NEW u \in Users, NEW cs \in SUBSET Cids, PrepareDelete(u, cs) PROVE OwnDeletes'
  BY <1>0, <1>5 DEF PrepareDelete, OwnDeletes, Owned, chainVars
<1>6. CASE Handling
  BY <1>1, <1>6, HandlingIsHandled DEF Sound, Handled, chainVars
<1>7. CASE UNCHANGED vars
  BY <1>1, <1>7 DEF vars, codeVars, chainVars
<1>8. CASE Next
  <2>1. ASSUME NEW u \in Users, NEW cs \in SUBSET Cids, StartUpload(u, cs) PROVE OwnDeletes'
    BY <1>1, <2>1 DEF StartUpload, chainVars
  <2>2. ASSUME NEW u \in Users, NEW c \in Cids, Share(c, u) PROVE OwnDeletes'
    BY <1>1, <2>2 DEF Share
  <2>3. ASSUME \/ \E cs \in SUBSET Cids : StartVerify(cs)
               \/ \E c \in Cids : Unpin(c)
               \/ FinishVerify
               \/ DailyGc
        PROVE OwnDeletes'
    BY <1>1, <2>3 DEF StartVerify, Unpin, FinishVerify, DailyGc, chainVars
  <2> QED
    BY <1>2, <1>3, <1>4, <1>5, <1>6, <1>8, <2>1, <2>2, <2>3 DEF Next, Step, Handling
<1> QED
  BY <1>7, <1>8

(* No step of an upload brings a cid and a delete of it together.          *)
LEMMA UploadMeetsNoDelete ==
  ASSUME PromptVerify, Sound, NEW c \in Cids, InUse(c)', Outstanding(c)',
         \/ Handling
         \/ \E u \in Users : RegisterUpload(u) \/ \E cs \in SUBSET Cids : StartUpload(u, cs)
  PROVE  InUse(c) /\ Outstanding(c)
<1>0. upload \in [Users -> UploadType] /\ fileOwner \in [Cids -> Users \cup {NoOwner}]
  BY DEF Sound, TypeOK, UploadType
<1>1. CASE Handling
  <2>1. Handled
    BY <1>1, HandlingIsHandled DEF Sound
  <2>2. UNCHANGED <<fileOwner, mined, verify>>
        /\ \A u \in Users : c \in Names(upload'[u]) => c \in Names(upload[u])
    BY <2>1 DEF Handled, GoesOn, chainVars
  <2> QED
    BY <2>2 DEF InUse, InFlight, Names, Outstanding
<1>2. ASSUME NEW u \in Users, RegisterUpload(u) PROVE InUse(c) /\ Outstanding(c)
  <2>1. upload' = [upload EXCEPT ![u] = NoUpload] /\ UNCHANGED <<mined, verify>>
    BY <1>2 DEF RegisterUpload
  <2>2. fileOwner'[c] = fileOwner[c] \/ c \in upload[u].accepted
    BY <1>0, <1>2 DEF RegisterUpload
  <2>3. InFlight(c)' => InFlight(c)
    BY <1>0, <2>1, StorageAssumption DEF InFlight, NoUpload
  <2> QED
    BY <2>1, <2>2, <2>3 DEF InUse, InFlight, Outstanding
<1>3. ASSUME NEW u \in Users, NEW cs \in SUBSET Cids, StartUpload(u, cs)
      PROVE  InUse(c) /\ Outstanding(c)
  <2> DEFINE new == [NoUpload EXCEPT !.phase = "add", !.todo = cs]
  <2>1. upload' = [upload EXCEPT ![u] = new] /\ UNCHANGED <<fileOwner, mined, verify>>
    BY <1>3 DEF StartUpload, chainVars
  <2>2. new.todo = cs /\ new.cid = NoCid /\ new.accepted = {}
    BY DEF NoUpload
  <2> HIDE DEF new
  <2>3. Outstanding(c) /\ c \notin cs
    BY <1>3, <2>1 DEF StartUpload, Outstanding
  <2>4. InFlight(c)' => InFlight(c)
    BY <1>0, <2>1, <2>2, <2>3, StorageAssumption DEF InFlight
  <2> QED
    BY <2>1, <2>3, <2>4 DEF InUse
<1> QED
  BY <1>1, <1>2, <1>3

(* Nor does one of a release, nor anything on the chain but a mined delete. *)
LEMMA OthersMeetNoDelete ==
  ASSUME Sound, NEW c \in Cids, InUse(c)', Outstanding(c)',
         \/ \E u \in Users : \/ DropDelete(u)
                             \/ \E e \in Cids : Share(e, u)
                             \/ \E cs \in SUBSET Cids : PrepareDelete(u, cs)
         \/ \E cs \in SUBSET Cids : StartVerify(cs)
         \/ \E e \in Cids : Unpin(e)
         \/ FinishVerify
         \/ DailyGc
  PROVE  InUse(c) /\ Outstanding(c)
<1>1. ASSUME NEW cs \in SUBSET Cids, StartVerify(cs) PROVE Outstanding(c)
  BY <1>1 DEF StartVerify, Outstanding
<1>2. ASSUME NEW e \in Cids, Unpin(e) PROVE Outstanding(c)
  BY <1>2, UnpinKeepsArgs DEF Unpin, Outstanding
<1>3. ASSUME FinishVerify PROVE Outstanding(c)
  BY <1>3 DEF FinishVerify, NoVerify, Outstanding
<1>4. ASSUME UNCHANGED <<mined, verify>> PROVE Outstanding(c)
  BY <1>4 DEF Outstanding
<1>5. Outstanding(c)
  BY <1>1, <1>2, <1>3, <1>4 DEF DropDelete, Share, PrepareDelete, DailyGc
<1>6. UNCHANGED <<upload, fileOwner>>
  BY DEF DropDelete, Share, PrepareDelete, StartVerify, Unpin, FinishVerify, DailyGc, chainVars
<1> QED
  BY <1>5, <1>6 DEF InUse, InFlight

(* What OnlyCrossingExposes says of a step.                                *)
Crossing == PromptVerify /\ OwnFoldersOnly => \A c \in exposed' \ exposed :
  fileOwner[c] # NoOwner /\ fileOwner'[c] = NoOwner /\ InFlight(c)

(* A cid becomes exposed when its owner's delete is mined during an upload. *)
LEMMA CrossingStep ==
  ASSUME OwnFoldersOnly => OwnDeletes, Sound, Guarded, [Next]_vars
  PROVE  Crossing
<1> SUFFICES ASSUME PromptVerify, OwnFoldersOnly, NEW c \in exposed' \ exposed
             PROVE  fileOwner[c] # NoOwner /\ fileOwner'[c] = NoOwner /\ InFlight(c)
  BY DEF Crossing
<1>1. Step /\ Watch
  BY DEF vars, Next
<1>2. c \in Cids /\ InUse(c)' /\ Outstanding(c)'
  BY <1>1 DEF Watch
<1>3. ~(InUse(c) /\ Outstanding(c))
  BY <1>2 DEF Guarded
<1>4. PICK u \in Users : MineDelete(u)
  BY <1>1, <1>2, <1>3, UploadMeetsNoDelete, OthersMeetNoDelete DEF Step, Handling
<1>5. UNCHANGED <<upload, verify>> /\ mined' = mined \cup {delete[u]}
      /\ fileOwner'[c] = IF c \in delete[u] \cap Owned(u) THEN NoOwner ELSE fileOwner[c]
  BY <1>2, <1>4 DEF MineDelete
<1>6. InUse(c)
  BY <1>2, <1>5 DEF InUse, InFlight
<1>7. c \in delete[u]
  BY <1>2, <1>3, <1>5, <1>6 DEF Outstanding
<1>8. fileOwner[c] = u /\ fileOwner'[c] = NoOwner /\ u # NoOwner
  BY <1>2, <1>5, <1>7, StorageAssumption DEF OwnDeletes, Owned
<1> QED
  BY <1>2, <1>5, <1>8 DEF InUse, InFlight

(* With files of one's own in folders only, and no upload of a deleted cid *)
(* before its last verification, the one way to lose a registered file's   *)
(* bytes is a delete that is mined while another upload of the same        *)
(* content is under way (upload.py:62-100 and 245-250).                    *)
THEOREM CrossingCorrect == Spec => OnlyCrossingExposes
<1>1. Init => (OwnFoldersOnly => OwnDeletes)
  BY DEF Init, OwnDeletes
<1>2. Sound /\ (OwnFoldersOnly => OwnDeletes) /\ [Next]_vars => (OwnFoldersOnly => OwnDeletes)'
  BY OwnDeletesNext
<1>3. Sound /\ Guarded /\ (OwnFoldersOnly => OwnDeletes) /\ [Next]_vars => [Crossing]_vars
  BY CrossingStep
<1> QED
  BY <1>1, <1>2, <1>3, GuardedInit, GuardedNext, SoundInit, SoundNext, PTL
     DEF Spec, OnlyCrossingExposes, Crossing
=============================================================================
