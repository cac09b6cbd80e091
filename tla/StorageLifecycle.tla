-------------------------- MODULE StorageLifecycle --------------------------
(***************************************************************************)
(* The bytes behind the registered files: the upload handlers, the node's  *)
(* pins and garbage collection, the transactions their users sign, and     *)
(* /verify-upload, which releases the bytes of a mined delete.             *)
(*                                                                         *)
(* Encryption is deterministic, so equal content has one cid whoever       *)
(* uploads it.  Each call to the node or the chain is a step of its own;   *)
(* the handlers run in the thread pool and interleave.  Of the contract    *)
(* only what these handlers see is kept: who owns a cid and who else has   *)
(* it in their list of files (FileStorage models the rest).                *)
(***************************************************************************)
EXTENDS Integers

CONSTANTS
  Users, Cids, NoOwner, NoCid,
  PromptVerify,     \* environment: no upload of a deleted cid begins before
                    \* the delete has been verified for the last time
  OwnFoldersOnly    \* environment: no folder holds a file shared by another

ASSUME StorageAssumption ==
  /\ NoOwner \notin Users
  /\ NoCid \notin Cids
  /\ PromptVerify \in BOOLEAN
  /\ OwnFoldersOnly \in BOOLEAN

VARIABLES
  fileOwner,    \* chain: cid -> owner
  sharedWith,   \* chain: cid -> users that have it in sharedFiles
  blocks,       \* node: cids whose bytes are in the repository
  pinned,       \* node: pinned cids
  upload,       \* user -> the upload request in progress
  delete,       \* user -> cids of a prepared delete, {} for none
  mined,        \* argument lists of the deletes that were mined
  verify,       \* the /verify-upload request in progress
  exposed       \* history: cids in use that a mined delete will release, or
                \* has released since (see Watch)

nodeVars  == <<blocks, pinned>>
chainVars == <<fileOwner, sharedWith>>
codeVars == <<chainVars, nodeVars, upload, delete, mined, verify>>
vars == <<codeVars, exposed>>

NoUpload == [phase |-> "idle", todo |-> {}, cid |-> NoCid, accepted |-> {}]
NoVerify == [phase |-> "idle", todo |-> {}, args |-> {}]

(* The types, and that the node never keeps a pin on bytes it does not     *)
(* have: pin/add fails for a block that a sweep has taken meanwhile.       *)
TypeOK ==
  /\ fileOwner \in [Cids -> Users \cup {NoOwner}]
  /\ sharedWith \in [Cids -> SUBSET Users]
  /\ pinned \subseteq blocks /\ blocks \subseteq Cids
  /\ upload \in [Users -> [phase : {"idle", "add", "check", "pin", "sign"},
                           todo : SUBSET Cids, cid : Cids \cup {NoCid},
                           accepted : SUBSET Cids]]
  /\ delete \in [Users -> SUBSET Cids]
  /\ mined \subseteq SUBSET Cids
  /\ verify \in [phase : {"idle", "unpin", "gc"}, todo : SUBSET Cids, args : SUBSET Cids]
  /\ exposed \subseteq Cids

Init ==
  /\ fileOwner = [c \in Cids |-> NoOwner]
  /\ sharedWith = [c \in Cids |-> {}]
  /\ blocks = {} /\ pinned = {}
  /\ upload = [u \in Users |-> NoUpload]
  /\ delete = [u \in Users |-> {}]
  /\ mined = {}
  /\ verify = NoVerify
  /\ exposed = {}

InFlight(c) == \E u \in Users :
  c \in upload[u].todo \cup {upload[u].cid} \cup upload[u].accepted

(* A mined delete still has to take c's pin away.                          *)
Outstanding(c) == \/ \E cs \in mined : c \in cs
                  \/ c \in verify.args

(* Somebody is uploading c or owns it.                                     *)
InUse(c) == InFlight(c) \/ fileOwner[c] # NoOwner

-----------------------------------------------------------------------------
(* Uploading: for each file add, look the owner up, pin.  /upload is the   *)
(* batch of one; where a batch skips a file it answers with an error, and  *)
(* either way nothing is accepted.                                         *)

StartUpload(u, cs) ==
  /\ upload[u] = NoUpload
  /\ cs # {}
  /\ PromptVerify => \A c \in cs : ~Outstanding(c)
  /\ upload' = [upload EXCEPT ![u] = [NoUpload EXCEPT !.phase = "add", !.todo = cs]]
  /\ UNCHANGED <<chainVars, nodeVars, delete, mined, verify>>

AddUnpinned(u, c) ==
  /\ upload[u].phase = "add" /\ c \in upload[u].todo
  /\ blocks' = blocks \cup {c}
  /\ LET r == upload[u]
     IN  upload' = [upload EXCEPT ![u] = [r EXCEPT !.phase = "check", !.todo = @ \ {c}, !.cid = c]]
  /\ UNCHANGED <<chainVars, pinned, delete, mined, verify>>

(* The node does not answer: the file is left out.                         *)
AddFails(u, c) ==
  /\ upload[u].phase = "add" /\ c \in upload[u].todo
  /\ LET r == upload[u] IN upload' = [upload EXCEPT ![u] = [r EXCEPT !.todo = @ \ {c}]]
  /\ UNCHANGED <<chainVars, nodeVars, delete, mined, verify>>

Skip(u) == upload' = [upload EXCEPT ![u] = [@ EXCEPT !.phase = "add", !.cid = NoCid]]

(* Mutant: a rejected duplicate is unpinned.                               *)
RejectAndUnpin(u) == Skip(u) /\ pinned' = pinned \ {upload[u].cid} /\ UNCHANGED blocks

RejectDuplicate(u) == Skip(u) /\ UNCHANGED nodeVars

(* A batch whose lookup fails takes the cid for free, /upload gives up.    *)
CheckDuplicate(u) ==
  /\ upload[u].phase = "check"
  /\ \/ fileOwner[upload[u].cid] # NoOwner /\ RejectDuplicate(u)
     \/ Skip(u) /\ UNCHANGED nodeVars
     \/ upload' = [upload EXCEPT ![u].phase = "pin"] /\ UNCHANGED nodeVars
  /\ UNCHANGED <<chainVars, delete, mined, verify>>

Accept(u) ==
  LET r == upload[u]
  IN  upload' = [upload EXCEPT ![u] =
        [r EXCEPT !.phase = "add", !.accepted = @ \cup {r.cid}, !.cid = NoCid]]

(* Mutant: the pin is recorded although the bytes are gone.                *)
PinAnyway(u) ==
  /\ upload[u].phase = "pin"
  /\ pinned' = pinned \cup {upload[u].cid}
  /\ Accept(u)
  /\ UNCHANGED <<chainVars, blocks, delete, mined, verify>>

(* pin/add finds the bytes, or raises and the file is left out.            *)
Pin(u) ==
  /\ upload[u].phase = "pin"
  /\ \/ upload[u].cid \in blocks /\ pinned' = pinned \cup {upload[u].cid} /\ Accept(u)
     \/ Skip(u) /\ UNCHANGED pinned
  /\ UNCHANGED <<chainVars, blocks, delete, mined, verify>>

(* Estimating the gas reverts when a cid got registered meanwhile.         *)
PrepareUpload(u) ==
  /\ upload[u].phase = "add" /\ upload[u].todo = {}
  /\ upload' = [upload EXCEPT ![u] =
       IF @.accepted # {} /\ \A c \in @.accepted : fileOwner[c] = NoOwner
       THEN [@ EXCEPT !.phase = "sign"] ELSE NoUpload]
  /\ UNCHANGED <<chainVars, nodeVars, delete, mined, verify>>

(* The signed transaction is mined: all of the batch or, reverted, nothing.*)
RegisterUpload(u) ==
  /\ upload[u].phase = "sign"
  /\ fileOwner' = IF \A c \in upload[u].accepted : fileOwner[c] = NoOwner
                  THEN [c \in Cids |-> IF c \in upload[u].accepted THEN u ELSE fileOwner[c]]
                  ELSE fileOwner
  /\ upload' = [upload EXCEPT ![u] = NoUpload]
  /\ UNCHANGED <<sharedWith, nodeVars, delete, mined, verify>>

(* The user never signs.  What was pinned stays pinned.                    *)
AbandonUpload(u) ==
  /\ upload[u].phase = "sign"
  /\ upload' = [upload EXCEPT ![u] = NoUpload]
  /\ UNCHANGED <<chainVars, nodeVars, delete, mined, verify>>

-----------------------------------------------------------------------------
(* Deleting.  /delete and /delete-batch name only files their user owns;   *)
(* /delete-folder names every file in the user's list under the folder,    *)
(* and that list holds the files others share with the user.               *)

Share(c, u) ==
  /\ fileOwner[c] \notin {NoOwner, u}
  /\ sharedWith' = [sharedWith EXCEPT ![c] = @ \cup {u}]
  /\ UNCHANGED <<fileOwner, nodeVars, upload, delete, mined, verify>>

Owned(u) == {c \in Cids : fileOwner[c] = u}

Listed(u) == Owned(u) \cup {c \in Cids : u \in sharedWith[c]}

PrepareDelete(u, cs) ==
  /\ delete[u] = {}
  /\ cs \subseteq (IF OwnFoldersOnly THEN Owned(u) ELSE Listed(u))
  /\ delete' = [delete EXCEPT ![u] = cs]
  /\ UNCHANGED <<chainVars, nodeVars, upload, mined, verify>>

(* The contract skips the cids that u does not own.                        *)
MineDelete(u) ==
  /\ delete[u] # {}
  /\ fileOwner' = [c \in Cids |-> IF c \in delete[u] \cap Owned(u) THEN NoOwner ELSE fileOwner[c]]
  /\ sharedWith' = [c \in Cids |-> IF c \in delete[u] \cap Owned(u) THEN {} ELSE sharedWith[c]]
  /\ mined' = mined \cup {delete[u]}
  /\ delete' = [delete EXCEPT ![u] = {}]
  /\ UNCHANGED <<nodeVars, upload, verify>>

(* Mutant: the receipt's status is not looked at, reverted deletes count.  *)
DropDeleteUnchecked(u) ==
  /\ delete[u] # {}
  /\ mined' = mined \cup {delete[u]}
  /\ delete' = [delete EXCEPT ![u] = {}]
  /\ UNCHANGED <<chainVars, nodeVars, upload, verify>>

(* The user never signs, or the transaction reverts: nothing is released.  *)
DropDelete(u) ==
  /\ delete[u] # {}
  /\ delete' = [delete EXCEPT ![u] = {}]
  /\ UNCHANGED <<chainVars, nodeVars, upload, mined, verify>>

-----------------------------------------------------------------------------
(* /verify-upload takes a transaction hash, at any time and any number of  *)
(* times (a delete that will not be verified again leaves mined), and      *)
(* releases all cids in the arguments of a mined delete.                   *)

StartVerify(cs) ==
  /\ verify = NoVerify
  /\ cs \in mined
  /\ verify' = [phase |-> "unpin", todo |-> cs, args |-> cs]
  /\ mined' \in {mined, mined \ {cs}}
  /\ UNCHANGED <<chainVars, nodeVars, upload, delete>>

(* One pin is dropped, or the node fails and the next one is tried.        *)
Unpin(c) ==
  /\ verify.phase = "unpin" /\ c \in verify.todo
  /\ pinned' \in {pinned, pinned \ {c}}
  /\ verify' = [verify EXCEPT !.todo = @ \ {c}, !.phase = IF verify.todo = {c} THEN "gc" ELSE @]
  /\ UNCHANGED <<chainVars, blocks, upload, delete, mined>>

Sweep == blocks' \in {blocks, blocks \cap pinned}

FinishVerify ==
  /\ verify.phase = "gc"
  /\ Sweep
  /\ verify' = NoVerify
  /\ UNCHANGED <<chainVars, pinned, upload, delete, mined>>

(* The ipfs-gc container, once a day: at any time.                         *)
DailyGc == Sweep /\ UNCHANGED <<chainVars, pinned, upload, delete, mined, verify>>

Step ==
  \/ \E u \in Users :
       \/ \E cs \in SUBSET Cids : StartUpload(u, cs) \/ PrepareDelete(u, cs)
       \/ \E c \in Cids : AddUnpinned(u, c) \/ AddFails(u, c) \/ Share(c, u)
       \/ CheckDuplicate(u) \/ Pin(u)
       \/ PrepareUpload(u) \/ RegisterUpload(u) \/ AbandonUpload(u)
       \/ MineDelete(u) \/ DropDelete(u)
  \/ \E cs \in SUBSET Cids : StartVerify(cs)
  \/ \E c \in Cids : Unpin(c)
  \/ FinishVerify
  \/ DailyGc

(* A cid in use is exposed once a mined delete that names it may still be  *)
(* verified, and stays so, verified or not, until it is pinned anew.       *)
Watch == exposed' = {c \in Cids :
  InUse(c)' /\ (Outstanding(c)' \/ (c \in exposed /\ c \notin pinned'))}

Next == Step /\ Watch

Spec == Init /\ [][Next]_vars

-----------------------------------------------------------------------------
(* The bytes of a registered file are on the node and pinned: no sweep, no *)
(* rejected duplicate and no release of another file takes them.           *)
RegisteredIsStored == \A c \in Cids : fileOwner[c] # NoOwner => c \in blocks /\ c \in pinned

(* Whatever fails, is swept, refused, abandoned or released: the bytes of  *)
(* a registered file are on the node and pinned, unless a delete that      *)
(* names the file was mined while it was being uploaded or registered, or  *)
(* is verified after it was uploaded again (the docstring of ipfs.pin      *)
(* wants them always pinned).                                              *)
StoredUnlessExposed == \A c \in Cids : fileOwner[c] # NoOwner =>
  c \in exposed \/ (c \in blocks /\ c \in pinned)

(* The two environments leave one way to lose the bytes of a file: its     *)
(* owner's delete is mined while another upload of the same content is     *)
(* under way or waits for its signature.                                   *)
OnlyCrossingExposes == [][PromptVerify /\ OwnFoldersOnly =>
  \A c \in exposed' \ exposed :
    fileOwner[c] # NoOwner /\ fileOwner'[c] = NoOwner /\ InFlight(c)]_vars
=============================================================================
