---------------------------- MODULE Transactions ----------------------------
(***************************************************************************)
(* The transactions that the handlers prepare for their users to sign      *)
(* (helpers.py, with routers/sharing.py, file_ops.py and upload.py): what  *)
(* is read of the chain, in which order, and what has become of it when    *)
(* the transaction is mined.                                               *)
(*                                                                         *)
(* The chain is FileStorage; it moves by blocks and by the transactions of *)
(* wallets.  A handler keeps nothing between requests and shares nothing,  *)
(* so one at a time is followed; each of its calls is a step, and any call *)
(* may raise.                                                              *)
(***************************************************************************)
EXTENDS Views, FiniteSets

CONSTANTS
  Owners,       \* users who have files, and transactions about them prepared
  Askers,       \* users who have requests for more time prepared
  Trash,        \* the name of the top folder of deleted files
  ShareMask,    \* SHARE_MASK: READ | DOWNLOAD
  Rank,         \* user -> place of the address in sorted order
  PathsOf,      \* bound of the model: cid -> paths it is given
  Picks,        \* bound of the model: what a batch names
  MaxNonce,     \* bound of the model: no handler starts for a later nonce
  MaxWallet     \* bound of the model: prepared transactions not yet mined

(* A path is the sequence of its names, the file's own name last.          *)
ASSUME TransactionsAssumption ==
  /\ Owners \subseteq Users /\ Askers \subseteq Users
  /\ Paths \subseteq Seq(STRING) \ {<<>>}
  /\ Trash \in STRING
  /\ ShareMask \in Masks
  /\ IsFiniteSet(Users)
  /\ Rank \in [Users -> Nat]
  /\ \A u, v \in Users : Rank[u] = Rank[v] => u = v
  /\ PathsOf \in [Cids -> SUBSET Paths]
  /\ Picks \subseteq (SUBSET Cids) \ {{}}
  /\ MaxNonce \in Nat /\ MaxWallet \in Nat

VARIABLES
  nonce,        \* transaction count of each user
  wallet,       \* prepared transactions that may still be signed and mined
  prep          \* the handler in progress

txVars == <<vars, nonce, wallet, prep>>

(* A call of the contract: who sends it, what it is, and its arguments.    *)
Call(from, op, cids, to, dur, path) ==
  [from |-> from, op |-> op, cids |-> cids, to |-> to, dur |-> dur, path |-> path]

NoPaths == [c \in {} |-> NoPath]

(* What a call does, if it does not revert.                                *)
Effect(t) ==
  \/ t.op = "upload" /\ UploadFiles(t.from, t.cids, t.path)
  \/ t.op = "move" /\ MoveFiles(t.from, t.cids, t.path)
  \/ t.op = "clean" /\ CleanFolder(t.from, t.cids)
  \/ t.op = "grant" /\ t.dur = 0 /\ GrantFiles(t.from, t.cids, t.to, ShareMask)
  \/ t.op = "grant" /\ GrantWithExpiryFiles(t.from, t.cids, t.to, ShareMask, t.dur)
  \/ t.op = "revoke" /\ RevokeFiles(t.from, t.cids, t.to, ShareMask)
  \/ \E c \in t.cids :
       \/ t.op = "delete" /\ DeleteFile(t.from, c)
       \/ t.op = "request" /\ RequestAccess(t.from, c, t.dur)
       \/ t.op = "cancel" /\ CancelRequest(t.from, c)
       \/ t.op = "approve" /\ ApproveRequest(t.from, c, t.to, ShareMask, t.dur)
       \/ t.op = "deny" /\ DenyRequest(t.from, c, t.to)

(* The requires of the contract's functions, as a predicate of the state.  *)
MayGrant(t) ==
  /\ IsFileOwner(t.from, t.cids)
  /\ block + t.dur <= MaxUint
  /\ \A c \in t.cids : FirstGrant(c, t.to) => sharedFiles[t.to][c] < MaxCopies

IsPending(cs, u) == \A c \in cs : requests[c][u] = "Pending"

MayAsk(u, c) ==
  /\ fileOwner[c] \notin {NoOwner, u}
  /\ expiresAtBlock[c][u] # 0
  /\ EffectivePermissions(c, u) = {}
  /\ requests[c][u] # "Pending"

(* The call would not revert now: what estimating its gas finds out.       *)
Succeeds(t) ==
  \/ t.op = "clean"
  \/ t.op = "upload" /\ IsFileOwner(NoOwner, t.cids)
  \/ t.op \in {"move", "delete", "revoke"} /\ IsFileOwner(t.from, t.cids)
  \/ t.op = "grant" /\ MayGrant(t)
  \/ t.op = "request" /\ t.dur > 0 /\ \A c \in t.cids : MayAsk(t.from, c)
  \/ t.op = "cancel" /\ IsPending(t.cids, t.from)
  \/ t.op = "approve" /\ t.dur > 0 /\ MayGrant(t) /\ IsPending(t.cids, t.to)
  \/ t.op = "deny" /\ IsFileOwner(t.from, t.cids) /\ IsPending(t.cids, t.to)

-----------------------------------------------------------------------------
(* Folders.                                                                *)

Prefix(p, n) == SubSeq(p, 1, n)

Parent(p) == Prefix(p, Len(p) - 1)

Under(folder, p) == Len(folder) < Len(p) /\ Prefix(p, Len(folder)) = folder

Deepest(levels) == CHOOSE n \in levels : \A m \in levels : m <= n

(* The deepest folder that holds all the paths, the root for none.         *)
CommonAncestor(ps) ==
  IF ps = {} THEN <<>>
  ELSE LET p == CHOOSE p \in ps : TRUE
           common == {n \in 0..Len(p) - 1 : \A q \in ps : Under(Prefix(p, n), q)}
       IN  Prefix(p, Deepest(common))

(* What the inherited shares are meant to be, read in one step: the users  *)
(* listed for every file its owner has outside the trash in the folder, or *)
(* in the nearest folder above it that has any; nobody for the root.       *)
OwnedUnder(o, folder) == {c \in Cids :
  /\ fileOwner[c] = o
  /\ Under(folder, fileMetadata[c])
  /\ fileMetadata[c][1] # Trash}

Levels(o, folder) == {n \in 1..Len(folder) : OwnedUnder(o, Prefix(folder, n)) # {}}

NearestFiles(o, folder) ==
  IF Levels(o, folder) = {} THEN {}
  ELSE OwnedUnder(o, Prefix(folder, Deepest(Levels(o, folder))))

FolderShareSet(o, folder) ==
  {u \in Users : NearestFiles(o, folder) # {}
                 /\ \A c \in NearestFiles(o, folder) : u \in SharedUsersOf(c)}

-----------------------------------------------------------------------------
(* The handler in progress: the call it prepares and its nonce, the cids   *)
(* it still has to ask about, and those found to be the sender's; of an    *)
(* upload also its folder, the one it looks at, the sender's files and the *)
(* users all files so far are shared with.                                 *)

NoCall == Call(NoOwner, "none", {}, NoOwner, 0, NoPaths)

Idle == [nonce |-> 0, folder |-> <<>>, phase |-> "idle", call |-> NoCall,
         todo |-> {}, owned |-> {}, at |-> <<>>, files |-> {}, shared |-> {},
         blip |-> FALSE,     \* history: a call raised and a default was used
         moved |-> FALSE]    \* history: the sender's nonce moved before it was read

TxInit == Init /\ nonce = [u \in Users |-> 0] /\ wallet = {} /\ prep = Idle

(* Asks who owns the cids of the call, one by one, before all else.        *)
Checked(t) == [Idle EXCEPT !.phase = "check", !.call = t, !.todo = t.cids]

(* Takes the cids as they are.                                             *)
Unchecked(t) == [Idle EXCEPT !.phase = "check", !.call = t, !.owned = t.cids]

Start(r) ==
  /\ prep = Idle
  /\ Cardinality(wallet) < MaxWallet
  /\ nonce[r.call.from] <= MaxNonce
  /\ prep' = r
  /\ UNCHANGED <<vars, nonce, wallet>>

PathsFor(cs) == {path \in [cs -> Paths] : \A c \in cs : path[c] \in PathsOf[c]}

(* /share, /share-batch, /unshare, /unshare-batch                          *)
ShareHandlers(u) == \E cs \in Picks, to \in Users :
  \/ \E d \in Durations \cup {0} : Start(Checked(Call(u, "grant", cs, to, d, NoPaths)))
  \/ Start(Checked(Call(u, "revoke", cs, to, 0, NoPaths)))

(* /request-extension, /cancel-request                                    *)
AskHandlers(u) == \E c \in Cids :
  \/ Start(Unchecked(Call(u, "cancel", {c}, NoOwner, 0, NoPaths)))
  \/ \E d \in Durations : Start(Unchecked(Call(u, "request", {c}, NoOwner, d, NoPaths)))

(* /approve-request, /deny-request                                         *)
AnswerHandlers(u) == \E c \in Cids, to \in Users :
  \/ Start(Checked(Call(u, "deny", {c}, to, 0, NoPaths)))
  \/ \E d \in Durations : Start(Checked(Call(u, "approve", {c}, to, d, NoPaths)))

(* Mutant: takes the files of the folder above, too.                       *)
ListedUnderParent(u, folder) == {f[1] : f \in {f \in UserFiles(u) : Under(Parent(folder), f[2])}}

(* The files in the user's list that are below the folder, or have its     *)
(* path, whoever owns them.                                                *)
ListedUnder(u, folder) ==
  {f[1] : f \in {x \in UserFiles(u) : x[2] = folder \/ Under(folder, x[2])}}

(* /delete, /delete-batch, /delete-folder (which reads the user's files    *)
(* first), /move, /move-batch.                                             *)
FileHandlers(u) ==
  \/ \E c \in Cids : Start(Unchecked(Call(u, "delete", {c}, NoOwner, 0, NoPaths)))
  \/ \E cs \in Picks :
       \/ Start(Checked(Call(u, "clean", cs, NoOwner, 0, NoPaths)))
       \/ \E path \in PathsFor(cs) : Start(Checked(Call(u, "move", cs, NoOwner, 0, path)))
  \/ \E p \in Paths :
       /\ Len(p) > 1
       /\ Start([Unchecked(Call(u, "clean", ListedUnder(u, Parent(p)), NoOwner, 0, NoPaths))
                 EXCEPT !.folder = Parent(p)])

(* /upload and /upload-folder, once the content is stored and pinned.      *)
UploadHandlers(u) == \E cs \in Picks : \E path \in PathsFor(cs) :
  Start([Unchecked(Call(u, "upload", cs, NoOwner, 0, path))
         EXCEPT !.folder = CommonAncestor({path[c] : c \in cs})])

-----------------------------------------------------------------------------
(* What every handler does: check, read the nonce, estimate, answer.       *)

Continue(r) == prep' = r /\ UNCHANGED <<vars, nonce, wallet>>

(* The call with only those of its cids.                                   *)
Only(t, cs) == Call(t.from, t.op, cs, t.to, t.dur, [c \in cs \cap DOMAIN t.path |-> t.path[c]])

(* A batch drops what is not owned; a single call with nothing left, or an *)
(* empty batch, prepares nothing.  Only a delete skips a lookup that fails.*)
CheckOwner(c) ==
  /\ prep.phase = "check" /\ c \in prep.todo
  /\ \/ Continue([prep EXCEPT !.todo = @ \ {c},
            !.owned = IF fileOwner[c] = prep.call.from THEN @ \cup {c} ELSE @])
     \/ prep.call.op = "clean" /\ Continue([prep EXCEPT !.todo = @ \ {c}, !.blip = TRUE])

ReadNonce ==
  /\ prep.phase = "check" /\ prep.todo = {}
  /\ Continue(IF prep.owned = {} THEN Idle ELSE
       [prep EXCEPT !.phase = "estimate", !.nonce = nonce[prep.call.from],
                    !.call = Only(prep.call, prep.owned)])

Entry(t, n) == [nonce |-> n, folder |-> <<>>, call |-> t, blip |-> FALSE, moved |-> FALSE,
                grants |-> {}, base |-> 0, behind |-> TRUE]

(* The answer: the transaction, and for an upload the grants behind it.    *)
(* One whose nonce is gone already can never be mined.                     *)
Answer(grants, base, blip) ==
  /\ wallet' = IF prep.nonce < nonce[prep.call.from] THEN wallet
               ELSE wallet \cup {[nonce |-> prep.nonce, folder |-> prep.folder,
                                  call |-> prep.call, blip |-> blip, moved |-> prep.moved,
                                  grants |-> grants, base |-> base, behind |-> FALSE]}
  /\ prep' = Idle
  /\ UNCHANGED <<vars, nonce>>

Proceed ==
  IF prep.call.op = "upload" /\ prep.folder # <<>>
  THEN Continue([prep EXCEPT !.phase = "files"]) ELSE Answer({}, 0, prep.blip)

(* Mutant: gas is set by hand for every call.                              *)
EstimateNothing == prep.phase = "estimate" /\ Proceed

Estimate ==
  /\ prep.phase = "estimate"
  /\ IF Succeeds(prep.call) THEN Proceed ELSE Continue(Idle)

(* A call raises and the request ends in an error.                         *)
Raise == prep # Idle /\ prep.phase \in {"check", "estimate"} /\ Continue(Idle)

-----------------------------------------------------------------------------
(* The inherited shares of an upload: folder_share_set and the grants.     *)

Candidates(files, folder) == {f[1] : f \in {f \in files : Under(folder, f[2])}}

Look(r, folder) == [r EXCEPT !.phase = "owners", !.at = folder, !.owned = {},
                             !.todo = Candidates(r.files, folder)]

ReadFiles ==
  /\ prep.phase = "files"
  /\ \/ LET files == {f \in UserFiles(prep.call.from) : f[2][1] # Trash}
        IN  Continue(Look([prep EXCEPT !.files = files], prep.folder))
     \/ Answer({}, 0, TRUE)

(* A file whose owner cannot be read is left out of the folder.            *)
LookUpOwner(c) ==
  /\ prep.phase = "owners" /\ c \in prep.todo
  /\ \/ Continue([prep EXCEPT !.todo = @ \ {c},
            !.owned = IF fileOwner[c] = prep.call.from THEN @ \cup {c} ELSE @])
     \/ Continue([prep EXCEPT !.todo = @ \ {c}, !.blip = TRUE])

(* With files of the sender, to their recipients, otherwise up one folder; *)
(* the root is never shared.                                               *)
Climb ==
  /\ prep.phase = "owners" /\ prep.todo = {}
  /\ IF prep.owned # {}
     THEN Continue([prep EXCEPT !.phase = "lists", !.todo = prep.owned, !.shared = Users])
     ELSE IF Len(prep.at) > 1 THEN Continue(Look(prep, Parent(prep.at)))
     ELSE Answer({}, 0, prep.blip)

(* A list that cannot be read counts as empty; nothing more is asked once  *)
(* nobody is left.                                                         *)
ReadRecipients(c) ==
  /\ prep.phase = "lists" /\ c \in prep.todo /\ prep.shared # {}
  /\ \/ Continue([prep EXCEPT !.todo = @ \ {c}, !.shared = @ \cap SharedUsersOf(c)])
     \/ Continue([prep EXCEPT !.todo = @ \ {c}, !.shared = {}, !.blip = TRUE])

(* The nonce is read a second time, for the grants.                        *)
PrepareGrants ==
  /\ prep.phase = "lists" /\ (prep.todo = {} \/ prep.shared = {})
  /\ \/ Answer(prep.shared, nonce[prep.call.from], prep.blip)
     \/ prep.shared # {} /\ Answer({}, 0, TRUE)

-----------------------------------------------------------------------------
(* Wallets.  The transaction with the sender's next nonce is mined, and    *)
(* has its effect or reverts; the grants behind an upload are signed once  *)
(* it is mined.  What has a lower nonce can never be mined any more.       *)

(* Mutant: the grants begin at the nonce of the upload.                    *)
FirstGrantAtBase(base) == base

NonceOfFirstGrant(base) == base + 1

Place(r, to) == Cardinality({v \in to : Rank[v] < Rank[r]})

Grants(e) == {Entry(Call(e.call.from, "grant", e.call.cids, r, 0, NoPaths),
                    NonceOfFirstGrant(e.base) + Place(r, e.grants)) : r \in e.grants}

MineTx(e) ==
  /\ LET u == e.call.from
     IN  /\ e.nonce = nonce[u]
         /\ nonce' = [nonce EXCEPT ![u] = @ + 1]
         /\ prep' = IF prep.phase = "check" /\ prep.call.from = u
                    THEN [prep EXCEPT !.moved = TRUE] ELSE prep
         /\ \E new \in {{}, Grants(e)} :
              /\ \/ new = Grants(e) /\ Effect(e.call)
                 \/ new = {} /\ ~Succeeds(e.call) /\ UNCHANGED vars
              /\ wallet' = {x \in wallet \cup new : x.call.from = u => x.nonce >= nonce'[u]}

(* The user does not sign.                                                 *)
Decline(e) == wallet' = wallet \ {e} /\ UNCHANGED <<vars, nonce, prep>>

MineBlock == Mine /\ UNCHANGED <<nonce, wallet, prep>>

HandlerStep ==
  \/ ReadNonce \/ Estimate \/ Raise \/ ReadFiles \/ Climb \/ PrepareGrants
  \/ \E c \in Cids : CheckOwner(c) \/ LookUpOwner(c) \/ ReadRecipients(c)

TxNext ==
  \/ \E u \in Owners :
       ShareHandlers(u) \/ AnswerHandlers(u) \/ FileHandlers(u) \/ UploadHandlers(u)
  \/ \E u \in Askers : AskHandlers(u)
  \/ HandlerStep
  \/ \E e \in wallet : MineTx(e) \/ Decline(e)
  \/ MineBlock

TxSpec == TxInit /\ [][TxNext]_txVars

-----------------------------------------------------------------------------
IsNext(e) == e.nonce = nonce[e.call.from]

(* An upload that can still be mined carries a grant for each user that    *)
(* its folder is shared with today, and for nobody else, and the grants    *)
(* have the nonces right behind it: nothing that happened while the folder *)
(* was read, or since, is missed, unless a call failed.  It holds because  *)
(* the nonce is read before the folder and only transactions of the owner  *)
(* change what it answers.                                                 *)
InheritedIsCurrent == \A e \in wallet :
  e.call.op = "upload" /\ IsNext(e) /\ ~e.blip =>
    /\ e.grants = FolderShareSet(e.call.from, e.folder)
    /\ \A g \in Grants(e) : g.nonce \in e.nonce + 1 .. e.nonce + Cardinality(e.grants)
    /\ Cardinality(Grants(e)) = Cardinality({g.nonce : g \in Grants(e)})

(* A share, unshare, move, delete or inherited grant whose turn has come   *)
(* does not revert, however long ago it was prepared and whatever else was *)
(* prepared, signed and mined meanwhile.  Only a grant behind an upload    *)
(* may: its sender can use the nonce before its own for a delete.          *)
PreparedSucceeds == \A e \in wallet :
  e.call.op \in {"grant", "revoke", "move", "clean", "delete"} /\ IsNext(e) =>
    Succeeds(e.call) \/ (e.behind /\ ~IsFileOwner(e.call.from, e.call.cids))

(* A folder delete that can still be mined removes the files its sender    *)
(* owns in the folder today, those and no others, unless another of their  *)
(* transactions was mined between the listing and the nonce.               *)
FolderDeleteIsCurrent == \A e \in wallet :
  e.call.op = "clean" /\ e.folder # <<>> /\ IsNext(e) /\ ~e.moved =>
    {c \in e.call.cids : fileOwner[c] = e.call.from} =
    {c \in Cids : /\ fileOwner[c] = e.call.from
                   /\ (fileMetadata[c] = e.folder \/ Under(e.folder, fileMetadata[c]))}

-----------------------------------------------------------------------------
(* The comment in tests/test_helpers.py: a folder is shared with only the  *)
(* users who can see every file in it.                                     *)
InheritorsSeeTheFolder == \A e \in wallet :
  e.call.op = "upload" /\ IsNext(e) =>
    \A u \in e.grants : \A c \in NearestFiles(e.call.from, e.folder) : HasAccess(c, u)
=============================================================================
