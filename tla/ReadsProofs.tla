---------------------------- MODULE ReadsProofs ----------------------------
(***************************************************************************)
(* What the reading handlers answer, for any number of users, files and    *)
(* blocks and whatever the chain does between two calls.  The contract's   *)
(* invariants come from FileStorageProofs, because the readers change      *)
(* nothing of it; what a request knows between its calls is the invariant  *)
(* Knows, in one part for each kind of request.                            *)
(***************************************************************************)
EXTENDS Reads, FileStorageProofs

Kinds == {"none", "listing", "recipients", "requests", "ask", "download"} \cup Decisions

(* The phases a request of each kind goes through.                         *)
PhaseOf(kind, phase) ==
  \/ kind = "none" /\ phase = "idle"
  \/ kind = "listing" /\ phase \in
       {"owner", "permissions", "expiry", "status", "sharedUsers", "row", "answered"}
  \/ kind = "recipients" /\ phase \in {"sharedUsers", "row", "expiry", "answered"}
  \/ kind = "requests" /\ phase \in {"metadata", "answered", "denied"}
  \/ kind = "ask" /\ phase \in {"owner", "answered"}
  \/ kind = "Approved" /\ phase \in {"status", "expiry", "answered"}
  \/ kind = "Denied" /\ phase \in {"status", "answered"}
  \/ kind = "download" /\ phase \in {"permissions", "answered", "denied"}

Phases == {"idle", "owner", "permissions", "expiry", "status", "sharedUsers", "row", "metadata",
           "answered", "denied"}

ReaderType ==
  [kind : Kinds, phase : Phases, user : Users \cup {NoOwner}, cid : Cids \cup {NoCid},
   about : Users \cup {NoOwner}, owner : Users \cup {NoOwner, Unknown}, active : BOOLEAN,
   expires : Nat, status : Status, listed : SUBSET Users]

Typed ==
  /\ reader \in ReaderType
  /\ PhaseOf(reader.kind, reader.phase)
  /\ reader.kind # "none" => reader.cid \in Cids /\ reader.user \in Users

-----------------------------------------------------------------------------
(* Editing the record of a request.                                        *)

Edited(s, p, v, o, a, e, x, l) ==
  [kind |-> s.kind, phase |-> p, user |-> s.user, cid |-> s.cid, about |-> v, owner |-> o,
   active |-> a, expires |-> e, status |-> x, listed |-> l]

(* Going on.                                                               *)
LEMMA EditPhase ==
  ASSUME NEW s \in ReaderType, NEW p
  PROVE  [s EXCEPT !.phase = p] =
           Edited(s, p, s.about, s.owner, s.active, s.expires, s.status, s.listed)
BY DEF ReaderType, Edited

(* The owner is read (ListOwner).                                          *)
LEMMA EditOwner ==
  ASSUME NEW s \in ReaderType, NEW p, NEW o
  PROVE  [s EXCEPT !.owner = o, !.phase = p] =
           Edited(s, p, s.about, o, s.active, s.expires, s.status, s.listed)
<1> DEFINE r1 == [s EXCEPT !.owner = o]
<1>1. r1 = Edited(s, s.phase, s.about, o, s.active, s.expires, s.status, s.listed)
  BY DEF ReaderType, Edited
<1>2. [s EXCEPT !.owner = o, !.phase = p] = [r1 EXCEPT !.phase = p]
  BY DEF r1
<1> HIDE DEF r1
<1> QED
  BY <1>1, <1>2 DEF Edited

(* The owner is read (AskOwner).                                           *)
LEMMA EditOwnerLast ==
  ASSUME NEW s \in ReaderType, NEW p, NEW o
  PROVE  [s EXCEPT !.phase = p, !.owner = o] =
           Edited(s, p, s.about, o, s.active, s.expires, s.status, s.listed)
<1> DEFINE r1 == [s EXCEPT !.phase = p]
<1>1. r1 = Edited(s, p, s.about, s.owner, s.active, s.expires, s.status, s.listed)
  BY DEF ReaderType, Edited
<1>2. [s EXCEPT !.phase = p, !.owner = o] = [r1 EXCEPT !.owner = o]
  BY DEF r1
<1> HIDE DEF r1
<1> QED
  BY <1>1, <1>2 DEF Edited

(* The permissions are read.                                               *)
LEMMA EditActive ==
  ASSUME NEW s \in ReaderType, NEW p, NEW a
  PROVE  [s EXCEPT !.phase = p, !.active = a] =
           Edited(s, p, s.about, s.owner, a, s.expires, s.status, s.listed)
<1> DEFINE r1 == [s EXCEPT !.phase = p]
<1>1. r1 = Edited(s, p, s.about, s.owner, s.active, s.expires, s.status, s.listed)
  BY DEF ReaderType, Edited
<1>2. [s EXCEPT !.phase = p, !.active = a] = [r1 EXCEPT !.active = a]
  BY DEF r1
<1> HIDE DEF r1
<1> QED
  BY <1>1, <1>2 DEF Edited

(* The expiry is read.                                                     *)
LEMMA EditExpires ==
  ASSUME NEW s \in ReaderType, NEW p, NEW e
  PROVE  [s EXCEPT !.phase = p, !.expires = e] =
           Edited(s, p, s.about, s.owner, s.active, e, s.status, s.listed)
<1> DEFINE r1 == [s EXCEPT !.phase = p]
<1>1. r1 = Edited(s, p, s.about, s.owner, s.active, s.expires, s.status, s.listed)
  BY DEF ReaderType, Edited
<1>2. [s EXCEPT !.phase = p, !.expires = e] = [r1 EXCEPT !.expires = e]
  BY DEF r1
<1> HIDE DEF r1
<1> QED
  BY <1>1, <1>2 DEF Edited

(* The status is read (DecisionStatus).                                    *)
LEMMA EditStatus ==
  ASSUME NEW s \in ReaderType, NEW p, NEW x
  PROVE  [s EXCEPT !.status = x, !.phase = p] =
           Edited(s, p, s.about, s.owner, s.active, s.expires, x, s.listed)
<1> DEFINE r1 == [s EXCEPT !.status = x]
<1>1. r1 = Edited(s, s.phase, s.about, s.owner, s.active, s.expires, x, s.listed)
  BY DEF ReaderType, Edited
<1>2. [s EXCEPT !.status = x, !.phase = p] = [r1 EXCEPT !.phase = p]
  BY DEF r1
<1> HIDE DEF r1
<1> QED
  BY <1>1, <1>2 DEF Edited

(* The status is read (ListStatus).                                        *)
LEMMA EditStatusLast ==
  ASSUME NEW s \in ReaderType, NEW p, NEW x
  PROVE  [[s EXCEPT !.phase = p] EXCEPT !.status = x] =
           Edited(s, p, s.about, s.owner, s.active, s.expires, x, s.listed)
<1> DEFINE r1 == [s EXCEPT !.phase = p]
<1>1. r1 = Edited(s, p, s.about, s.owner, s.active, s.expires, s.status, s.listed)
  BY DEF ReaderType, Edited
<1>2. [[s EXCEPT !.phase = p] EXCEPT !.status = x] = [r1 EXCEPT !.status = x]
  BY DEF r1
<1> HIDE DEF r1
<1> QED
  BY <1>1, <1>2 DEF Edited

(* A row is left out.                                                      *)
LEMMA EditAbout ==
  ASSUME NEW s \in ReaderType, NEW p, NEW v
  PROVE  [s EXCEPT !.phase = p, !.about = v] =
           Edited(s, p, v, s.owner, s.active, s.expires, s.status, s.listed)
<1> DEFINE r1 == [s EXCEPT !.phase = p]
<1>1. r1 = Edited(s, p, s.about, s.owner, s.active, s.expires, s.status, s.listed)
  BY DEF ReaderType, Edited
<1>2. [s EXCEPT !.phase = p, !.about = v] = [r1 EXCEPT !.about = v]
  BY DEF r1
<1> HIDE DEF r1
<1> QED
  BY <1>1, <1>2 DEF Edited

(* No row is followed.                                                     *)
LEMMA EditReset ==
  ASSUME NEW s \in ReaderType, NEW p, NEW v, NEW a
  PROVE  [s EXCEPT !.phase = p, !.about = v, !.active = a] =
           Edited(s, p, v, s.owner, a, s.expires, s.status, s.listed)
<1> DEFINE r1 == [s EXCEPT !.phase = p]
           r2 == [r1 EXCEPT !.about = v]
<1>1. r1 = Edited(s, p, s.about, s.owner, s.active, s.expires, s.status, s.listed)
  BY DEF ReaderType, Edited
<1> HIDE DEF r1
<1>2. r2 = Edited(s, p, v, s.owner, s.active, s.expires, s.status, s.listed)
  BY <1>1 DEF Edited
<1>3. [s EXCEPT !.phase = p, !.about = v, !.active = a] = [r2 EXCEPT !.active = a]
  BY DEF r1, r2
<1> HIDE DEF r2
<1> QED
  BY <1>2, <1>3 DEF Edited

Opened(kind, p, u, c, v, o, x, a) ==
  [kind |-> kind, phase |-> p, user |-> u, cid |-> c, about |-> v, owner |-> o,
   active |-> a, expires |-> 0, status |-> x, listed |-> {}]

Beginning(kind, p, u, c, v, o, x) == Opened(kind, p, u, c, v, o, x, FALSE)

(* The record a request begins with.                                       *)
LEMMA OpenRecord ==
  ASSUME NEW kind, NEW p, NEW u, NEW c, NEW v
  PROVE  Asked(kind, p, u, c, v) = Beginning(kind, p, u, c, v, Unknown, "None")
<1> DEFINE r1 == [Idle EXCEPT !.kind = kind]
           r2 == [r1 EXCEPT !.phase = p]
           r3 == [r2 EXCEPT !.user = u]
           r4 == [r3 EXCEPT !.cid = c]
           r5 == [r4 EXCEPT !.about = v]
<1>0. PICK a : a = FALSE
  OBVIOUS
<1>1. Idle = Opened("none", "idle", NoOwner, NoCid, NoOwner, Unknown, "None", a)
  BY <1>0 DEF Idle, Opened
<1>2. r1 = Opened(kind, "idle", NoOwner, NoCid, NoOwner, Unknown, "None", a)
  BY ONLY <1>1 DEF Opened
<1>3. Asked(kind, p, u, c, v) = r5
  BY ONLY TRUE DEF Asked
<1> HIDE DEF r1
<1>4. r2 = Opened(kind, p, NoOwner, NoCid, NoOwner, Unknown, "None", a)
  BY ONLY <1>2 DEF Opened
<1> HIDE DEF r2
<1>5. r3 = Opened(kind, p, u, NoCid, NoOwner, Unknown, "None", a)
  BY ONLY <1>4 DEF Opened
<1> HIDE DEF r3
<1>6. r4 = Opened(kind, p, u, c, NoOwner, Unknown, "None", a)
  BY ONLY <1>5 DEF Opened
<1> HIDE DEF r4
<1>7. r5 = Opened(kind, p, u, c, v, Unknown, "None", a)
  BY ONLY <1>6 DEF Opened
<1> HIDE DEF r5
<1> QED
  BY <1>0, <1>3, <1>7 DEF Beginning

(* The same with the owner that has been checked.                          *)
LEMMA OpenOwner ==
  ASSUME NEW kind, NEW p, NEW u, NEW c, NEW v, NEW o
  PROVE  [Asked(kind, p, u, c, v) EXCEPT !.owner = o] =
           Beginning(kind, p, u, c, v, o, "None")
<1> DEFINE r == Asked(kind, p, u, c, v)
<1>0. PICK a : a = FALSE
  OBVIOUS
<1>1. r = Opened(kind, p, u, c, v, Unknown, "None", a)
  BY <1>0, OpenRecord DEF Beginning
<1> HIDE DEF r
<1>2. [r EXCEPT !.owner = o] = Opened(kind, p, u, c, v, o, "None", a)
  BY ONLY <1>1 DEF Opened
<1> QED
  BY <1>0, <1>2 DEF r, Beginning

(* The same with the status that has been checked.                         *)
LEMMA OpenStatus ==
  ASSUME NEW kind, NEW p, NEW u, NEW c, NEW v, NEW x
  PROVE  [Asked(kind, p, u, c, v) EXCEPT !.status = x] =
           Beginning(kind, p, u, c, v, Unknown, x)
<1> DEFINE r == Asked(kind, p, u, c, v)
<1>0. PICK a : a = FALSE
  OBVIOUS
<1>1. r = Opened(kind, p, u, c, v, Unknown, "None", a)
  BY <1>0, OpenRecord DEF Beginning
<1> HIDE DEF r
<1>2. [r EXCEPT !.status = x] = Opened(kind, p, u, c, v, Unknown, x, a)
  BY ONLY <1>1 DEF Opened
<1> QED
  BY <1>0, <1>2 DEF r, Beginning

-----------------------------------------------------------------------------
(* The readers and the chain.                                              *)

others == <<fileVars, listVars, accessVars, requestVars>>

(* A new block changes nothing else, and nothing else makes a new block.   *)
LEMMA BlockOrTransaction ==
  ASSUME Next
  PROVE  block' = block \/ (block' = block + 1 /\ UNCHANGED others)
<1> DEFINE P == block' = block \/ (block' = block + 1 /\ UNCHANGED others)
<1>1. Mine => P
  BY DEF Mine, others
<1>2. (block' = block) => P
  OBVIOUS
<1> HIDE DEF P
<1>3. \A o \in Users, cs \in SUBSET Cids : \A path \in [cs -> Paths] :
        UploadEach(o, cs, path) \/ MoveEach(o, cs, path) => P
  BY <1>2 DEF UploadEach, MoveEach
<1>4. \A o \in Users, cs \in SUBSET Cids : DeleteStep(o, cs) => P
  BY <1>2 DEF DeleteStep, DeleteEach
<1>5. \A o, u \in Users, cs \in SUBSET Cids, mask \in Masks : RevokeEach(o, cs, u, mask) => P
  BY <1>2 DEF RevokeEach
<1>6. \A o, u \in Users, cs \in SUBSET Cids, mask \in Masks, d \in Nat :
        GrantStep(o, cs, u, mask, d) => P
  BY <1>2 DEF GrantStep
<1>7. \A u \in Users, c \in Cids, d \in Durations : RequestAccess(u, c, d) => P
  BY <1>2 DEF RequestAccess
<1>8. \A u \in Users, c \in Cids : CancelRequest(u, c) => P
  BY <1>2 DEF CancelRequest
<1>9. \A o, u \in Users, c \in Cids : DenyRequest(o, c, u) => P
  BY <1>2 DEF DenyRequest
<1>10. \A o, u \in Users, c \in Cids, mask \in Masks, d \in Durations :
         ApproveRequest(o, c, u, mask, d) => P
  BY <1>2 DEF ApproveRequest
<1>11. P
  BY ONLY Next, <1>1, <1>3, <1>4, <1>5, <1>6, <1>7, <1>8, <1>9, <1>10, StepKinds
<1> QED
  BY <1>11 DEF P

(* A file changes hands only by way of a deletion.                         *)
OwnersMove == \A c \in Cids :
  fileOwner'[c] \in {fileOwner[c], NoOwner} \/ fileOwner[c] = NoOwner

(* Uploads give an owner to files that have none, deletions take one away, *)
(* and nothing else touches the owners (FileStorage.sol).                  *)
LEMMA FilesChangeHands == ASSUME TypeOK, Next PROVE OwnersMove
<1> DEFINE P == OwnersMove
<1>1. (UNCHANGED fileOwner) => P
  BY DEF OwnersMove
<1>2. \A o \in Users, cs \in SUBSET Cids : \A path \in [cs -> Paths] :
        UploadEach(o, cs, path) \/ MoveEach(o, cs, path) => P
  BY <1>1 DEF UploadEach, MoveEach, OwnersMove, IsFileOwner
<1>3. \A o \in Users, cs \in SUBSET Cids : DeleteStep(o, cs) => P
  BY DEF DeleteStep, DeleteEach, OwnersMove
<1> HIDE DEF P
<1>4. Mine => P
  BY <1>1 DEF Mine, fileVars
<1>5. \A o, u \in Users, cs \in SUBSET Cids, mask \in Masks : RevokeEach(o, cs, u, mask) => P
  BY <1>1 DEF RevokeEach, fileVars
<1>6. \A o, u \in Users, cs \in SUBSET Cids, mask \in Masks, d \in Nat :
        GrantStep(o, cs, u, mask, d) => P
  BY <1>1 DEF GrantStep, fileVars
<1>7. \A u \in Users, c \in Cids, d \in Durations : RequestAccess(u, c, d) => P
  BY <1>1 DEF RequestAccess, fileVars
<1>8. \A u \in Users, c \in Cids : CancelRequest(u, c) => P
  BY <1>1 DEF CancelRequest, fileVars
<1>9. \A o, u \in Users, c \in Cids : DenyRequest(o, c, u) => P
  BY <1>1 DEF DenyRequest, fileVars
<1>10. \A o, u \in Users, c \in Cids, mask \in Masks, d \in Durations :
         ApproveRequest(o, c, u, mask, d) => P
  BY <1>1 DEF ApproveRequest, fileVars
<1>11. P
  BY ONLY Next, <1>2, <1>3, <1>4, <1>5, <1>6, <1>7, <1>8, <1>9, <1>10, StepKinds
<1> QED
  BY <1>11 DEF P

(* Who has a request opened is without access after the step.              *)
OpenedHasNone == \A c \in Cids, u \in Users :
  requests[c][u] # "Pending" /\ requests'[c][u] = "Pending" => ~HasAccess(c, u)'

(* Only requestAccess opens a request, and only without access.            *)
LEMMA AskersHaveNone == ASSUME IInv, Next PROVE OpenedHasNone
<1> DEFINE P == OpenedHasNone
<1>0. TypeOK
  BY DEF IInv
<1>1. (UNCHANGED requests) => P
  BY DEF OpenedHasNone
<1>2. \A o, cs : DropRequests(o, cs) => P
  BY DEF DropRequests, OpenedHasNone
<1>3. \A c \in Cids, u \in Users, status \in {"Approved", "Denied", "Cancelled"} :
        Resolve(c, u, status) => P
  BY <1>0 DEF Resolve, SetStatus, OpenedHasNone, TypeOK
<1>4. \A u \in Users, c \in Cids, d \in Durations : RequestAccess(u, c, d) => P
  <2> SUFFICES ASSUME NEW u \in Users, NEW c \in Cids, NEW d \in Durations,
                      RequestAccess(u, c, d)
               PROVE  P
    OBVIOUS
  <2>1. requests' = [requests EXCEPT ![c][u] = "Pending"]
    BY DEF RequestAccess, SetStatus
  <2>2. ~HasAccess(c, u)'
    BY DEF RequestAccess, accessVars, HasAccess, EffectivePermissions
  <2> QED
    BY <1>0, <2>1, <2>2 DEF OpenedHasNone, TypeOK
<1> HIDE DEF P
<1>5. Mine => P
  BY <1>1 DEF Mine, requestVars
<1>6. \A o \in Users, cs \in SUBSET Cids : \A path \in [cs -> Paths] :
        UploadEach(o, cs, path) \/ MoveEach(o, cs, path) => P
  BY <1>1 DEF UploadEach, MoveEach, requestVars
<1>7. \A o \in Users, cs \in SUBSET Cids : DeleteStep(o, cs) => P
  BY <1>2 DEF DeleteStep, DeleteEach
<1>8. \A o, u \in Users, cs \in SUBSET Cids, mask \in Masks : RevokeEach(o, cs, u, mask) => P
  BY <1>1 DEF RevokeEach, requestVars
<1>9. \A o, u \in Users, cs \in SUBSET Cids, mask \in Masks, d \in Nat :
        GrantStep(o, cs, u, mask, d) => P
  BY <1>1 DEF GrantStep, requestVars
<1>10. \A u \in Users, c \in Cids : CancelRequest(u, c) => P
  BY <1>3 DEF CancelRequest
<1>11. \A o, u \in Users, c \in Cids : DenyRequest(o, c, u) => P
  BY <1>3 DEF DenyRequest
<1>12. \A o, u \in Users, c \in Cids, mask \in Masks, d \in Durations :
         ApproveRequest(o, c, u, mask, d) => P
  BY <1>3 DEF ApproveRequest
<1>13. P
  BY ONLY Next, <1>4, <1>5, <1>6, <1>7, <1>8, <1>9, <1>10, <1>11, <1>12, StepKinds
<1> QED
  BY <1>13 DEF P

ReadEdits == StartRequest \/ ReadStep \/ Reply

(* A handler that reads writes nothing to the chain.                       *)
LEMMA ReadersOnlyRead == ReadEdits => UNCHANGED <<vars, regained>>
<1>1. StartRequest => UNCHANGED <<vars, regained>>
  BY DEF StartRequest, GetFiles, ShareRequests, SharedUsers, NotifyRequest, StartDownload,
         NotifyDecision, Begin
<1>2. ReadStep => UNCHANGED <<vars, regained>>
  <2>1. ASSUME NEW r, Continue(r) \/ GoOn(r) PROVE UNCHANGED <<vars, regained>>
    BY <2>1 DEF Continue, GoOn
  <2> HIDE DEF vars
  <2>2. (ListOwner \/ ListPermissions \/ ListExpiry \/ ListStatus) => UNCHANGED <<vars, regained>>
    BY <2>1 DEF ListOwner, ListPermissions, ListExpiry, ListStatus
  <2>3. ReadList => UNCHANGED <<vars, regained>>
    BY <2>1 DEF ReadList
  <2>4. (ReadRow \/ RecipientsExpiry \/ RequestsMetadata) => UNCHANGED <<vars, regained>>
    BY <2>1 DEF ReadRow, RecipientsExpiry, RequestsMetadata
  <2>5. (AskOwner \/ DecisionStatus \/ DecisionExpiry \/ DownloadPermissions) => UNCHANGED <<vars, regained>>
    BY <2>1 DEF AskOwner, DecisionStatus, DecisionExpiry, DownloadPermissions
  <2> QED
    BY <2>2, <2>3, <2>4, <2>5 DEF ReadStep
<1>3. Reply => UNCHANGED <<vars, regained>>
  BY DEF Reply
<1> QED
  BY <1>1, <1>2, <1>3 DEF ReadEdits

(* Seen from the chain, nothing but its own transactions and blocks        *)
(* happens: whatever holds of the contract holds while requests are served *)
(* (no handler sends a transaction of its own).                            *)
THEOREM ReadersLeaveTheContract == ReadsSpec => Spec
<1>1. ReadsInit => Init
  BY DEF ReadsInit
<1>2. [ReadsNext]_allVars => [Next]_vars
  BY ReadersOnlyRead DEF ReadsNext, ReadEdits, ChainStep, allVars
<1> QED
  BY <1>1, <1>2, PTL DEF ReadsSpec, Spec

-----------------------------------------------------------------------------
(***************************************************************************)
(* What a request knows between its calls.                                 *)
(***************************************************************************)
Unmoved == "tx" \notin witnessed

(* What held of the followed row since it was read is on record.           *)
KnowsRow ==
  reader.kind # "none" /\ reader.about # NoOwner /\ reader.phase \notin {"answered", "denied"} =>
    Facts(reader.kind, reader.cid, reader.about) \subseteq witnessed

(* A row without permissions had lost them by the time they were read.     *)
KnowsLapsed ==
  /\ reader.kind = "listing" /\ reader.phase \in {"owner", "permissions", "expiry", "status"} =>
       reader.about = reader.user
  /\ reader.phase = "row" \/ At("recipients", "expiry") => reader.about # NoOwner
  /\ reader.kind \in {"listing", "recipients"} /\ reader.about # NoOwner /\
       reader.phase \in {"expiry", "status", "answered"} /\ ~reader.active /\ ~failed =>
       witnessed \cap {"lapsed", "gone"} # {}

KnowsDownload == reader.kind = "download" =>
  /\ reader.about = reader.user
  /\ reader.phase = "permissions" =>
       reader.owner # reader.user /\ (Unmoved => fileOwner[reader.cid] = reader.owner)
  /\ reader.phase = "answered" => "entitled" \in witnessed
  /\ reader.phase = "denied" /\ ~failed /\ Unmoved => "refused" \in witnessed

(* An entry of the list is an own file or one whose list has the user; the *)
(* permissions, the expiry and the status follow one by one.               *)
GreyedOut == reader.owner # reader.user /\ ~reader.active

KnowsListing == reader.kind = "listing" /\ Unmoved /\ ~failed =>
  /\ fileOwner[reader.cid] = reader.user \/ sharedUsers[reader.cid][reader.user] > 0
  /\ reader.phase # "owner" => reader.owner = fileOwner[reader.cid]
  /\ reader.phase \in {"permissions", "expiry", "status"} => reader.owner # reader.user
  /\ reader.phase \in {"expiry", "status", "answered"} /\ GreyedOut =>
       ~HasAccess(reader.cid, reader.user)
  /\ reader.phase \in {"status", "answered"} /\ GreyedOut =>
       reader.expires = expiresAtBlock[reader.cid][reader.user]
  /\ reader.phase = "answered" /\ GreyedOut =>
       reader.status = requests[reader.cid][reader.user]

(* The owner sees the list as it is, and rows that lost access as lapsed.  *)
KnowsRecipients == reader.kind \in {"listing", "recipients"} /\ Unmoved /\ ~failed =>
  /\ reader.kind = "recipients" \/ reader.phase \in {"sharedUsers", "row"} =>
       reader.owner = reader.user /\ fileOwner[reader.cid] = reader.user
  /\ reader.phase = "answered" /\ reader.owner = reader.user /\ reader.about = NoOwner =>
       reader.listed = SharedUsersOf(reader.cid)
  /\ reader.kind = "recipients" /\ reader.phase \in {"row", "expiry", "answered"}
       /\ reader.about # NoOwner => sharedUsers[reader.cid][reader.about] > 0
  /\ reader.kind = "recipients" /\ reader.phase \in {"expiry", "answered"}
       /\ reader.about # NoOwner /\ ~reader.active => ~HasAccess(reader.cid, reader.about)
  /\ reader.kind = "recipients" /\ reader.phase = "answered" /\ reader.about # NoOwner =>
       reader.expires = expiresAtBlock[reader.cid][reader.about]

(* A request was open when it was listed, and its file keeps its owner     *)
(* until it is deleted.                                                    *)
KnowsRequests == reader.kind = "requests" =>
  /\ reader.about \in Users
  /\ "open" \in witnessed
  /\ "deleted" \notin witnessed => fileOwner[reader.cid] = reader.user /\ reader.about # reader.user
  /\ reader.phase = "answered" /\ ~failed => fileMetadata[reader.cid] \notin Trash

KnowsAsk == reader.kind = "ask" =>
  /\ reader.about \in Users
  /\ "open" \in witnessed
  /\ "deleted" \notin witnessed => fileOwner[reader.cid] \notin {NoOwner, reader.user}
  /\ reader.phase = "answered" => reader.owner = fileOwner[reader.cid]

KnowsDecision == reader.kind \in Decisions =>
  /\ reader.about \in Users
  /\ "deleted" \notin witnessed => fileOwner[reader.cid] = reader.user
  /\ reader.phase \in {"expiry", "answered"} =>
       reader.kind \in witnessed /\ ("deleted" \notin witnessed => reader.about # reader.user)
  /\ reader.phase # "answered" => reader.expires = 0
  /\ reader.expires \in {0, expiresAtBlock[reader.cid][reader.about]}

KnowsMails == KnowsAsk /\ KnowsDecision

Knows ==
  /\ Typed
  /\ KnowsRow /\ KnowsLapsed
  /\ KnowsDownload
  /\ KnowsListing /\ KnowsRecipients
  /\ KnowsRequests /\ KnowsMails

(* A request that begins, and none, are of the type.                       *)
LEMMA OpenedType ==
  ASSUME NEW kind \in Kinds, NEW p \in Phases, NEW u \in Users \cup {NoOwner},
         NEW c \in Cids \cup {NoCid}, NEW v \in Users \cup {NoOwner},
         NEW o \in Users \cup {NoOwner, Unknown}, NEW x \in Status
  PROVE  Beginning(kind, p, u, c, v, o, x) \in ReaderType
<1>1. PICK a \in BOOLEAN : a = FALSE
  OBVIOUS
<1>2. Opened(kind, p, u, c, v, o, x, a) \in ReaderType
  <2>1. a \in BOOLEAN /\ 0 \in Nat /\ {} \in SUBSET Users
    BY <1>1
  <2> QED
    BY ONLY <2>1, kind \in Kinds, p \in Phases, u \in Users \cup {NoOwner},
       c \in Cids \cup {NoCid}, v \in Users \cup {NoOwner},
       o \in Users \cup {NoOwner, Unknown}, x \in Status DEF Opened, ReaderType
<1> QED
  BY <1>1, <1>2 DEF Beginning

(* No request is in progress: there is nothing to know.                    *)
LEMMA IdleFields ==
  /\ Idle \in ReaderType
  /\ Idle.kind = "none" /\ Idle.phase = "idle"
<1>1. Idle = Beginning("none", "idle", NoOwner, NoCid, NoOwner, Unknown, "None")
  BY DEF Idle, Beginning, Opened
<1>2. "none" \in Kinds /\ "None" \in Status /\ "idle" \in Phases
  BY DEF Kinds, Status, Phases
<1>3. /\ NoOwner \in Users \cup {NoOwner} /\ NoCid \in Cids \cup {NoCid}
      /\ Unknown \in Users \cup {NoOwner, Unknown}
  BY ONLY TRUE
<1>4. Beginning("none", "idle", NoOwner, NoCid, NoOwner, Unknown, "None") \in ReaderType
  BY ONLY <1>2, <1>3, OpenedType
<1>5. Idle.kind = "none" /\ Idle.phase = "idle"
  BY DEF Idle
<1> QED
  BY <1>1, <1>4, <1>5

(* A state without a request, and a step that ends one.                    *)
LEMMA KnowsIdle == ASSUME reader = Idle PROVE Knows
<1>1. reader.kind = "none" /\ reader.phase = "idle" /\ reader \in ReaderType
  BY IdleFields
<1> QED
  BY <1>1 DEF Knows, Typed, PhaseOf, KnowsRow, KnowsLapsed, KnowsDownload, KnowsListing,
         KnowsRecipients, KnowsRequests, KnowsMails, KnowsAsk, KnowsDecision, Decisions, At

(* The same after a step.                                                  *)
LEMMA KnowsIdleNext == ASSUME reader' = Idle PROVE Knows'
<1>1. reader'.kind = "none" /\ reader'.phase = "idle" /\ reader' \in ReaderType
  BY IdleFields
<1> QED
  BY <1>1 DEF Knows, Typed, PhaseOf, KnowsRow, KnowsLapsed, KnowsDownload, KnowsListing,
         KnowsRecipients, KnowsRequests, KnowsMails, KnowsAsk, KnowsDecision, Decisions, At

(* The chain moves on under a request: a transaction is on record, and a   *)
(* new block leaves all but what has lapsed as it was.                     *)
LEMMA KnowsChainStep ==
  ASSUME IInv, Knows, ChainStep
  PROVE  Knows'
<1>1. /\ reader' = reader /\ failed' = failed
      /\ reader.phase \notin {"answered", "denied"}
  BY DEF ChainStep
<1>2. CASE reader = Idle
  <2>1. reader' = Idle
    BY <1>1, <1>2
  <2> QED
    BY <2>1, KnowsIdleNext
<1>3. CASE reader # Idle
  <2>1. /\ witnessed \subseteq witnessed'
        /\ block' = block /\ reader.kind \in Rows => "tx" \in witnessed'
        /\ Watched' \subseteq witnessed'
    BY <1>3 DEF ChainStep
  <2>2. block' = block \/ (block' = block + 1 /\ UNCHANGED others)
    BY BlockOrTransaction DEF ChainStep
  <2>3. Typed'
    BY <1>1 DEF Knows, Typed
  <2>4. KnowsRow'
    BY <1>1, <2>1 DEF KnowsRow, Watched
  <2>5. KnowsLapsed'
    BY <1>1, <2>1 DEF Knows, KnowsLapsed, At
  <2>7. /\ reader.kind # "none" => reader.cid \in Cids /\ reader.user \in Users
        /\ reader.about \in Users \cup {NoOwner} /\ NoOwner \notin Users
    BY FileStorageAssumption DEF Knows, Typed, ReaderType
  <2>0. ASSUME reader.kind \in {"requests", "ask"} \cup Decisions, reader.about \in Users,
               "deleted" \notin witnessed'
        PROVE  /\ "deleted" \notin witnessed
               /\ fileOwner[reader.cid] # NoOwner =>
                    fileOwner'[reader.cid] = fileOwner[reader.cid]
    <3>1. reader.kind \notin Rows /\ reader.cid \in Cids /\ reader.about # NoOwner
      BY <2>0, <2>7 DEF Rows, Decisions
    <3>2. fileOwner'[reader.cid] # NoOwner
      BY <1>1, <2>0, <2>1, <3>1 DEF Watched, Facts
    <3>3. OwnersMove
      BY FilesChangeHands DEF ChainStep, IInv
    <3> QED
      BY <2>0, <2>1, <3>1, <3>2, <3>3 DEF OwnersMove
  <2>8. KnowsRequests'
    BY <1>1, <2>0, <2>1, <2>7 DEF Knows, KnowsRequests
  <2>9. KnowsMails'
    <3>1. KnowsAsk'
      BY <1>1, <2>0, <2>1, <2>7 DEF Knows, KnowsMails, KnowsAsk
    <3>2. KnowsDecision'
      <4> SUFFICES ASSUME reader.kind \in Decisions PROVE KnowsDecision'
        BY <1>1 DEF KnowsDecision
      <4>1. /\ reader.about \in Users /\ reader.user \in Users /\ reader.expires = 0
            /\ "deleted" \notin witnessed => fileOwner[reader.cid] = reader.user
            /\ reader.phase \in {"expiry", "answered"} => reader.kind \in witnessed
                 /\ ("deleted" \notin witnessed => reader.about # reader.user)
        BY <1>1, <2>7 DEF Knows, KnowsMails, KnowsDecision, Decisions
      <4>2. "deleted" \notin witnessed' => fileOwner'[reader.cid] = reader.user
        BY <2>0, <2>7, <4>1
      <4> QED
        BY <1>1, <2>1, <4>1, <4>2 DEF KnowsDecision
    <3> QED
      BY <3>1, <3>2 DEF KnowsMails
  <2>6. CASE block' = block
    <3>1. reader.kind \in Rows => ~Unmoved'
      BY <2>1, <2>6 DEF Unmoved
    <3>2. KnowsDownload'
      BY <1>1, <3>1 DEF Knows, KnowsDownload, Rows
    <3> QED
      BY <1>1, <2>3, <2>4, <2>5, <2>8, <2>9, <3>1, <3>2
         DEF Knows, KnowsListing, KnowsRecipients, Rows
  <2>10. CASE block' = block + 1 /\ UNCHANGED others
    <3>1. /\ UNCHANGED <<fileOwner, fileMetadata, sharedUsers, requests, expiresAtBlock,
                        permissions>>
          /\ Unmoved' => Unmoved
      BY <2>1, <2>10 DEF others, fileVars, listVars, accessVars, requestVars, Unmoved
    <3>2. \A c \in Cids, u \in Users : ~HasAccess(c, u) => ~HasAccess(c, u)'
      <4>1. block \in Nat /\ expiresAtBlock \in [Cids -> [Users -> Nat]]
        BY DEF IInv, TypeOK
      <4> QED
        BY <2>10, <3>1, <4>1 DEF HasAccess, EffectivePermissions
    <3>3. KnowsDownload'
      BY <1>1, <3>1 DEF Knows, KnowsDownload
    <3>4. KnowsListing'
      BY <1>1, <2>7, <3>1, <3>2 DEF Knows, KnowsListing, GreyedOut
    <3>5. KnowsRecipients'
      BY <1>1, <2>7, <3>1, <3>2 DEF Knows, KnowsRecipients, SharedUsersOf
    <3> QED
      BY <2>3, <2>4, <2>5, <2>8, <2>9, <3>3, <3>4, <3>5 DEF Knows
  <2> QED
    BY <2>2, <2>6, <2>10
<1> QED
  BY <1>2, <1>3

-----------------------------------------------------------------------------
(* A call of a handler: the record is edited and the chain stays.          *)

Still == UNCHANGED <<block, fileOwner, fileMetadata, sharedUsers, permissions, expiresAtBlock,
                     requests, ownerPending, regained>>

(* What the requests are told of the chain is all still there.             *)
LEMMA StepStays ==
  ASSUME UNCHANGED vars, UNCHANGED regained
  PROVE  Still
BY DEF vars, fileVars, listVars, accessVars, requestVars, Still

Fields(p, v, o, a, e, x, l) ==
  /\ Typed'
  /\ reader'.kind = reader.kind /\ reader'.phase = p
  /\ reader'.user = reader.user /\ reader'.cid = reader.cid
  /\ reader'.about = v /\ reader'.owner = o /\ reader'.active = a
  /\ reader'.expires = e /\ reader'.status = x /\ reader'.listed = l

(* The types of the fields, one by one.                                    *)
LEMMA FieldTypes ==
  ASSUME Typed
  PROVE  /\ reader \in ReaderType
         /\ reader.kind \in Kinds /\ PhaseOf(reader.kind, reader.phase)
         /\ reader.about \in Users \cup {NoOwner}
         /\ reader.owner \in Users \cup {NoOwner, Unknown}
         /\ reader.active \in BOOLEAN /\ reader.expires \in Nat
         /\ reader.status \in Status /\ reader.listed \in SUBSET Users
         /\ reader.kind # "none" => reader.cid \in Cids /\ reader.user \in Users
BY DEF Typed, ReaderType

(* An edit within the types keeps them.                                    *)
LEMMA TypedEdit ==
  ASSUME Typed, NEW p \in Phases, NEW v \in Users \cup {NoOwner},
         NEW o \in Users \cup {NoOwner, Unknown}, NEW a \in BOOLEAN, NEW e \in Nat,
         NEW x \in Status, NEW l \in SUBSET Users,
         reader' = Edited(reader, p, v, o, a, e, x, l), PhaseOf(reader.kind, p)
  PROVE  Fields(p, v, o, a, e, x, l)
<1>1. /\ reader'.kind = reader.kind /\ reader'.phase = p
      /\ reader'.user = reader.user /\ reader'.cid = reader.cid
      /\ reader'.about = v /\ reader'.owner = o /\ reader'.active = a
      /\ reader'.expires = e /\ reader'.status = x /\ reader'.listed = l
  BY DEF Edited
<1>2. reader' \in ReaderType
  <2>1. /\ reader.kind \in Kinds /\ reader.user \in Users \cup {NoOwner}
        /\ reader.cid \in Cids \cup {NoCid}
    BY DEF Typed, ReaderType
  <2> QED
    BY <2>1 DEF Edited, ReaderType
<1>3. Typed'
  BY <1>1, <1>2 DEF Typed
<1> QED
  BY <1>1, <1>3 DEF Fields

(* Each form of edit gives the fields after the step.                      *)
LEMMA PhaseStep ==
  ASSUME Typed, NEW p \in Phases, PhaseOf(reader.kind, p),
         reader' = [reader EXCEPT !.phase = p]
  PROVE  Fields(p, reader.about, reader.owner, reader.active, reader.expires,
                reader.status, reader.listed)
<1>1. /\ reader \in ReaderType
      /\ reader.about \in Users \cup {NoOwner}
      /\ reader.owner \in Users \cup {NoOwner, Unknown}
      /\ reader.active \in BOOLEAN /\ reader.expires \in Nat
      /\ reader.status \in Status /\ reader.listed \in SUBSET Users
  BY FieldTypes
<1>2. reader' = Edited(reader, p, reader.about, reader.owner, reader.active, reader.expires,
                       reader.status, reader.listed)
  BY ONLY <1>1, reader' = [reader EXCEPT !.phase = p], EditPhase
<1> QED
  BY ONLY <1>1, <1>2, Typed, PhaseOf(reader.kind, p), p \in Phases, TypedEdit

(* The owner is read (ListOwner).                                          *)
LEMMA OwnerStep ==
  ASSUME Typed, NEW p \in Phases, NEW o \in Users \cup {NoOwner, Unknown},
         PhaseOf(reader.kind, p),
         reader' = [reader EXCEPT !.owner = o, !.phase = p]
  PROVE  Fields(p, reader.about, o, reader.active, reader.expires, reader.status,
                reader.listed)
<1>1. /\ reader \in ReaderType
      /\ reader.about \in Users \cup {NoOwner}
      /\ reader.owner \in Users \cup {NoOwner, Unknown}
      /\ reader.active \in BOOLEAN /\ reader.expires \in Nat
      /\ reader.status \in Status /\ reader.listed \in SUBSET Users
  BY FieldTypes
<1>2. reader' = Edited(reader, p, reader.about, o, reader.active, reader.expires,
                       reader.status, reader.listed)
  BY ONLY <1>1, reader' = [reader EXCEPT !.owner = o, !.phase = p], EditOwner
<1> QED
  BY ONLY <1>1, <1>2, Typed, PhaseOf(reader.kind, p), p \in Phases,
     o \in Users \cup {NoOwner, Unknown}, TypedEdit

(* The owner is read (AskOwner).                                           *)
LEMMA OwnerLastStep ==
  ASSUME Typed, NEW p \in Phases, NEW o \in Users \cup {NoOwner, Unknown},
         PhaseOf(reader.kind, p),
         reader' = [reader EXCEPT !.phase = p, !.owner = o]
  PROVE  Fields(p, reader.about, o, reader.active, reader.expires, reader.status,
                reader.listed)
<1>1. /\ reader \in ReaderType
      /\ reader.about \in Users \cup {NoOwner}
      /\ reader.owner \in Users \cup {NoOwner, Unknown}
      /\ reader.active \in BOOLEAN /\ reader.expires \in Nat
      /\ reader.status \in Status /\ reader.listed \in SUBSET Users
  BY FieldTypes
<1>2. reader' = Edited(reader, p, reader.about, o, reader.active, reader.expires,
                       reader.status, reader.listed)
  BY ONLY <1>1, reader' = [reader EXCEPT !.phase = p, !.owner = o], EditOwnerLast
<1> QED
  BY ONLY <1>1, <1>2, Typed, PhaseOf(reader.kind, p), p \in Phases,
     o \in Users \cup {NoOwner, Unknown}, TypedEdit

(* The permissions are read.                                               *)
LEMMA ActiveStep ==
  ASSUME Typed, NEW p \in Phases, NEW a \in BOOLEAN,
         PhaseOf(reader.kind, p), reader' = [reader EXCEPT !.phase = p, !.active = a]
  PROVE  Fields(p, reader.about, reader.owner, a, reader.expires, reader.status,
                reader.listed)
<1>1. /\ reader \in ReaderType
      /\ reader.about \in Users \cup {NoOwner}
      /\ reader.owner \in Users \cup {NoOwner, Unknown}
      /\ reader.active \in BOOLEAN /\ reader.expires \in Nat
      /\ reader.status \in Status /\ reader.listed \in SUBSET Users
  BY FieldTypes
<1>2. reader' = Edited(reader, p, reader.about, reader.owner, a, reader.expires, reader.status,
                       reader.listed)
  BY ONLY <1>1, reader' = [reader EXCEPT !.phase = p, !.active = a], EditActive
<1> QED
  BY ONLY <1>1, <1>2, Typed, PhaseOf(reader.kind, p), p \in Phases, a \in BOOLEAN, TypedEdit

(* The expiry is read.                                                     *)
LEMMA ExpiresStep ==
  ASSUME Typed, NEW p \in Phases, NEW e \in Nat, PhaseOf(reader.kind, p),
         reader' = [reader EXCEPT !.phase = p, !.expires = e]
  PROVE  Fields(p, reader.about, reader.owner, reader.active, e, reader.status,
                reader.listed)
<1>1. /\ reader \in ReaderType
      /\ reader.about \in Users \cup {NoOwner}
      /\ reader.owner \in Users \cup {NoOwner, Unknown}
      /\ reader.active \in BOOLEAN /\ reader.expires \in Nat
      /\ reader.status \in Status /\ reader.listed \in SUBSET Users
  BY FieldTypes
<1>2. reader' = Edited(reader, p, reader.about, reader.owner, reader.active, e, reader.status,
                       reader.listed)
  BY ONLY <1>1, reader' = [reader EXCEPT !.phase = p, !.expires = e], EditExpires
<1> QED
  BY ONLY <1>1, <1>2, Typed, PhaseOf(reader.kind, p), p \in Phases, e \in Nat, TypedEdit

(* The status is read (DecisionStatus).                                    *)
LEMMA StatusStep ==
  ASSUME Typed, NEW p \in Phases, NEW x \in Status, PhaseOf(reader.kind, p),
         reader' = [reader EXCEPT !.status = x, !.phase = p]
  PROVE  Fields(p, reader.about, reader.owner, reader.active, reader.expires, x,
                reader.listed)
<1>1. /\ reader \in ReaderType
      /\ reader.about \in Users \cup {NoOwner}
      /\ reader.owner \in Users \cup {NoOwner, Unknown}
      /\ reader.active \in BOOLEAN /\ reader.expires \in Nat
      /\ reader.status \in Status /\ reader.listed \in SUBSET Users
  BY FieldTypes
<1>2. reader' = Edited(reader, p, reader.about, reader.owner, reader.active, reader.expires, x,
                       reader.listed)
  BY ONLY <1>1, reader' = [reader EXCEPT !.status = x, !.phase = p], EditStatus
<1> QED
  BY ONLY <1>1, <1>2, Typed, PhaseOf(reader.kind, p), p \in Phases, x \in Status, TypedEdit

(* The status is read (ListStatus).                                        *)
LEMMA StatusLastStep ==
  ASSUME Typed, NEW p \in Phases, NEW x \in Status, PhaseOf(reader.kind, p),
         reader' = [[reader EXCEPT !.phase = p] EXCEPT !.status = x]
  PROVE  Fields(p, reader.about, reader.owner, reader.active, reader.expires, x,
                reader.listed)
<1>1. /\ reader \in ReaderType
      /\ reader.about \in Users \cup {NoOwner}
      /\ reader.owner \in Users \cup {NoOwner, Unknown}
      /\ reader.active \in BOOLEAN /\ reader.expires \in Nat
      /\ reader.status \in Status /\ reader.listed \in SUBSET Users
  BY FieldTypes
<1>2. reader' = Edited(reader, p, reader.about, reader.owner, reader.active, reader.expires, x,
                       reader.listed)
  BY ONLY <1>1, reader' = [[reader EXCEPT !.phase = p] EXCEPT !.status = x], EditStatusLast
<1> QED
  BY ONLY <1>1, <1>2, Typed, PhaseOf(reader.kind, p), p \in Phases, x \in Status, TypedEdit

(* A row is left out.                                                      *)
LEMMA AboutStep ==
  ASSUME Typed, NEW p \in Phases, NEW v \in Users \cup {NoOwner}, PhaseOf(reader.kind, p),
         reader' = [reader EXCEPT !.phase = p, !.about = v]
  PROVE  Fields(p, v, reader.owner, reader.active, reader.expires, reader.status,
                reader.listed)
<1>1. /\ reader \in ReaderType
      /\ reader.about \in Users \cup {NoOwner}
      /\ reader.owner \in Users \cup {NoOwner, Unknown}
      /\ reader.active \in BOOLEAN /\ reader.expires \in Nat
      /\ reader.status \in Status /\ reader.listed \in SUBSET Users
  BY FieldTypes
<1>2. reader' = Edited(reader, p, v, reader.owner, reader.active, reader.expires,
                       reader.status, reader.listed)
  BY ONLY <1>1, reader' = [reader EXCEPT !.phase = p, !.about = v], EditAbout
<1> QED
  BY ONLY <1>1, <1>2, Typed, PhaseOf(reader.kind, p), p \in Phases, v \in Users \cup {NoOwner},
     TypedEdit

(* No row is followed.                                                     *)
LEMMA ResetStep ==
  ASSUME Typed, NEW p \in Phases, NEW v \in Users \cup {NoOwner}, NEW a \in BOOLEAN,
         PhaseOf(reader.kind, p), reader' = [reader EXCEPT !.phase = p, !.about = v, !.active = a]
  PROVE  Fields(p, v, reader.owner, a, reader.expires, reader.status, reader.listed)
<1>1. /\ reader \in ReaderType
      /\ reader.about \in Users \cup {NoOwner}
      /\ reader.owner \in Users \cup {NoOwner, Unknown}
      /\ reader.active \in BOOLEAN /\ reader.expires \in Nat
      /\ reader.status \in Status /\ reader.listed \in SUBSET Users
  BY FieldTypes
<1>2. reader' = Edited(reader, p, v, reader.owner, a, reader.expires, reader.status,
                       reader.listed)
  BY ONLY <1>1, reader' = [reader EXCEPT !.phase = p, !.about = v, !.active = a], EditReset
<1> QED
  BY ONLY <1>1, <1>2, Typed, PhaseOf(reader.kind, p), p \in Phases, v \in Users \cup {NoOwner},
     a \in BOOLEAN, TypedEdit

(* The list is read.                                                       *)
LEMMA ListedStep ==
  ASSUME Typed, NEW p \in Phases, NEW v \in Users \cup {NoOwner}, NEW a \in BOOLEAN,
         NEW l \in SUBSET Users, PhaseOf(reader.kind, p),
         reader' = [[reader EXCEPT !.phase = p, !.about = v, !.active = a] EXCEPT !.listed = l]
  PROVE  Fields(p, v, reader.owner, a, reader.expires, reader.status, l)
<1> DEFINE t == [reader EXCEPT !.phase = p, !.about = v, !.active = a]
<1>1. /\ reader \in ReaderType
      /\ reader.about \in Users \cup {NoOwner}
      /\ reader.owner \in Users \cup {NoOwner, Unknown}
      /\ reader.active \in BOOLEAN /\ reader.expires \in Nat
      /\ reader.status \in Status /\ reader.listed \in SUBSET Users
  BY FieldTypes
<1>2. t = Edited(reader, p, v, reader.owner, a, reader.expires, reader.status, reader.listed)
  BY ONLY <1>1, EditReset
<1>3. reader' = [t EXCEPT !.listed = l]
  OBVIOUS
<1> HIDE DEF t
<1>4. reader' = Edited(reader, p, v, reader.owner, a, reader.expires, reader.status, l)
  BY ONLY <1>2, <1>3 DEF Edited
<1> QED
  BY ONLY <1>1, <1>4, Typed, PhaseOf(reader.kind, p), p \in Phases, v \in Users \cup {NoOwner},
     a \in BOOLEAN, l \in SUBSET Users, TypedEdit

(* A row of the list is followed.                                          *)
LEMMA RowStep ==
  ASSUME Typed, NEW q, NEW w, NEW p \in Phases, NEW v \in Users \cup {NoOwner},
         NEW a \in BOOLEAN, PhaseOf(reader.kind, p),
         reader' = [[reader EXCEPT !.phase = q, !.about = w, !.active = a]
                     EXCEPT !.phase = p, !.about = v]
  PROVE  Fields(p, v, reader.owner, a, reader.expires, reader.status, reader.listed)
<1> DEFINE t  == [reader EXCEPT !.phase = q, !.about = w, !.active = a]
           r1 == [t EXCEPT !.phase = p]
<1>1. /\ reader \in ReaderType
      /\ reader.about \in Users \cup {NoOwner}
      /\ reader.owner \in Users \cup {NoOwner, Unknown}
      /\ reader.active \in BOOLEAN /\ reader.expires \in Nat
      /\ reader.status \in Status /\ reader.listed \in SUBSET Users
  BY FieldTypes
<1>2. t = Edited(reader, q, w, reader.owner, a, reader.expires, reader.status, reader.listed)
  BY ONLY <1>1, EditReset
<1>3. reader' = [t EXCEPT !.phase = p, !.about = v]
  OBVIOUS
<1> HIDE DEF t
<1>4. r1 = Edited(reader, p, w, reader.owner, a, reader.expires, reader.status, reader.listed)
  BY ONLY <1>2 DEF Edited
<1>5. reader' = [r1 EXCEPT !.about = v]
  BY ONLY <1>3
<1> HIDE DEF r1
<1>6. reader' = Edited(reader, p, v, reader.owner, a, reader.expires, reader.status,
                       reader.listed)
  BY ONLY <1>4, <1>5 DEF Edited
<1> QED
  BY ONLY <1>1, <1>6, Typed, PhaseOf(reader.kind, p), p \in Phases, v \in Users \cup {NoOwner},
     a \in BOOLEAN, TypedEdit

-----------------------------------------------------------------------------
(* The download.                                                           *)

(* can_download reads the permissions and answers (DownloadPermissions).   *)
LEMMA KnowsDownloadPermissions ==
  ASSUME IInv, Knows, DownloadPermissions
  PROVE  Knows'
<1> DEFINE entitled == Download \in EffectivePermissions(reader.cid, reader.user)
<1>1. PICK p \in {"answered", "denied"} :
        /\ reader' = [reader EXCEPT !.phase = p]
        /\ p = "answered" => entitled
        /\ p = "denied" /\ ~failed' => ~entitled
  BY DEF DownloadPermissions, Continue, GoOn
<1>2. witnessed' = witnessed /\ reader.kind = "download" /\ reader.phase = "permissions"
  BY DEF DownloadPermissions, Continue, GoOn, At
<1>3. Typed
  BY DEF Knows
<1>4. p \in Phases /\ PhaseOf(reader.kind, p)
  BY <1>1, <1>2 DEF PhaseOf, Phases
<1>5. Fields(p, reader.about, reader.owner, reader.active, reader.expires, reader.status,
             reader.listed)
  BY ONLY <1>1, <1>3, <1>4, PhaseStep
<1>6. Still
  BY StepStays DEF DownloadPermissions, Continue, GoOn
<1>7. /\ reader.about = reader.user /\ reader.user \in Users /\ reader.owner # reader.user
      /\ Unmoved => fileOwner[reader.cid] # reader.user
  BY <1>2, <1>3, FieldTypes DEF Knows, KnowsDownload
<1>8. Facts("download", reader.cid, reader.user) \subseteq witnessed
  BY <1>2, <1>7, FileStorageAssumption DEF Knows, KnowsRow
<1>9. entitled => "entitled" \in witnessed
  BY <1>8 DEF Facts, Entitled
<1>10. ~entitled /\ Unmoved => "refused" \in witnessed
  BY <1>7, <1>8 DEF Facts, Entitled
<1> HIDE DEF entitled
<1>11. KnowsDownload'
  BY <1>1, <1>2, <1>5, <1>7, <1>9, <1>10 DEF KnowsDownload, Unmoved, Fields
<1> QED
  BY <1>1, <1>2, <1>5, <1>11 DEF Fields, Knows, KnowsRow, At, KnowsLapsed, KnowsListing,
         KnowsRecipients, KnowsRequests, KnowsMails, KnowsAsk, KnowsDecision, Decisions

-----------------------------------------------------------------------------
(* The listing and the list of recipients.                                 *)

(* Who is in the list and has no access lost it at a block that has come.  *)
LEMMA LostIsOver ==
  ASSUME IInv, ListedOnce, NEW c \in Cids, NEW u \in Users, ~HasAccess(c, u)
  PROVE  /\ Lapsed(c, u) \/ sharedUsers[c][u] = 0
         /\ sharedUsers[c][u] > 0 => expiresAtBlock[c][u] \in 1..block
<1>1. /\ block \in Nat /\ sharedUsers[c][u] \in Nat /\ expiresAtBlock[c][u] \in Nat
  BY DEF IInv, TypeOK
<1>2. sharedUsers[c][u] > 0 => permissions[c][u] # {}
  BY <1>1 DEF ListedOnce
<1>3. permissions[c][u] # {} => expiresAtBlock[c][u] \in 1..block
  BY <1>1 DEF HasAccess, EffectivePermissions
<1> QED
  BY <1>1, <1>2, <1>3 DEF Lapsed

(* A followed row keeps its facts while the chain stays.                   *)
LEMMA RowStays ==
  ASSUME KnowsRow, Still, witnessed' = witnessed, reader.phase \notin {"answered", "denied"},
         reader'.kind = reader.kind, reader'.cid = reader.cid, reader'.about = reader.about
  PROVE  KnowsRow'
BY DEF KnowsRow, Still, Facts, Lapsed, Entitled, Open, HasAccess, EffectivePermissions

(* The owner is looked up (ListOwner).                                     *)
LEMMA KnowsListOwner ==
  ASSUME IInv, Knows, ListOwner
  PROVE  Knows'
<1> DEFINE o == fileOwner[reader.cid]
<1>1. /\ witnessed' = witnessed /\ reader.kind = "listing" /\ reader.phase = "owner"
      /\ Still
  BY StepStays DEF ListOwner, Continue, GoOn, At
<1>2. Typed
  BY DEF Knows
<1>3. reader.cid \in Cids /\ reader.user \in Users /\ Unknown \notin Users \cup {NoOwner}
  BY <1>1, <1>2, FieldTypes, ReadsAssumption
<1>4. o \in Users \cup {NoOwner}
  BY <1>3 DEF IInv, TypeOK
<1>5. CASE reader' = [reader EXCEPT !.phase = "answered"] /\ failed' = TRUE
  <2>1. "answered" \in Phases /\ PhaseOf(reader.kind, "answered")
    BY <1>1 DEF PhaseOf, Phases
  <2>2. Fields("answered", reader.about, reader.owner, reader.active, reader.expires,
               reader.status, reader.listed)
    BY ONLY <1>2, <1>5, <2>1, PhaseStep
  <2> QED
    BY <1>1, <1>5, <2>2 DEF Fields, Knows, KnowsRow, At, KnowsLapsed, KnowsDownload, KnowsListing,
       KnowsRecipients, KnowsRequests, KnowsMails, KnowsAsk, KnowsDecision, Decisions
<1>6. CASE \E p \in {"sharedUsers", "permissions"} :
             /\ reader' = [reader EXCEPT !.owner = o, !.phase = p]
             /\ failed' = failed
             /\ p = "sharedUsers" <=> o = reader.user
  <2>1. PICK p \in {"sharedUsers", "permissions"} :
             /\ reader' = [reader EXCEPT !.owner = o, !.phase = p]
             /\ failed' = failed
             /\ p = "sharedUsers" <=> o = reader.user
    BY <1>6
  <2>2. p \in Phases /\ PhaseOf(reader.kind, p)
    BY <1>1 DEF PhaseOf, Phases
  <2>3. o \in Users \cup {NoOwner, Unknown}
    BY <1>4
  <2>4. Fields(p, reader.about, o, reader.active, reader.expires, reader.status, reader.listed)
    BY ONLY <1>2, <2>1, <2>2, <2>3, OwnerStep
  <2>5. KnowsRow'
    BY <1>1, <2>4, RowStays DEF Fields, Knows
  <2>6. KnowsListing'
    BY <1>1, <1>3, <2>1, <2>4 DEF Fields, Knows, KnowsListing, Still, Unmoved
  <2>7. KnowsRecipients'
    BY <1>1, <2>1, <2>4 DEF Fields, KnowsRecipients, Still
  <2> QED
    BY <1>1, <2>1, <2>4, <2>5, <2>6, <2>7 DEF Fields, Knows, At, KnowsLapsed, KnowsDownload,
       KnowsRequests, KnowsMails, KnowsAsk, KnowsDecision, Decisions
<1> QED
  BY <1>5, <1>6 DEF ListOwner, Continue, GoOn

(* The permissions are read (ListPermissions).                             *)
LEMMA KnowsListPermissions ==
  ASSUME IInv, ListedOnce, Knows, ListPermissions
  PROVE  Knows'
<1>1. /\ witnessed' = witnessed /\ reader.kind = "listing" /\ reader.phase = "permissions"
      /\ Still
  BY StepStays DEF ListPermissions, Continue, GoOn, At
<1>2. Typed
  BY DEF Knows
<1>3. reader.cid \in Cids /\ reader.user \in Users
  BY <1>1, <1>2, FieldTypes
<1>4. CASE reader' = [reader EXCEPT !.phase = "answered", !.active = TRUE] /\ failed' = failed
  <2>1. PICK a \in BOOLEAN : a = TRUE
    OBVIOUS
  <2>2. "answered" \in Phases /\ PhaseOf(reader.kind, "answered")
    BY <1>1 DEF PhaseOf, Phases
  <2>3. reader' = [reader EXCEPT !.phase = "answered", !.active = a]
    BY ONLY <1>4, <2>1
  <2>4. Fields("answered", reader.about, reader.owner, a, reader.expires, reader.status,
               reader.listed)
    BY ONLY <1>2, <2>2, <2>3, a \in BOOLEAN, ActiveStep
  <2>5. reader'.active
    BY <2>1, <2>4 DEF Fields
  <2>6. KnowsListing'
    BY <1>1, <1>4, <2>4, <2>5 DEF Fields, Knows, KnowsListing, GreyedOut, Still, Unmoved
  <2>7. KnowsRecipients'
    BY <1>1, <1>3, <1>4, <2>4, FileStorageAssumption
       DEF Fields, Knows, At, KnowsLapsed, KnowsListing, KnowsRecipients, Unmoved
  <2> QED
    BY <1>1, <2>4, <2>5, <2>6, <2>7 DEF Fields, Knows, KnowsRow, At, KnowsLapsed, KnowsDownload,
       KnowsRequests, KnowsMails, KnowsAsk, KnowsDecision, Decisions
<1>5. CASE /\ reader' = [reader EXCEPT !.phase = "expiry"]
           /\ failed' = TRUE \/ ~HasAccess(reader.cid, reader.user)
           /\ failed' = TRUE \/ failed' = failed
  <2>1. "expiry" \in Phases /\ PhaseOf(reader.kind, "expiry")
    BY <1>1 DEF PhaseOf, Phases
  <2>2. Fields("expiry", reader.about, reader.owner, reader.active, reader.expires,
               reader.status, reader.listed)
    BY ONLY <1>2, <1>5, <2>1, PhaseStep
  <2>3. KnowsRow'
    BY <1>1, <2>2, RowStays DEF Fields, Knows
  <2>4. reader.about = reader.user
    BY <1>1 DEF Knows, At, KnowsLapsed
  <2>5. KnowsLapsed'
    <3>1. CASE failed' = TRUE
      BY <1>1, <2>2, <2>4, <3>1 DEF Fields, At, KnowsLapsed
    <3>2. CASE ~HasAccess(reader.cid, reader.user)
      <4>1. Lapsed(reader.cid, reader.user) \/ sharedUsers[reader.cid][reader.user] = 0
        BY ONLY <1>3, <3>2, IInv, ListedOnce, LostIsOver
      <4>2. Facts("listing", reader.cid, reader.user) \cap {"lapsed", "gone"} # {}
        BY <4>1 DEF Facts
      <4>3. Facts("listing", reader.cid, reader.user) \subseteq witnessed
        BY <1>1, <1>3, <2>4, FileStorageAssumption DEF Knows, KnowsRow
      <4> QED
        BY <1>1, <2>2, <2>4, <4>2, <4>3 DEF Fields, At, KnowsLapsed
    <3> QED
      BY <1>5, <3>1, <3>2
  <2>6. KnowsListing'
    BY <1>1, <1>5, <2>2 DEF Fields, Knows, KnowsListing, Still, Unmoved, HasAccess,
       EffectivePermissions
  <2> QED
    BY <1>1, <2>2, <2>3, <2>5, <2>6 DEF Fields, Knows, KnowsDownload, KnowsRecipients,
       KnowsRequests, KnowsMails, KnowsAsk, KnowsDecision, Decisions
<1> QED
  BY <1>4, <1>5 DEF ListPermissions, Continue, GoOn

(* The expiry is read (ListExpiry).                                        *)
LEMMA KnowsListExpiry ==
  ASSUME IInv, Knows, ListExpiry
  PROVE  Knows'
<1> DEFINE e == expiresAtBlock[reader.cid][reader.user]
<1>1. /\ witnessed' = witnessed /\ reader.kind = "listing" /\ reader.phase = "expiry"
      /\ Still
  BY StepStays DEF ListExpiry, Continue, GoOn, At
<1>2. Typed
  BY DEF Knows
<1>3. reader.cid \in Cids /\ reader.user \in Users
  BY <1>1, <1>2, FieldTypes
<1>4. "status" \in Phases /\ PhaseOf(reader.kind, "status")
  BY <1>1 DEF PhaseOf, Phases
<1>5. e \in Nat
  BY <1>3 DEF IInv, TypeOK
<1>6. CASE reader' = [reader EXCEPT !.phase = "status"] /\ failed' = TRUE
  <2>1. Fields("status", reader.about, reader.owner, reader.active, reader.expires,
               reader.status, reader.listed)
    BY ONLY <1>2, <1>4, <1>6, PhaseStep
  <2>2. KnowsRow' /\ KnowsLapsed'
    BY <1>1, <1>6, <2>1, RowStays DEF Fields, Knows, At, KnowsLapsed
  <2> QED
    BY <1>1, <1>6, <2>1, <2>2 DEF Fields, Knows, KnowsDownload, KnowsListing, KnowsRecipients,
       KnowsRequests, KnowsMails, KnowsAsk, KnowsDecision, Decisions
<1>7. CASE reader' = [reader EXCEPT !.phase = "status", !.expires = e] /\ failed' = failed
  <2>1. Fields("status", reader.about, reader.owner, reader.active, e, reader.status,
               reader.listed)
    BY ONLY <1>2, <1>4, <1>5, <1>7, ExpiresStep
  <2>2. KnowsRow' /\ KnowsLapsed'
    BY <1>1, <1>7, <2>1, RowStays DEF Fields, Knows, At, KnowsLapsed
  <2>3. KnowsListing'
    BY <1>1, <1>7, <2>1 DEF Fields, Knows, KnowsListing, GreyedOut, Still, Unmoved, HasAccess,
       EffectivePermissions
  <2> QED
    BY <1>1, <2>1, <2>2, <2>3 DEF Fields, Knows, KnowsDownload, KnowsRecipients,
       KnowsRequests, KnowsMails, KnowsAsk, KnowsDecision, Decisions
<1> QED
  BY <1>6, <1>7 DEF ListExpiry, Continue, GoOn

(* The status of the request is read (ListStatus).                         *)
LEMMA KnowsListStatus ==
  ASSUME IInv, Knows, ListStatus
  PROVE  Knows'
<1> DEFINE x == requests[reader.cid][reader.user]
<1>1. /\ witnessed' = witnessed /\ reader.kind = "listing" /\ reader.phase = "status"
      /\ Still
  BY StepStays DEF ListStatus, Continue, GoOn, At
<1>2. Typed
  BY DEF Knows
<1>3. reader.cid \in Cids /\ reader.user \in Users
  BY <1>1, <1>2, FieldTypes
<1>4. "answered" \in Phases /\ PhaseOf(reader.kind, "answered")
  BY <1>1 DEF PhaseOf, Phases
<1>5. x \in Status
  BY <1>3 DEF IInv, TypeOK
<1>6. CASE reader' = [reader EXCEPT !.phase = "answered"] /\ failed' = TRUE
  <2>1. Fields("answered", reader.about, reader.owner, reader.active, reader.expires,
               reader.status, reader.listed)
    BY ONLY <1>2, <1>4, <1>6, PhaseStep
  <2> QED
    BY <1>1, <1>6, <2>1 DEF Fields, Knows, KnowsRow, At, KnowsLapsed, KnowsDownload, KnowsListing,
       KnowsRecipients, KnowsRequests, KnowsMails, KnowsAsk, KnowsDecision, Decisions
<1>7. CASE /\ reader' = [[reader EXCEPT !.phase = "answered"] EXCEPT !.status = x]
           /\ failed' = failed
  <2>1. Fields("answered", reader.about, reader.owner, reader.active, reader.expires, x,
               reader.listed)
    BY ONLY <1>2, <1>4, <1>5, <1>7, StatusLastStep
  <2>2. KnowsRow' /\ KnowsLapsed'
    BY <1>1, <1>7, <2>1 DEF Fields, Knows, KnowsRow, At, KnowsLapsed
  <2>3. KnowsListing'
    BY <1>1, <1>7, <2>1 DEF Fields, Knows, KnowsListing, GreyedOut, Still, Unmoved, HasAccess,
       EffectivePermissions
  <2>4. KnowsRecipients'
    BY <1>1, <1>7, <2>1 DEF Fields, Knows, KnowsListing, KnowsRecipients, Unmoved
  <2> QED
    BY <1>1, <2>1, <2>2, <2>3, <2>4 DEF Fields, Knows, KnowsDownload,
       KnowsRequests, KnowsMails, KnowsAsk, KnowsDecision, Decisions
<1> QED
  BY <1>6, <1>7 DEF ListStatus, Continue, GoOn

(* The list is read, and one of its rows or the list itself is followed    *)
(* (ReadList).                                                             *)
LEMMA KnowsReadList ==
  ASSUME IInv, Knows, ReadList
  PROVE  Knows'
<1> DEFINE list == SharedUsersOf(reader.cid)
<1>1. /\ reader.kind \in {"listing", "recipients"} /\ reader.phase = "sharedUsers"
      /\ Still
  <2>1. UNCHANGED vars /\ UNCHANGED regained /\ reader.phase = "sharedUsers"
    BY DEF ReadList, Continue, GoOn
  <2> QED
    BY <2>1, StepStays, FieldTypes DEF Knows, PhaseOf
<1>2. Typed
  BY DEF Knows
<1>3. reader.cid \in Cids /\ list \in SUBSET Users /\ NoOwner \in Users \cup {NoOwner}
  BY <1>1, <1>2, FieldTypes DEF SharedUsersOf
<1>4. /\ "answered" \in Phases /\ PhaseOf(reader.kind, "answered")
      /\ "row" \in Phases /\ PhaseOf(reader.kind, "row")
  BY <1>1 DEF PhaseOf, Phases
<1>5. PICK b \in BOOLEAN : b = FALSE
  OBVIOUS
<1>6. CASE /\ reader' = [[reader EXCEPT !.phase = "answered", !.about = NoOwner, !.active = b]
                            EXCEPT !.listed = list]
           /\ failed' = failed /\ witnessed' = witnessed
  <2>1. Fields("answered", NoOwner, reader.owner, b, reader.expires, reader.status, list)
    BY ONLY <1>2, <1>3, <1>4, <1>6, b \in BOOLEAN, ListedStep
  <2>2. KnowsRow' /\ KnowsLapsed'
    BY <2>1 DEF Fields, KnowsRow, At, KnowsLapsed
  <2>3. KnowsListing'
    BY <1>1, <1>6, <2>1 DEF Fields, Knows, KnowsListing, KnowsRecipients, GreyedOut,
       Still, Unmoved
  <2>4. KnowsRecipients'
    BY <1>1, <1>6, <2>1 DEF Fields, Knows, KnowsRecipients, Still, Unmoved, SharedUsersOf
  <2> QED
    BY <1>1, <2>1, <2>2, <2>3, <2>4 DEF Fields, Knows, KnowsDownload, KnowsRequests,
       KnowsMails, KnowsAsk, KnowsDecision, Decisions
<1>7. CASE /\ reader' = [reader EXCEPT !.phase = "answered", !.about = NoOwner, !.active = b]
           /\ failed' = TRUE
  <2>1. Fields("answered", NoOwner, reader.owner, b, reader.expires, reader.status,
               reader.listed)
    BY ONLY <1>2, <1>3, <1>4, <1>7, b \in BOOLEAN, ResetStep
  <2> QED
    BY <1>1, <1>7, <2>1 DEF Fields, Knows, KnowsRow, At, KnowsLapsed, KnowsDownload,
       KnowsListing, KnowsRecipients, KnowsRequests, KnowsMails, KnowsAsk, KnowsDecision, Decisions
<1>8. CASE \E a \in list :
           /\ reader' = [[reader EXCEPT !.phase = "answered", !.about = NoOwner, !.active = b]
                            EXCEPT !.phase = "row", !.about = a]
           /\ witnessed' = (witnessed \cap {"tx"}) \cup Facts(reader.kind, reader.cid, a)
           /\ failed' = failed
  <2>1. PICK a \in list :
           /\ reader' = [[reader EXCEPT !.phase = "answered", !.about = NoOwner, !.active = b]
                            EXCEPT !.phase = "row", !.about = a]
           /\ witnessed' = (witnessed \cap {"tx"}) \cup Facts(reader.kind, reader.cid, a)
           /\ failed' = failed
    BY <1>8
  <2>2. a \in Users /\ a # NoOwner /\ a \in Users \cup {NoOwner} /\ sharedUsers[reader.cid][a] > 0
    BY FileStorageAssumption DEF SharedUsersOf
  <2>3. Fields("row", a, reader.owner, b, reader.expires, reader.status, reader.listed)
    BY ONLY <1>2, <1>4, <2>1, <2>2, b \in BOOLEAN, RowStep
  <2>4. Unmoved' => Unmoved
    BY <2>1 DEF Unmoved
  <2>5. KnowsRow'
    BY <1>1, <2>1, <2>3 DEF Fields, KnowsRow, Still, Facts, Lapsed, Entitled, Open, HasAccess,
       EffectivePermissions
  <2>6. KnowsLapsed'
    BY <2>2, <2>3 DEF Fields, At, KnowsLapsed
  <2>7. KnowsListing'
    BY <1>1, <2>1, <2>3, <2>4 DEF Fields, Knows, KnowsListing, Still
  <2>8. KnowsRecipients'
    BY <1>1, <2>1, <2>2, <2>3, <2>4 DEF Fields, Knows, KnowsRecipients, Still
  <2> QED
    BY <1>1, <2>3, <2>5, <2>6, <2>7, <2>8 DEF Fields, Knows, KnowsDownload, KnowsRequests,
       KnowsMails, KnowsAsk, KnowsDecision, Decisions
<1> QED
  BY <1>5, <1>6, <1>7, <1>8 DEF ReadList, Continue, GoOn

(* The permissions of a row are read (ReadRow).                            *)
LEMMA KnowsReadRow ==
  ASSUME IInv, ListedOnce, Knows, ReadRow
  PROVE  Knows'
<1> DEFINE b == HasAccess(reader.cid, reader.about)
<1>1. /\ witnessed' = witnessed /\ reader.kind \in {"listing", "recipients"}
      /\ reader.phase = "row" /\ Still
  <2>1. UNCHANGED vars /\ UNCHANGED regained /\ reader.phase = "row" /\ witnessed' = witnessed
    BY DEF ReadRow, Continue, GoOn
  <2> QED
    BY <2>1, StepStays, FieldTypes DEF Knows, PhaseOf
<1>2. Typed
  BY DEF Knows
<1>3. reader.cid \in Cids /\ reader.about \in Users /\ reader.about # NoOwner
      /\ NoOwner \in Users \cup {NoOwner} /\ b \in BOOLEAN
  BY <1>1, <1>2, FieldTypes DEF Knows, KnowsLapsed, HasAccess
<1>4. Facts(reader.kind, reader.cid, reader.about) \subseteq witnessed
  BY <1>1, <1>3 DEF Knows, KnowsRow
<1>5. ~b => witnessed \cap {"lapsed", "gone"} # {}
  <2> SUFFICES ASSUME ~b PROVE witnessed \cap {"lapsed", "gone"} # {}
    OBVIOUS
  <2>1. Lapsed(reader.cid, reader.about) \/ sharedUsers[reader.cid][reader.about] = 0
    BY ONLY <1>3, ~b, IInv, ListedOnce, LostIsOver
  <2> QED
    BY <1>1, <1>4, <2>1 DEF Facts
<1>6. CASE \E p \in {"answered", "expiry"} :
           /\ reader' = [reader EXCEPT !.phase = p, !.active = b]
           /\ p = "answered" <=> reader.kind = "listing"
           /\ failed' = failed
  <2>1. PICK p \in {"answered", "expiry"} :
           /\ reader' = [reader EXCEPT !.phase = p, !.active = b]
           /\ p = "answered" <=> reader.kind = "listing"
           /\ failed' = failed
    BY <1>6
  <2>2. p \in Phases /\ PhaseOf(reader.kind, p)
    BY <1>1, <2>1 DEF PhaseOf, Phases
  <2>3. Fields(p, reader.about, reader.owner, b, reader.expires, reader.status, reader.listed)
    BY ONLY <1>2, <1>3, <2>1, <2>2, ActiveStep
  <2>4. KnowsRow'
    BY <1>1, <2>3, RowStays DEF Fields, Knows
  <2>5. KnowsLapsed'
    BY <1>1, <1>3, <1>5, <2>1, <2>3 DEF Fields, At, KnowsLapsed
  <2>6. KnowsListing'
    BY <1>1, <2>1, <2>3 DEF Fields, Knows, KnowsListing, KnowsRecipients, GreyedOut,
       Still, Unmoved
  <2>7. KnowsRecipients'
    <3>1. ~b => ~HasAccess(reader.cid, reader.about)'
      BY <1>1, <2>3 DEF Fields, Still, HasAccess, EffectivePermissions
    <3> HIDE DEF b
    <3> QED
      BY <1>1, <1>3, <2>1, <2>3, <3>1 DEF Fields, Knows, KnowsRecipients, Still, Unmoved
  <2> QED
    BY <1>1, <2>3, <2>4, <2>5, <2>6, <2>7 DEF Fields, Knows, KnowsDownload, KnowsRequests,
       KnowsMails, KnowsAsk, KnowsDecision, Decisions
<1>7. CASE /\ reader' = [reader EXCEPT !.phase = "answered", !.about = NoOwner]
           /\ failed' = TRUE
  <2>1. "answered" \in Phases /\ PhaseOf(reader.kind, "answered")
    BY <1>1 DEF PhaseOf, Phases
  <2>2. Fields("answered", NoOwner, reader.owner, reader.active, reader.expires, reader.status,
               reader.listed)
    BY ONLY <1>2, <1>3, <1>7, <2>1, AboutStep
  <2> QED
    BY <1>1, <1>7, <2>2 DEF Fields, Knows, KnowsRow, At, KnowsLapsed, KnowsDownload,
       KnowsListing, KnowsRecipients, KnowsRequests, KnowsMails, KnowsAsk, KnowsDecision, Decisions
<1> QED
  BY <1>6, <1>7 DEF ReadRow, Continue, GoOn

(* The expiry of a row is read (RecipientsExpiry).                         *)
LEMMA KnowsRecipientsExpiry ==
  ASSUME IInv, Knows, RecipientsExpiry
  PROVE  Knows'
<1> DEFINE e == expiresAtBlock[reader.cid][reader.about]
<1>1. /\ witnessed' = witnessed /\ failed' = failed
      /\ reader.kind = "recipients" /\ reader.phase = "expiry" /\ Still
      /\ reader' = [reader EXCEPT !.phase = "answered", !.expires = e]
  BY StepStays DEF RecipientsExpiry, Continue, At
<1>2. Typed
  BY DEF Knows
<1>3. reader.cid \in Cids /\ reader.about \in Users
  BY <1>1, <1>2, FieldTypes DEF Knows, KnowsLapsed, At
<1>4. "answered" \in Phases /\ PhaseOf(reader.kind, "answered")
  BY <1>1 DEF PhaseOf, Phases
<1>5. e \in Nat
  BY <1>3 DEF IInv, TypeOK
<1>6. Fields("answered", reader.about, reader.owner, reader.active, e, reader.status,
             reader.listed)
  BY ONLY <1>1, <1>2, <1>4, <1>5, ExpiresStep
<1>7. KnowsRow' /\ KnowsLapsed'
  BY <1>1, <1>6 DEF Fields, Knows, KnowsRow, At, KnowsLapsed
<1>8. KnowsRecipients'
  <2>1. ~HasAccess(reader.cid, reader.about) => ~HasAccess(reader.cid, reader.about)'
    BY <1>1 DEF Still, HasAccess, EffectivePermissions
  <2>2. reader.about # NoOwner
    BY <1>3, FileStorageAssumption
  <2> QED
    BY <1>1, <1>6, <2>1, <2>2 DEF Fields, Knows, KnowsRecipients, Still, Unmoved
<1> QED
  BY <1>1, <1>6, <1>7, <1>8 DEF Fields, Knows, KnowsDownload, KnowsListing, KnowsRequests,
     KnowsMails, KnowsAsk, KnowsDecision, Decisions

-----------------------------------------------------------------------------
(* Requests, mails, and the calls that begin and end.                      *)

(* The path of a request's file is read (RequestsMetadata).                *)
LEMMA KnowsRequestsMetadata ==
  ASSUME IInv, Knows, RequestsMetadata
  PROVE  Knows'
<1>1. PICK p \in {"answered", "denied"} :
        /\ reader' = [reader EXCEPT !.phase = p]
        /\ p = "answered" => failed' = TRUE \/ fileMetadata[reader.cid] \notin Trash
  BY DEF RequestsMetadata, Continue, GoOn
<1>2. witnessed' = witnessed /\ reader.kind = "requests" /\ Still
  BY StepStays DEF RequestsMetadata, Continue, GoOn, At
<1>3. Typed
  BY DEF Knows
<1>4. p \in Phases /\ PhaseOf(reader.kind, p)
  BY <1>1, <1>2 DEF PhaseOf, Phases
<1>5. Fields(p, reader.about, reader.owner, reader.active, reader.expires, reader.status,
             reader.listed)
  BY ONLY <1>1, <1>3, <1>4, PhaseStep
<1>6. KnowsRequests'
  BY <1>1, <1>2, <1>5 DEF Fields, Knows, KnowsRequests, Still
<1> QED
  BY <1>1, <1>2, <1>5, <1>6 DEF Fields, Knows, KnowsRow, At, KnowsLapsed, KnowsDownload,
     KnowsListing, KnowsRecipients, KnowsMails, KnowsAsk, KnowsDecision, Decisions

(* The owner to be asked is looked up (AskOwner).                          *)
LEMMA KnowsAskOwner ==
  ASSUME IInv, Knows, AskOwner
  PROVE  Knows'
<1> DEFINE o == fileOwner[reader.cid]
<1>1. /\ witnessed' = witnessed /\ reader.kind = "ask" /\ Still
      /\ reader' = [reader EXCEPT !.phase = "answered", !.owner = o]
  BY StepStays DEF AskOwner, Continue, At
<1>2. Typed
  BY DEF Knows
<1>3. "answered" \in Phases /\ PhaseOf(reader.kind, "answered")
  BY <1>1 DEF PhaseOf, Phases
<1>4. o \in Users \cup {NoOwner, Unknown}
  <2>1. reader.cid \in Cids
    BY <1>1, <1>2, FieldTypes
  <2> QED
    BY <2>1 DEF IInv, TypeOK
<1>5. Fields("answered", reader.about, o, reader.active, reader.expires, reader.status,
             reader.listed)
  BY ONLY <1>1, <1>2, <1>3, <1>4, OwnerLastStep
<1>6. KnowsMails'
  BY <1>1, <1>5 DEF Fields, Knows, KnowsMails, KnowsAsk, KnowsDecision, Still, Decisions
<1> QED
  BY <1>1, <1>5, <1>6 DEF Fields, Knows, KnowsRow, At, KnowsLapsed, KnowsDownload,
     KnowsListing, KnowsRecipients, KnowsRequests

(* The status of a decided request is read (DecisionStatus).               *)
LEMMA KnowsDecisionStatus ==
  ASSUME IInv, Knows, DecisionStatus
  PROVE  Knows'
<1>1. /\ witnessed' = witnessed /\ reader.kind \in Decisions /\ Still /\ reader.phase = "status"
  BY StepStays DEF DecisionStatus, Continue
<1>2. CASE reader' = Idle
  BY <1>2, KnowsIdleNext
<1>3. CASE reader' = BearsOut(reader.kind) /\ requests[reader.cid][reader.about] = reader.kind
  <2>1. PICK p \in {"answered", "expiry"} :
          /\ reader' = [reader EXCEPT !.status = reader.kind, !.phase = p]
          /\ p = "expiry" <=> reader.kind = "Approved"
    BY <1>3 DEF BearsOut
  <2>2. Typed
    BY DEF Knows
  <2>3. p \in Phases /\ PhaseOf(reader.kind, p) /\ reader.kind \in Status
    BY <1>1, <2>1 DEF PhaseOf, Phases, Status, Decisions
  <2>4. Fields(p, reader.about, reader.owner, reader.active, reader.expires, reader.kind,
               reader.listed)
    BY ONLY <2>1, <2>2, <2>3, StatusStep
  <2>5. /\ reader.cid \in Cids /\ reader.about \in Users /\ reader.about # NoOwner
        /\ reader.kind \notin {"none", "None"} \cup Rows
    BY <1>1, <2>2, FieldTypes, FileStorageAssumption
       DEF Knows, KnowsMails, KnowsDecision, Decisions, Rows
  <2>6. reader.kind \in witnessed
    <3>1. reader.kind \in Facts(reader.kind, reader.cid, reader.about)
      BY <1>1, <1>3 DEF Facts
    <3> QED
      BY <1>1, <2>5, <3>1 DEF Knows, KnowsRow
  <2>7. reader.about # fileOwner[reader.cid]
    BY <1>3, <2>5 DEF IInv, RequestersExact
  <2>8. KnowsMails'
    <3>1. KnowsDecision'
      BY <1>1, <2>1, <2>4, <2>6, <2>7 DEF Fields, Knows, KnowsMails, KnowsDecision, Still
    <3> QED
      BY <1>1, <2>4, <3>1 DEF Fields, KnowsMails, KnowsAsk, Decisions
  <2>9. KnowsRow'
    BY <1>1, <2>4, RowStays DEF Fields, Knows
  <2> QED
    BY <1>1, <2>1, <2>4, <2>8, <2>9 DEF Fields, Knows, At, KnowsLapsed, KnowsDownload,
       KnowsListing, KnowsRecipients, KnowsRequests, Decisions
<1> QED
  BY <1>2, <1>3 DEF DecisionStatus, Continue

(* The block named in an approval is read (DecisionExpiry).                *)
LEMMA KnowsDecisionExpiry ==
  ASSUME IInv, Knows, DecisionExpiry
  PROVE  Knows'
<1> DEFINE e == expiresAtBlock[reader.cid][reader.about]
<1>1. /\ witnessed' = witnessed /\ reader.kind = "Approved" /\ reader.phase = "expiry" /\ Still
      /\ reader' = [reader EXCEPT !.phase = "answered", !.expires = e]
  BY StepStays DEF DecisionExpiry, Continue, At
<1>2. Typed
  BY DEF Knows
<1>3. "answered" \in Phases /\ PhaseOf(reader.kind, "answered")
  BY <1>1 DEF PhaseOf, Phases
<1>4. e \in Nat
  <2>1. reader.cid \in Cids /\ reader.about \in Users
    BY <1>1, <1>2, FieldTypes DEF Knows, KnowsMails, KnowsAsk, KnowsDecision, Decisions
  <2> QED
    BY <2>1 DEF IInv, TypeOK
<1>5. Fields("answered", reader.about, reader.owner, reader.active, e, reader.status,
             reader.listed)
  BY ONLY <1>1, <1>2, <1>3, <1>4, ExpiresStep
<1>6. KnowsMails'
  BY <1>1, <1>5 DEF Fields, Knows, KnowsMails, KnowsAsk, KnowsDecision, Still, Decisions
<1> QED
  BY <1>1, <1>5, <1>6 DEF Fields, Knows, KnowsRow, At, KnowsLapsed, KnowsDownload,
     KnowsListing, KnowsRecipients, KnowsRequests

(* Who has a request open has no access, unless granted again since.       *)
AskedWithout == \A c \in Cids, u \in Users :
  requests[c][u] = "Pending" /\ HasAccess(c, u) => <<c, u>> \in regained

(* Every step of the chain keeps it (requestAccess), the handlers have no  *)
(* part in it.                                                             *)
LEMMA AskedNext ==
  ASSUME IInv, AskedWithout, [ReadsNext]_allVars
  PROVE  AskedWithout'
<1>1. CASE UNCHANGED <<vars, regained>>
  BY <1>1 DEF vars, accessVars, requestVars, AskedWithout, HasAccess, EffectivePermissions
<1>2. CASE ChainStep
  <2>1. OpenedHasNone
    BY <1>2, AskersHaveNone DEF ChainStep
  <2>2. regained' = {k \in Keys :
           /\ requests[k[1]][k[2]] = "Pending" /\ requests'[k[1]][k[2]] = "Pending"
           /\ HasAccess(k[1], k[2])'
           /\ HasAccess(k[1], k[2]) => k \in regained}
    BY <1>2 DEF ChainStep
  <2> SUFFICES ASSUME NEW c \in Cids, NEW u \in Users, requests'[c][u] = "Pending",
                      HasAccess(c, u)'
               PROVE  <<c, u>> \in regained'
    BY DEF AskedWithout
  <2>3. requests[c][u] = "Pending"
    BY <2>1 DEF OpenedHasNone
  <2>4. HasAccess(c, u) => <<c, u>> \in regained
    BY <2>3 DEF AskedWithout
  <2> DEFINE k == <<c, u>>
  <2>5. k \in Keys /\ k[1] = c /\ k[2] = u
    BY DEF Keys
  <2> HIDE DEF k
  <2>6. HasAccess(k[1], k[2])'
    BY <2>5 DEF HasAccess, EffectivePermissions
  <2> QED
    BY <2>2, <2>3, <2>4, <2>5, <2>6 DEF k
<1> QED
  BY <1>1, <1>2, ReadersOnlyRead DEF ReadsNext, ReadEdits, allVars, readVars

(* A pending request is in its owner's queue, and open.                    *)
LEMMA PendingIsOpen ==
  ASSUME IInv, AskedWithout, NEW c \in Cids, NEW u \in Users, requests[c][u] = "Pending"
  PROVE  Open(c, u)
<1>1. fileOwner[c] \in Users
  BY DEF IInv, TypeOK, RequestersExact, DeadFilesAreClean
<1>2. <<c, u>> \in ownerPending[fileOwner[c]] /\ fileOwner[c] # NoOwner
  BY <1>1, FileStorageAssumption DEF IInv, PendingQueueExact
<1> QED
  BY <1>2 DEF Open, AskedWithout

(* A request begins with its record and what holds of its row.             *)
LEMMA OpenedFields ==
  ASSUME NEW kind \in Kinds \ {"none"}, NEW p \in Phases, NEW u \in Users, NEW c \in Cids,
         NEW v \in Users \cup {NoOwner}, NEW o \in Users \cup {NoOwner, Unknown},
         NEW x \in Status,
         PhaseOf(kind, p), reader' = Beginning(kind, p, u, c, v, o, x)
  PROVE  /\ Typed'
         /\ reader'.kind = kind /\ reader'.phase = p /\ reader'.user = u /\ reader'.cid = c
         /\ reader'.about = v /\ reader'.owner = o /\ reader'.expires = 0 /\ reader'.status = x
<1>1. /\ reader'.kind = kind /\ reader'.phase = p /\ reader'.user = u /\ reader'.cid = c
      /\ reader'.about = v /\ reader'.owner = o /\ reader'.expires = 0 /\ reader'.status = x
  BY DEF Beginning, Opened
<1>2. reader' \in ReaderType
  <2>1. kind \in Kinds /\ u \in Users \cup {NoOwner} /\ c \in Cids \cup {NoCid}
    OBVIOUS
  <2> QED
    BY ONLY <2>1, p \in Phases, v \in Users \cup {NoOwner}, o \in Users \cup {NoOwner, Unknown},
       x \in Status, reader' = Beginning(kind, p, u, c, v, o, x), OpenedType
<1> QED
  BY <1>1, <1>2 DEF Typed

(* get_files takes an entry of getUserFiles (GetFiles).                    *)
LEMMA KnowsGetFiles ==
  ASSUME IInv, NEW u \in Users, GetFiles(u)
  PROVE  Knows'
<1>1. PICK f \in UserFiles(u) : Begin(Asked("listing", "owner", u, f[1], u))
  BY DEF GetFiles
<1> DEFINE c == f[1]
<1>2. c \in Cids /\ (fileOwner[c] = u \/ sharedUsers[c][u] > 0)
  <2>1. CASE f \in userFiles[u]
    <3>1. PICK d \in Cids, q \in Paths : f = <<d, q>>
      BY <2>1 DEF IInv, TypeOK
    <3> QED
      BY <2>1, <3>1 DEF IInv, OwnerIndex
  <2>2. CASE \E d \in Cids : sharedFiles[u][d] > 0 /\ f = <<d, fileMetadata[d]>>
    BY <2>2 DEF IInv, MirrorLists
  <2> QED
    BY <2>1, <2>2 DEF UserFiles
<1> HIDE DEF c
<1>3. Asked("listing", "owner", u, c, u) =
        Beginning("listing", "owner", u, c, u, Unknown, "None")
  BY ONLY OpenRecord
<1>4. /\ reader' = Beginning("listing", "owner", u, c, u, Unknown, "None")
      /\ Still
  BY <1>1, <1>3, StepStays DEF Begin, c
<1>5. witnessed' = Facts("listing", c, u)
  <2>1. u # NoOwner
    BY FileStorageAssumption
  <2> QED
    BY <1>1, <1>3, <2>1 DEF Begin, Beginning, Opened, c
<1>6. /\ "listing" \in Kinds \ {"none"} /\ "owner" \in Phases /\ "None" \in Status
      /\ u \in Users \cup {NoOwner} /\ Unknown \in Users \cup {NoOwner, Unknown}
      /\ PhaseOf("listing", "owner")
  BY DEF Kinds, Phases, Status, PhaseOf
<1>7. /\ Typed'
      /\ reader'.kind = "listing" /\ reader'.phase = "owner" /\ reader'.user = u
      /\ reader'.cid = c /\ reader'.about = u
  BY ONLY <1>2, <1>4, <1>6, u \in Users, OpenedFields
<1>8. KnowsRow' /\ KnowsLapsed'
  BY <1>4, <1>5, <1>7 DEF KnowsRow, At, KnowsLapsed, Still, Facts, Lapsed, Entitled, Open, HasAccess,
     EffectivePermissions
<1>9. KnowsListing'
  BY <1>2, <1>4, <1>7 DEF KnowsListing, Still
<1> QED
  BY <1>7, <1>8, <1>9 DEF Knows, KnowsDownload, KnowsRecipients, KnowsRequests, KnowsMails,
     KnowsAsk, KnowsDecision, Decisions

(* An owner asks for the recipients of a file (SharedUsers).               *)
LEMMA KnowsSharedUsers ==
  ASSUME IInv, NEW u \in Users, NEW c \in Cids, SharedUsers(u, c)
  PROVE  Knows'
<1>1. [Asked("recipients", "sharedUsers", u, c, NoOwner) EXCEPT !.owner = u] =
        Beginning("recipients", "sharedUsers", u, c, NoOwner, u, "None")
  BY ONLY OpenOwner
<1>0. fileOwner[c] = u /\ Still
  BY StepStays DEF SharedUsers, Begin
<1>2. reader' = Beginning("recipients", "sharedUsers", u, c, NoOwner, u, "None")
  BY <1>1 DEF SharedUsers, Begin
<1>3. /\ "recipients" \in Kinds \ {"none"} /\ "sharedUsers" \in Phases /\ "None" \in Status
      /\ NoOwner \in Users \cup {NoOwner} /\ u \in Users \cup {NoOwner, Unknown}
      /\ PhaseOf("recipients", "sharedUsers")
  BY DEF Kinds, Phases, Status, PhaseOf
<1>4. /\ Typed'
      /\ reader'.kind = "recipients" /\ reader'.phase = "sharedUsers" /\ reader'.user = u
      /\ reader'.cid = c /\ reader'.about = NoOwner /\ reader'.owner = u
  BY ONLY <1>2, <1>3, u \in Users, c \in Cids, OpenedFields
<1>5. KnowsRow' /\ KnowsLapsed'
  BY <1>4 DEF KnowsRow, At, KnowsLapsed
<1>6. KnowsRecipients'
  BY <1>0, <1>4 DEF KnowsRecipients, Still
<1> QED
  BY <1>4, <1>5, <1>6 DEF Knows, KnowsDownload, KnowsListing, KnowsRequests, KnowsMails,
     KnowsAsk, KnowsDecision, Decisions

(* An owner asks for the open requests (ShareRequests).                    *)
LEMMA KnowsShareRequests ==
  ASSUME IInv, AskedWithout, NEW u \in Users, ShareRequests(u)
  PROVE  Knows'
<1>1. PICK k \in PendingRequests(u) : Begin(Asked("requests", "metadata", u, k[1], k[2]))
  BY DEF ShareRequests
<1>2. PICK c \in Cids, v \in Users : k = <<c, v>>
  BY DEF PendingRequests, IInv, TypeOK, Keys
<1>3. requests[c][v] = "Pending" /\ fileOwner[c] = u
  BY <1>2 DEF PendingRequests, IInv, PendingQueueExact
<1>4. Asked("requests", "metadata", u, c, v) =
        Beginning("requests", "metadata", u, c, v, Unknown, "None")
  BY ONLY OpenRecord
<1>5. /\ reader' = Beginning("requests", "metadata", u, c, v, Unknown, "None")
      /\ Still
  BY <1>1, <1>2, <1>4, StepStays DEF Begin
<1>6. /\ "requests" \in Kinds \ {"none"} /\ "metadata" \in Phases /\ "None" \in Status
      /\ v \in Users \cup {NoOwner} /\ Unknown \in Users \cup {NoOwner, Unknown}
      /\ PhaseOf("requests", "metadata")
  BY DEF Kinds, Phases, Status, PhaseOf
<1>7. /\ Typed'
      /\ reader'.kind = "requests" /\ reader'.phase = "metadata" /\ reader'.user = u
      /\ reader'.cid = c /\ reader'.about = v
  BY ONLY <1>5, <1>6, u \in Users, c \in Cids, OpenedFields
<1>8. witnessed' = Facts("requests", c, v)
  <2>1. v # NoOwner
    BY FileStorageAssumption
  <2> QED
    BY <1>1, <1>2, <1>4, <2>1 DEF Begin, Beginning, Opened
<1>9. "open" \in witnessed'
  BY <1>3, <1>8, PendingIsOpen DEF Facts
<1>10. KnowsRow'
  BY <1>5, <1>7, <1>8 DEF KnowsRow, Still, Facts, Lapsed, Entitled, Open, HasAccess,
     EffectivePermissions
<1>11. KnowsRequests'
  <2>1. v # u
    BY <1>3 DEF IInv, RequestersExact
  <2> QED
    BY <1>3, <1>5, <1>7, <1>9, <2>1 DEF KnowsRequests, Still
<1> QED
  BY <1>7, <1>10, <1>11 DEF Knows, At, KnowsLapsed, KnowsDownload, KnowsListing,
     KnowsRecipients, KnowsMails, KnowsAsk, KnowsDecision, Decisions

(* A requester has the owner told (NotifyRequest).                         *)
LEMMA KnowsNotifyRequest ==
  ASSUME IInv, AskedWithout, NEW u \in Users, NEW c \in Cids, NotifyRequest(u, c)
  PROVE  Knows'
<1>1. [Asked("ask", "owner", u, c, u) EXCEPT !.status = "Pending"] =
        Beginning("ask", "owner", u, c, u, Unknown, "Pending")
  BY ONLY OpenStatus
<1>2. /\ reader' = Beginning("ask", "owner", u, c, u, Unknown, "Pending")
      /\ requests[c][u] = "Pending" /\ Still
  BY <1>1, StepStays DEF NotifyRequest, Begin
<1>3. /\ "ask" \in Kinds \ {"none"} /\ "owner" \in Phases /\ "Pending" \in Status
      /\ u \in Users \cup {NoOwner} /\ Unknown \in Users \cup {NoOwner, Unknown}
      /\ PhaseOf("ask", "owner")
  BY DEF Kinds, Phases, Status, PhaseOf
<1>4. /\ Typed'
      /\ reader'.kind = "ask" /\ reader'.phase = "owner" /\ reader'.user = u
      /\ reader'.cid = c /\ reader'.about = u
  BY ONLY <1>2, <1>3, u \in Users, c \in Cids, OpenedFields
<1>5. witnessed' = Facts("ask", c, u)
  <2>1. u # NoOwner
    BY FileStorageAssumption
  <2> QED
    BY <1>1, <2>1 DEF NotifyRequest, Begin, Beginning, Opened
<1>6. "open" \in witnessed'
  BY <1>2, <1>5, PendingIsOpen DEF Facts
<1>7. KnowsRow'
  BY <1>2, <1>4, <1>5 DEF KnowsRow, Still, Facts, Lapsed, Entitled, Open, HasAccess,
     EffectivePermissions
<1>8. KnowsMails'
  <2>1. fileOwner[c] \notin {NoOwner, u}
    BY <1>2, PendingIsOpen DEF Open, IInv, RequestersExact
  <2> QED
    BY <1>2, <1>4, <1>6, <2>1 DEF KnowsMails, KnowsAsk, KnowsDecision, Still, Decisions
<1> QED
  BY <1>4, <1>7, <1>8 DEF Knows, At, KnowsLapsed, KnowsDownload, KnowsListing,
     KnowsRecipients, KnowsRequests

(* An owner has a requester told how it ended (NotifyDecision).            *)
LEMMA KnowsNotifyDecision ==
  ASSUME IInv, NEW u \in Users, NEW c \in Cids, NEW v \in Users, NEW expect \in Decisions,
         NotifyDecision(expect, u, c, v)
  PROVE  Knows'
<1>1. [Asked(expect, "status", u, c, v) EXCEPT !.owner = u] =
        Beginning(expect, "status", u, c, v, u, "None")
  BY ONLY OpenOwner
<1>2. /\ reader' = Beginning(expect, "status", u, c, v, u, "None")
      /\ fileOwner[c] = u /\ Still
  BY <1>1, StepStays DEF NotifyDecision, Begin
<1>3. /\ expect \in Kinds \ {"none"} /\ "status" \in Phases /\ "None" \in Status
      /\ v \in Users \cup {NoOwner} /\ u \in Users \cup {NoOwner, Unknown}
      /\ PhaseOf(expect, "status")
  BY DEF Kinds, Phases, Status, PhaseOf, Decisions
<1>4. /\ Typed'
      /\ reader'.kind = expect /\ reader'.phase = "status" /\ reader'.user = u
      /\ reader'.cid = c /\ reader'.about = v /\ reader'.expires = 0
  BY ONLY <1>2, <1>3, u \in Users, c \in Cids, OpenedFields
<1>5. witnessed' = Facts(expect, c, v)
  <2>1. v # NoOwner
    BY FileStorageAssumption
  <2> QED
    BY <1>1, <2>1 DEF NotifyDecision, Begin, Beginning, Opened
<1>6. KnowsRow'
  BY <1>2, <1>4, <1>5 DEF KnowsRow, Still, Facts, Lapsed, Entitled, Open, HasAccess,
     EffectivePermissions
<1>7. KnowsMails'
  BY <1>2, <1>4 DEF KnowsMails, KnowsAsk, KnowsDecision, Still, Decisions
<1> QED
  BY <1>4, <1>6, <1>7 DEF Knows, At, KnowsLapsed, KnowsDownload, KnowsListing,
     KnowsRecipients, KnowsRequests, Decisions

(* can_download looks the owner up (StartDownload).                        *)
LEMMA KnowsStartDownload ==
  ASSUME IInv, NEW u \in Users, NEW c \in Cids, StartDownload(u, c)
  PROVE  Knows'
<1> DEFINE o == fileOwner[c]
<1>1. PICK p \in {"answered", "permissions"} :
        /\ Begin([Asked("download", p, u, c, u) EXCEPT !.owner = o])
        /\ p = "answered" <=> o = u
  BY DEF StartDownload
<1>2. [Asked("download", p, u, c, u) EXCEPT !.owner = o] =
        Beginning("download", p, u, c, u, o, "None")
  BY ONLY OpenOwner
<1>3. /\ reader' = Beginning("download", p, u, c, u, o, "None")
      /\ Still
  BY <1>1, <1>2, StepStays DEF Begin
<1>4. witnessed' = Facts("download", c, u)
  <2>1. u # NoOwner
    BY FileStorageAssumption
  <2> QED
    BY <1>1, <1>2, <2>1 DEF Begin, Beginning, Opened
<1>5. /\ "download" \in Kinds \ {"none"} /\ p \in Phases /\ "None" \in Status
      /\ u \in Users \cup {NoOwner} /\ o \in Users \cup {NoOwner, Unknown}
      /\ PhaseOf("download", p)
  BY <1>1 DEF Kinds, Phases, Status, PhaseOf, IInv, TypeOK
<1> HIDE DEF o
<1>6. /\ Typed'
      /\ reader'.kind = "download" /\ reader'.phase = p /\ reader'.user = u
      /\ reader'.cid = c /\ reader'.about = u /\ reader'.owner = o
  <2>1. Beginning("download", p, u, c, u, o, "None") \in ReaderType
    BY ONLY <1>5, u \in Users, c \in Cids, OpenedType
  <2>2. /\ reader'.kind = "download" /\ reader'.phase = p /\ reader'.user = u
        /\ reader'.cid = c /\ reader'.about = u /\ reader'.owner = o
    <3>1. reader' = Beginning("download", p, u, c, u, o, "None")
      BY ONLY <1>3
    <3> QED
      BY ONLY <3>1 DEF Beginning, Opened
  <2> QED
    BY ONLY <1>3, <1>5, <2>1, <2>2, u \in Users, c \in Cids DEF Typed
<1>7. KnowsRow'
  BY <1>3, <1>4, <1>6 DEF o, KnowsRow, Still, Facts, Lapsed, Entitled, Open, HasAccess, EffectivePermissions
<1>8. KnowsDownload'
  <2>1. o = u => "entitled" \in witnessed'
    BY <1>4 DEF o, Facts, Entitled
  <2> QED
    BY <1>1, <1>3, <1>6, <2>1 DEF o, KnowsDownload, Still
<1> QED
  BY <1>6, <1>7, <1>8 DEF Knows, At, KnowsLapsed, KnowsListing, KnowsRecipients,
     KnowsRequests, KnowsMails, KnowsAsk, KnowsDecision, Decisions

-----------------------------------------------------------------------------
(* Together.                                                               *)

(* No request has begun.                                                   *)
LEMMA KnowsInit == ReadsInit => Knows
  BY KnowsIdle DEF ReadsInit

(* Every call of every handler and every step of the chain keeps what the  *)
(* request in progress knows.                                              *)
LEMMA KnowsNext ==
  ASSUME IInv, ListedOnce, AskedWithout, Knows, [ReadsNext]_allVars
  PROVE  Knows'
<1>1. CASE StartRequest
  BY <1>1, KnowsGetFiles, KnowsSharedUsers, KnowsShareRequests, KnowsNotifyRequest,
     KnowsNotifyDecision, KnowsStartDownload DEF StartRequest
<1>2. CASE ReadStep
  BY <1>2, KnowsListOwner, KnowsListPermissions, KnowsListExpiry, KnowsListStatus, KnowsReadList,
     KnowsReadRow, KnowsRecipientsExpiry, KnowsRequestsMetadata, KnowsAskOwner,
     KnowsDecisionStatus, KnowsDecisionExpiry, KnowsDownloadPermissions DEF ReadStep
<1>3. CASE Reply
  BY <1>3, KnowsIdleNext DEF Reply
<1>4. CASE ChainStep
  BY <1>4, KnowsChainStep
<1>5. CASE UNCHANGED allVars
  <2>1. Still /\ UNCHANGED readVars
    BY <1>5, StepStays DEF allVars, readVars
  <2> QED
    BY <2>1 DEF readVars, Still, Knows, Typed, KnowsRow, At, KnowsLapsed, KnowsDownload,
       KnowsListing, KnowsRecipients, KnowsRequests, KnowsMails, KnowsAsk,
       KnowsDecision, Unmoved, GreyedOut, HasAccess, EffectivePermissions, SharedUsersOf, Facts,
       Lapsed, Entitled, Open
<1> QED
  BY <1>1, <1>2, <1>3, <1>4, <1>5 DEF ReadsNext

(* What a request knows, with the contract's own invariants, if nobody     *)
(* passes the mask 0.                                                      *)
THEOREM RequestsKnow == NoZeroMask =>
  (ReadsSpec => [](IInv /\ ListedOnce /\ AskedWithout /\ Knows))
<1> SUFFICES ASSUME NoZeroMask
             PROVE  ReadsSpec => [](IInv /\ ListedOnce /\ AskedWithout /\ Knows)
  OBVIOUS
<1>1. ReadsSpec => []IInv
  BY ReadersLeaveTheContract, Invariant, PTL
<1>2. ReadsSpec => []ListedOnce
  BY ReadersLeaveTheContract, ListedOnceCorrect, PTL
<1>3. ReadsInit => AskedWithout
  BY DEF ReadsInit, Init, AskedWithout
<1>4. IInv /\ AskedWithout /\ [ReadsNext]_allVars => AskedWithout'
  BY AskedNext
<1>5. IInv /\ ListedOnce /\ AskedWithout /\ Knows /\ [ReadsNext]_allVars => Knows'
  BY KnowsNext
<1> QED
  BY <1>1, <1>2, <1>3, <1>4, <1>5, KnowsInit, PTL DEF ReadsSpec

-----------------------------------------------------------------------------
(* Each answer, from what the request knows.                               *)

(* Content goes only to who could download it at some moment of the        *)
(* request, and nobody is refused who could throughout (can_download).     *)
THEOREM DownloadsCorrect == NoZeroMask => (ReadsSpec => []DownloadIsEntitled)
<1>1. Knows => DownloadIsEntitled
  BY DEF Knows, KnowsDownload, DownloadIsEntitled, Answered, Unmoved
<1> QED
  BY <1>1, RequestsKnow, PTL

(* A row shown as lapsed is about a grant that was over at some moment of  *)
(* the request (get_files, /shared-users).                                 *)
THEOREM ShownAsLapsedCorrect == NoZeroMask => (ReadsSpec => []ShownAsLapsedIsOver)
<1>1. Knows => ShownAsLapsedIsOver
  BY DEF Knows, KnowsLapsed, ShownAsLapsedIsOver, ShownAsLapsed, Answered, IsExpired, IsOwner
<1> QED
  BY <1>1, RequestsKnow, PTL

(* A recipient who sees a file greyed out may ask for time or has done so  *)
(* (get_files, requestAccess).                                             *)
THEOREM GreyedOutCorrect == NoZeroMask => (ReadsSpec => []GreyedOutMayAsk)
<1>1. IInv /\ ListedOnce /\ Knows => GreyedOutMayAsk
  <2> SUFFICES ASSUME IInv, ListedOnce, Knows, Answered("listing"), IsExpired, ~failed, Unmoved
               PROVE  LET c == reader.cid
                          u == reader.user
                      IN  /\ fileOwner[c] \notin {NoOwner, u}
                          /\ expiresAtBlock[c][u] # 0 /\ reader.expires = expiresAtBlock[c][u]
                          /\ EffectivePermissions(c, u) = {}
                          /\ reader.status = "Pending" <=> <<c, u>> \in ownerPending[fileOwner[c]]
    BY DEF GreyedOutMayAsk, Unmoved
  <2> DEFINE c == reader.cid
             u == reader.user
  <2>1. c \in Cids /\ u \in Users
    BY FieldTypes DEF Knows, Answered
  <2>2. /\ fileOwner[c] # u /\ sharedUsers[c][u] > 0
        /\ ~HasAccess(c, u) /\ reader.expires = expiresAtBlock[c][u]
        /\ reader.status = requests[c][u]
    BY DEF Knows, KnowsListing, GreyedOut, Answered, IsExpired, IsOwner
  <2> HIDE DEF c, u
  <2>3. fileOwner[c] # NoOwner /\ fileOwner[c] \in Users
    <3>0. sharedUsers[c][u] # 0
      BY ONLY <2>2
    <3>1. fileOwner[c] # NoOwner
      BY ONLY <2>1, <3>0, IInv DEF IInv, DeadFilesAreClean
    <3>2. fileOwner[c] \in Users \cup {NoOwner}
      BY <2>1 DEF IInv, TypeOK
    <3> QED
      BY <3>1, <3>2
  <2>4. expiresAtBlock[c][u] \in 1..block
    BY ONLY <2>1, <2>2, IInv, ListedOnce, LostIsOver
  <2>5. requests[c][u] = "Pending" <=> <<c, u>> \in ownerPending[fileOwner[c]]
    BY <2>1, <2>3 DEF IInv, PendingQueueExact
  <2>6. expiresAtBlock[c][u] # 0
    BY <2>4
  <2>7. EffectivePermissions(c, u) = {}
    BY <2>2 DEF HasAccess
  <2> QED
    BY <2>2, <2>3, <2>5, <2>6, <2>7 DEF c, u
<1> QED
  BY <1>1, RequestsKnow, PTL

(* The owner's list of recipients leaves out nobody who can use the file,  *)
(* and what it shows as lapsed has its block behind it (get_files,         *)
(* /shared-users).                                                         *)
THEOREM RecipientsCorrect == NoZeroMask => (ReadsSpec => []RecipientsAreComplete)
<1>1. IInv /\ ListedOnce /\ Knows => RecipientsAreComplete
  <2> SUFFICES ASSUME IInv, ListedOnce, Knows, reader.phase = "answered",
                      reader.kind \in {"listing", "recipients"}, IsOwner, ~failed, Unmoved
               PROVE  /\ reader.about = NoOwner => \A w \in Users : HasAccess(reader.cid, w) =>
                           w \in reader.listed \cup {reader.owner} \cup formerOwners[reader.cid]
                      /\ Answered("recipients") /\ ShownAsLapsed => reader.expires \in 1..block
    BY DEF RecipientsAreComplete, Unmoved
  <2>1. reader.cid \in Cids /\ reader.user \in Users /\ reader.about \in Users \cup {NoOwner}
    BY FieldTypes DEF Knows
  <2>2. reader.owner = reader.user /\ fileOwner[reader.cid] = reader.user
    BY DEF Knows, KnowsListing, KnowsRecipients, IsOwner
  <2>3. ASSUME reader.about = NoOwner, NEW w \in Users, HasAccess(reader.cid, w)
        PROVE  w \in reader.listed \cup {reader.owner} \cup formerOwners[reader.cid]
    <3>1. reader.listed = SharedUsersOf(reader.cid)
      BY <2>2, <2>3 DEF Knows, KnowsRecipients
    <3>2. permissions[reader.cid][w] # {}
      BY <2>3 DEF HasAccess, EffectivePermissions
    <3>3. \/ sharedUsers[reader.cid][w] > 0 \/ fileOwner[reader.cid] = w
          \/ w \in formerOwners[reader.cid]
      BY <2>1, <3>2 DEF IInv, AccessAccountedFor
    <3> QED
      BY <2>2, <3>1, <3>3 DEF SharedUsersOf
  <2>4. ASSUME Answered("recipients"), ShownAsLapsed
        PROVE  reader.expires \in 1..block
    <3>1. /\ reader.kind = "recipients" /\ reader.about # NoOwner /\ ~reader.active
      BY <2>4 DEF Answered, ShownAsLapsed
    <3>2. /\ sharedUsers[reader.cid][reader.about] > 0 /\ ~HasAccess(reader.cid, reader.about)
          /\ reader.expires = expiresAtBlock[reader.cid][reader.about]
      BY <3>1 DEF Knows, KnowsRecipients
    <3>3. reader.about \in Users
      BY <2>1, <3>1
    <3>4. expiresAtBlock[reader.cid][reader.about] \in 1..block
      BY ONLY <2>1, <3>2, <3>3, IInv, ListedOnce, LostIsOver
    <3> QED
      BY <3>2, <3>4
  <2> QED
    BY <2>3, <2>4
<1> QED
  BY <1>1, RequestsKnow, PTL

(* A request shown to an owner was open at some moment, and is theirs to   *)
(* approve or deny unless the file was deleted meanwhile, whatever else    *)
(* happened between the calls (/share-requests).                           *)
THEOREM ShownRequestsCorrect == NoZeroMask => (ReadsSpec => []ShownRequestsAreOpen)
<1>1. Knows => ShownRequestsAreOpen
  BY DEF Knows, KnowsRequests, ShownRequestsAreOpen, Answered
<1> QED
  BY <1>1, RequestsKnow, PTL

(* A mail that asks for time is about an open request whose requester is   *)
(* without access, unless granted again since, and goes to the owner; a    *)
(* decision mail comes of that decision, goes from the owner to somebody   *)
(* else, and names the end of a stored grant; whatever happens between the *)
(* calls but a deletion (/notify-request, /notify-approve, /notify-deny).  *)
THEOREM MailsCorrect == NoZeroMask => (ReadsSpec => []MailsAreTrue)
<1>1. IInv /\ ListedOnce /\ Knows => MailsAreTrue
  <2> SUFFICES ASSUME IInv, ListedOnce, Knows PROVE MailsAreTrue
    OBVIOUS
  <2>1. ASSUME Answered("ask")
        PROVE  /\ "open" \in witnessed
               /\ \/ "deleted" \in witnessed
                  \/ reader.owner = fileOwner[reader.cid]
                     /\ reader.owner \notin {NoOwner, reader.user}
    BY <2>1 DEF Knows, KnowsMails, KnowsAsk, Answered
  <2>2. ASSUME NEW expect \in Decisions, Answered(expect)
        PROVE  /\ expect \in witnessed
               /\ \/ "deleted" \in witnessed
                  \/ fileOwner[reader.cid] = reader.user /\ reader.about # reader.user
               /\ reader.expires # 0 =>
                    /\ reader.expires = expiresAtBlock[reader.cid][reader.about]
                    /\ permissions[reader.cid][reader.about] # {}
    <3>1. /\ reader.kind = expect /\ reader.phase = "answered"
          /\ reader.cid \in Cids /\ reader.about \in Users
          /\ reader.expires \in {0, expiresAtBlock[reader.cid][reader.about]}
      BY <2>2, FieldTypes DEF Knows, KnowsMails, KnowsDecision, Answered, Decisions
    <3>2. reader.expires # 0 => permissions[reader.cid][reader.about] # {}
      BY <3>1 DEF ListedOnce
    <3> QED
      BY <2>2, <3>1, <3>2 DEF Knows, KnowsMails, KnowsDecision
  <2> QED
    BY <2>1, <2>2 DEF MailsAreTrue
<1> QED
  BY <1>1, RequestsKnow, PTL
=============================================================================
