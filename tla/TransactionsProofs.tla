------------------------ MODULE TransactionsProofs ------------------------
(***************************************************************************)
(* What becomes of a prepared transaction, for any number of users, files, *)
(* folders and transactions.                                               *)
(*                                                                         *)
(* Two facts carry the proofs.  OthersKeep: no transaction changes what    *)
(* another user than its sender owns or shares.  And every transaction of  *)
(* the sender uses up a nonce.  So what a handler reads after the nonce is *)
(* still true when a transaction with that nonce is mined: that is TxInv,  *)
(* in one part for the handler in progress and one for what waits.  Each   *)
(* mined call is a step of FileStorage, so the contract's own invariants,  *)
(* from FileStorageProofs, hold throughout.                                *)
(*                                                                         *)
(* Induction over a list of cids is by the least number for which a fact   *)
(* fails: Least, from the well-founded order of finite sets.               *)
(***************************************************************************)
EXTENDS Transactions, FileStorageProofs, FiniteSetTheorems, SequenceTheorems,
        WellFoundedInduction

-----------------------------------------------------------------------------
(* Numbers.                                                                *)

(* A nonempty set of natural numbers has a least one.                      *)
LEMMA Least ==
  ASSUME NEW S \in SUBSET Nat, S # {}
  PROVE  \E m \in S : \A k \in S : m <= k
<1> DEFINE Below(i) == 0..(i - 1)
           T == {Below(i) : i \in S}
<1>1. T \subseteq FiniteSubsetsOf(Nat)
  <2> SUFFICES ASSUME NEW i \in S PROVE Below(i) \in FiniteSubsetsOf(Nat)
    OBVIOUS
  <2>1. IsFiniteSet(Below(i))
    BY FS_Interval
  <2>2. Below(i) \subseteq Nat
    OBVIOUS
  <2> QED
    BY <2>1, <2>2 DEF FiniteSubsetsOf
<1>2. T # {}
  OBVIOUS
<1>3. PICK x \in T : \A y \in T : <<y, x>> \notin StrictSubsetOrdering(Nat)
  <2>1. IsWellFoundedOn(StrictSubsetOrdering(Nat), FiniteSubsetsOf(Nat))
    BY FS_StrictSubsetOrderingWellFounded
  <2> QED
    BY ONLY <1>1, <1>2, <2>1, WFMin
<1>4. PICK m \in S : x = Below(m)
  OBVIOUS
<1>5. ASSUME NEW k \in S PROVE m <= k
  <2> SUFFICES ASSUME k < m PROVE FALSE
    OBVIOUS
  <2>1. Below(k) \subseteq Below(m) /\ Below(k) # Below(m)
    <3>1. k \in Below(m) /\ k \notin Below(k)
      OBVIOUS
    <3> QED
      BY <3>1
  <2>2. <<Below(k), x>> \in StrictSubsetOrdering(Nat)
    BY <2>1, <1>4 DEF StrictSubsetOrdering
  <2> QED
    BY <2>2, <1>3
<1> QED
  BY <1>5

(* A nonempty set of numbers up to a bound has a greatest one.             *)
LEMMA Greatest ==
  ASSUME NEW n \in Nat, NEW S \in SUBSET (0..n), S # {}
  PROVE  \E m \in S : \A k \in S : k <= m
<1> DEFINE T == {n - i : i \in S}
<1>1. T \in SUBSET Nat /\ T # {}
  <2>1. \A i \in S : n - i \in Nat
    OBVIOUS
  <2> QED
    BY <2>1
<1>2. PICK t \in T : \A k \in T : t <= k
  <2> HIDE DEF T
  <2> QED
    BY <1>1, Least
<1>3. PICK m \in S : t = n - m
  OBVIOUS
<1>4. ASSUME NEW k \in S PROVE k <= m
  <2>1. n - m <= n - k
    BY <1>2, <1>3
  <2> QED
    BY <2>1
<1> QED
  BY <1>4

-----------------------------------------------------------------------------
(* The rows of a folder's recipients.                                      *)

(* R is the function of FolderRows.                                        *)
IsRows(R, o, cids) ==
  R = [i \in 0..Len(cids) |-> IF i = 0 THEN NoRows ELSE WithFile(o, R[i - 1], cids[i])]

(* The function that FolderRows defines, when there is one, is one that    *)
(* satisfies its equation.                                                 *)
LEMMA RowsUnfold ==
  ASSUME NEW o, NEW cids, NEW R, IsRows(R, o, cids)
  PROVE  \E S : IsRows(S, o, cids) /\ FolderRows(o, cids) = S[Len(cids)]
<1> DEFINE F == CHOOSE S : IsRows(S, o, cids)
<1>1. FolderRows(o, cids) = F[Len(cids)]
  BY DEF FolderRows, IsRows
<1>2. IsRows(F, o, cids)
  <2> HIDE DEF IsRows
  <2> QED
    OBVIOUS
<1> QED
  <2> HIDE DEF F
  <2> QED
    BY <1>1, <1>2

(* There is one for every list: otherwise take the shortest prefix         *)
(* without.                                                                *)
LEMMA RowsExist ==
  ASSUME NEW o, NEW cids \in Seq(Cids)
  PROVE  \E R : IsRows(R, o, cids)
<1> DEFINE Upto(n, R) == R = [i \in 0..n |->
                           IF i = 0 THEN NoRows ELSE WithFile(o, R[i - 1], cids[i])]
           Bad == {n \in Nat : ~\E R : Upto(n, R)}
<1>0. Len(cids) \in Nat
  OBVIOUS
<1> SUFFICES ASSUME Bad # {} PROVE FALSE
  BY <1>0 DEF IsRows
<1>1. PICK m \in Bad : \A k \in Bad : m <= k
  <2>1. Bad \subseteq Nat
    OBVIOUS
  <2> HIDE DEF Bad
  <2> QED
    BY <2>1, Least
<1>2. m # 0
  <2>1. Upto(0, [i \in 0..0 |-> NoRows])
    OBVIOUS
  <2> HIDE DEF Upto
  <2> QED
    BY <2>1
<1>3. PICK R : Upto(m - 1, R)
  <2> HIDE DEF Upto
  <2>1. m \in Nat /\ m - 1 \in Nat /\ ~(m <= m - 1)
    BY <1>1, <1>2
  <2> QED
    BY <1>1, <2>1
<1> DEFINE S == [i \in 0..m |-> IF i = 0 THEN NoRows ELSE WithFile(o, R[i - 1], cids[i])]
<1>4. \A i \in 0..(m - 1) : S[i] = R[i]
  BY <1>3
<1>5. Upto(m, S)
  <2> SUFFICES ASSUME NEW i \in 0..m, i # 0 PROVE S[i - 1] = R[i - 1]
    BY DEF Upto
  <2>1. i - 1 \in 0..(m - 1)
    BY <1>1
  <2> QED
    BY <2>1, <1>4
<1> QED
  <2> HIDE DEF Upto, S
  <2> QED
    BY <1>5

(* The rows are right for the owned files so far.                          *)
RowsFor(rows, own) ==
  /\ rows.live \subseteq DOMAIN rows.best
  /\ \A u : u \in DOMAIN rows.best <=> \E c \in own : u \in SharedUsersOf(c)
  /\ \A u \in DOMAIN rows.best :
       /\ u \in rows.live <=> \E c \in own : u \in SharedUsersOf(c) /\ HasAccess(c, u)
       /\ \E c \in own : u \in SharedUsersOf(c) /\ rows.best[u] = expiresAtBlock[c][u]
       /\ \A c \in own : u \in SharedUsersOf(c) /\ expiresAtBlock[c][u] # 0 =>
            rows.best[u] \in 1..expiresAtBlock[c][u]

(* One more file keeps the rows right.                                     *)
LEMMA RowsOneMore == 
  ASSUME TypeOK, NEW o, NEW own \in SUBSET Cids, NEW c \in Cids, NEW rows, RowsFor(rows, own),
         NEW now, now = IF fileOwner[c] = o THEN own \cup {c} ELSE own
  PROVE  RowsFor(WithFile(o, rows, c), now)
<1> DEFINE here == IF fileOwner[c] = o THEN SharedUsersOf(c) ELSE {}
           new == WithFile(o, rows, c)
<1>1. /\ DOMAIN new.best = DOMAIN rows.best \cup here
      /\ \A u \in DOMAIN new.best : new.best[u] =
           IF u \notin here THEN rows.best[u]
           ELSE IF u \notin DOMAIN rows.best THEN expiresAtBlock[c][u]
           ELSE Sooner(rows.best[u], expiresAtBlock[c][u])
      /\ new.live = rows.live \cup {u \in here : HasAccess(c, u)}
  BY DEF WithFile
<1>2. \A u \in here : u \in Users /\ fileOwner[c] = o /\ u \in SharedUsersOf(c)
  BY DEF SharedUsersOf
<1>3. now \subseteq Cids /\ (\A x : x \in now <=> x \in own \/ (x = c /\ fileOwner[c] = o))
  OBVIOUS
<1>4. \A u : \A x \in own : u \in SharedUsersOf(x) => u \in Users
  BY DEF SharedUsersOf
<1>5. \A u : u \in DOMAIN new.best <=> \E x \in now : u \in SharedUsersOf(x)
  BY <1>1, <1>3 DEF RowsFor
<1>6. ASSUME NEW u \in DOMAIN new.best
      PROVE  u \in new.live <=> \E x \in now : u \in SharedUsersOf(x) /\ HasAccess(x, u)
  <2>1. u \in new.live <=> u \in rows.live \/ (u \in here /\ HasAccess(c, u))
    BY <1>1
  <2>2. u \in rows.live <=> \E x \in own : u \in SharedUsersOf(x) /\ HasAccess(x, u)
    BY DEF RowsFor
  <2> QED
    BY <2>1, <2>2, <1>3
<1>7. ASSUME NEW u \in DOMAIN new.best
      PROVE  /\ \E x \in now : u \in SharedUsersOf(x) /\ new.best[u] = expiresAtBlock[x][u]
             /\ \A x \in now : u \in SharedUsersOf(x) /\ expiresAtBlock[x][u] # 0 =>
                  new.best[u] \in 1..expiresAtBlock[x][u]
  <2>0. \A x \in now : expiresAtBlock[x][u] \in Nat
    <3>1. u \in Users
      BY <1>5, <1>2, <1>4, <1>3
    <3> QED
      BY <3>1 DEF TypeOK
  <2>1. CASE u \notin here
    BY <1>1, <1>2, <1>3, <2>1 DEF RowsFor
  <2>2. CASE u \in here /\ u \notin DOMAIN rows.best
    <3>1. new.best[u] = expiresAtBlock[c][u]
      BY <1>1, <2>2
    <3>2. \A x \in own : u \notin SharedUsersOf(x)
      BY <2>2 DEF RowsFor
    <3> QED
      BY <3>1, <3>2, <1>2, <1>3, <2>0, <2>2
  <2>3. CASE u \in here /\ u \in DOMAIN rows.best
    <3> DEFINE old == rows.best[u]
               end == expiresAtBlock[c][u]
    <3>1. new.best[u] = IF end # 0 /\ (old = 0 \/ end < old) THEN end ELSE old
      BY <1>1, <2>3 DEF Sooner
    <3>2. PICK y \in own : u \in SharedUsersOf(y) /\ old = expiresAtBlock[y][u]
      BY <2>3 DEF RowsFor
    <3>3. \A x \in own : u \in SharedUsersOf(x) /\ expiresAtBlock[x][u] # 0 =>
            old \in 1..expiresAtBlock[x][u]
      BY <2>3 DEF RowsFor
    <3>4. old \in Nat /\ end \in Nat /\ y \in now /\ c \in now /\ u \in SharedUsersOf(c)
      BY <2>0, <3>2, <1>2, <1>3, <2>3
    <3> HIDE DEF old, end
    <3>5. CASE end # 0 /\ (old = 0 \/ end < old)
      BY <3>1, <3>2, <3>3, <3>4, <3>5, <2>0, <1>3 DEF end
    <3>6. CASE ~(end # 0 /\ (old = 0 \/ end < old))
      BY <3>1, <3>2, <3>3, <3>4, <3>6, <2>0, <1>3 DEF end
    <3> QED
      BY <3>5, <3>6
  <2> QED
    BY <2>1, <2>2, <2>3
<1>8. new.live \subseteq DOMAIN new.best
  BY <1>1 DEF RowsFor
<1> QED
  BY <1>5, <1>6, <1>7, <1>8 DEF RowsFor

(* The rows after the last file are right for all that are owned:          *)
(* otherwise take the first file after which they are not.                 *)
LEMMA RowsRight ==
  ASSUME TypeOK, NEW o, NEW cids \in Seq(Cids)
  PROVE  RowsFor(FolderRows(o, cids), {c \in {cids[i] : i \in 1..Len(cids)} : fileOwner[c] = o})
<1> DEFINE own(n) == {c \in {cids[i] : i \in 1..n} : fileOwner[c] = o}
<1>1. PICK R : IsRows(R, o, cids) /\ FolderRows(o, cids) = R[Len(cids)]
  <2>1. PICK S : IsRows(S, o, cids)
    BY RowsExist
  <2> QED
    BY ONLY <2>1, RowsUnfold
<1> DEFINE Bad == {n \in 0..Len(cids) : ~RowsFor(R[n], own(n))}
<1> SUFFICES ASSUME Bad # {} PROVE FALSE
  <2>1. Len(cids) \in 0..Len(cids)
    OBVIOUS
  <2> QED
    BY <2>1, <1>1
<1>2. PICK m \in Bad : \A k \in Bad : m <= k
  <2>1. Bad \subseteq Nat
    OBVIOUS
  <2> HIDE DEF Bad
  <2> QED
    BY <2>1, Least
<1>3. m # 0
  <2>1. RowsFor(NoRows, own(0))
    BY DEF RowsFor, NoRows
  <2>2. R[0] = NoRows
    BY <1>1 DEF IsRows
  <2> QED
    BY <2>1, <2>2
<1>4. m - 1 \in 0..Len(cids) /\ m - 1 \notin Bad /\ m \in 1..Len(cids)
  <2>1. Len(cids) \in Nat /\ m \in 0..Len(cids)
    OBVIOUS
  <2>2. ~(m <= m - 1)
    BY <2>1
  <2> HIDE DEF Bad
  <2> QED
    BY <1>2, <1>3, <2>1, <2>2
<1>5. RowsFor(R[m - 1], own(m - 1))
  BY <1>4
<1>6. R[m] = WithFile(o, R[m - 1], cids[m])
  <2>1. R = [i \in 0..Len(cids) |-> IF i = 0 THEN NoRows ELSE WithFile(o, R[i - 1], cids[i])]
    BY <1>1 DEF IsRows
  <2>2. m \in 0..Len(cids)
    OBVIOUS
  <2> QED
    BY ONLY <2>1, <2>2, <1>3
<1>7. own(m) = IF fileOwner[cids[m]] = o THEN own(m - 1) \cup {cids[m]} ELSE own(m - 1)
  <2>1. 1..m = 1..(m - 1) \cup {m}
    BY <1>4
  <2> QED
    BY <2>1
<1>8. cids[m] \in Cids /\ own(m - 1) \in SUBSET Cids
  BY <1>4
<1>9. RowsFor(R[m], own(m))
  <2> HIDE DEF own
  <2> QED
    BY ONLY <1>5, <1>6, <1>7, <1>8, RowsOneMore, TypeOK
<1> QED
  BY <1>9

(* What FolderRows answers (shared_users_batch) is right for any list of   *)
(* cids, of whatever length and order, in every typed state.               *)
LEMMA RowsAlwaysRight ==
  ASSUME TypeOK, NEW o, NEW cids \in Seq(Cids)
  PROVE  RowsAreRight(o, cids)
<1> DEFINE rows == FolderRows(o, cids)
      own  == {c \in {cids[i] : i \in 1..Len(cids)} : fileOwner[c] = o}
      ends(u) == {expiresAtBlock[c][u] : c \in {c \in own : u \in SharedUsersOf(c)}}
<1>1. RowsFor(rows, own)
  BY RowsRight
<1> HIDE DEF rows
<1>2. DOMAIN rows.best = UNION {SharedUsersOf(c) : c \in own}
  BY <1>1 DEF RowsFor
<1>3. ASSUME NEW u \in DOMAIN rows.best
      PROVE  /\ u \in rows.live <=> \E c \in own : u \in SharedUsersOf(c) /\ HasAccess(c, u)
             /\ rows.best[u] \in ends(u)
             /\ \A b \in ends(u) : b # 0 => rows.best[u] \in 1..b
  BY <1>1 DEF RowsFor
<1> QED
  BY <1>2, <1>3 DEF RowsAreRight, rows

-----------------------------------------------------------------------------
(* Paths and folders.                                                      *)

(* A prefix is a sequence of as many names.                                *)
LEMMA PrefixType ==
  ASSUME NEW X, NEW p \in Seq(X), NEW n \in 0..Len(p)
  PROVE  Prefix(p, n) \in Seq(X) /\ Len(Prefix(p, n)) = n
  BY DEF Prefix

(* The folders above a folder above are folders above.                     *)
LEMMA PrefixOfPrefix ==
  ASSUME NEW X, NEW p \in Seq(X), NEW n \in 0..Len(p), NEW m \in 0..n
  PROVE  Prefix(Prefix(p, n), m) = Prefix(p, m)
  BY DEF Prefix

(* A path has the file's own name at least.                                *)
LEMMA PathNotEmpty == \A p \in Paths : p \in Seq(STRING) /\ Len(p) \in Nat \ {0}
  BY TransactionsAssumption

(* The common folder of an upload is a sequence of names.                  *)
LEMMA AncestorType ==
  ASSUME NEW ps \in SUBSET Paths
  PROVE  CommonAncestor(ps) \in Seq(STRING)
<1>1. CASE ps = {}
  BY <1>1 DEF CommonAncestor
<1>2. CASE ps # {}
  <2> DEFINE p == CHOOSE p \in ps : TRUE
             common == {n \in 0..Len(p) - 1 : \A q \in ps : Under(Prefix(p, n), q)}
             deepest == Deepest(common)
  <2>1. p \in ps
    BY <1>2
  <2>2. p \in Seq(STRING) /\ Len(p) \in Nat \ {0}
    BY <2>1, PathNotEmpty
  <2> HIDE DEF p
  <2>3. 0 \in common
    <3> SUFFICES ASSUME NEW q \in ps PROVE Under(Prefix(p, 0), q)
      BY <2>2
    <3>1. q \in Seq(STRING) /\ Len(q) \in Nat \ {0}
      BY PathNotEmpty
    <3> QED
      BY <2>2, <3>1 DEF Under, Prefix
  <2>4. \E n \in common : \A m \in common : m <= n
    <3>1. Len(p) - 1 \in Nat /\ common \in SUBSET (0..(Len(p) - 1))
      BY <2>2
    <3> HIDE DEF common
    <3> QED
      BY <2>3, <3>1, Greatest
  <2>5. deepest \in 0..Len(p)
    <3>1. deepest \in common
      BY <2>4 DEF Deepest
    <3> QED
      BY <3>1, <2>2
  <2>6. CommonAncestor(ps) = Prefix(p, deepest)
    BY <1>2 DEF CommonAncestor, p
  <2> HIDE DEF deepest
  <2> QED
    BY <2>2, <2>5, <2>6, PrefixType
<1> QED
  BY <1>1, <1>2

-----------------------------------------------------------------------------
(* Calls.                                                                  *)

(* The calls about one cid.                                                *)
Singles == {"delete", "request", "cancel", "approve", "deny"}

(* The calls that handlers prepare.                                        *)
Ops == Singles \cup {"upload", "move", "clean", "grant", "revoke"}

(* What every call in progress satisfies, whatever the chain does: it has  *)
(* the arguments its function takes.                                       *)
CallOK(t) ==
  /\ t.from \in Users
  /\ t.op \in Ops
  /\ t.cids \in SUBSET Cids
  /\ t.op \in {"upload", "move"} => t.path \in [t.cids -> Paths]
  /\ t.op \in {"grant", "revoke", "approve", "deny"} => t.to \in Users
  /\ t.op = "grant" => t.dur \in Durations \cup {0}
  /\ t.op \in {"request", "approve"} => t.dur \in Durations
  /\ t.op \in Singles => \E c \in Cids : t.cids = {c}

(* A call left with some of its cids (ReadNonce) still has the arguments   *)
(* its function takes.                                                     *)
LEMMA OnlyOK ==
  ASSUME NEW t, CallOK(t), NEW cs \in SUBSET t.cids, cs # {}
  PROVE  /\ CallOK(Only(t, cs))
         /\ Only(t, cs).from = t.from /\ Only(t, cs).op = t.op /\ Only(t, cs).cids = cs
         /\ t.op = "upload" /\ cs = t.cids => Only(t, cs).path = t.path
<1> DEFINE path == [c \in cs \cap DOMAIN t.path |-> t.path[c]]
           s == Only(t, cs)
<1>1. /\ s.from = t.from /\ s.op = t.op /\ s.cids = cs /\ s.to = t.to /\ s.dur = t.dur
      /\ s.path = path
  BY DEF Only, Call
<1>2. t.path \in [t.cids -> Paths] => path \in [cs -> Paths]
  OBVIOUS
<1>3. t.path \in [t.cids -> Paths] /\ cs = t.cids => path = t.path
  OBVIOUS
<1> HIDE DEF path, s
<1>4. t.op \in Singles => \E c \in Cids : cs = {c}
  BY DEF CallOK
<1>5. CallOK(s)
  BY <1>1, <1>2, <1>4 DEF CallOK
<1> QED
  BY <1>1, <1>3, <1>5 DEF s, CallOK

-----------------------------------------------------------------------------
(* Each mined call is a transaction of the contract, or does nothing.      *)

(* A call is about one cid or a batch.                                     *)
LEMMA BatchOrSingle ==
  ASSUME NEW cs \in SUBSET Cids, cs # {}
  PROVE  cs \in Batches \/ \E c \in Cids : cs = {c}
  BY DEF Batches

(* A folder delete that finds nothing of its sender's changes nothing.     *)
LEMMA DeleteNothing ==
  ASSUME TypeOK, NEW o \in Users, DeleteEach(o, {})
  PROVE  UNCHANGED vars
<1>1. userFiles' = userFiles
  BY DEF DeleteEach, TypeOK
<1>2. sharedFiles' = sharedFiles /\ permissions' = permissions
  BY DEF DeleteEach, DropRecipients, PopRecipients, TypeOK
<1>3. expiresAtBlock' = expiresAtBlock /\ sharedUsers' = sharedUsers
  BY DEF DeleteEach, DropRecipients, ClearExpiry, ClearSharedUsers, TypeOK
<1>4. requests' = requests /\ requesters' = requesters
  BY DEF DeleteEach, DropRequests, TypeOK
<1>5. ownerPending' = ownerPending /\ pendingIndex' = pendingIndex
  BY DEF DeleteEach, DropRequests, RemovePending, TypeOK
<1>6. fileMetadata' = fileMetadata /\ fileOwner' = fileOwner /\ formerOwners' = formerOwners
  BY DEF DeleteEach, TypeOK
<1>7. block' = block
  BY DEF DeleteEach
<1> QED
  BY <1>1, <1>2, <1>3, <1>4, <1>5, <1>6, <1>7
     DEF vars, fileVars, listVars, accessVars, requestVars

(* What a mined call does is a step of the contract or nothing.            *)
LEMMA EffectIsNext ==
  ASSUME TypeOK, NEW t, CallOK(t), t.cids # {}, Effect(t)
  PROVE  [Next]_vars
<1> DEFINE o == t.from
           cs == t.cids
<1>0. o \in Users /\ cs \in SUBSET Cids /\ cs # {}
  BY DEF CallOK
<1>1. CASE t.op = "upload" /\ UploadFiles(o, cs, t.path)
  <2>1. t.path \in [cs -> Paths]
    BY <1>1 DEF CallOK
  <2>2. ASSUME NEW c \in Cids, cs = {c} PROVE FileTx(o)
    <3>1. t.path[c] \in Paths /\ t.path = [x \in {c} |-> t.path[c]]
      BY <2>1, <2>2
    <3> QED
      BY <1>1, <2>2, <3>1 DEF FileTx, UploadFile, UploadFiles
  <2>3. cs \in Batches => FileTx(o)
    BY <1>1, <2>1 DEF FileTx
  <2> QED
    BY <1>0, <2>2, <2>3, BatchOrSingle DEF Next
<1>2. CASE t.op = "move" /\ MoveFiles(o, cs, t.path)
  <2>1. t.path \in [cs -> Paths]
    BY <1>2 DEF CallOK
  <2>2. ASSUME NEW c \in Cids, cs = {c} PROVE FileTx(o)
    <3>1. t.path[c] \in Paths /\ t.path = [x \in {c} |-> t.path[c]]
      BY <2>1, <2>2
    <3> QED
      BY <1>2, <2>2, <3>1 DEF FileTx, MoveFile, MoveFiles
  <2>3. cs \in Batches => FileTx(o)
    BY <1>2, <2>1 DEF FileTx
  <2> QED
    BY <1>0, <2>2, <2>3, BatchOrSingle DEF Next
<1>3. CASE t.op = "clean" /\ CleanFolder(o, cs)
  <2>1. ASSUME NEW c \in Cids, cs = {c} PROVE FileTx(o) \/ UNCHANGED vars
    <3>1. CASE fileOwner[c] = o
      <4>1. {x \in cs : fileOwner[x] = o} = {c}
        BY <2>1, <3>1
      <4> QED
        BY <1>3, <4>1, <3>1 DEF CleanFolder, DeleteFile, IsFileOwner, FileTx
    <3>2. CASE fileOwner[c] # o
      <4>1. {x \in cs : fileOwner[x] = o} = {}
        BY <2>1, <3>2
      <4> QED
        BY <1>0, <1>3, <4>1, DeleteNothing DEF CleanFolder
    <3> QED
      BY <3>1, <3>2
  <2>2. cs \in Batches => FileTx(o)
    BY <1>3 DEF FileTx
  <2> QED
    BY <1>0, <2>1, <2>2, BatchOrSingle DEF Next
<1>4. CASE t.op = "grant" /\ t.dur = 0 /\ GrantFiles(o, cs, t.to, ShareMask)
  <2>1. t.to \in Users /\ ShareMask \in Masks
    BY <1>4, TransactionsAssumption DEF CallOK
  <2>2. SharingTx(o)
    <3>1. ASSUME NEW c \in Cids, cs = {c} PROVE Grant(o, c, t.to, ShareMask)
      BY <1>4, <3>1 DEF Grant, GrantFiles
    <3> QED
      BY <1>0, <1>4, <2>1, <3>1, BatchOrSingle DEF SharingTx
  <2> QED
    BY <1>0, <2>2 DEF Next
<1>5. CASE t.op = "grant" /\ GrantWithExpiryFiles(o, cs, t.to, ShareMask, t.dur)
  <2>1. t.to \in Users /\ ShareMask \in Masks
    BY <1>5, TransactionsAssumption DEF CallOK
  <2>2. t.dur \in Durations
    BY <1>5 DEF CallOK, GrantWithExpiryFiles
  <2>3. SharingTx(o)
    <3>1. ASSUME NEW c \in Cids, cs = {c} PROVE GrantWithExpiry(o, c, t.to, ShareMask, t.dur)
      BY <1>5, <3>1 DEF GrantWithExpiry, GrantWithExpiryFiles
    <3> QED
      BY <1>0, <1>5, <2>1, <2>2, <3>1, BatchOrSingle DEF SharingTx
  <2> QED
    BY <1>0, <2>3 DEF Next
<1>6. CASE t.op = "revoke" /\ RevokeFiles(o, cs, t.to, ShareMask)
  <2>1. t.to \in Users /\ ShareMask \in Masks
    BY <1>6, TransactionsAssumption DEF CallOK
  <2>2. SharingTx(o)
    BY <1>0, <1>6, <2>1, BatchOrSingle DEF SharingTx, Revoke, RevokeFiles
  <2> QED
    BY <1>0, <2>2 DEF Next
<1>7. ASSUME NEW c \in cs, t.op = "delete", DeleteFile(o, c) PROVE Next
  BY <1>0, <1>7 DEF Next, FileTx
<1>8. ASSUME NEW c \in cs, t.op = "request", RequestAccess(o, c, t.dur) PROVE Next
  BY <1>0, <1>8 DEF Next, RequestTx, CallOK
<1>9. ASSUME NEW c \in cs, t.op = "cancel", CancelRequest(o, c) PROVE Next
  BY <1>0, <1>9 DEF Next, RequestTx
<1>10. ASSUME NEW c \in cs, t.op = "approve", ApproveRequest(o, c, t.to, ShareMask, t.dur)
       PROVE  Next
  BY <1>0, <1>10, TransactionsAssumption DEF Next, RequestTx, CallOK
<1>11. ASSUME NEW c \in cs, t.op = "deny", DenyRequest(o, c, t.to) PROVE Next
  BY <1>0, <1>11 DEF Next, RequestTx, CallOK
<1> QED
  BY <1>1, <1>2, <1>3, <1>4, <1>5, <1>6, <1>7, <1>8, <1>9, <1>10, <1>11 DEF Effect

-----------------------------------------------------------------------------
(* What a user has, and what only the user's own transactions change.      *)

(* The files of u, their paths and their recipients are what they were.    *)
Kept(u) == \A c \in Cids :
  /\ fileOwner'[c] = u <=> fileOwner[c] = u
  /\ fileOwner[c] = u => /\ fileMetadata'[c] = fileMetadata[c]
                         /\ SharedUsersOf(c)' = SharedUsersOf(c)

(* A step that leaves owners, paths and recipients alone keeps everyone's. *)
LEMMA AloneKeeps ==
  ASSUME fileOwner' = fileOwner, fileMetadata' = fileMetadata, sharedUsers' = sharedUsers, NEW u
  PROVE  Kept(u)
  BY DEF Kept, SharedUsersOf

(* No call changes what another user than its sender has: uploads take     *)
(* free cids, and everything else asks for the sender's own.               *)
LEMMA OthersKeep ==
  ASSUME TypeOK, NEW t, CallOK(t), Effect(t), NEW u \in Users, u # t.from
  PROVE  Kept(u)
<1> DEFINE o == t.from
           cs == t.cids
<1>0. /\ o \in Users /\ u # o /\ cs \in SUBSET Cids /\ u # NoOwner
      /\ fileOwner \in [Cids -> Users \cup {NoOwner}]
      /\ sharedUsers \in [Cids -> [Users -> Nat]]
      /\ fileMetadata \in [Cids -> Paths \cup {NoPath}]
  BY FileStorageAssumption DEF CallOK, TypeOK
<1>1. ASSUME UploadEach(o, cs, t.path) PROVE Kept(u)
  <2>1. sharedUsers' = sharedUsers
    BY <1>1 DEF UploadEach, listVars
  <2>2. ASSUME NEW c \in Cids
        PROVE  /\ fileOwner'[c] = u <=> fileOwner[c] = u
               /\ fileOwner[c] = u => fileMetadata'[c] = fileMetadata[c]
    BY <1>0, <1>1 DEF UploadEach, IsFileOwner
  <2> QED
    BY <2>1, <2>2 DEF Kept, SharedUsersOf
<1>2. ASSUME MoveEach(o, cs, t.path) PROVE Kept(u)
  <2>1. sharedUsers' = sharedUsers /\ fileOwner' = fileOwner
    BY <1>2 DEF MoveEach, listVars
  <2>2. ASSUME NEW c \in Cids
        PROVE  fileOwner[c] = u => fileMetadata'[c] = fileMetadata[c]
    BY <1>0, <1>2 DEF MoveEach, IsFileOwner
  <2> QED
    BY <2>1, <2>2 DEF Kept, SharedUsersOf
<1>3. ASSUME NEW ds \in SUBSET Cids, \A c \in ds : fileOwner[c] = o, DeleteEach(o, ds)
      PROVE  Kept(u)
  <2>1. ASSUME NEW c \in Cids
        PROVE  /\ fileOwner'[c] = u <=> fileOwner[c] = u
               /\ fileOwner[c] = u => fileMetadata'[c] = fileMetadata[c]
    BY <1>0, <1>3 DEF DeleteEach
  <2>2. ASSUME NEW c \in Cids, fileOwner[c] = u
        PROVE  \A v \in Users : sharedUsers'[c][v] = sharedUsers[c][v]
    BY <1>0, <1>3, <2>2 DEF DeleteEach, DropRecipients, ClearSharedUsers
  <2> QED
    BY <2>1, <2>2 DEF Kept, SharedUsersOf
<1>4. ASSUME NEW d, GrantEach(o, cs, t.to, ShareMask, d), UNCHANGED fileVars PROVE Kept(u)
  <2>1. fileOwner' = fileOwner /\ fileMetadata' = fileMetadata
    BY <1>4 DEF fileVars
  <2>2. ASSUME NEW c \in Cids, fileOwner[c] = u
        PROVE  \A v \in Users : sharedUsers'[c][v] = sharedUsers[c][v]
    BY <1>0, <1>4, <2>2 DEF GrantEach, IsFileOwner
  <2> QED
    BY <2>1, <2>2 DEF Kept, SharedUsersOf
<1>5. ASSUME RevokeEach(o, cs, t.to, ShareMask) PROVE Kept(u)
  <2>1. fileOwner' = fileOwner /\ fileMetadata' = fileMetadata
    BY <1>5 DEF RevokeEach, fileVars
  <2>2. ASSUME NEW c \in Cids, fileOwner[c] = u
        PROVE  \A v \in Users : sharedUsers'[c][v] = sharedUsers[c][v]
    BY <1>0, <1>5, <2>2 DEF RevokeEach, PopListed, Emptied, IsFileOwner
  <2> QED
    BY <2>1, <2>2 DEF Kept, SharedUsersOf
<1>6. UNCHANGED <<fileVars, listVars>> => Kept(u)
  BY AloneKeeps DEF fileVars, listVars
<1>7. CASE t.op = "upload" /\ UploadFiles(o, cs, t.path)
  BY <1>7, <1>1 DEF UploadFiles
<1>8. CASE t.op = "move" /\ MoveFiles(o, cs, t.path)
  BY <1>8, <1>2 DEF MoveFiles
<1>9. CASE t.op = "clean" /\ CleanFolder(o, cs)
  <2>1. {c \in cs : fileOwner[c] = o} \in SUBSET Cids
    BY <1>0
  <2> QED
    BY <1>9, <2>1, <1>3 DEF CleanFolder
<1>10. CASE t.op = "grant" /\ t.dur = 0 /\ GrantFiles(o, cs, t.to, ShareMask)
  BY <1>10, <1>4 DEF GrantFiles
<1>11. CASE t.op = "grant" /\ GrantWithExpiryFiles(o, cs, t.to, ShareMask, t.dur)
  BY <1>11, <1>4 DEF GrantWithExpiryFiles
<1>12. CASE t.op = "revoke" /\ RevokeFiles(o, cs, t.to, ShareMask)
  BY <1>12, <1>5 DEF RevokeFiles
<1>13. ASSUME NEW c \in cs, t.op = "delete", DeleteFile(o, c) PROVE Kept(u)
  BY <1>0, <1>13, <1>3 DEF DeleteFile, IsFileOwner
<1>14. ASSUME NEW c \in cs, RequestAccess(o, c, t.dur) PROVE Kept(u)
  BY <1>14, <1>6 DEF RequestAccess
<1>15. ASSUME NEW c \in cs, CancelRequest(o, c) PROVE Kept(u)
  BY <1>15, <1>6 DEF CancelRequest
<1>16. ASSUME NEW c \in cs, t.op = "approve", ApproveRequest(o, c, t.to, ShareMask, t.dur)
       PROVE  Kept(u)
  <2>1. cs = {c}
    BY <1>16 DEF CallOK, Singles
  <2> QED
    BY <1>16, <2>1, <1>4 DEF ApproveRequest
<1>17. ASSUME NEW c \in cs, DenyRequest(o, c, t.to) PROVE Kept(u)
  BY <1>17, <1>6 DEF DenyRequest
<1> QED
  BY <1>7, <1>8, <1>9, <1>10, <1>11, <1>12, <1>13, <1>14, <1>15, <1>16, <1>17 DEF Effect

(* The files that the user has in a folder or at its path.                 *)
InFolder(u, folder) == {c \in Cids :
  fileOwner[c] = u /\ (fileMetadata[c] = folder \/ Under(folder, fileMetadata[c]))}

(* As long as a user's files are kept, so is every answer about them that  *)
(* the handlers rely on.                                                   *)
LEMMA KeptAnswers ==
  ASSUME NEW u, Kept(u)
  PROVE  /\ \A cs \in SUBSET Cids : IsFileOwner(u, cs)' <=> IsFileOwner(u, cs)
         /\ \A f : InFolder(u, f)' = InFolder(u, f)
         /\ \A f : OwnedUnder(u, f)' = OwnedUnder(u, f)
         /\ \A f : NearestFiles(u, f)' = NearestFiles(u, f)
         /\ \A f : FolderShareSet(u, f)' = FolderShareSet(u, f)
<1>1. \A cs \in SUBSET Cids : IsFileOwner(u, cs)' <=> IsFileOwner(u, cs)
  BY DEF Kept, IsFileOwner
<1>2. \A f : InFolder(u, f)' = InFolder(u, f)
  BY DEF Kept, InFolder
<1>3. \A f : OwnedUnder(u, f)' = OwnedUnder(u, f)
  BY DEF Kept, OwnedUnder
<1>4. \A f : NearestFiles(u, f)' = NearestFiles(u, f)
  <2> SUFFICES ASSUME NEW f PROVE NearestFiles(u, f)' = NearestFiles(u, f)
    OBVIOUS
  <2>1. Levels(u, f)' = Levels(u, f)
    BY <1>3 DEF Levels
  <2> QED
    BY <2>1, <1>3 DEF NearestFiles
<1>5. \A f : FolderShareSet(u, f)' = FolderShareSet(u, f)
  <2>1. \A f : NearestFiles(u, f) \subseteq {c \in Cids : fileOwner[c] = u}
    BY DEF NearestFiles, OwnedUnder
  <2> QED
    BY <1>4, <2>1 DEF FolderShareSet, Kept
<1> QED
  BY <1>1, <1>2, <1>3, <1>4, <1>5

-----------------------------------------------------------------------------
(* The invariant.                                                          *)

(* The record of the handler in progress: its fields, the phases in which  *)
(* it has a call, and their types.                                         *)
PrepFields == {"nonce", "folder", "phase", "call", "todo", "owned", "at", "files", "shared",
               "blip", "moved"}

Busy == {"check", "estimate", "files", "owners", "lists"}

PrepType(r) ==
  /\ DOMAIN r = PrepFields
  /\ r.phase \in Busy \cup {"idle"}
  /\ r.nonce \in Nat
  /\ r.folder \in Seq(STRING)
  /\ r.shared \in SUBSET Users
  /\ r.blip \in BOOLEAN /\ r.moved \in BOOLEAN
  /\ r.phase \in Busy => CallOK(r.call)
  /\ r.phase = "check" =>
       /\ r.todo \in SUBSET r.call.cids
       /\ r.owned \in SUBSET r.call.cids
       /\ r.call.op = "upload" => r.todo = {} /\ r.owned = r.call.cids
  /\ r.phase \in Busy \ {"check"} => r.call.cids # {}
  /\ r.phase \in {"files", "owners", "lists"} => r.call.op = "upload" /\ r.folder # <<>>
  /\ r.phase \in {"owners", "lists"} =>
       r.todo \in SUBSET Cids /\ r.owned \in SUBSET Cids
  /\ r.phase = "lists" => r.todo \in SUBSET r.owned
  /\ r.phase = "owners" => r.files \in SUBSET (Cids \X (Paths \cup {NoPath}))

(* A transaction that waits has grants behind it only if it is an upload,  *)
(* and is itself behind one only if it is a grant.                         *)
EntryType(e) ==
  /\ e.nonce \in Nat /\ e.base \in Nat
  /\ e.folder \in Seq(STRING)
  /\ e.grants \in SUBSET Users
  /\ e.blip \in BOOLEAN /\ e.moved \in BOOLEAN /\ e.behind \in BOOLEAN
  /\ CallOK(e.call) /\ e.call.cids # {}
  /\ e.behind => e.call.op = "grant"
  /\ e.grants # {} => e.call.op = "upload"

(* The files that the sender has outside the trash are those the handler   *)
(* read.                                                                   *)
FilesCurrent(u, files) == \A c \in Cids : fileOwner[c] = u =>
  \A p \in Paths \cup {NoPath} : <<c, p>> \in files <=> p = fileMetadata[c] /\ p[1] # Trash

(* The handler has come down to one folder and found nothing deeper.       *)
LookingAt(u, folder, at) == \E k \in 1..Len(folder) :
  /\ at = Prefix(folder, k)
  /\ \A n \in k + 1..Len(folder) : OwnedUnder(u, Prefix(folder, n)) = {}

(* What the handler in progress knows, as long as the nonce it read is the *)
(* sender's next.                                                          *)
PrepKnows(r) ==
  LET u == r.call.from
      live == r.nonce = nonce[u]
  IN  /\ r.phase \in Busy \ {"check"} => r.nonce <= nonce[u]
      /\ r.phase = "check" /\ r.call.op = "clean" /\ r.folder # <<>> /\ ~r.moved =>
           r.todo = {} /\ {c \in r.owned : fileOwner[c] = u} = InFolder(u, r.folder)
      /\ r.phase = "estimate" /\ r.call.op = "clean" /\ r.folder # <<>> /\ ~r.moved
         /\ live =>
           {c \in r.call.cids : fileOwner[c] = u} = InFolder(u, r.folder)
      /\ r.phase = "owners" /\ live /\ ~r.blip =>
           /\ FilesCurrent(u, r.files)
           /\ LookingAt(u, r.folder, r.at)
           /\ OwnedUnder(u, r.at) = r.owned \cup {c \in r.todo : fileOwner[c] = u}
      /\ r.phase = "lists" /\ live /\ ~r.blip =>
           /\ r.owned # {} /\ r.owned = NearestFiles(u, r.folder)
           /\ r.shared = {x \in Users : \A c \in r.owned \ r.todo : x \in SharedUsersOf(c)}

(* What holds of a transaction that waits, as long as it is its turn.      *)
EntryHolds(e) ==
  LET u == e.call.from
  IN  /\ ~e.behind => e.nonce <= nonce[u]
      /\ e.grants # {} => e.base = e.nonce
      /\ e.call.op \in {"grant", "revoke", "move", "delete"} /\ ~e.behind /\ IsNext(e) =>
           IsFileOwner(u, e.call.cids)
      /\ e.call.op = "clean" /\ e.folder # <<>> /\ IsNext(e) /\ ~e.moved =>
           {c \in e.call.cids : fileOwner[c] = u} = InFolder(u, e.folder)
      /\ e.call.op = "upload" /\ IsNext(e) /\ ~e.blip => e.grants = FolderShareSet(u, e.folder)

TxInv ==
  /\ nonce \in [Users -> Nat]
  /\ \A r \in {prep} : PrepType(r) /\ PrepKnows(r)
  /\ \A e \in wallet : EntryType(e) /\ EntryHolds(e)

-----------------------------------------------------------------------------
(* What is known lasts as long as the sender does nothing.                 *)

(* The files that stand for a folder are the sender's.                     *)
LEMMA NearestAreOwned ==
  \A u, f : NearestFiles(u, f) \subseteq {c \in Cids : fileOwner[c] = u}
  BY DEF NearestFiles, OwnedUnder

(* What holds of a waiting transaction lasts while its sender does         *)
(* nothing.                                                                *)
LEMMA KeptEntry ==
  ASSUME NEW e, EntryType(e), EntryHolds(e),
         Kept(e.call.from), nonce'[e.call.from] = nonce[e.call.from]
  PROVE  EntryHolds(e)'
<1> DEFINE u == e.call.from
<1>1. e.call.cids \in SUBSET Cids
  BY DEF EntryType, CallOK
<1>2. IsNext(e)' <=> IsNext(e)
  BY DEF IsNext
<1>3. /\ IsFileOwner(u, e.call.cids)' <=> IsFileOwner(u, e.call.cids)
      /\ InFolder(u, e.folder)' = InFolder(u, e.folder)
      /\ FolderShareSet(u, e.folder)' = FolderShareSet(u, e.folder)
  BY <1>1, KeptAnswers
<1>4. {c \in e.call.cids : fileOwner'[c] = u} = {c \in e.call.cids : fileOwner[c] = u}
  BY <1>1 DEF Kept
<1> QED
  BY <1>2, <1>3, <1>4 DEF EntryHolds

(* So does what a handler in progress knows.                               *)
LEMMA KeptPrep ==
  ASSUME NEW r, PrepType(r), PrepKnows(r),
         r.phase \in Busy => Kept(r.call.from) /\ nonce'[r.call.from] = nonce[r.call.from]
  PROVE  PrepKnows(r)'
<1> DEFINE u == r.call.from
<1>0. CASE r.phase \notin Busy
  BY <1>0 DEF PrepKnows, Busy
<1>1. CASE r.phase \in Busy
  <2>1. Kept(u) /\ nonce'[u] = nonce[u] /\ r.call.cids \in SUBSET Cids
    BY <1>1 DEF PrepType, CallOK
  <2>2. InFolder(u, r.folder)' = InFolder(u, r.folder)
    BY <2>1, KeptAnswers
  <2>3. NearestFiles(u, r.folder)' = NearestFiles(u, r.folder)
    BY <2>1, KeptAnswers
  <2>4. OwnedUnder(u, r.at)' = OwnedUnder(u, r.at)
    BY <2>1, KeptAnswers
  <2>5. LookingAt(u, r.folder, r.at) => LookingAt(u, r.folder, r.at)'
    BY <2>1, KeptAnswers DEF LookingAt
  <2>6. FilesCurrent(u, r.files) => FilesCurrent(u, r.files)'
    BY <2>1 DEF FilesCurrent, Kept
  <2>7. \A cs \in SUBSET Cids :
          {c \in cs : fileOwner'[c] = u} = {c \in cs : fileOwner[c] = u}
    BY <2>1 DEF Kept
  <2>8. r.owned = NearestFiles(u, r.folder) =>
          {x \in Users : \A c \in r.owned \ r.todo : x \in SharedUsersOf(c)}' =
          {x \in Users : \A c \in r.owned \ r.todo : x \in SharedUsersOf(c)}
    <3>1. r.owned = NearestFiles(u, r.folder) =>
            \A c \in r.owned : SharedUsersOf(c)' = SharedUsersOf(c)
      BY <2>1, NearestAreOwned DEF Kept
    <3> QED
      BY <3>1
  <2>9. r.phase = "check" => r.owned \in SUBSET Cids
    BY <2>1 DEF PrepType
  <2>10. r.phase = "owners" => r.todo \in SUBSET Cids
    BY <2>1 DEF PrepType
  <2> QED
    BY <2>1, <2>2, <2>3, <2>4, <2>5, <2>6, <2>7, <2>8, <2>9, <2>10 DEF PrepKnows
<1> QED
  BY <1>0, <1>1

-----------------------------------------------------------------------------
(* The handlers: they leave the chain alone, so what is to be shown is     *)
(* that the next record is known to be right in the same state.            *)

(* A step of a handler keeps the invariant if the next record, and the     *)
(* transaction it may add, are right in the same state.                    *)
LEMMA HandlerKeeps ==
  ASSUME TxInv, UNCHANGED <<vars, nonce>>, NEW r, prep' = r, PrepType(r), PrepKnows(r),
         \/ wallet' = wallet
         \/ \E e : wallet' = wallet \cup {e} /\ EntryType(e) /\ EntryHolds(e)
  PROVE  TxInv'
<1>1. \A u : Kept(u)
  BY AloneKeeps DEF vars, fileVars, listVars
<1>2. nonce' = nonce
  OBVIOUS
<1>3. PrepKnows(r)'
  BY <1>1, <1>2, KeptPrep
<1>4. ASSUME NEW e, EntryType(e), EntryHolds(e) PROVE EntryHolds(e)'
  BY <1>1, <1>2, <1>4, KeptEntry
<1>5. \A e \in wallet' : EntryType(e) /\ EntryHolds(e)'
  BY <1>4 DEF TxInv
<1> QED
  BY <1>2, <1>3, <1>5 DEF TxInv

(* Nothing is known when no handler runs.                                  *)
LEMMA IdleKnows == PrepType(Idle) /\ PrepKnows(Idle)
  BY DEF PrepType, PrepKnows, Idle, PrepFields, Busy

(* The defaults of the handler's record have their types.                  *)
LEMMA EmptyIsTyped == <<>> \in Seq(STRING) /\ {} \in SUBSET Users /\ 0 \in Nat
  OBVIOUS

(* A handler that checks who owns its cids starts out right.               *)
LEMMA CheckedKnows ==
  ASSUME NEW t, CallOK(t), t.op # "upload"
  PROVE  PrepType(Checked(t)) /\ PrepKnows(Checked(t))
<1> DEFINE r == Checked(t)
<1>1. /\ DOMAIN r = PrepFields /\ r.phase = "check" /\ r.call = t /\ r.todo = t.cids
      /\ r.owned = {} /\ r.nonce = 0 /\ r.folder = <<>> /\ r.shared = {}
      /\ r.blip = FALSE /\ r.moved = FALSE
  BY DEF Checked, Idle, PrepFields
<1> HIDE DEF r
<1>2. PrepType(r)
  <2>1. r.todo \in SUBSET t.cids /\ r.owned \in SUBSET t.cids
    BY <1>1
  <2> QED
    BY ONLY <1>1, <2>1, CallOK(t), t.op # "upload", EmptyIsTyped DEF PrepType, Busy
<1>3. PrepKnows(r)
  BY <1>1 DEF PrepKnows, Busy
<1> QED
  BY <1>2, <1>3 DEF r

(* A handler that checks no owner, with or without a folder.               *)
LEMMA UncheckedKnows ==
  ASSUME NEW t, CallOK(t), NEW folder \in Seq(STRING),
         NEW r, r = Unchecked(t) \/ r = [Unchecked(t) EXCEPT !.folder = folder],
         r.folder # <<>> /\ t.op = "clean" =>
           {c \in t.cids : fileOwner[c] = t.from} = InFolder(t.from, r.folder)
  PROVE  PrepType(r) /\ PrepKnows(r)
<1>1. /\ DOMAIN r = PrepFields /\ r.phase = "check" /\ r.call = t /\ r.todo = {}
      /\ r.owned = t.cids /\ r.nonce = 0 /\ r.folder \in Seq(STRING) /\ r.shared = {}
      /\ r.blip = FALSE /\ r.moved = FALSE
  <2>1. CASE r = Unchecked(t)
    BY <2>1, EmptyIsTyped DEF Unchecked, Idle, PrepFields
  <2>2. CASE r = [Unchecked(t) EXCEPT !.folder = folder]
    BY <2>2 DEF Unchecked, Idle, PrepFields
  <2> QED
    BY <2>1, <2>2
<1>2. PrepType(r)
  <2>1. r.todo \in SUBSET t.cids /\ r.owned \in SUBSET t.cids
    BY <1>1
  <2> QED
    BY ONLY <1>1, <2>1, CallOK(t), EmptyIsTyped DEF PrepType, Busy
<1>3. PrepKnows(r)
  BY <1>1 DEF PrepKnows, Busy
<1> QED
  BY <1>2, <1>3

(* A start keeps the invariant if the new record is right.                 *)
LEMMA StartKeeps ==
  ASSUME TxInv, NEW r, Start(r), PrepType(r), PrepKnows(r)
  PROVE  TxInv'
  BY HandlerKeeps DEF Start

(* The handlers of shares start out right.                                 *)
LEMMA ShareKeeps ==
  ASSUME TxInv, NEW u \in Users, ShareHandlers(u)
  PROVE  TxInv'
<1>1. PICK cs \in Picks, to \in Users :
        \/ \E d \in Durations \cup {0} : Start(Checked(Call(u, "grant", cs, to, d, NoPaths)))
        \/ Start(Checked(Call(u, "revoke", cs, to, 0, NoPaths)))
  BY DEF ShareHandlers
<1>2. cs \in SUBSET Cids /\ to \in Users
  BY TransactionsAssumption
<1>3. ASSUME NEW d \in Durations \cup {0}, Start(Checked(Call(u, "grant", cs, to, d, NoPaths)))
      PROVE  TxInv'
  <2> DEFINE t == Call(u, "grant", cs, to, d, NoPaths)
  <2>1. CallOK(t) /\ t.op # "upload"
    BY <1>2 DEF CallOK, Call, Ops, Singles
  <2> HIDE DEF t
  <2> QED
    BY <1>3, <2>1, CheckedKnows, StartKeeps DEF t
<1>4. ASSUME Start(Checked(Call(u, "revoke", cs, to, 0, NoPaths))) PROVE TxInv'
  <2> DEFINE t == Call(u, "revoke", cs, to, 0, NoPaths)
  <2>1. CallOK(t) /\ t.op # "upload"
    BY <1>2 DEF CallOK, Call, Ops, Singles
  <2> HIDE DEF t
  <2> QED
    BY <1>4, <2>1, CheckedKnows, StartKeeps DEF t
<1> QED
  BY <1>1, <1>3, <1>4

(* So do those of requests,                                                *)
LEMMA AskKeeps ==
  ASSUME TxInv, NEW u \in Users, AskHandlers(u)
  PROVE  TxInv'
<1>1. PICK c \in Cids :
        \/ Start(Unchecked(Call(u, "cancel", {c}, NoOwner, 0, NoPaths)))
        \/ \E d \in Durations : Start(Unchecked(Call(u, "request", {c}, NoOwner, d, NoPaths)))
  BY DEF AskHandlers
<1>2. ASSUME NEW t, CallOK(t), t.op # "clean", Start(Unchecked(t)) PROVE TxInv'
  BY <1>2, UncheckedKnows, StartKeeps, EmptyIsTyped
<1>3. ASSUME Start(Unchecked(Call(u, "cancel", {c}, NoOwner, 0, NoPaths))) PROVE TxInv'
  <2> DEFINE t == Call(u, "cancel", {c}, NoOwner, 0, NoPaths)
  <2>1. CallOK(t) /\ t.op # "clean"
    BY DEF CallOK, Call, Ops, Singles
  <2> HIDE DEF t
  <2> QED
    BY <1>2, <1>3, <2>1 DEF t
<1>4. ASSUME NEW d \in Durations,
             Start(Unchecked(Call(u, "request", {c}, NoOwner, d, NoPaths)))
      PROVE  TxInv'
  <2> DEFINE t == Call(u, "request", {c}, NoOwner, d, NoPaths)
  <2>1. CallOK(t) /\ t.op # "clean"
    BY DEF CallOK, Call, Ops, Singles
  <2> HIDE DEF t
  <2> QED
    BY <1>2, <1>4, <2>1 DEF t
<1> QED
  BY <1>1, <1>3, <1>4

(* those of answers to requests,                                           *)
LEMMA AnswerKeeps ==
  ASSUME TxInv, NEW u \in Users, AnswerHandlers(u)
  PROVE  TxInv'
<1>1. PICK c \in Cids, to \in Users :
        \/ Start(Checked(Call(u, "deny", {c}, to, 0, NoPaths)))
        \/ \E d \in Durations : Start(Checked(Call(u, "approve", {c}, to, d, NoPaths)))
  BY DEF AnswerHandlers
<1>2. to \in Users
  OBVIOUS
<1>3. ASSUME Start(Checked(Call(u, "deny", {c}, to, 0, NoPaths))) PROVE TxInv'
  <2> DEFINE t == Call(u, "deny", {c}, to, 0, NoPaths)
  <2>1. CallOK(t) /\ t.op # "upload"
    BY <1>2 DEF CallOK, Call, Ops, Singles
  <2> HIDE DEF t
  <2> QED
    BY <1>3, <2>1, CheckedKnows, StartKeeps DEF t
<1>4. ASSUME NEW d \in Durations, Start(Checked(Call(u, "approve", {c}, to, d, NoPaths)))
      PROVE  TxInv'
  <2> DEFINE t == Call(u, "approve", {c}, to, d, NoPaths)
  <2>1. CallOK(t) /\ t.op # "upload"
    BY <1>2 DEF CallOK, Call, Ops, Singles
  <2> HIDE DEF t
  <2> QED
    BY <1>4, <2>1, CheckedKnows, StartKeeps DEF t
<1> QED
  BY <1>1, <1>3, <1>4

(* The paths of a batch are paths.                                         *)
LEMMA PathsForType ==
  ASSUME NEW cs \in SUBSET Cids, NEW path \in PathsFor(cs)
  PROVE  path \in [cs -> Paths] /\ {path[c] : c \in cs} \in SUBSET Paths
  BY DEF PathsFor

(* What a user's list says of the files that the user owns.                *)
LEMMA OwnedFiles ==
  ASSUME TypeOK, OwnerIndex, NEW u \in Users, NEW c \in Cids, fileOwner[c] = u
  PROVE  /\ fileMetadata[c] \in Paths
         /\ \A f \in UserFiles(u) : f[1] = c => f[2] = fileMetadata[c]
         /\ <<c, fileMetadata[c]>> \in UserFiles(u)
<1>1. u # NoOwner
  BY FileStorageAssumption
<1>2. fileMetadata[c] \in Paths
  BY <1>1 DEF TypeOK, OwnerIndex
<1>3. <<c, fileMetadata[c]>> \in userFiles[u]
  BY <1>2 DEF OwnerIndex
<1>4. ASSUME NEW f \in userFiles[u], f[1] = c PROVE f[2] = fileMetadata[c]
  <2>1. f \in Cids \X Paths
    BY DEF TypeOK
  <2>2. f = <<c, f[2]>> /\ f[2] \in Paths
    BY <1>4, <2>1
  <2> QED
    BY <2>2 DEF OwnerIndex
<1> QED
  BY <1>2, <1>3, <1>4 DEF UserFiles

(* A user's list is made of cids and paths.                                *)
LEMMA ListedFiles ==
  ASSUME TypeOK, NEW u \in Users
  PROVE  UserFiles(u) \in SUBSET (Cids \X (Paths \cup {NoPath}))
  BY DEF TypeOK, UserFiles

(* Of the files a folder delete names, the sender's are those in the       *)
(* folder.                                                                 *)
LEMMA ListedIsInFolder ==
  ASSUME TypeOK, OwnerIndex, NEW u \in Users, NEW folder
  PROVE  /\ ListedUnder(u, folder) \in SUBSET Cids
         /\ {c \in ListedUnder(u, folder) : fileOwner[c] = u} = InFolder(u, folder)
<1>1. ListedUnder(u, folder) \in SUBSET Cids
  BY ListedFiles DEF ListedUnder
<1>2. ASSUME NEW c \in Cids, fileOwner[c] = u
      PROVE  c \in ListedUnder(u, folder) <=>
               fileMetadata[c] = folder \/ Under(folder, fileMetadata[c])
  <2>1. c \in ListedUnder(u, folder) <=>
          \E f \in UserFiles(u) : f[1] = c /\ (f[2] = folder \/ Under(folder, f[2]))
    BY DEF ListedUnder
  <2>2. \A f \in UserFiles(u) : f[1] = c => f[2] = fileMetadata[c]
    BY <1>2, OwnedFiles
  <2>3. <<c, fileMetadata[c]>> \in UserFiles(u)
    BY <1>2, OwnedFiles
  <2> QED
    BY <2>1, <2>2, <2>3
<1> QED
  BY <1>1, <1>2 DEF InFolder

(* The handlers of deletes and moves start out right; the folder delete    *)
(* knows from the list what its sender owns in the folder.                 *)
LEMMA FileKeeps ==
  ASSUME IInv, TxInv, NEW u \in Users, FileHandlers(u)
  PROVE  TxInv'
<1>1. ASSUME NEW c \in Cids, Start(Unchecked(Call(u, "delete", {c}, NoOwner, 0, NoPaths)))
      PROVE  TxInv'
  <2> DEFINE t == Call(u, "delete", {c}, NoOwner, 0, NoPaths)
  <2>1. CallOK(t) /\ t.op # "clean"
    BY DEF CallOK, Call, Ops, Singles
  <2> HIDE DEF t
  <2> QED
    BY <1>1, <2>1, UncheckedKnows, StartKeeps, EmptyIsTyped DEF t
<1>2. ASSUME NEW cs \in Picks, Start(Checked(Call(u, "clean", cs, NoOwner, 0, NoPaths)))
      PROVE  TxInv'
  <2> DEFINE t == Call(u, "clean", cs, NoOwner, 0, NoPaths)
  <2>1. CallOK(t) /\ t.op # "upload"
    BY TransactionsAssumption DEF CallOK, Call, Ops, Singles
  <2> HIDE DEF t
  <2> QED
    BY <1>2, <2>1, CheckedKnows, StartKeeps DEF t
<1>3. ASSUME NEW cs \in Picks, NEW path \in PathsFor(cs),
             Start(Checked(Call(u, "move", cs, NoOwner, 0, path)))
      PROVE  TxInv'
  <2> DEFINE t == Call(u, "move", cs, NoOwner, 0, path)
  <2>1. cs \in SUBSET Cids /\ path \in [cs -> Paths]
    BY TransactionsAssumption, PathsForType
  <2>2. CallOK(t) /\ t.op # "upload"
    BY <2>1 DEF CallOK, Call, Ops, Singles
  <2> HIDE DEF t
  <2> QED
    BY <1>3, <2>2, CheckedKnows, StartKeeps DEF t
<1>4. ASSUME NEW p \in Paths, Len(p) > 1,
             Start([Unchecked(Call(u, "clean", ListedUnder(u, Parent(p)), NoOwner, 0, NoPaths))
                    EXCEPT !.folder = Parent(p)])
      PROVE  TxInv'
  <2> DEFINE folder == Parent(p)
             t == Call(u, "clean", ListedUnder(u, folder), NoOwner, 0, NoPaths)
             r == [Unchecked(t) EXCEPT !.folder = folder]
  <2>1. folder \in Seq(STRING)
    BY <1>4, PathNotEmpty, PrefixType DEF Parent
  <2>2. /\ ListedUnder(u, folder) \in SUBSET Cids
        /\ {c \in ListedUnder(u, folder) : fileOwner[c] = u} = InFolder(u, folder)
    BY ListedIsInFolder DEF IInv
  <2>3. /\ CallOK(t) /\ t.cids = ListedUnder(u, folder) /\ t.from = u
    BY <2>2 DEF CallOK, Call, Ops, Singles
  <2>4. r.folder = folder
    BY DEF Unchecked, Idle
  <2>5. Start(r)
    BY <1>4
  <2> HIDE DEF t, r, folder
  <2>6. r = [Unchecked(t) EXCEPT !.folder = folder]
    BY DEF r
  <2>7. {c \in t.cids : fileOwner[c] = t.from} = InFolder(t.from, r.folder)
    BY <2>2, <2>3, <2>4
  <2>8. PrepType(r) /\ PrepKnows(r)
    BY ONLY <2>1, <2>3, <2>6, <2>7, UncheckedKnows
  <2> QED
    BY <2>5, <2>8, StartKeeps
<1> QED
  BY <1>1, <1>2, <1>3, <1>4 DEF FileHandlers

(* The handlers of uploads start out right.                                *)
LEMMA UploadKeeps ==
  ASSUME TxInv, NEW u \in Users, UploadHandlers(u)
  PROVE  TxInv'
<1>0. PICK cs \in Picks : \E path \in PathsFor(cs) :
        Start([Unchecked(Call(u, "upload", cs, NoOwner, 0, path))
               EXCEPT !.folder = CommonAncestor({path[c] : c \in cs})])
  BY DEF UploadHandlers
<1>1. PICK path \in PathsFor(cs) :
        Start([Unchecked(Call(u, "upload", cs, NoOwner, 0, path))
               EXCEPT !.folder = CommonAncestor({path[c] : c \in cs})])
  BY <1>0
<1> DEFINE folder == CommonAncestor({path[c] : c \in cs})
           t == Call(u, "upload", cs, NoOwner, 0, path)
           r == [Unchecked(t) EXCEPT !.folder = folder]
<1>2. cs \in SUBSET Cids /\ path \in [cs -> Paths] /\ {path[c] : c \in cs} \in SUBSET Paths
  BY TransactionsAssumption, PathsForType
<1>3. folder \in Seq(STRING)
  BY <1>2, AncestorType
<1>4. CallOK(t) /\ t.op # "clean"
  BY <1>2 DEF CallOK, Call, Ops, Singles
<1>5. Start(r)
  BY <1>1
<1> HIDE DEF folder, t, r
<1>6. r = [Unchecked(t) EXCEPT !.folder = folder]
  BY DEF r
<1>7. PrepType(r) /\ PrepKnows(r)
  BY ONLY <1>3, <1>4, <1>6, UncheckedKnows
<1> QED
  BY <1>5, <1>7, StartKeeps

(* A step inside a handler keeps the invariant if the new record is right, *)
LEMMA ContinueKeeps ==
  ASSUME TxInv, NEW r, Continue(r), PrepType(r), PrepKnows(r)
  PROVE  TxInv'
  BY HandlerKeeps DEF Continue

(* and an error ends the request with nothing to be known.                 *)
LEMMA ContinueIdle == TxInv /\ Continue(Idle) => TxInv'
  BY ContinueKeeps, IdleKnows

(* What has to be known when a handler answers.                            *)
LEMMA AnsweredKeeps ==
  ASSUME TxInv, NEW p, p = prep, p.phase \in Busy \ {"check"},
         NEW grants \in SUBSET Users, NEW base \in Nat, NEW blip \in BOOLEAN,
         Answer(grants, base, blip),
         grants # {} => p.call.op = "upload" /\ base = nonce[p.call.from],
         p.call.op \in {"grant", "revoke", "move", "delete"} =>
           IsFileOwner(p.call.from, p.call.cids),
         p.call.op = "clean" /\ p.folder # <<>> /\ ~p.moved /\ p.nonce = nonce[p.call.from] =>
           {c \in p.call.cids : fileOwner[c] = p.call.from} = InFolder(p.call.from, p.folder),
         p.call.op = "upload" /\ p.nonce = nonce[p.call.from] /\ ~blip =>
           grants = FolderShareSet(p.call.from, p.folder)
  PROVE  TxInv'
<1> DEFINE u == p.call.from
           e == [nonce |-> p.nonce, folder |-> p.folder, call |-> p.call, blip |-> blip,
                 moved |-> p.moved, grants |-> grants, base |-> base, behind |-> FALSE]
<1>1. /\ p.nonce \in Nat /\ p.folder \in Seq(STRING) /\ p.moved \in BOOLEAN
      /\ CallOK(p.call) /\ p.call.cids # {} /\ p.nonce <= nonce[u]
      /\ u \in Users /\ nonce[u] \in Nat
  BY DEF TxInv, PrepType, PrepKnows, CallOK
<1>2. /\ e.nonce = p.nonce /\ e.folder = p.folder /\ e.call = p.call /\ e.blip = blip
      /\ e.moved = p.moved /\ e.grants = grants /\ e.base = base /\ e.behind = FALSE
  OBVIOUS
<1>3. /\ wallet' = wallet \/ (p.nonce = nonce[u] /\ wallet' = wallet \cup {e})
      /\ prep' = Idle /\ UNCHANGED <<vars, nonce>>
  BY <1>1 DEF Answer
<1> HIDE DEF e
<1>4. EntryType(e)
  BY <1>1, <1>2 DEF EntryType
<1>5. p.nonce = nonce[u] => EntryHolds(e)
  BY <1>1, <1>2 DEF EntryHolds, IsNext
<1> QED
  BY <1>3, <1>4, <1>5, IdleKnows, HandlerKeeps

(* The owner checks, one by one, know nothing the chain could change.      *)
LEMMA CheckOwnerKeeps ==
  ASSUME TxInv, NEW c \in Cids, CheckOwner(c)
  PROVE  TxInv'
<1>1. PICK p : p = prep
  OBVIOUS
<1>2. PrepType(p) /\ PrepKnows(p) /\ p.phase = "check" /\ c \in p.todo
  BY <1>1 DEF TxInv, CheckOwner
<1>3. ASSUME NEW owned, owned \in {p.owned, p.owned \cup {c}}, NEW blip \in BOOLEAN,
             Continue([p EXCEPT !.todo = p.todo \ {c}, !.owned = owned, !.blip = blip])
      PROVE  TxInv'
  <2> DEFINE r == [p EXCEPT !.todo = p.todo \ {c}, !.owned = owned, !.blip = blip]
  <2>1. /\ DOMAIN r = PrepFields /\ r.phase = p.phase /\ r.nonce = p.nonce
        /\ r.folder = p.folder /\ r.shared = p.shared /\ r.blip = blip /\ r.moved = p.moved
        /\ r.call = p.call /\ r.todo = p.todo \ {c} /\ r.owned = owned
    BY <1>2 DEF PrepType, PrepFields
  <2>2. Continue(r)
    BY <1>3
  <2> HIDE DEF r
  <2>3. PrepType(r)
    BY <1>2, <1>3, <2>1 DEF PrepType, Busy
  <2>4. PrepKnows(r)
    BY <1>2, <2>1 DEF PrepKnows, Busy
  <2> QED
    BY <2>2, <2>3, <2>4, ContinueKeeps
<1>4. DOMAIN p = PrepFields /\ p.blip \in BOOLEAN
  BY <1>2 DEF PrepType
<1>5. CASE Continue([prep EXCEPT !.todo = @ \ {c},
               !.owned = IF fileOwner[c] = prep.call.from THEN @ \cup {c} ELSE @])
  <2> DEFINE owned == IF fileOwner[c] = p.call.from THEN p.owned \cup {c} ELSE p.owned
  <2>1. [prep EXCEPT !.todo = @ \ {c},
           !.owned = IF fileOwner[c] = prep.call.from THEN @ \cup {c} ELSE @]
        = [p EXCEPT !.todo = p.todo \ {c}, !.owned = owned, !.blip = p.blip]
    BY <1>1, <1>4 DEF PrepFields
  <2>2. owned \in {p.owned, p.owned \cup {c}}
    OBVIOUS
  <2> HIDE DEF owned
  <2> QED
    BY <1>3, <1>4, <1>5, <2>1, <2>2
<1>6. CASE Continue([prep EXCEPT !.todo = @ \ {c}, !.blip = TRUE])
  <2>1. [prep EXCEPT !.todo = @ \ {c}, !.blip = TRUE]
        = [p EXCEPT !.todo = p.todo \ {c}, !.owned = p.owned, !.blip = TRUE]
    BY <1>1, <1>4 DEF PrepFields
  <2> QED
    BY <1>3, <1>6, <2>1
<1> QED
  BY <1>5, <1>6 DEF CheckOwner

(* From here on the handler relies on the nonce: while it is the sender's  *)
(* next, nothing the sender owns has changed.                              *)
LEMMA ReadNonceKeeps ==
  ASSUME TxInv, ReadNonce
  PROVE  TxInv'
<1>1. PICK p : p = prep
  OBVIOUS
<1>2. /\ PrepType(p) /\ PrepKnows(p) /\ p.phase = "check" /\ p.todo = {}
      /\ CallOK(p.call) /\ p.owned \in SUBSET p.call.cids
  BY <1>1 DEF TxInv, ReadNonce, PrepType, Busy
<1>3. CASE p.owned = {}
  BY <1>1, <1>3, ContinueIdle DEF ReadNonce
<1>4. CASE p.owned # {}
  <2> DEFINE t == Only(p.call, p.owned)
             u == p.call.from
             r == [p EXCEPT !.phase = "estimate", !.nonce = nonce[u], !.call = t]
  <2>1. CallOK(t) /\ t.from = u /\ t.op = p.call.op /\ t.cids = p.owned
    BY <1>2, <1>4, OnlyOK
  <2>2. Continue(r)
    BY <1>1, <1>4 DEF ReadNonce
  <2>3. u \in Users /\ nonce[u] \in Nat
    BY <1>2 DEF TxInv, CallOK
  <2> HIDE DEF t
  <2>4. /\ DOMAIN r = PrepFields /\ r.phase = "estimate" /\ r.nonce = nonce[u]
        /\ r.folder = p.folder /\ r.shared = p.shared /\ r.blip = p.blip /\ r.moved = p.moved
        /\ r.call = t
    BY <1>2 DEF PrepType, PrepFields
  <2> HIDE DEF r, u
  <2>5. PrepType(r)
    BY <1>2, <1>4, <2>1, <2>3, <2>4 DEF PrepType, Busy
  <2>6. PrepKnows(r)
    BY <1>2, <2>1, <2>3, <2>4 DEF PrepKnows, Busy, u
  <2> QED
    BY <2>2, <2>5, <2>6, ContinueKeeps
<1> QED
  BY <1>3, <1>4

(* The root is never shared.                                               *)
LEMMA RootIsNotShared == \A u : FolderShareSet(u, <<>>) = {}
  BY DEF FolderShareSet, NearestFiles, Levels

(* The estimate passes only a call whose sender owns its files, and an     *)
(* answer without grants is right for the root.                            *)
LEMMA EstimateKeeps ==
  ASSUME TxInv, Estimate
  PROVE  TxInv'
<1>1. PICK p : p = prep
  OBVIOUS
<1>2. /\ PrepType(p) /\ PrepKnows(p) /\ p.phase = "estimate" /\ p.blip \in BOOLEAN
      /\ p.phase \in Busy \ {"check"}
  BY <1>1 DEF TxInv, Estimate, PrepType, Busy
<1>3. CASE Continue(Idle)
  BY <1>3, ContinueIdle
<1>4. CASE p.call.op = "upload" /\ p.folder # <<>> /\ Continue([prep EXCEPT !.phase = "files"])
  <2> DEFINE r == [p EXCEPT !.phase = "files"]
  <2>1. /\ DOMAIN r = PrepFields /\ r.phase = "files" /\ r.nonce = p.nonce
        /\ r.folder = p.folder /\ r.shared = p.shared /\ r.blip = p.blip /\ r.moved = p.moved
        /\ r.call = p.call
    BY <1>2 DEF PrepType, PrepFields
  <2>2. Continue(r)
    BY <1>1, <1>4
  <2> HIDE DEF r
  <2>3. PrepType(r)
    BY <1>2, <1>4, <2>1 DEF PrepType, Busy
  <2>4. PrepKnows(r)
    BY <1>2, <2>1 DEF PrepKnows, Busy
  <2> QED
    BY <2>2, <2>3, <2>4, ContinueKeeps
<1>5. CASE /\ Succeeds(p.call) /\ (p.call.op # "upload" \/ p.folder = <<>>)
           /\ Answer({}, 0, prep.blip)
  <2>1. p.call.op \in {"grant", "revoke", "move", "delete"} =>
          IsFileOwner(p.call.from, p.call.cids)
    BY <1>5 DEF Succeeds, MayGrant
  <2>2. p.call.op = "upload" => {} = FolderShareSet(p.call.from, p.folder)
    BY <1>5, RootIsNotShared
  <2>3. p.call.op = "clean" /\ p.folder # <<>> /\ ~p.moved /\ p.nonce = nonce[p.call.from] =>
          {c \in p.call.cids : fileOwner[c] = p.call.from} = InFolder(p.call.from, p.folder)
    BY <1>2 DEF PrepKnows
  <2>4. Answer({}, 0, p.blip)
    BY <1>1, <1>5
  <2> QED
    BY ONLY <1>1, <1>2, <2>1, <2>2, <2>3, <2>4, TxInv, EmptyIsTyped, AnsweredKeeps
<1> QED
  BY <1>1, <1>3, <1>4, <1>5 DEF Estimate, Proceed

(* A call that raises keeps the invariant.                                 *)
LEMMA RaiseKeeps == TxInv /\ Raise => TxInv'
  BY ContinueIdle DEF Raise

-----------------------------------------------------------------------------
(* The inherited shares of an upload.                                      *)

(* The candidates of a folder that turn out to be the sender's are the     *)
(* sender's files there.                                                   *)
LEMMA CandidatesRight ==
  ASSUME TypeOK, OwnerIndex, NEW u \in Users, NEW files, FilesCurrent(u, files),
         files \in SUBSET (Cids \X (Paths \cup {NoPath})), NEW folder
  PROVE  /\ Candidates(files, folder) \in SUBSET Cids
         /\ OwnedUnder(u, folder) = {c \in Candidates(files, folder) : fileOwner[c] = u}
<1>1. Candidates(files, folder) \in SUBSET Cids
  BY DEF Candidates
<1>2. ASSUME NEW c \in Cids, fileOwner[c] = u
      PROVE  c \in Candidates(files, folder) <=>
               Under(folder, fileMetadata[c]) /\ fileMetadata[c][1] # Trash
  <2>1. c \in Candidates(files, folder) <=>
          \E f \in files : f[1] = c /\ Under(folder, f[2])
    BY DEF Candidates
  <2>2. fileMetadata[c] \in Paths
    BY <1>2, OwnedFiles
  <2>3. \A f \in files : f[1] = c => f = <<c, f[2]>> /\ f[2] \in Paths \cup {NoPath}
    OBVIOUS
  <2>4. \A q \in Paths \cup {NoPath} :
          <<c, q>> \in files <=> q = fileMetadata[c] /\ q[1] # Trash
    BY <1>2 DEF FilesCurrent
  <2>5. ASSUME NEW f \in files, f[1] = c
        PROVE  f[2] = fileMetadata[c] /\ fileMetadata[c][1] # Trash
    <3>1. f = <<c, f[2]>> /\ f[2] \in Paths \cup {NoPath}
      BY <2>3, <2>5
    <3>2. <<c, f[2]>> \in files
      BY <3>1
    <3> QED
      BY <2>4, <3>1, <3>2
  <2>6. fileMetadata[c][1] # Trash => <<c, fileMetadata[c]>> \in files
    BY <2>2, <2>4
  <2> QED
    BY <2>1, <2>5, <2>6
<1> QED
  BY <1>1, <1>2 DEF OwnedUnder

(* What the handler has when it turns to a folder.                         *)
LEMMA LookKnows ==
  ASSUME IInv, NEW q, PrepType(q), q.phase \in {"files", "owners"},
         q.nonce <= nonce[q.call.from],
         q.files \in SUBSET (Cids \X (Paths \cup {NoPath})), NEW folder,
         q.nonce = nonce[q.call.from] /\ ~q.blip =>
           FilesCurrent(q.call.from, q.files) /\ LookingAt(q.call.from, q.folder, folder)
  PROVE  PrepType(Look(q, folder)) /\ PrepKnows(Look(q, folder))
<1> DEFINE r == Look(q, folder)
<1>1. /\ DOMAIN r = PrepFields /\ r.phase = "owners" /\ r.nonce = q.nonce
      /\ r.folder = q.folder /\ r.shared = q.shared /\ r.blip = q.blip /\ r.moved = q.moved
      /\ r.call = q.call /\ r.files = q.files /\ r.at = folder /\ r.owned = {}
      /\ r.todo = Candidates(q.files, folder)
  BY DEF PrepType, PrepFields, Look
<1> HIDE DEF r
<1>2. Candidates(q.files, folder) \in SUBSET Cids
  BY DEF Candidates
<1>3. q.call.from \in Users
  BY DEF PrepType, Busy, CallOK
<1>4. PrepType(r)
  BY <1>1, <1>2 DEF PrepType, Busy
<1>5. q.nonce = nonce[q.call.from] /\ ~q.blip =>
        OwnedUnder(q.call.from, folder)
        = {c \in Candidates(q.files, folder) : fileOwner[c] = q.call.from}
  BY <1>3, CandidatesRight DEF IInv
<1>6. PrepKnows(r)
  BY <1>1, <1>5 DEF PrepKnows, Busy
<1> QED
  BY <1>4, <1>6 DEF r

(* The sender's files are read after the nonce, so they are current while  *)
(* the nonce is.                                                           *)
LEMMA ReadFilesKeeps ==
  ASSUME IInv, TxInv, ReadFiles
  PROVE  TxInv'
<1>1. PICK p : p = prep
  OBVIOUS
<1>2. /\ PrepType(p) /\ PrepKnows(p) /\ p.phase = "files" /\ p.phase \in Busy \ {"check"}
      /\ p.folder \in Seq(STRING) /\ p.folder # <<>> /\ p.call.op = "upload"
      /\ p.call.from \in Users /\ p.nonce <= nonce[p.call.from]
  BY <1>1 DEF TxInv, ReadFiles, PrepType, PrepKnows, Busy, CallOK
<1>3. CASE Answer({}, 0, TRUE)
  BY ONLY <1>1, <1>2, <1>3, TxInv, EmptyIsTyped, AnsweredKeeps
<1>4. CASE LET files == {f \in UserFiles(prep.call.from) : f[2][1] # Trash}
           IN  Continue(Look([prep EXCEPT !.files = files], prep.folder))
  <2> DEFINE u == p.call.from
             files == {f \in UserFiles(u) : f[2][1] # Trash}
             q == [p EXCEPT !.files = files]
  <2>1. /\ DOMAIN q = PrepFields /\ q.phase = p.phase /\ q.nonce = p.nonce
        /\ q.folder = p.folder /\ q.shared = p.shared /\ q.blip = p.blip /\ q.moved = p.moved
        /\ q.call = p.call /\ q.files = files
    BY <1>2 DEF PrepType, PrepFields
  <2>2. files \in SUBSET (Cids \X (Paths \cup {NoPath}))
    BY <1>2, ListedFiles DEF IInv
  <2>3. FilesCurrent(u, files)
    <3> SUFFICES ASSUME NEW c \in Cids, fileOwner[c] = u, NEW x \in Paths \cup {NoPath}
                 PROVE  <<c, x>> \in files <=> x = fileMetadata[c] /\ x[1] # Trash
      BY DEF FilesCurrent
    <3>1. \A f \in UserFiles(u) : f[1] = c => f[2] = fileMetadata[c]
      BY <1>2, OwnedFiles DEF IInv
    <3>2. <<c, fileMetadata[c]>> \in UserFiles(u)
      BY <1>2, OwnedFiles DEF IInv
    <3> QED
      BY <3>1, <3>2
  <2>4. LookingAt(u, p.folder, p.folder)
    <3>1. Len(p.folder) \in 1..Len(p.folder) /\ p.folder = Prefix(p.folder, Len(p.folder))
      BY <1>2 DEF Prefix
    <3>2. Len(p.folder) + 1..Len(p.folder) = {}
      BY <1>2
    <3> QED
      BY <3>1, <3>2 DEF LookingAt
  <2>5. Continue(Look(q, p.folder))
    BY <1>1, <1>4
  <2> HIDE DEF q, files
  <2>6. PrepType(q)
    BY <1>2, <2>1 DEF PrepType, Busy
  <2>7. PrepType(Look(q, p.folder)) /\ PrepKnows(Look(q, p.folder))
    BY <1>2, <2>1, <2>2, <2>3, <2>4, <2>6, LookKnows
  <2> QED
    BY <2>5, <2>7, ContinueKeeps
<1> QED
  BY <1>3, <1>4 DEF ReadFiles

(* Each owner lookup moves one candidate to where it belongs, or sets the  *)
(* flag that a call failed.                                                *)
LEMMA LookUpOwnerKeeps ==
  ASSUME TxInv, NEW c \in Cids, LookUpOwner(c)
  PROVE  TxInv'
<1>1. PICK p : p = prep
  OBVIOUS
<1>2. /\ PrepType(p) /\ PrepKnows(p) /\ p.phase = "owners" /\ c \in p.todo
      /\ DOMAIN p = PrepFields /\ p.blip \in BOOLEAN
  BY <1>1 DEF TxInv, LookUpOwner, PrepType
<1>3. ASSUME NEW owned \in SUBSET Cids, NEW blip \in BOOLEAN,
             ~blip => ~p.blip /\ owned \cup {x \in p.todo \ {c} : fileOwner[x] = p.call.from}
                                 = p.owned \cup {x \in p.todo : fileOwner[x] = p.call.from},
             Continue([p EXCEPT !.todo = p.todo \ {c}, !.owned = owned, !.blip = blip])
      PROVE  TxInv'
  <2> DEFINE r == [p EXCEPT !.todo = p.todo \ {c}, !.owned = owned, !.blip = blip]
  <2>1. /\ DOMAIN r = PrepFields /\ r.phase = p.phase /\ r.nonce = p.nonce
        /\ r.folder = p.folder /\ r.shared = p.shared /\ r.blip = blip /\ r.moved = p.moved
        /\ r.call = p.call /\ r.todo = p.todo \ {c} /\ r.owned = owned
        /\ r.at = p.at /\ r.files = p.files
    BY <1>2 DEF PrepFields
  <2>2. Continue(r)
    BY <1>3
  <2> HIDE DEF r
  <2>3. PrepType(r)
    BY <1>2, <2>1 DEF PrepType, Busy
  <2>4. PrepKnows(r)
    BY <1>2, <1>3, <2>1 DEF PrepKnows, Busy
  <2> QED
    BY <2>2, <2>3, <2>4, ContinueKeeps
<1>4. p.owned \in SUBSET Cids
  BY <1>2 DEF PrepType
<1>5. CASE Continue([prep EXCEPT !.todo = @ \ {c},
               !.owned = IF fileOwner[c] = prep.call.from THEN @ \cup {c} ELSE @])
  <2> DEFINE owned == IF fileOwner[c] = p.call.from THEN p.owned \cup {c} ELSE p.owned
  <2>1. [prep EXCEPT !.todo = @ \ {c},
           !.owned = IF fileOwner[c] = prep.call.from THEN @ \cup {c} ELSE @]
        = [p EXCEPT !.todo = p.todo \ {c}, !.owned = owned, !.blip = p.blip]
    BY <1>1, <1>2 DEF PrepFields
  <2>2. /\ owned \in SUBSET Cids
        /\ owned \cup {x \in p.todo \ {c} : fileOwner[x] = p.call.from}
           = p.owned \cup {x \in p.todo : fileOwner[x] = p.call.from}
    BY <1>2, <1>4
  <2> HIDE DEF owned
  <2> QED
    BY <1>2, <1>3, <1>5, <2>1, <2>2
<1>6. CASE Continue([prep EXCEPT !.todo = @ \ {c}, !.blip = TRUE])
  <2>1. [prep EXCEPT !.todo = @ \ {c}, !.blip = TRUE]
        = [p EXCEPT !.todo = p.todo \ {c}, !.owned = p.owned, !.blip = TRUE]
    BY <1>1, <1>2 DEF PrepFields
  <2> QED
    BY <1>3, <1>4, <1>6, <2>1
<1> QED
  BY <1>5, <1>6 DEF LookUpOwner

(* The first folder, coming up, with files of the sender is the nearest.   *)
LEMMA NearestFound ==
  ASSUME NEW u, NEW folder \in Seq(STRING), NEW at, LookingAt(u, folder, at),
         OwnedUnder(u, at) # {}
  PROVE  NearestFiles(u, folder) = OwnedUnder(u, at)
<1>1. PICK k \in 1..Len(folder) :
        /\ at = Prefix(folder, k)
        /\ \A n \in k + 1..Len(folder) : OwnedUnder(u, Prefix(folder, n)) = {}
  BY DEF LookingAt
<1> DEFINE levels == Levels(u, folder)
<1>2. k \in levels /\ levels \in SUBSET Nat
  BY <1>1 DEF Levels
<1>3. \A m \in levels : m <= k
  <2>1. ASSUME NEW m \in levels PROVE m \in 1..Len(folder) /\ m \notin k + 1..Len(folder)
    BY <1>1 DEF Levels
  <2> QED
    BY <1>1, <2>1
<1> HIDE DEF levels
<1>4. Deepest(levels) = k
  <2>1. /\ Deepest(levels) \in levels
        /\ \A m \in levels : m <= Deepest(levels)
    BY <1>2, <1>3 DEF Deepest
  <2>2. Deepest(levels) \in Nat /\ Deepest(levels) <= k /\ k <= Deepest(levels) /\ k \in Nat
    BY <1>2, <1>3, <2>1
  <2> QED
    BY <2>2
<1> QED
  BY <1>1, <1>2, <1>4 DEF NearestFiles, levels

(* A folder without files of the sender passes the question to the folder  *)
(* above; below the root there is nobody left to ask.                      *)
LEMMA ClimbUp ==
  ASSUME NEW u, NEW folder \in Seq(STRING), NEW at, LookingAt(u, folder, at),
         OwnedUnder(u, at) = {}
  PROVE  /\ Len(at) > 1 => LookingAt(u, folder, Parent(at))
         /\ ~(Len(at) > 1) => FolderShareSet(u, folder) = {}
<1>1. PICK k \in 1..Len(folder) :
        /\ at = Prefix(folder, k)
        /\ \A n \in k + 1..Len(folder) : OwnedUnder(u, Prefix(folder, n)) = {}
  BY DEF LookingAt
<1>2. Len(at) = k /\ k \in Nat /\ Len(folder) \in Nat
  BY <1>1, PrefixType
<1>3. ASSUME NEW n \in k..Len(folder) PROVE OwnedUnder(u, Prefix(folder, n)) = {}
  <2>1. n = k \/ n \in k + 1..Len(folder)
    BY <1>2
  <2> QED
    BY <1>1, <2>1
<1>4. ASSUME Len(at) > 1 PROVE LookingAt(u, folder, Parent(at))
  <2>1. k - 1 \in 1..Len(folder)
    BY <1>2, <1>4
  <2>2. Parent(at) = Prefix(folder, k - 1)
    BY <1>1, <1>2, <2>1, PrefixOfPrefix DEF Parent
  <2>3. (k - 1) + 1 = k
    BY <1>2
  <2> QED
    BY <1>3, <2>1, <2>2, <2>3 DEF LookingAt
<1>5. ASSUME ~(Len(at) > 1) PROVE FolderShareSet(u, folder) = {}
  <2>1. k = 1
    BY <1>2, <1>5
  <2>2. Levels(u, folder) = {}
    BY <1>3, <2>1 DEF Levels
  <2> QED
    BY <2>2 DEF FolderShareSet, NearestFiles
<1> QED
  BY <1>4, <1>5

(* A climb stops at the nearest folder with files, or goes on, or answers  *)
(* that nobody shares the folder.                                          *)
LEMMA ClimbKeeps ==
  ASSUME IInv, TxInv, Climb
  PROVE  TxInv'
<1>1. PICK p : p = prep
  OBVIOUS
<1>2. /\ PrepType(p) /\ PrepKnows(p) /\ p.phase = "owners" /\ p.phase \in Busy \ {"check"}
      /\ p.todo = {} /\ p.folder \in Seq(STRING) /\ p.call.op = "upload"
      /\ p.nonce <= nonce[p.call.from] /\ p.blip \in BOOLEAN
      /\ p.owned \in SUBSET Cids /\ p.files \in SUBSET (Cids \X (Paths \cup {NoPath}))
      /\ DOMAIN p = PrepFields
  BY <1>1 DEF TxInv, Climb, PrepType, PrepKnows, Busy
<1> DEFINE u == p.call.from
<1>3. p.nonce = nonce[u] /\ ~p.blip =>
        /\ FilesCurrent(u, p.files)
        /\ LookingAt(u, p.folder, p.at)
        /\ OwnedUnder(u, p.at) = p.owned
  BY <1>2 DEF PrepKnows
<1>4. CASE p.owned # {}
  <2> DEFINE r == [p EXCEPT !.phase = "lists", !.todo = p.owned, !.shared = Users]
  <2>1. /\ DOMAIN r = PrepFields /\ r.phase = "lists" /\ r.nonce = p.nonce
        /\ r.folder = p.folder /\ r.shared = Users /\ r.blip = p.blip /\ r.moved = p.moved
        /\ r.call = p.call /\ r.todo = p.owned /\ r.owned = p.owned
    BY <1>2 DEF PrepFields
  <2>2. Continue(r)
    BY <1>1, <1>4 DEF Climb
  <2> HIDE DEF r
  <2>3. PrepType(r)
    BY <1>2, <2>1 DEF PrepType, Busy
  <2>4. p.nonce = nonce[u] /\ ~p.blip => p.owned = NearestFiles(u, p.folder)
    BY <1>2, <1>3, <1>4, NearestFound
  <2>5. Users = {x \in Users : \A c \in p.owned \ p.owned : x \in SharedUsersOf(c)}
    OBVIOUS
  <2>6. PrepKnows(r)
    BY <1>2, <1>4, <2>1, <2>4, <2>5 DEF PrepKnows, Busy
  <2> QED
    BY <2>2, <2>3, <2>6, ContinueKeeps
<1>5. CASE p.owned = {} /\ Len(p.at) > 1
  <2>1. Continue(Look(p, Parent(p.at)))
    BY <1>1, <1>5 DEF Climb
  <2>2. p.nonce = nonce[u] /\ ~p.blip => LookingAt(u, p.folder, Parent(p.at))
    BY <1>2, <1>3, <1>5, ClimbUp
  <2>3. PrepType(Look(p, Parent(p.at))) /\ PrepKnows(Look(p, Parent(p.at)))
    BY <1>2, <1>3, <2>2, LookKnows
  <2> QED
    BY <2>1, <2>3, ContinueKeeps
<1>6. CASE p.owned = {} /\ ~(Len(p.at) > 1)
  <2>1. Answer({}, 0, p.blip)
    BY <1>1, <1>6 DEF Climb
  <2>2. p.nonce = nonce[p.call.from] /\ ~p.blip => {} = FolderShareSet(p.call.from, p.folder)
    BY <1>2, <1>3, <1>6, ClimbUp
  <2>3. p.call.op \notin {"grant", "revoke", "move", "delete", "clean"}
    BY <1>2
  <2> HIDE DEF u
  <2> QED
    BY ONLY <1>1, <1>2, <2>1, <2>2, <2>3, TxInv, EmptyIsTyped, AnsweredKeeps
<1> QED
  BY <1>4, <1>5, <1>6

(* After each list the users left are those in all lists read so far.      *)
LEMMA ReadRecipientsKeeps ==
  ASSUME TxInv, NEW c \in Cids, ReadRecipients(c)
  PROVE  TxInv'
<1>1. PICK p : p = prep
  OBVIOUS
<1>2. /\ PrepType(p) /\ PrepKnows(p) /\ p.phase = "lists" /\ c \in p.todo
      /\ DOMAIN p = PrepFields /\ p.blip \in BOOLEAN /\ p.shared \in SUBSET Users
      /\ p.todo \in SUBSET p.owned
  BY <1>1 DEF TxInv, ReadRecipients, PrepType
<1>3. ASSUME NEW shared \in SUBSET Users, NEW blip \in BOOLEAN,
             ~blip => ~p.blip /\ shared = p.shared \cap SharedUsersOf(c),
             Continue([p EXCEPT !.todo = p.todo \ {c}, !.shared = shared, !.blip = blip])
      PROVE  TxInv'
  <2> DEFINE r == [p EXCEPT !.todo = p.todo \ {c}, !.shared = shared, !.blip = blip]
  <2>1. /\ DOMAIN r = PrepFields /\ r.phase = p.phase /\ r.nonce = p.nonce
        /\ r.folder = p.folder /\ r.shared = shared /\ r.blip = blip /\ r.moved = p.moved
        /\ r.call = p.call /\ r.todo = p.todo \ {c} /\ r.owned = p.owned
    BY <1>2 DEF PrepFields
  <2>2. Continue(r)
    BY <1>3
  <2> HIDE DEF r
  <2>3. PrepType(r)
    BY <1>2, <2>1 DEF PrepType, Busy
  <2>4. p.owned \ (p.todo \ {c}) = (p.owned \ p.todo) \cup {c}
    BY <1>2
  <2>5. PrepKnows(r)
    BY <1>2, <1>3, <2>1, <2>4 DEF PrepKnows, Busy
  <2> QED
    BY <2>2, <2>3, <2>5, ContinueKeeps
<1>4. CASE Continue([prep EXCEPT !.todo = @ \ {c}, !.shared = @ \cap SharedUsersOf(c)])
  <2>1. [prep EXCEPT !.todo = @ \ {c}, !.shared = @ \cap SharedUsersOf(c)]
        = [p EXCEPT !.todo = p.todo \ {c}, !.shared = p.shared \cap SharedUsersOf(c),
                    !.blip = p.blip]
    BY <1>1, <1>2 DEF PrepFields
  <2> QED
    BY <1>2, <1>3, <1>4, <2>1
<1>5. CASE Continue([prep EXCEPT !.todo = @ \ {c}, !.shared = {}, !.blip = TRUE])
  <2>1. [prep EXCEPT !.todo = @ \ {c}, !.shared = {}, !.blip = TRUE]
        = [p EXCEPT !.todo = p.todo \ {c}, !.shared = {}, !.blip = TRUE]
    BY <1>1, <1>2 DEF PrepFields
  <2> QED
    BY <1>3, <1>5, <2>1
<1> QED
  BY <1>4, <1>5 DEF ReadRecipients

(* The grants prepared are those the folder calls for while the nonce of   *)
(* the upload is the sender's next, and then the second nonce read is the  *)
(* same.                                                                   *)
LEMMA PrepareGrantsKeeps ==
  ASSUME TxInv, PrepareGrants
  PROVE  TxInv'
<1>1. PICK p : p = prep
  OBVIOUS
<1>2. /\ PrepType(p) /\ PrepKnows(p) /\ p.phase = "lists" /\ p.phase \in Busy \ {"check"}
      /\ p.blip \in BOOLEAN /\ p.shared \in SUBSET Users /\ p.call.op = "upload"
      /\ p.todo = {} \/ p.shared = {}
      /\ p.call.from \in Users
  BY <1>1 DEF TxInv, PrepareGrants, PrepType, Busy, CallOK
<1>3. CASE Answer({}, 0, TRUE)
  BY ONLY <1>1, <1>2, <1>3, TxInv, EmptyIsTyped, AnsweredKeeps
<1>4. CASE Answer(prep.shared, nonce[prep.call.from], prep.blip)
  <2>1. Answer(p.shared, nonce[p.call.from], p.blip)
    BY <1>1, <1>4
  <2>2. nonce[p.call.from] \in Nat
    BY <1>2 DEF TxInv
  <2>3. p.nonce = nonce[p.call.from] /\ ~p.blip =>
          p.shared = FolderShareSet(p.call.from, p.folder)
    <3> SUFFICES ASSUME p.nonce = nonce[p.call.from], ~p.blip
                 PROVE  p.shared = FolderShareSet(p.call.from, p.folder)
      OBVIOUS
    <3>1. /\ p.owned # {} /\ p.owned = NearestFiles(p.call.from, p.folder)
          /\ p.shared = {x \in Users : \A c \in p.owned \ p.todo : x \in SharedUsersOf(c)}
      BY <1>2 DEF PrepKnows
    <3>2. FolderShareSet(p.call.from, p.folder)
          = {x \in Users : \A c \in p.owned : x \in SharedUsersOf(c)}
      BY <3>1 DEF FolderShareSet
    <3> QED
      BY <1>2, <3>1, <3>2
  <2>4. p.shared # {} => p.call.op = "upload"
    BY <1>2
  <2>5. p.call.op \notin {"grant", "revoke", "move", "delete", "clean"}
    BY <1>2
  <2> QED
    BY ONLY <1>1, <1>2, <2>1, <2>2, <2>3, <2>4, <2>5, TxInv, AnsweredKeeps
<1> QED
  BY <1>3, <1>4 DEF PrepareGrants

-----------------------------------------------------------------------------
(* Wallets and blocks.                                                     *)

(* The place of a recipient among the sorted ones is below their number.   *)
LEMMA PlaceType ==
  ASSUME NEW to \in SUBSET Users, NEW x \in to
  PROVE  /\ IsFiniteSet(to) /\ Cardinality(to) \in Nat
         /\ Place(x, to) \in Nat /\ Place(x, to) < Cardinality(to)
<1>1. IsFiniteSet(to) /\ Cardinality(to) \in Nat
  BY TransactionsAssumption, FS_Subset, FS_CardinalityType
<1> DEFINE S == {y \in to : Rank[y] < Rank[x]}
<1>2. S \in SUBSET to /\ x \notin S
  BY TransactionsAssumption
<1>3. /\ IsFiniteSet(S) /\ Cardinality(S) \in Nat /\ Cardinality(S) <= Cardinality(to)
      /\ Cardinality(to) # Cardinality(S)
  <2> HIDE DEF S
  <2> QED
    BY <1>1, <1>2, FS_Subset, FS_CardinalityType
<1>4. Place(x, to) = Cardinality(S)
  BY DEF Place
<1> HIDE DEF S
<1> QED
  BY <1>1, <1>3, <1>4

(* The grants behind an upload are well formed.                            *)
LEMMA GrantsType ==
  ASSUME NEW e, EntryType(e), NEW g \in Grants(e)
  PROVE  /\ EntryType(g) /\ EntryHolds(g)
         /\ g.call.from = e.call.from
<1>1. PICK x \in e.grants :
        g = Entry(Call(e.call.from, "grant", e.call.cids, x, 0, NoPaths),
                  NonceOfFirstGrant(e.base) + Place(x, e.grants))
  BY DEF Grants
<1>2. /\ e.grants \in SUBSET Users /\ e.base \in Nat /\ x \in Users
      /\ e.call.from \in Users /\ e.call.cids \in SUBSET Cids /\ e.call.cids # {}
  BY DEF EntryType, CallOK
<1> DEFINE t == Call(e.call.from, "grant", e.call.cids, x, 0, NoPaths)
           n == NonceOfFirstGrant(e.base) + Place(x, e.grants)
<1>3. n \in Nat
  BY <1>2, PlaceType DEF NonceOfFirstGrant
<1>4. CallOK(t) /\ t.from = e.call.from /\ t.cids # {} /\ t.op = "grant"
  BY <1>2 DEF CallOK, Call, Ops, Singles
<1> HIDE DEF t, n
<1>5. /\ g.nonce = n /\ g.folder = <<>> /\ g.call = t /\ g.blip = FALSE /\ g.moved = FALSE
      /\ g.grants = {} /\ g.base = 0 /\ g.behind = TRUE
  BY <1>1 DEF Entry, t, n
<1>6. EntryType(g)
  BY <1>3, <1>4, <1>5, EmptyIsTyped DEF EntryType
<1>7. EntryHolds(g)
  BY <1>4, <1>5 DEF EntryHolds
<1> QED
  BY <1>4, <1>5, <1>6, <1>7

(* What of a sender's is left in the wallet once their next nonce is used  *)
(* is a grant behind an upload.                                            *)
LEMMA LeftBehind ==
  ASSUME TxInv, NEW x, EntryType(x), EntryHolds(x), x.nonce > nonce[x.call.from]
  PROVE  EntryHolds(x)'
<1>1. x.nonce \in Nat /\ nonce[x.call.from] \in Nat
  BY DEF TxInv, EntryType, CallOK
<1>2. x.behind
  BY <1>1 DEF EntryHolds
<1>3. x.grants = {} /\ x.call.op = "grant"
  BY <1>2 DEF EntryType
<1> QED
  BY <1>2, <1>3 DEF EntryHolds

(* Mining uses up the sender's nonce, so that nothing is known any more of *)
(* what else the sender has waiting, and leaves everyone else's files      *)
(* alone.                                                                  *)
LEMMA MineTxKeeps ==
  ASSUME TypeOK, TxInv, NEW e \in wallet, MineTx(e)
  PROVE  TxInv'
<1> DEFINE u == e.call.from
<1>1. EntryType(e) /\ EntryHolds(e) /\ CallOK(e.call) /\ u \in Users /\ nonce[u] \in Nat
  BY DEF TxInv, EntryType, CallOK
<1>2. /\ nonce' = [nonce EXCEPT ![u] = @ + 1] /\ nonce' \in [Users -> Nat]
      /\ nonce'[u] = nonce[u] + 1
      /\ \A x \in Users : x # u => nonce'[x] = nonce[x]
  BY <1>1 DEF MineTx, TxInv
<1>3. PICK new \in {{}, Grants(e)} :
        /\ Effect(e.call) \/ UNCHANGED vars
        /\ wallet' = {x \in wallet \cup new : x.call.from = u => x.nonce >= nonce'[u]}
  BY DEF MineTx
<1>4. ASSUME NEW x \in Users, x # u PROVE Kept(x)
  <2>1. CASE Effect(e.call)
    BY <1>1, <1>4, <2>1, OthersKeep
  <2>2. CASE UNCHANGED vars
    BY <2>2, AloneKeeps DEF vars, fileVars, listVars
  <2> QED
    BY <1>3, <2>1, <2>2
<1>5. ASSUME NEW x \in wallet' PROVE EntryType(x) /\ EntryHolds(x)'
  <2>1. /\ x \in wallet \cup Grants(e)
        /\ x.call.from = u => x.nonce >= nonce[u] + 1
    BY <1>2, <1>3
  <2>2. EntryType(x) /\ EntryHolds(x)
    BY <1>1, <2>1, GrantsType DEF TxInv
  <2>3. x.call.from \in Users /\ x.nonce \in Nat
    BY <2>2 DEF EntryType, CallOK
  <2>4. CASE x.call.from = u
    <3>1. x.nonce > nonce[x.call.from]
      BY <1>1, <2>1, <2>3, <2>4
    <3> QED
      BY <2>2, <3>1, LeftBehind
  <2>5. CASE x.call.from # u
    BY <1>2, <1>4, <2>2, <2>3, <2>5, KeptEntry
  <2> QED
    BY <2>2, <2>4, <2>5
<1>6. PICK p : p = prep
  OBVIOUS
<1>7. PrepType(p) /\ PrepKnows(p) /\ DOMAIN p = PrepFields
  BY <1>6 DEF TxInv, PrepType
<1>8. p.phase \in Busy => CallOK(p.call) /\ p.call.from \in Users
  BY <1>7 DEF PrepType, CallOK
<1>9. \A r \in {prep'} : PrepType(r) /\ PrepKnows(r)'
  <2>1. CASE p.phase = "check" /\ p.call.from = u
    <3> DEFINE r == [p EXCEPT !.moved = TRUE]
    <3>1. /\ DOMAIN r = PrepFields /\ r.phase = p.phase /\ r.nonce = p.nonce
          /\ r.folder = p.folder /\ r.shared = p.shared /\ r.blip = p.blip /\ r.moved = TRUE
          /\ r.call = p.call /\ r.todo = p.todo /\ r.owned = p.owned
      BY <1>7 DEF PrepFields
    <3>2. prep' = r
      BY <1>6, <2>1 DEF MineTx
    <3> HIDE DEF r
    <3>3. PrepType(r)
      BY <1>7, <2>1, <3>1 DEF PrepType, Busy
    <3>4. PrepKnows(r)'
      BY <2>1, <3>1 DEF PrepKnows, Busy
    <3> QED
      BY <3>2, <3>3, <3>4
  <2>2. CASE p.phase # "check" /\ p.call.from = u
    <3>1. prep' = p
      BY <1>6, <2>2 DEF MineTx
    <3>2. p.phase \in Busy => p.nonce <= nonce[u] /\ p.nonce \in Nat
      BY <1>7, <2>2 DEF PrepKnows, PrepType
    <3>3. p.phase \in Busy => p.nonce < nonce'[p.call.from]
      BY <1>1, <1>2, <2>2, <3>2
    <3>4. p.phase \in Busy => p.nonce <= nonce'[p.call.from] /\ p.nonce # nonce'[p.call.from]
      BY <1>2, <1>1, <2>2, <3>2, <3>3
    <3>5. PrepKnows(p)'
      BY <2>2, <3>4 DEF PrepKnows, Busy
    <3> QED
      BY <1>7, <3>1, <3>5
  <2>3. CASE p.call.from # u
    <3>1. prep' = p
      BY <1>6, <2>3 DEF MineTx
    <3>2. p.phase \in Busy => Kept(p.call.from) /\ nonce'[p.call.from] = nonce[p.call.from]
      BY <1>2, <1>4, <1>8, <2>3
    <3>3. PrepKnows(p)'
      BY <1>7, <3>2, KeptPrep
    <3> QED
      BY <1>7, <3>1, <3>3
  <2> QED
    BY <2>1, <2>2, <2>3
<1> QED
  BY <1>2, <1>5, <1>9 DEF TxInv

(* A step that changes nothing a handler or an entry relies on.            *)
LEMMA QuietKeeps ==
  ASSUME TxInv, fileOwner' = fileOwner, fileMetadata' = fileMetadata,
         sharedUsers' = sharedUsers, nonce' = nonce, prep' = prep, wallet' \subseteq wallet
  PROVE  TxInv'
<1>1. \A u : Kept(u)
  BY AloneKeeps
<1>2. \A e \in wallet' : EntryType(e) /\ EntryHolds(e)'
  <2> SUFFICES ASSUME NEW e \in wallet' PROVE EntryType(e) /\ EntryHolds(e)'
    OBVIOUS
  <2>1. EntryType(e) /\ EntryHolds(e)
    BY DEF TxInv
  <2> QED
    BY <1>1, <2>1, KeptEntry
<1>3. \A r \in {prep'} : PrepType(r) /\ PrepKnows(r)'
  <2> SUFFICES ASSUME NEW r, r = prep' PROVE PrepType(r) /\ PrepKnows(r)'
    OBVIOUS
  <2>1. PrepType(r) /\ PrepKnows(r)
    BY DEF TxInv
  <2> QED
    BY <1>1, <2>1, KeptPrep
<1> QED
  BY <1>2, <1>3 DEF TxInv

-----------------------------------------------------------------------------
(* The invariant is inductive, and each step is one of the contract.       *)

(* The invariant holds at first.                                           *)
LEMMA TxInitInv == TxInit => Init /\ TxInv
<1> SUFFICES ASSUME TxInit PROVE TxInv
  BY DEF TxInit
<1>1. nonce \in [Users -> Nat] /\ wallet = {} /\ prep = Idle
  BY DEF TxInit
<1> QED
  BY <1>1, IdleKnows DEF TxInv

(* Every step of a handler keeps the invariant,                            *)
LEMMA HandlerStepKeeps ==
  ASSUME IInv, TxInv, HandlerStep
  PROVE  TxInv'
  BY ReadNonceKeeps, EstimateKeeps, RaiseKeeps, ReadFilesKeeps, ClimbKeeps, PrepareGrantsKeeps,
     CheckOwnerKeeps, LookUpOwnerKeeps, ReadRecipientsKeeps
     DEF HandlerStep

(* and so does every other step.                                           *)
LEMMA TxNextInv == IInv /\ TxInv /\ [TxNext]_txVars => TxInv'
<1> SUFFICES ASSUME IInv, TxInv, [TxNext]_txVars PROVE TxInv'
  OBVIOUS
<1>1. ASSUME NEW u \in Owners,
             ShareHandlers(u) \/ AnswerHandlers(u) \/ FileHandlers(u) \/ UploadHandlers(u)
      PROVE  TxInv'
  BY <1>1, TransactionsAssumption, ShareKeeps, AnswerKeeps, FileKeeps, UploadKeeps
<1>2. ASSUME NEW u \in Askers, AskHandlers(u) PROVE TxInv'
  BY <1>2, TransactionsAssumption, AskKeeps
<1>3. ASSUME NEW e \in wallet, MineTx(e) PROVE TxInv'
  BY <1>3, MineTxKeeps DEF IInv
<1>4. ASSUME NEW e \in wallet, Decline(e) PROVE TxInv'
  BY <1>4, QuietKeeps DEF Decline, vars, fileVars, listVars
<1>5. CASE MineBlock
  BY <1>5, QuietKeeps DEF MineBlock, Mine, fileVars, listVars
<1>6. CASE UNCHANGED txVars
  BY <1>6, QuietKeeps DEF txVars, vars, fileVars, listVars
<1> QED
  BY <1>1, <1>2, <1>3, <1>4, <1>5, <1>6, HandlerStepKeeps DEF TxNext

(* Each step is one of the contract or leaves it alone.                    *)
LEMMA TxNextIsNext == TypeOK /\ TxInv /\ [TxNext]_txVars => [Next]_vars
<1> SUFFICES ASSUME TypeOK, TxInv, [TxNext]_txVars PROVE [Next]_vars
  OBVIOUS
<1>1. \A r : Start(r) => UNCHANGED vars
  BY DEF Start
<1>2. ASSUME NEW u, ShareHandlers(u) \/ AnswerHandlers(u) \/ FileHandlers(u)
                    \/ UploadHandlers(u) \/ AskHandlers(u)
      PROVE  UNCHANGED vars
  BY <1>1, <1>2 DEF ShareHandlers, AnswerHandlers, FileHandlers, UploadHandlers, AskHandlers
<1>3. HandlerStep => UNCHANGED vars
  BY DEF HandlerStep, ReadNonce, Estimate, Raise, ReadFiles, Climb, PrepareGrants, CheckOwner,
         LookUpOwner, ReadRecipients, Proceed, Continue, Answer
<1>4. ASSUME NEW e \in wallet, MineTx(e) PROVE [Next]_vars
  <2>1. CallOK(e.call) /\ e.call.cids # {}
    BY DEF TxInv, EntryType
  <2>2. Effect(e.call) \/ UNCHANGED vars
    BY <1>4 DEF MineTx
  <2> QED
    BY <2>1, <2>2, EffectIsNext
<1>5. ASSUME NEW e \in wallet, Decline(e) PROVE UNCHANGED vars
  BY <1>5 DEF Decline
<1>6. MineBlock => Next
  BY DEF MineBlock, Next
<1>7. UNCHANGED txVars => UNCHANGED vars
  BY DEF txVars
<1> QED
  BY <1>2, <1>3, <1>4, <1>5, <1>6, <1>7 DEF TxNext

(* The invariant above, with that of the contract, holds in every state.   *)
THEOREM TxInvariant == TxSpec => [](IInv /\ TxInv)
<1>1. TxInit => IInv /\ TxInv
  BY TxInitInv, InductiveInit
<1>2. (IInv /\ TxInv) /\ [TxNext]_txVars => (IInv /\ TxInv)'
  <2>1. IInv => TypeOK
    BY DEF IInv
  <2> QED
    BY <2>1, TxNextInv, TxNextIsNext, InductiveNext
<1> QED
  BY <1>1, <1>2, PTL DEF TxSpec

(* Whatever the handlers prepare and the wallets mine, the chain makes     *)
(* only steps of the contract: what is proved of FileStorage holds here.   *)
THEOREM TransactionsRefineContract == TxSpec => Spec
<1>1. IInv /\ TxInv /\ [TxNext]_txVars => [Next]_vars
  BY TxNextIsNext DEF IInv
<1>2. TxInit => Init
  BY DEF TxInit
<1> QED
  BY <1>1, <1>2, TxInvariant, PTL DEF TxSpec, Spec

(* A folder delete that can still be mined removes what its sender owns in *)
(* the folder then: the list and the nonce were read without a transaction *)
(* of the sender's between them.                                           *)
THEOREM FolderDeleteCorrect == TxSpec => []FolderDeleteIsCurrent
<1>1. TxInv => FolderDeleteIsCurrent
  BY DEF TxInv, EntryHolds, FolderDeleteIsCurrent, InFolder
<1> QED
  BY <1>1, TxInvariant, PTL

(* Recipients have their places in the order of their addresses.           *)
LEMMA PlacesInOrder ==
  ASSUME NEW to \in SUBSET Users, NEW x \in to, NEW y \in to, Rank[x] < Rank[y]
  PROVE  Place(x, to) < Place(y, to)
<1> DEFINE S == {z \in to : Rank[z] < Rank[x]}
           T == {z \in to : Rank[z] < Rank[y]}
<1>1. S \in SUBSET T /\ x \in T /\ x \notin S
  <2>1. \A z \in to : Rank[z] \in Nat
    BY TransactionsAssumption
  <2> QED
    BY <2>1
<1>2. T \in SUBSET Users
  OBVIOUS
<1>3. Place(x, to) = Cardinality(S) /\ Place(y, to) = Cardinality(T)
  BY DEF Place
<1> HIDE DEF S, T
<1>4. IsFiniteSet(T) /\ IsFiniteSet(S) /\ Cardinality(S) \in Nat /\ Cardinality(T) \in Nat
  BY <1>1, <1>2, TransactionsAssumption, FS_Subset, FS_CardinalityType
<1>5. Cardinality(S) <= Cardinality(T) /\ Cardinality(T) # Cardinality(S)
  BY <1>1, <1>4, FS_Subset
<1> QED
  BY <1>3, <1>4, <1>5

(* The nonces of the grants behind an upload are those right behind it,    *)
(* each used once.                                                         *)
LEMMA GrantNonces ==
  ASSUME NEW e, EntryType(e), EntryHolds(e)
  PROVE  /\ \A g \in Grants(e) : g.nonce \in e.nonce + 1 .. e.nonce + Cardinality(e.grants)
         /\ Cardinality(Grants(e)) = Cardinality({g.nonce : g \in Grants(e)})
<1> DEFINE grant(x) == Entry(Call(e.call.from, "grant", e.call.cids, x, 0, NoPaths),
                             NonceOfFirstGrant(e.base) + Place(x, e.grants))
           S == Grants(e)
           N == {g.nonce : g \in S}
<1>1. e.grants \in SUBSET Users /\ e.nonce \in Nat /\ (e.grants # {} => e.base = e.nonce)
  BY DEF EntryType, EntryHolds
<1>2. S = {grant(x) : x \in e.grants}
  BY DEF Grants
<1>3. ASSUME NEW x \in e.grants
      PROVE  /\ grant(x).nonce = e.nonce + 1 + Place(x, e.grants)
             /\ Place(x, e.grants) \in Nat /\ Place(x, e.grants) < Cardinality(e.grants)
             /\ Cardinality(e.grants) \in Nat
  BY <1>1, <1>3, PlaceType DEF Entry, NonceOfFirstGrant
<1>4. \A g \in S : g.nonce \in e.nonce + 1 .. e.nonce + Cardinality(e.grants)
  <2> SUFFICES ASSUME NEW x \in e.grants
               PROVE  grant(x).nonce \in e.nonce + 1 .. e.nonce + Cardinality(e.grants)
    BY <1>2
  <2> HIDE DEF grant
  <2> QED
    BY <1>1, <1>3
<1>5. ASSUME NEW x \in e.grants, NEW y \in e.grants, grant(x).nonce = grant(y).nonce
      PROVE  x = y
  <2>1. Place(x, e.grants) = Place(y, e.grants)
    <3> HIDE DEF grant
    <3> QED
      BY <1>1, <1>3, <1>5
  <2>2. ~(Rank[x] < Rank[y]) /\ ~(Rank[y] < Rank[x])
    BY <1>1, <1>3, <2>1, PlacesInOrder
  <2>3. Rank[x] \in Nat /\ Rank[y] \in Nat /\ x \in Users /\ y \in Users
    BY <1>1, TransactionsAssumption
  <2> QED
    BY <2>2, <2>3, TransactionsAssumption
<1>6. \A g, h \in S : g.nonce = h.nonce => g = h
  <2> SUFFICES ASSUME NEW x \in e.grants, NEW y \in e.grants, grant(x).nonce = grant(y).nonce
               PROVE  grant(x) = grant(y)
    BY <1>2
  <2>1. x = y
    BY <1>5
  <2> HIDE DEF grant
  <2> QED
    BY <2>1
<1>7. IsFiniteSet(S)
  <2>1. IsFiniteSet(e.grants)
    BY <1>1, TransactionsAssumption, FS_Subset
  <2> DEFINE f == [x \in e.grants |-> grant(x)]
  <2>2. f \in Surjection(e.grants, S)
    <3> HIDE DEF grant
    <3> QED
      BY <1>2 DEF Surjection
  <2> HIDE DEF f
  <2> QED
    BY <2>1, <2>2, FS_Surjection
<1>8. Cardinality(N) = Cardinality(S)
  <2> DEFINE f == [g \in S |-> g.nonce]
  <2>1. f \in [S -> N] /\ (\A n \in N : \E g \in S : f[g] = n)
    OBVIOUS
  <2>2. \A g, h \in S : f[g] = f[h] => g = h
    BY <1>6
  <2>3. f \in Bijection(S, N)
    <3> HIDE DEF f, N
    <3> QED
      BY <2>1, <2>2 DEF Bijection, Injection, IsInjective, Surjection
  <2>4. ExistsBijection(S, N)
    BY <2>3 DEF ExistsBijection
  <2> HIDE DEF N
  <2> QED
    BY <1>7, <2>4, FS_Bijection
<1> QED
  BY <1>4, <1>8

(* An upload that can still be mined carries the grants its folder calls   *)
(* for at that moment, with the nonces right behind it.                    *)
THEOREM InheritedCorrect == TxSpec => []InheritedIsCurrent
<1>1. TxInv => InheritedIsCurrent
  <2> SUFFICES ASSUME TxInv, NEW e \in wallet, e.call.op = "upload", IsNext(e), ~e.blip
               PROVE  /\ e.grants = FolderShareSet(e.call.from, e.folder)
                      /\ \A g \in Grants(e) :
                           g.nonce \in e.nonce + 1 .. e.nonce + Cardinality(e.grants)
                      /\ Cardinality(Grants(e)) = Cardinality({g.nonce : g \in Grants(e)})
    BY DEF InheritedIsCurrent
  <2>1. EntryType(e) /\ EntryHolds(e)
    BY DEF TxInv
  <2>2. e.grants = FolderShareSet(e.call.from, e.folder)
    BY <2>1 DEF EntryHolds
  <2> QED
    BY <2>1, <2>2, GrantNonces
<1> QED
  BY <1>1, TxInvariant, PTL

-----------------------------------------------------------------------------
(* What waits does not revert.                                             *)

(* The bounds of the model leave room: no grant needs a second copy of an  *)
(* entry, and no deadline a number that a word of the contract cannot hold.*)
Room ==
  /\ MaxCopies >= 1
  /\ MaxBlock >= 1
  /\ \A d \in Durations \cup {0} : MaxBlock + d <= MaxUint

(* No block is mined beyond the bound of the model.                        *)
LEMMA BlocksBounded == Room => (Spec => [](block \in Nat /\ block <= MaxBlock))
<1> SUFFICES ASSUME Room PROVE Spec => [](block \in Nat /\ block <= MaxBlock)
  OBVIOUS
<1> DEFINE B == block \in Nat /\ block <= MaxBlock
<1>1. Init => B
  BY DEF Init, Room
<1>2. TypeOK /\ B /\ [Next]_vars => B'
  <2> SUFFICES ASSUME TypeOK, B, [Next]_vars PROVE B'
    OBVIOUS
  <2>1. CASE Mine
    BY <2>1, FileStorageAssumption DEF Mine
  <2>2. ASSUME NEW o \in Users, FileTx(o) \/ SharingTx(o) \/ RequestTx(o) PROVE block' = block
    <3>1. FileTx(o) => block' = block
      BY DEF FileTx, UploadFile, UploadFiles, UploadEach, MoveFile, MoveFiles, MoveEach,
             DeleteFile, CleanFolder, DeleteEach
    <3>2. SharingTx(o) => block' = block
      BY DEF SharingTx, Grant, GrantFiles, GrantWithExpiry, GrantWithExpiryFiles,
             Revoke, RevokeFiles, RevokeEach
    <3>3. RequestTx(o) => block' = block
      BY DEF RequestTx, RequestAccess, CancelRequest, ApproveRequest, DenyRequest
    <3> QED
      BY <2>2, <3>1, <3>2, <3>3
  <2>3. UNCHANGED vars => block' = block
    BY DEF vars
  <2> QED
    BY <2>1, <2>2, <2>3 DEF Next
<1> QED
  BY <1>1, <1>2, TypeCorrect, PTL DEF Spec

(* With room, whoever owns the files may grant them: nobody is listed      *)
(* twice, so the bound on copies never stands in the way.                  *)
LEMMA MayGrantIsOwner ==
  ASSUME Room, TypeOK, MirrorLists, ListedOnce, block <= MaxBlock,
         NEW t, CallOK(t), t.op = "grant", IsFileOwner(t.from, t.cids)
  PROVE  MayGrant(t)
<1>1. t.to \in Users /\ t.cids \in SUBSET Cids /\ t.dur \in Durations \cup {0}
  BY DEF CallOK
<1>2. block + t.dur <= MaxUint
  <2>1. MaxBlock + t.dur <= MaxUint
    BY <1>1 DEF Room
  <2>2. Durations \subseteq Nat /\ MaxBlock \in Nat /\ MaxUint \in Nat
    BY FileStorageAssumption
  <2>3. t.dur \in Nat
    <3>1. \A d \in Durations \cup {0} : d \in Nat
      BY <2>2
    <3> QED
      BY ONLY <1>1, <3>1
  <2>4. block \in Nat
    BY DEF TypeOK
  <2> QED
    BY <2>1, <2>2, <2>3, <2>4
<1>3. ASSUME NEW c \in t.cids, FirstGrant(c, t.to) PROVE sharedFiles[t.to][c] < MaxCopies
  <2>1. c \in Cids
    BY <1>1
  <2>2. sharedUsers[c][t.to] \in Nat /\ sharedUsers[c][t.to] <= 1 /\ sharedUsers[c][t.to] # 1
    BY <1>1, <1>3, <2>1 DEF TypeOK, ListedOnce, FirstGrant
  <2>3. sharedFiles[t.to][c] = 0
    BY <1>1, <2>1, <2>2 DEF MirrorLists
  <2> QED
    BY <2>3, FileStorageAssumption DEF Room
<1> QED
  BY <1>2, <1>3 DEF MayGrant

(* Unless a caller passes the mask 0, a prepared call whose turn has come  *)
(* succeeds, but for a grant behind an upload that was undone meanwhile.   *)
THEOREM PreparedCorrect == NoZeroMask /\ Room => (TxSpec => []PreparedSucceeds)
<1> SUFFICES ASSUME NoZeroMask, Room PROVE TxSpec => []PreparedSucceeds
  OBVIOUS
<1>1. IInv /\ TxInv /\ ListedOnce /\ block <= MaxBlock => PreparedSucceeds
  <2> SUFFICES ASSUME IInv, TxInv, ListedOnce, block <= MaxBlock, NEW e \in wallet,
                      e.call.op \in {"grant", "revoke", "move", "clean", "delete"}, IsNext(e)
               PROVE  Succeeds(e.call) \/ (e.behind /\ ~IsFileOwner(e.call.from, e.call.cids))
    BY DEF PreparedSucceeds
  <2>1. EntryType(e) /\ EntryHolds(e) /\ CallOK(e.call) /\ TypeOK /\ MirrorLists
    BY DEF TxInv, EntryType, IInv
  <2>2. CASE e.call.op = "clean"
    BY <2>2 DEF Succeeds
  <2>3. CASE e.call.op \in {"revoke", "move", "delete"}
    <3>1. ~e.behind
      BY <2>1, <2>3 DEF EntryType
    <3>2. IsFileOwner(e.call.from, e.call.cids)
      BY <2>1, <2>3, <3>1 DEF EntryHolds
    <3> QED
      BY <2>3, <3>2 DEF Succeeds
  <2>4. CASE e.call.op = "grant"
    <3>1. ~e.behind => IsFileOwner(e.call.from, e.call.cids)
      BY <2>1, <2>4 DEF EntryHolds
    <3>2. IsFileOwner(e.call.from, e.call.cids) => Succeeds(e.call)
      BY <2>1, <2>4, MayGrantIsOwner DEF Succeeds
    <3>3. e.behind \in BOOLEAN
      BY <2>1 DEF EntryType
    <3> QED
      BY <3>1, <3>2, <3>3
  <2> QED
    BY <2>2, <2>3, <2>4
<1> QED
  BY <1>1, TxInvariant, TransactionsRefineContract, ListedOnceCorrect, BlocksBounded, PTL

(* Half of what makes an estimate exact: a call that has its effect passed *)
(* every require that Succeeds lists, so none that would work is refused.  *)
THEOREM EffectNeedsSuccess ==
  ASSUME NEW t, CallOK(t), Effect(t)
  PROVE  Succeeds(t)
<1>1. t.op \in Singles => \A c \in t.cids : t.cids = {c}
  BY DEF CallOK
<1>2. CASE t.op = "upload" /\ UploadFiles(t.from, t.cids, t.path)
  BY <1>2 DEF UploadFiles, UploadEach, Succeeds
<1>3. CASE t.op = "move" /\ MoveFiles(t.from, t.cids, t.path)
  BY <1>3 DEF MoveFiles, MoveEach, Succeeds
<1>4. CASE t.op = "clean"
  BY <1>4 DEF Succeeds
<1>5. CASE t.op = "grant" /\ t.dur = 0 /\ GrantFiles(t.from, t.cids, t.to, ShareMask)
  BY <1>5 DEF GrantFiles, GrantEach, Succeeds, MayGrant
<1>6. CASE t.op = "grant" /\ GrantWithExpiryFiles(t.from, t.cids, t.to, ShareMask, t.dur)
  BY <1>6 DEF GrantWithExpiryFiles, GrantEach, Succeeds, MayGrant
<1>7. CASE t.op = "revoke" /\ RevokeFiles(t.from, t.cids, t.to, ShareMask)
  BY <1>7 DEF RevokeFiles, RevokeEach, Succeeds
<1>8. ASSUME NEW c \in t.cids, t.op = "delete", DeleteFile(t.from, c) PROVE Succeeds(t)
  BY <1>1, <1>8 DEF DeleteFile, Singles, Succeeds
<1>9. ASSUME NEW c \in t.cids, t.op = "request", RequestAccess(t.from, c, t.dur)
       PROVE  Succeeds(t)
  <2>1. MayAsk(t.from, c) /\ t.dur > 0
    BY <1>9 DEF RequestAccess, MayAsk
  <2> QED
    BY <1>1, <1>9, <2>1 DEF Singles, Succeeds
<1>10. ASSUME NEW c \in t.cids, t.op = "cancel", CancelRequest(t.from, c) PROVE Succeeds(t)
  BY <1>1, <1>10 DEF CancelRequest, Resolve, IsPending, Singles, Succeeds
<1>11. ASSUME NEW c \in t.cids, t.op = "approve",
              ApproveRequest(t.from, c, t.to, ShareMask, t.dur)
       PROVE  Succeeds(t)
  <2>1. t.cids = {c}
    BY <1>1, <1>11 DEF Singles
  <2>2. MayGrant(t) /\ IsPending(t.cids, t.to) /\ t.dur > 0
    BY <1>11, <2>1 DEF ApproveRequest, GrantEach, Resolve, MayGrant, IsPending
  <2> QED
    BY <1>11, <2>2 DEF Succeeds
<1>12. ASSUME NEW c \in t.cids, t.op = "deny", DenyRequest(t.from, c, t.to)
       PROVE  Succeeds(t)
  BY <1>1, <1>12 DEF DenyRequest, Resolve, IsPending, Singles, Succeeds
<1> QED
  BY <1>2, <1>3, <1>4, <1>5, <1>6, <1>7, <1>8, <1>9, <1>10, <1>11, <1>12 DEF Effect

(* The rows of a folder are right for every list of cids, of any length    *)
(* and in any order, in every state of the contract.                       *)
THEOREM FolderRowsAlwaysCorrect ==
  Spec => [](\A o \in Users, cids \in Seq(Cids) : RowsAreRight(o, cids))
<1>1. TypeOK => \A o \in Users, cids \in Seq(Cids) : RowsAreRight(o, cids)
  BY RowsAlwaysRight
<1> QED
  BY <1>1, TypeCorrect, PTL

(* In particular those of every folder of two files.                       *)
THEOREM FolderRowsCorrect == Spec => []FolderRowsAreRight
<1>1. (\A o \in Users, cids \in Seq(Cids) : RowsAreRight(o, cids)) => FolderRowsAreRight
  <2>1. ASSUME NEW cids \in [1..2 -> Cids] PROVE cids \in Seq(Cids)
    BY SeqDef
  <2> QED
    BY <2>1 DEF FolderRowsAreRight
<1> QED
  BY <1>1, FolderRowsAlwaysCorrect, PTL
===========================================================================
