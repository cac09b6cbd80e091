------------------------- MODULE PendingQueueProofs -------------------------
(***************************************************************************)
(* What holds of the arrays and slot numbers of the open requests for any  *)
(* number of users and cids, between transactions and in the middle of a   *)
(* delete: they are inverse to each other, and they implement a set.       *)
(***************************************************************************)
EXTENDS PendingQueue, TLAPS

(* The array of o and the slot numbers are inverse to each other.          *)
Inverse ==
  /\ \A o \in Users : \A i \in 1..Len(list[o]) :
       slot[list[o][i]] = i /\ fileOwner[list[o][i][1]] = o
  /\ \A k \in Keys : slot[k] # 0 =>
       /\ fileOwner[k[1]] \in Users
       /\ slot[k] \in 1..Len(list[fileOwner[k[1]]])
       /\ list[fileOwner[k[1]]][slot[k]] = k

Numbered == \A k \in Keys : slot[k] # 0 <=> status[k[1]][k[2]] = "Pending"

Among(u, s) == \E i \in 1..Len(s) : s[i] = u

(* Who has a request on record is among the askers, and while a cid is     *)
(* deleted among those whose turn is still to come.                        *)
OnRecord ==
  /\ \A c \in Cids, u \in Users : status[c][u] # "None" =>
       Among(u, IF deleting.cid = c THEN deleting.left ELSE requesters[c])
  /\ deleting.cid \in Cids => fileOwner[deleting.cid] \in Users
  /\ deleting.cid = NoCid => deleting.left = <<>>

IInv == TypeOK /\ Inverse /\ Numbered /\ OnRecord

-----------------------------------------------------------------------------
(* Removing by swapping: what is left, and where.                          *)
LEMMA SwapPopFacts ==
  ASSUME NEW S, NEW q \in Seq(S), NEW i \in 1..Len(q)
  PROVE  /\ SwapPop(q, i) \in Seq(S)
         /\ Len(SwapPop(q, i)) = Len(q) - 1
         /\ \A j \in 1..(Len(q) - 1) : SwapPop(q, i)[j] = IF j = i THEN q[Len(q)] ELSE q[j]
<1> DEFINE r == [q EXCEPT ![i] = q[Len(q)]]
<1>1. r \in Seq(S) /\ Len(r) = Len(q)
      /\ \A j \in 1..Len(q) : r[j] = IF j = i THEN q[Len(q)] ELSE q[j]
  OBVIOUS
<1> HIDE DEF r
<1>2. Len(q) \in Nat /\ Len(q) >= 1
  OBVIOUS
<1>3. SubSeq(r, 1, Len(q) - 1) \in Seq(S) /\ Len(SubSeq(r, 1, Len(q) - 1)) = Len(q) - 1
      /\ \A j \in 1..(Len(q) - 1) : SubSeq(r, 1, Len(q) - 1)[j] = r[j]
  BY <1>1, <1>2
<1>4. SwapPop(q, i) = SubSeq(r, 1, Len(q) - 1)
  BY DEF SwapPop, r
<1> QED
  BY <1>1, <1>2, <1>3, <1>4

(* A removal keeps arrays and slots inverse, never reverts, and takes away *)
(* its own key only.                                                       *)
LEMMA RemoveFacts ==
  ASSUME TypeOK, Inverse, NEW k \in Keys, RemovePending(fileOwner[k[1]], k), UNCHANGED fileOwner
  PROVE  /\ list' \in [Users -> Seq(Keys)]
         /\ slot' \in [Keys -> Nat]
         /\ Inverse'
         /\ slot'[k] = 0
         /\ \A j \in Keys : j # k => (slot'[j] # 0 <=> slot[j] # 0)
<1>1. CASE slot[k] = 0
  BY <1>1 DEF RemovePending, TypeOK, Inverse
<1>2. CASE slot[k] # 0
  <2> DEFINE o == fileOwner[k[1]]
             q == list[o]
             i == slot[k]
             n == Len(q)
             last == q[n]
             p == SwapPop(q, i)
  <2>1. o \in Users /\ i \in 1..n /\ q[i] = k /\ q \in Seq(Keys) /\ n \in Nat /\ last \in Keys
    BY <1>2 DEF Inverse, TypeOK
  <2>2. /\ p \in Seq(Keys) /\ Len(p) = n - 1
        /\ \A j \in 1..(n - 1) : p[j] = IF j = i THEN last ELSE q[j]
    <3> HIDE DEF q, i, o
    <3> QED
      BY <2>1, SwapPopFacts
  <2>3. list' = [list EXCEPT ![o] = p] /\ slot' = [slot EXCEPT ![last] = i, ![k] = 0]
    BY <1>2 DEF RemovePending, Renumbered
  <2>4. slot[last] = n /\ fileOwner[last[1]] = o
    BY <2>1 DEF Inverse
  <2> HIDE DEF o, q, i, n, last, p
  <2>5. list' \in [Users -> Seq(Keys)] /\ slot' \in [Keys -> Nat]
    BY <2>1, <2>2, <2>3 DEF TypeOK
  <2>6. slot'[k] = 0 /\ (last # k => slot'[last] = i)
        /\ \A j \in Keys : j # k /\ j # last => slot'[j] = slot[j]
    BY <2>1, <2>3 DEF TypeOK
  <2>7. list'[o] = p /\ \A v \in Users : v # o => list'[v] = list[v]
    BY <2>1, <2>3 DEF TypeOK
  <2>8. ASSUME NEW v \in Users, NEW m \in 1..Len(list'[v])
        PROVE  slot'[list'[v][m]] = m /\ fileOwner[list'[v][m][1]] = v
    <3>1. CASE v # o
      <4>1. list'[v][m] \in Keys /\ slot[list'[v][m]] = m /\ fileOwner[list'[v][m][1]] = v
        BY <2>7, <2>8, <3>1 DEF Inverse, TypeOK
      <4>2. fileOwner[k[1]] = o
        BY DEF o
      <4> QED
        BY <2>4, <2>6, <3>1, <4>1, <4>2
    <3>2. CASE v = o
      <4>1. m \in 1..(n - 1) /\ list'[v][m] = IF m = i THEN last ELSE q[m]
        BY <2>2, <2>7, <3>2
      <4>2. CASE m = i
        <5>1. last # k
          BY <2>1, <2>4, <4>1, <4>2 DEF i
        <5> QED
          BY <2>4, <2>6, <3>2, <4>1, <4>2, <5>1
      <4>3. CASE m # i
        <5>1. q[m] \in Keys /\ slot[q[m]] = m /\ fileOwner[q[m][1]] = o
          BY <2>1, <4>1 DEF Inverse, q, n
        <5>2. q[m] # k /\ q[m] # last
          BY <2>1, <2>4, <4>1, <4>3, <5>1 DEF i
        <5> QED
          BY <2>6, <3>2, <4>1, <4>3, <5>1, <5>2
      <4> QED
        BY <4>2, <4>3
    <3> QED
      BY <3>1, <3>2
  <2>9. ASSUME NEW j \in Keys, slot'[j] # 0
        PROVE  /\ fileOwner[j[1]] \in Users
               /\ slot'[j] \in 1..Len(list'[fileOwner[j[1]]])
               /\ list'[fileOwner[j[1]]][slot'[j]] = j
    <3>1. j # k
      BY <2>6, <2>9
    <3>2. CASE j = last
      <4>1. i # n
        BY <2>1, <3>1, <3>2 DEF last
      <4>2. i \in 1..(n - 1)
        BY <2>1, <4>1
      <4> QED
        BY <2>1, <2>2, <2>4, <2>6, <2>7, <3>1, <3>2, <4>2
    <3>3. CASE j # last
      <4>1. /\ slot'[j] = slot[j] /\ fileOwner[j[1]] \in Users
            /\ slot[j] \in 1..Len(list[fileOwner[j[1]]])
            /\ list[fileOwner[j[1]]][slot[j]] = j
        BY <2>6, <2>9, <3>1, <3>3 DEF Inverse
      <4>2. CASE fileOwner[j[1]] # o
        BY <2>7, <4>1, <4>2
      <4>3. CASE fileOwner[j[1]] = o
        <5>1. slot[j] \in 1..n /\ q[slot[j]] = j
          BY <4>1, <4>3 DEF q, n
        <5>2. slot[j] # n /\ slot[j] # i
          BY <2>1, <3>1, <3>3, <5>1 DEF last
        <5>3. slot[j] \in 1..(n - 1)
          BY <2>1, <5>1, <5>2
        <5> QED
          BY <2>2, <2>7, <4>1, <4>3, <5>1, <5>2, <5>3
      <4> QED
        BY <4>2, <4>3
    <3> QED
      BY <3>2, <3>3
  <2>10. Inverse'
    BY <2>8, <2>9 DEF Inverse
  <2>11. \A j \in Keys : j # k => (slot'[j] # 0 <=> slot[j] # 0)
    BY <2>1, <2>4, <2>6
  <2> QED
    BY <2>5, <2>6, <2>10, <2>11
<1> QED
  BY <1>1, <1>2

(* A new request goes to the end of the array.                             *)
LEMMA AddFacts ==
  ASSUME TypeOK, Inverse, NEW k \in Keys, fileOwner[k[1]] \in Users,
         AddPending(fileOwner[k[1]], k), UNCHANGED fileOwner
  PROVE  /\ list' \in [Users -> Seq(Keys)]
         /\ slot' \in [Keys -> Nat]
         /\ Inverse'
         /\ slot'[k] # 0
         /\ \A j \in Keys : j # k => slot'[j] = slot[j]
<1>1. CASE slot[k] # 0
  BY <1>1 DEF AddPending, TypeOK, Inverse
<1>2. CASE slot[k] = 0
  <2> DEFINE o == fileOwner[k[1]]
             q == list[o]
             n == Len(q)
             p == Append(q, k)
  <2>1. o \in Users /\ q \in Seq(Keys) /\ n \in Nat
    BY DEF TypeOK
  <2>2. p \in Seq(Keys) /\ Len(p) = n + 1 /\ \A j \in 1..(n + 1) : p[j] = IF j = n + 1 THEN k ELSE q[j]
    <3> HIDE DEF q, o
    <3> QED
      BY <2>1
  <2>3. list' = [list EXCEPT ![o] = p] /\ slot' = [slot EXCEPT ![k] = n + 1]
    BY <1>2 DEF AddPending
  <2> HIDE DEF o, q, n, p
  <2>4. list' \in [Users -> Seq(Keys)] /\ slot' \in [Keys -> Nat]
    BY <2>1, <2>2, <2>3 DEF TypeOK
  <2>5. slot'[k] = n + 1 /\ \A j \in Keys : j # k => slot'[j] = slot[j]
    BY <2>1, <2>3 DEF TypeOK
  <2>6. list'[o] = p /\ \A v \in Users : v # o => list'[v] = list[v]
    BY <2>1, <2>3 DEF TypeOK
  <2>7. ASSUME NEW v \in Users, NEW m \in 1..Len(list'[v])
        PROVE  slot'[list'[v][m]] = m /\ fileOwner[list'[v][m][1]] = v
    <3>1. CASE v = o /\ m = n + 1
      BY <2>1, <2>2, <2>5, <2>6, <3>1 DEF o
    <3>2. CASE ~(v = o /\ m = n + 1)
      <4>1. m \in 1..Len(list[v]) /\ list'[v][m] = list[v][m]
        BY <2>1, <2>2, <2>6, <2>7, <3>2 DEF n, q
      <4>2. list[v][m] \in Keys /\ slot[list[v][m]] = m /\ fileOwner[list[v][m][1]] = v
        BY <4>1 DEF Inverse, TypeOK
      <4>3. list[v][m] # k
        BY <1>2, <4>1, <4>2
      <4> QED
        BY <2>5, <4>1, <4>2, <4>3
    <3> QED
      BY <3>1, <3>2
  <2>8. ASSUME NEW j \in Keys, slot'[j] # 0
        PROVE  /\ fileOwner[j[1]] \in Users
               /\ slot'[j] \in 1..Len(list'[fileOwner[j[1]]])
               /\ list'[fileOwner[j[1]]][slot'[j]] = j
    <3>1. CASE j = k
      BY <2>1, <2>2, <2>5, <2>6, <3>1 DEF o
    <3>2. CASE j # k
      <4>1. /\ slot'[j] = slot[j] /\ fileOwner[j[1]] \in Users
            /\ slot[j] \in 1..Len(list[fileOwner[j[1]]])
            /\ list[fileOwner[j[1]]][slot[j]] = j
        BY <2>5, <2>8, <3>2 DEF Inverse
      <4>2. CASE fileOwner[j[1]] # o
        BY <2>6, <4>1, <4>2
      <4>3. CASE fileOwner[j[1]] = o
        <5>1. slot[j] \in 1..n /\ q[slot[j]] = j
          BY <4>1, <4>3 DEF q, n
        <5> QED
          BY <2>1, <2>2, <2>6, <4>1, <4>3, <5>1
      <4> QED
        BY <4>2, <4>3
    <3> QED
      BY <3>1, <3>2
  <2>9. Inverse'
    BY <2>7, <2>8 DEF Inverse
  <2> QED
    BY <2>1, <2>4, <2>5, <2>9
<1> QED
  BY <1>1, <1>2

-----------------------------------------------------------------------------
(* What is in an array is a key with a slot.                               *)
LEMMA ListedKeys ==
  ASSUME TypeOK, Inverse, NEW o \in Users, NEW i \in 1..Len(list[o])
  PROVE  list[o][i] \in Keys /\ slot[list[o][i]] # 0 /\ list[o][i][1] \in Cids
BY DEF Inverse, TypeOK, Keys

LEMMA InitInv == Init => IInv
<1> SUFFICES ASSUME Init PROVE IInv
  OBVIOUS
<1> USE PendingQueueAssumption DEF Init, Idle, Keys
<1>1. TypeOK
  BY DEF TypeOK
<1>2. Inverse
  BY DEF Inverse
<1>3. Numbered
  BY DEF Numbered
<1>4. OnRecord
  BY DEF OnRecord
<1> QED
  BY <1>1, <1>2, <1>3, <1>4 DEF IInv

(* A new file has no requests yet.                                         *)
LEMMA UploadKeeps ==
  ASSUME IInv, NEW u \in Users, NEW c \in Cids, UploadFile(u, c)
  PROVE  IInv'
<1> USE DEF IInv, UploadFile
<1>1. TypeOK'
  BY DEF TypeOK
<1>2. ASSUME NEW k \in Keys, slot[k] # 0 PROVE k[1] # c
  BY <1>2, PendingQueueAssumption DEF Inverse
<1>3. \A o \in Users : \A i \in 1..Len(list[o]) :
        list[o][i] \in Keys /\ slot[list[o][i]] # 0 /\ list[o][i][1] \in Cids
  BY ListedKeys
<1>4. Inverse'
  BY <1>2, <1>3 DEF Inverse, TypeOK
<1>5. Numbered'
  BY DEF Numbered
<1>6. OnRecord'
  BY PendingQueueAssumption DEF OnRecord, NoTransaction, Idle, TypeOK
<1> QED
  BY <1>1, <1>4, <1>5, <1>6

(* The first ask adds the asker, every ask a key.                          *)
LEMMA RequestKeeps ==
  ASSUME IInv, NEW u \in Users, NEW c \in Cids, RequestAccess(u, c)
  PROVE  IInv'
<1> USE DEF IInv
<1> DEFINE k == <<c, u>>
<1>1. k \in Keys /\ k[1] = c /\ k[2] = u /\ fileOwner[c] \in Users
  BY DEF Keys, RequestAccess, TypeOK
<1>2. AddPending(fileOwner[k[1]], k) /\ UNCHANGED fileOwner
  BY <1>1 DEF RequestAccess
<1>3. /\ list' \in [Users -> Seq(Keys)] /\ slot' \in [Keys -> Nat] /\ Inverse'
      /\ slot'[k] # 0 /\ \A j \in Keys : j # k => slot'[j] = slot[j]
  BY <1>1, <1>2, AddFacts
<1>4. status' = [status EXCEPT ![c][u] = "Pending"]
  BY DEF RequestAccess
<1>5. requesters' \in [Cids -> Seq(Users)]
  BY DEF RequestAccess, TypeOK
<1>6. TypeOK'
  BY <1>3, <1>4, <1>5 DEF TypeOK, RequestAccess
<1>7. Numbered'
  <2>1. ASSUME NEW j \in Keys PROVE slot'[j] # 0 <=> status'[j[1]][j[2]] = "Pending"
    <3>1. j = <<j[1], j[2]>> /\ j[1] \in Cids /\ j[2] \in Users
      BY DEF Keys
    <3>2. CASE j = k
      BY <1>1, <1>3, <1>4, <3>2 DEF TypeOK
    <3>3. CASE j # k
      <4>1. status'[j[1]][j[2]] = status[j[1]][j[2]]
        BY <1>4, <3>1, <3>3 DEF TypeOK
      <4>2. slot'[j] # 0 <=> slot[j] # 0
        BY <1>3, <3>3
      <4> QED
        BY <4>1, <4>2 DEF Numbered
    <3> QED
      BY <3>2, <3>3
  <2> QED
    BY <2>1 DEF Numbered
<1>8. OnRecord'
  <2>1. deleting.cid = NoCid /\ deleting.left = <<>> /\ UNCHANGED deleting /\ NoCid \notin Cids
    BY PendingQueueAssumption DEF RequestAccess, NoTransaction, Idle
  <2>2. ASSUME NEW d \in Cids, NEW v \in Users, status'[d][v] # "None"
        PROVE  Among(v, requesters'[d])
    <3>1. CASE d = c /\ v = u /\ status[c][u] = "None"
      <4>1. requesters'[c] = Append(requesters[c], u) /\ requesters[c] \in Seq(Users)
        BY <3>1 DEF RequestAccess, TypeOK
      <4> QED
        BY <3>1, <4>1 DEF Among
    <3>2. CASE ~(d = c /\ v = u /\ status[c][u] = "None")
      <4>1. status[d][v] # "None"
        BY <1>4, <2>2, <3>2 DEF TypeOK
      <4>2. Among(v, requesters[d])
        BY <2>1, <4>1 DEF OnRecord
      <4>3. requesters'[d] = requesters[d] \/ requesters'[d] = Append(requesters[d], u)
        BY DEF RequestAccess, TypeOK
      <4>4. PICK i \in 1..Len(requesters[d]) : requesters[d][i] = v
        BY <4>2 DEF Among
      <4>5. requesters[d] \in Seq(Users)
        BY DEF TypeOK
      <4>6. i \in 1..Len(requesters'[d]) /\ requesters'[d][i] = v
        BY <4>3, <4>4, <4>5
      <4> QED
        BY <4>6 DEF Among
    <3> QED
      BY <3>1, <3>2
  <2> QED
    BY <2>1, <2>2 DEF OnRecord
<1> QED
  BY <1>3, <1>6, <1>7, <1>8

(* Resolving takes the key away, by whoever and however.                   *)
LEMMA ResolveKeeps ==
  ASSUME IInv, NEW u \in Users, NEW c \in Cids, ResolveRequest(u, c)
  PROVE  IInv'
<1> USE DEF IInv
<1> DEFINE k == <<c, u>>
<1>1. k \in Keys /\ k[1] = c /\ k[2] = u
  BY DEF Keys
<1>2. RemovePending(fileOwner[k[1]], k) /\ UNCHANGED fileOwner
  BY <1>1 DEF ResolveRequest
<1>3. /\ list' \in [Users -> Seq(Keys)] /\ slot' \in [Keys -> Nat] /\ Inverse'
      /\ slot'[k] = 0 /\ \A j \in Keys : j # k => (slot'[j] # 0 <=> slot[j] # 0)
  BY <1>1, <1>2, RemoveFacts
<1>4. status' = [status EXCEPT ![c][u] = "Resolved"]
  BY DEF ResolveRequest
<1>5. TypeOK'
  BY <1>3, <1>4 DEF TypeOK, ResolveRequest
<1>6. Numbered'
  <2>1. ASSUME NEW j \in Keys PROVE slot'[j] # 0 <=> status'[j[1]][j[2]] = "Pending"
    <3>1. j = <<j[1], j[2]>> /\ j[1] \in Cids /\ j[2] \in Users
      BY DEF Keys
    <3>2. CASE j = k
      BY <1>1, <1>3, <1>4, <3>2 DEF TypeOK
    <3>3. CASE j # k
      <4>1. status'[j[1]][j[2]] = status[j[1]][j[2]]
        BY <1>4, <3>1, <3>3 DEF TypeOK
      <4>2. slot'[j] # 0 <=> slot[j] # 0
        BY <1>3, <3>3
      <4> QED
        BY <4>1, <4>2 DEF Numbered
    <3> QED
      BY <3>2, <3>3
  <2> QED
    BY <2>1 DEF Numbered
<1>7. OnRecord'
  BY <1>4 DEF OnRecord, ResolveRequest, TypeOK
<1> QED
  BY <1>3, <1>5, <1>6, <1>7

(* A delete walks the askers, and those are all that have a request.       *)
LEMMA StartKeeps ==
  ASSUME IInv, NEW c \in Cids, StartDelete(c)
  PROVE  IInv'
<1> USE DEF IInv, StartDelete, Askers
<1>1. TypeOK'
  BY DEF TypeOK
<1>2. Inverse' /\ Numbered'
  BY DEF Inverse, Numbered
<1>3. OnRecord'
  <2>1. deleting.cid = NoCid /\ deleting'.cid = c /\ deleting'.left = requesters[c] /\ NoCid \notin Cids
    BY PendingQueueAssumption DEF NoTransaction, Idle, TypeOK
  <2>2. fileOwner[c] \in Users
    BY DEF TypeOK
  <2> QED
    BY <2>1, <2>2 DEF OnRecord
<1> QED
  BY <1>1, <1>2, <1>3

LEMMA AskerKeeps ==
  ASSUME IInv, DeleteAsker
  PROVE  IInv'
<1> USE DEF IInv
<1> DEFINE c == deleting.cid
           u == Head(deleting.left)
           k == <<c, u>>
<1>1. c \in Cids /\ u \in Users /\ deleting.left \in Seq(Users)
  BY DEF DeleteAsker, OnRecord, TypeOK
<1>2. k \in Keys /\ k[1] = c /\ k[2] = u
  BY <1>1 DEF Keys
<1>3. RemovePending(fileOwner[k[1]], k) /\ UNCHANGED fileOwner
  BY DEF DeleteAsker
<1>4. /\ list' \in [Users -> Seq(Keys)] /\ slot' \in [Keys -> Nat] /\ Inverse'
      /\ slot'[k] = 0 /\ \A j \in Keys : j # k => (slot'[j] # 0 <=> slot[j] # 0)
  BY <1>2, <1>3, RemoveFacts
<1>5. status' = [status EXCEPT ![c][u] = "None"]
  BY DEF DeleteAsker
<1>6. /\ deleting' = [deleting EXCEPT !.left = Tail(deleting.left)]
      /\ deleting'.cid = c /\ deleting'.left = Tail(deleting.left) /\ UNCHANGED requesters
  BY DEF DeleteAsker, TypeOK
<1>7. Tail(deleting.left) \in Seq(Users)
  BY <1>1 DEF DeleteAsker
<1> HIDE DEF c, u
<1>8. TypeOK'
  BY <1>1, <1>3, <1>4, <1>5, <1>6, <1>7 DEF TypeOK
<1>9. Numbered'
  <2>1. ASSUME NEW j \in Keys PROVE slot'[j] # 0 <=> status'[j[1]][j[2]] = "Pending"
    <3>1. j = <<j[1], j[2]>> /\ j[1] \in Cids /\ j[2] \in Users
      BY DEF Keys
    <3>2. CASE j = k
      BY <1>1, <1>2, <1>4, <1>5, <3>2 DEF TypeOK
    <3>3. CASE j # k
      <4>1. status'[j[1]][j[2]] = status[j[1]][j[2]]
        BY <1>1, <1>5, <3>1, <3>3 DEF TypeOK
      <4>2. slot'[j] # 0 <=> slot[j] # 0
        BY <1>4, <3>3
      <4> QED
        BY <4>1, <4>2 DEF Numbered
    <3> QED
      BY <3>2, <3>3
  <2> QED
    BY <2>1 DEF Numbered
<1>10. OnRecord'
  <2>1. ASSUME NEW d \in Cids, NEW v \in Users, status'[d][v] # "None"
        PROVE  Among(v, IF c = d THEN Tail(deleting.left) ELSE requesters[d])
    <3>1. status[d][v] # "None" /\ ~(d = c /\ v = u)
      BY <1>1, <1>5, <2>1 DEF TypeOK
    <3>2. Among(v, IF c = d THEN deleting.left ELSE requesters[d])
      BY <3>1 DEF OnRecord, c
    <3>3. CASE c # d
      BY <3>2, <3>3
    <3>4. CASE c = d
      <4>1. PICK i \in 1..Len(deleting.left) : deleting.left[i] = v
        BY <3>2, <3>4 DEF Among
      <4>2. i # 1
        BY <1>1, <3>1, <3>4, <4>1 DEF u
      <4>3. i - 1 \in 1..Len(Tail(deleting.left)) /\ Tail(deleting.left)[i - 1] = v
        BY <1>1, <4>1, <4>2
      <4> QED
        BY <3>4, <4>3 DEF Among
    <3> QED
      BY <3>3, <3>4
  <2>2. fileOwner'[c] \in Users /\ c # NoCid
    BY <1>1, <1>3, PendingQueueAssumption DEF OnRecord, c
  <2> QED
    BY <1>1, <1>6, <2>1, <2>2 DEF OnRecord
<1> QED
  BY <1>4, <1>8, <1>9, <1>10

(* At the end of a delete nothing about the file is on record.             *)
LEMMA FinishFacts ==
  ASSUME IInv, FinishDelete
  PROVE  /\ deleting.cid \in Cids
         /\ fileOwner[deleting.cid] \in Users
         /\ \A u \in Users : status[deleting.cid][u] = "None" /\ slot[<<deleting.cid, u>>] = 0
<1> DEFINE c == deleting.cid
<1>1. c \in Cids /\ deleting.left = <<>>
  <2>1. deleting \in [cid : Cids \cup {NoCid}, left : Seq(Users)] /\ deleting # Idle /\ deleting.left = <<>>
    BY DEF IInv, TypeOK, FinishDelete, NoTransaction
  <2>2. deleting.cid # NoCid
    BY <2>1 DEF Idle
  <2> QED
    BY <2>1, <2>2
<1>2. \A u \in Users : status[c][u] = "None"
  BY <1>1 DEF IInv, OnRecord, Among
<1>3. ASSUME NEW u \in Users PROVE slot[<<c, u>>] = 0
  <2>1. <<c, u>> \in Keys /\ <<c, u>>[1] = c /\ <<c, u>>[2] = u
    BY <1>1 DEF Keys
  <2>2. status[c][u] # "Pending"
    BY <1>2
  <2> QED
    BY <2>1, <2>2 DEF IInv, Numbered
<1> QED
  BY <1>1, <1>2, <1>3 DEF IInv, OnRecord

LEMMA FinishKeeps ==
  ASSUME IInv, FinishDelete
  PROVE  IInv'
<1> USE DEF IInv, FinishDelete
<1> DEFINE c == deleting.cid
<1>1. /\ c \in Cids /\ fileOwner[c] \in Users
      /\ \A u \in Users : status[c][u] = "None" /\ slot[<<c, u>>] = 0
  BY FinishFacts
<1>2. TypeOK'
  BY <1>1 DEF TypeOK, Idle
<1>3. ASSUME NEW k \in Keys, slot[k] # 0 PROVE k[1] # c
  BY <1>1, <1>3 DEF Keys
<1>4. \A o \in Users : \A i \in 1..Len(list[o]) :
        list[o][i] \in Keys /\ slot[list[o][i]] # 0 /\ list[o][i][1] \in Cids
  BY ListedKeys
<1>5. fileOwner' = [fileOwner EXCEPT ![c] = NoOwner]
  OBVIOUS
<1> HIDE DEF c
<1>6. \A d \in Cids : d # c => fileOwner'[d] = fileOwner[d]
  BY <1>5 DEF TypeOK
<1>7. Inverse'
  <2>1. ASSUME NEW o \in Users, NEW i \in 1..Len(list[o])
        PROVE  slot[list[o][i]] = i /\ fileOwner'[list[o][i][1]] = o
    BY <1>3, <1>4, <1>6 DEF Inverse
  <2>2. ASSUME NEW k \in Keys, slot[k] # 0
        PROVE  /\ fileOwner'[k[1]] \in Users
               /\ slot[k] \in 1..Len(list[fileOwner'[k[1]]])
               /\ list[fileOwner'[k[1]]][slot[k]] = k
    <3>1. fileOwner'[k[1]] = fileOwner[k[1]]
      BY <1>3, <1>6, <2>2 DEF Keys
    <3> QED
      BY <2>2, <3>1 DEF Inverse
  <2> QED
    BY <2>1, <2>2 DEF Inverse
<1>8. Numbered'
  BY DEF Numbered
<1>9. OnRecord'
  <2>1. deleting'.cid = NoCid /\ deleting'.left = <<>> /\ NoCid \notin Cids
    BY PendingQueueAssumption DEF Idle
  <2>2. ASSUME NEW d \in Cids, NEW v \in Users, status[d][v] # "None" PROVE Among(v, requesters'[d])
    <3>1. d # c
      BY <1>1, <2>2
    <3>2. requesters'[d] = requesters[d]
      BY <3>1 DEF TypeOK, c
    <3> QED
      BY <2>2, <3>1, <3>2 DEF OnRecord, c
  <2> QED
    BY <2>1, <2>2 DEF OnRecord
<1> QED
  BY <1>2, <1>7, <1>8, <1>9

LEMMA NextKeeps == IInv /\ [Next]_vars => IInv'
<1> SUFFICES ASSUME IInv, [Next]_vars PROVE IInv'
  OBVIOUS
<1>1. CASE UNCHANGED vars
  BY <1>1 DEF vars, IInv, TypeOK, Inverse, Numbered, OnRecord
<1> QED
  BY <1>1, UploadKeeps, RequestKeeps, ResolveKeeps, StartKeeps, AskerKeeps, FinishKeeps DEF Next

(* Every value of the queue's state stays in its type.                     *)
THEOREM TypeCorrect == Spec => []TypeOK
<1>1. IInv => TypeOK
  BY DEF IInv
<1> QED
  BY <1>1, InitInv, NextKeeps, PTL DEF Spec

(* Arrays and slot numbers stay inverse, in the array of the file's owner, *)
(* and a key has a slot exactly while its request is pending (the five     *)
(* callers of _addPending and _removePending).                             *)
THEOREM SlotsCorrect == Spec => []SlotsExact
<1>1. IInv => SlotsExact
  <2> SUFFICES ASSUME IInv PROVE SlotsExact
    OBVIOUS
  <2>1. ASSUME NEW c \in Cids, NEW u \in Users PROVE slot[<<c, u>>] # 0 <=> status[c][u] = "Pending"
    <3>1. <<c, u>> \in Keys /\ <<c, u>>[1] = c /\ <<c, u>>[2] = u
      BY DEF Keys
    <3> QED
      BY <3>1 DEF IInv, Numbered
  <2> QED
    BY <2>1 DEF IInv, Inverse, SlotsExact
<1> QED
  BY <1>1, InitInv, NextKeeps, PTL DEF Spec

-----------------------------------------------------------------------------
(* The queue implements the set.                                           *)

OpenKeys == {k \in Keys : slot[k] # 0}

LEMMA InitMaps == Init => PS!Init
BY DEF Init, PS!Init, Keys

LEMMA RequestMaps ==
  ASSUME IInv, NEW u \in Users, NEW c \in Cids, RequestAccess(u, c)
  PROVE  PS!Open(u, c)
<1> DEFINE k == <<c, u>>
<1>1. k \in Keys /\ k[1] = c /\ k[2] = u /\ fileOwner[c] \in Users
  BY DEF Keys, RequestAccess, IInv, TypeOK
<1>2. AddPending(fileOwner[k[1]], k) /\ UNCHANGED fileOwner
  BY <1>1 DEF RequestAccess
<1>3. slot'[k] # 0 /\ \A j \in Keys : j # k => slot'[j] = slot[j]
  BY <1>1, <1>2, AddFacts DEF IInv
<1>4. slot[k] = 0
  BY <1>1 DEF RequestAccess, IInv, Numbered
<1>5. OpenKeys' = OpenKeys \cup {k}
  BY <1>1, <1>3 DEF OpenKeys
<1>6. k \notin OpenKeys
  BY <1>4 DEF OpenKeys
<1>7. fileOwner[c] \notin {NoOwner, u} /\ UNCHANGED fileOwner
  BY DEF RequestAccess
<1> QED
  BY <1>5, <1>6, <1>7 DEF PS!Open, OpenKeys

(* A removal closes its key, or finds it closed.                           *)
LEMMA RemoveMaps ==
  ASSUME IInv, NEW c \in Cids, NEW u \in Users,
         RemovePending(fileOwner[c], <<c, u>>), UNCHANGED fileOwner
  PROVE  PS!Close(u, c) \/ UNCHANGED PS!vars
<1> DEFINE k == <<c, u>>
<1>1. k \in Keys /\ k[1] = c
  BY DEF Keys
<1>2. slot'[k] = 0 /\ \A j \in Keys : j # k => (slot'[j] # 0 <=> slot[j] # 0)
  BY <1>1, RemoveFacts DEF IInv
<1>3. OpenKeys' = OpenKeys \ {k}
  BY <1>1, <1>2 DEF OpenKeys
<1>4. CASE k \in OpenKeys
  BY <1>3, <1>4 DEF PS!Close, OpenKeys
<1>5. CASE k \notin OpenKeys
  <2>1. OpenKeys' = OpenKeys
    BY <1>3, <1>5
  <2> QED
    BY <2>1 DEF PS!vars, OpenKeys
<1> QED
  BY <1>4, <1>5

LEMMA NextMaps == IInv /\ [Next]_vars => [PS!Next]_(PS!vars)
<1> SUFFICES ASSUME IInv, [Next]_vars PROVE PS!Next \/ UNCHANGED PS!vars
  OBVIOUS
<1>1. CASE UNCHANGED vars
  BY <1>1 DEF vars, PS!vars
<1>2. ASSUME NEW c \in Cids, StartDelete(c) PROVE UNCHANGED PS!vars
  BY <1>2 DEF StartDelete, PS!vars
<1>3. ASSUME NEW c \in Cids, NEW u \in Users, UploadFile(u, c) PROVE PS!Next
  BY <1>3 DEF UploadFile, PS!Register, PS!Next
<1>4. ASSUME NEW c \in Cids, NEW u \in Users, RequestAccess(u, c) PROVE PS!Next
  BY <1>4, RequestMaps DEF PS!Next
<1>5. ASSUME NEW c \in Cids, NEW u \in Users, ResolveRequest(u, c) PROVE PS!Next \/ UNCHANGED PS!vars
  BY <1>5, RemoveMaps DEF ResolveRequest, PS!Next
<1>6. CASE DeleteAsker
  <2> DEFINE c == deleting.cid
             u == Head(deleting.left)
  <2>1. c \in Cids /\ u \in Users
    BY <1>6 DEF DeleteAsker, IInv, OnRecord, TypeOK
  <2>2. RemovePending(fileOwner[c], <<c, u>>) /\ UNCHANGED fileOwner
    BY <1>6 DEF DeleteAsker
  <2> HIDE DEF c, u
  <2> QED
    BY <2>1, <2>2, RemoveMaps DEF PS!Next
<1>7. CASE FinishDelete
  <2> DEFINE c == deleting.cid
  <2>1. c \in Cids /\ fileOwner[c] \in Users /\ \A u \in Users : slot[<<c, u>>] = 0
    BY <1>7, FinishFacts
  <2>2. fileOwner' = [fileOwner EXCEPT ![c] = NoOwner] /\ UNCHANGED slot
    BY <1>7 DEF FinishDelete
  <2>3. fileOwner[c] # NoOwner
    BY <2>1, PendingQueueAssumption
  <2> HIDE DEF c
  <2>4. PS!Unregister(c)
    BY <2>1, <2>2, <2>3 DEF PS!Unregister
  <2> QED
    BY <2>1, <2>4 DEF PS!Next
<1> QED
  BY <1>1, <1>2, <1>3, <1>4, <1>5, <1>6, <1>7 DEF Next

(* Arrays and slots implement the set of open requests: each transaction   *)
(* registers a file, opens or closes one request, or removes a file that   *)
(* has none open, and so does each step inside a delete.                   *)
THEOREM QueueImplementsSet == Spec => ImplementsPendingSet
<1>1. Init => PS!Init
  BY InitMaps
<1>2. IInv /\ [Next]_vars => [PS!Next]_(PS!vars)
  BY NextMaps
<1> QED
  BY <1>1, <1>2, InitInv, NextKeeps, PTL DEF Spec, ImplementsPendingSet, PS!Spec
=============================================================================
