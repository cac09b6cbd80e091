---------------------------- MODULE PendingQueue ----------------------------
(***************************************************************************)
(* The array-and-index bookkeeping of the contract's open requests         *)
(* (_ownerPending, _pendingIndex, _addPending, _removePending), which      *)
(* FileStorage abstracts to sets.  A removal moves the last key of the     *)
(* owner's array into the freed slot and renumbers it.                     *)
(*                                                                         *)
(* deleteFile removes the keys of all askers in one transaction.  Its loop *)
(* is unrolled here, one step per asker; deleting holds the cid and the    *)
(* askers that are left, and no other transaction runs meanwhile.          *)
(***************************************************************************)
EXTENDS Integers, Sequences

CONSTANTS Users, Cids, NoOwner, NoCid

ASSUME PendingQueueAssumption == NoOwner \notin Users /\ NoCid \notin Cids

VARIABLES
  fileOwner,    \* cid -> owner
  status,       \* cid -> user -> "None", "Pending" or "Resolved"
  requesters,   \* cid -> sequence of users, in the order of their first ask
  list,         \* owner -> sequence of keys
  slot,         \* key -> position in its owner's sequence, 0 when absent
  deleting      \* the delete in progress

Keys == Cids \X Users
vars == <<fileOwner, status, requesters, list, slot, deleting>>

Idle == [cid |-> NoCid, left |-> <<>>]

TypeOK ==
  /\ fileOwner \in [Cids -> Users \cup {NoOwner}]
  /\ status \in [Cids -> [Users -> {"None", "Pending", "Resolved"}]]
  /\ requesters \in [Cids -> Seq(Users)]
  /\ list \in [Users -> Seq(Keys)]
  /\ slot \in [Keys -> Nat]
  /\ deleting \in [cid : Cids \cup {NoCid}, left : Seq(Users)]

Init ==
  /\ fileOwner = [c \in Cids |-> NoOwner]
  /\ status = [c \in Cids |-> [u \in Users |-> "None"]]
  /\ requesters = [c \in Cids |-> <<>>]
  /\ list = [u \in Users |-> <<>>]
  /\ slot = [k \in Keys |-> 0]
  /\ deleting = Idle

AddPending(o, k) ==
  IF slot[k] # 0 THEN UNCHANGED <<list, slot>>
  ELSE /\ list' = [list EXCEPT ![o] = Append(@, k)]
       /\ slot' = [slot EXCEPT ![k] = Len(list[o]) + 1]

(* Mutant: the entry is zeroed in place.                                   *)
DeleteInPlace(q, i) == [q EXCEPT ![i] = <<NoCid, NoOwner>>]

(* q without its i-th element: the last one moves into its place.          *)
SwapPop(q, i) == SubSeq([q EXCEPT ![i] = q[Len(q)]], 1, Len(q) - 1)

(* Mutant: the key that moves into the freed slot keeps its old number.    *)
MovedKeepsNumber(o, k) == [slot EXCEPT ![k] = 0]

(* The numbers after k left the array of o: the last key takes k's place.  *)
Renumbered(o, k) ==
  LET last == list[o][Len(list[o])] IN [slot EXCEPT ![last] = slot[k], ![k] = 0]

(* An empty array (list.length - 1) and a slot beyond its end revert.      *)
RemovePending(o, k) ==
  IF slot[k] = 0 THEN UNCHANGED <<list, slot>>
  ELSE /\ slot[k] <= Len(list[o])
       /\ list' = [list EXCEPT ![o] = SwapPop(@, slot[k])]
       /\ slot' = Renumbered(o, k)

-----------------------------------------------------------------------------
NoTransaction == deleting = Idle

UploadFile(o, c) ==
  /\ NoTransaction
  /\ fileOwner[c] = NoOwner
  /\ fileOwner' = [fileOwner EXCEPT ![c] = o]
  /\ UNCHANGED <<status, requesters, list, slot, deleting>>

(* The gates on lapsed access are left to FileStorage: whoever passes them *)
(* may ask.  The array of askers grows on the first ask only.              *)
RequestAccess(u, c) ==
  /\ NoTransaction
  /\ fileOwner[c] \notin {NoOwner, u}
  /\ status[c][u] # "Pending"
  /\ requesters' = IF status[c][u] = "None"
                   THEN [requesters EXCEPT ![c] = Append(@, u)] ELSE requesters
  /\ status' = [status EXCEPT ![c][u] = "Pending"]
  /\ AddPending(fileOwner[c], <<c, u>>)
  /\ UNCHANGED <<fileOwner, deleting>>

(* cancelRequest, approveRequest and denyRequest: the array is that of the *)
(* file's owner in each of them.                                           *)
ResolveRequest(u, c) ==
  /\ NoTransaction
  /\ status[c][u] = "Pending"
  /\ status' = [status EXCEPT ![c][u] = "Resolved"]
  /\ RemovePending(fileOwner[c], <<c, u>>)
  /\ UNCHANGED <<fileOwner, requesters, deleting>>

(* Mutant: the askers that the loop walks lack the first one.              *)
AskersButFirst(c) == IF requesters[c] = <<>> THEN <<>> ELSE Tail(requesters[c])

Askers(c) == requesters[c]

StartDelete(c) ==
  /\ NoTransaction
  /\ fileOwner[c] # NoOwner
  /\ deleting' = [cid |-> c, left |-> Askers(c)]
  /\ UNCHANGED <<fileOwner, status, requesters, list, slot>>

DeleteAsker ==
  /\ deleting.left # <<>>
  /\ LET c == deleting.cid
         u == Head(deleting.left)
     IN /\ RemovePending(fileOwner[c], <<c, u>>)
        /\ status' = [status EXCEPT ![c][u] = "None"]
  /\ deleting' = [deleting EXCEPT !.left = Tail(@)]
  /\ UNCHANGED <<fileOwner, requesters>>

FinishDelete ==
  /\ ~NoTransaction
  /\ deleting.left = <<>>
  /\ requesters' = [requesters EXCEPT ![deleting.cid] = <<>>]
  /\ fileOwner' = [fileOwner EXCEPT ![deleting.cid] = NoOwner]
  /\ deleting' = Idle
  /\ UNCHANGED <<status, list, slot>>

Next ==
  \/ \E c \in Cids : StartDelete(c)
  \/ \E c \in Cids, u \in Users : UploadFile(u, c) \/ RequestAccess(u, c) \/ ResolveRequest(u, c)
  \/ DeleteAsker
  \/ FinishDelete

(* A transaction that has begun runs to its end.                           *)
Spec == Init /\ [][Next]_vars /\ WF_vars(DeleteAsker \/ FinishDelete)

-----------------------------------------------------------------------------
(* Slot numbers and arrays are inverse to each other, in the array of the  *)
(* file's owner, and a key has a slot exactly while its request is pending,*)
(* also between two steps of a delete: no key is in two places, none is    *)
(* lost when another is swapped into its slot, and no removal takes        *)
(* another requester's key.                                                *)
SlotsExact ==
  /\ \A o \in Users : \A i \in 1..Len(list[o]) :
       slot[list[o][i]] = i /\ fileOwner[list[o][i][1]] = o
  /\ \A k \in Keys : slot[k] # 0 =>
       /\ fileOwner[k[1]] \in Users
       /\ slot[k] \in 1..Len(list[fileOwner[k[1]]])
       /\ list[fileOwner[k[1]]][slot[k]] = k
  /\ \A c \in Cids, u \in Users : slot[<<c, u>>] # 0 <=> status[c][u] = "Pending"

(* A delete runs to its end: no removal in it underflows and reverts, which*)
(* would make the file undeletable for good.                               *)
DeletesFinish == ~NoTransaction ~> NoTransaction

(* The queue implements PendingSet; its owner's view of the set is the     *)
(* array that getPendingRequests returns.                                  *)
PS == INSTANCE PendingSet WITH open <- {k \in Keys : slot[k] # 0}
ImplementsPendingSet == PS!Spec
=============================================================================
