----------------------------- MODULE PendingSet -----------------------------
(***************************************************************************)
(* What the queue of open requests promises: a set of open keys, of which  *)
(* each owner sees those about the owner's files.  PendingQueue implements *)
(* it with one array per owner and a slot number per key.                  *)
(***************************************************************************)
EXTENDS Integers

CONSTANTS Users, Cids, NoOwner

VARIABLES
  fileOwner,    \* cid -> owner
  open          \* keys <<cid, requester>> with an open request

vars == <<fileOwner, open>>

Init == fileOwner = [c \in Cids |-> NoOwner] /\ open = {}

Visible(o) == {k \in open : fileOwner[k[1]] = o}

Register(o, c) ==
  /\ fileOwner[c] = NoOwner
  /\ fileOwner' = [fileOwner EXCEPT ![c] = o]
  /\ UNCHANGED open

Open(u, c) ==
  /\ fileOwner[c] \notin {NoOwner, u}
  /\ <<c, u>> \notin open
  /\ open' = open \cup {<<c, u>>}
  /\ UNCHANGED fileOwner

Close(u, c) ==
  /\ <<c, u>> \in open
  /\ open' = open \ {<<c, u>>}
  /\ UNCHANGED fileOwner

(* A file goes only when nothing about it is open.                         *)
Unregister(c) ==
  /\ fileOwner[c] # NoOwner
  /\ \A u \in Users : <<c, u>> \notin open
  /\ fileOwner' = [fileOwner EXCEPT ![c] = NoOwner]
  /\ UNCHANGED open

Next == \E c \in Cids : Unregister(c) \/ \E u \in Users : Register(u, c) \/ Open(u, c) \/ Close(u, c)

Spec == Init /\ [][Next]_vars
=============================================================================
