---------------------------- MODULE SealedFiles ----------------------------
(***************************************************************************)
(* The files that the server makes for itself, and what rests on them: the *)
(* secret that signs login tokens (security.py, routers/auth.py), the      *)
(* master key of the stored files (filecrypto.py) and the thumbnails       *)
(* (routers/download.py).  Each is opened, which leaves it empty, and then *)
(* written; the process may end between any two steps, and writing may     *)
(* fail.  A key cut short anywhere stands for an empty one.                *)
(*                                                                         *)
(* Uploads run in threads.  The handlers of thumbnails share one event     *)
(* loop, which a save keeps busy; a file is sent by a thread beside it.    *)
(***************************************************************************)
EXTENDS Integers, FiniteSets

CONSTANTS
  Threads,    \* of the pool, sealing or opening content
  Requests,   \* for the thumbnail of one file
  Values,     \* that may be drawn at random
  Missing,    \* there is no such file, or nothing in memory yet
  Empty,      \* opened for writing and not written
  Nobody,     \* holds the lock, keeps the event loop busy
  TTL,        \* AUTH_TOKEN_TTL
  MaxAge,     \* AUTH_MESSAGE_MAX_AGE
  MaxTime,    \* bound of the model: the last time
  MaxTokens   \* bound of the model: tokens that have been issued

ASSUME SealedFilesAssumption ==
  /\ Missing # Empty /\ {Missing, Empty} \cap Values = {}
  /\ Nobody \notin Threads \cup Requests
  /\ TTL \in Nat /\ MaxAge \in Nat /\ MaxTime \in Nat /\ MaxTokens \in Nat

VARIABLES
  file,       \* what is on the disk: the secret, the key, the thumbnail
  boot,       \* how far the process is, and the secret it has drawn
  secret,     \* AUTH_SECRET
  key,        \* _key
  lock,       \* holder of _key_lock
  thread,     \* thread -> step of _master_key, and the key it has drawn
  sealed,     \* keys that stored content is sealed with
  now, tokens,
  loop,       \* the request whose save keeps the event loop busy
  request,    \* request -> step, and how its last answer ended
  cut         \* history: what a crash or a failed write left half written

loginVars == <<boot, secret, now, tokens>>
keyVars   == <<key, lock, thread, sealed>>
thumbVars == <<loop, request>>
vars == <<file, loginVars, keyVars, thumbVars, cut>>

Contents == Values \cup {Missing, Empty}
IdleThread  == [at |-> "idle", drawn |-> Missing]
IdleRequest == [at |-> "idle", broken |-> FALSE, overtaken |-> FALSE]

Init ==
  /\ file = [secret |-> Missing, key |-> Missing, thumb |-> "missing"]
  /\ boot = [at |-> "down", drawn |-> Missing]
  /\ secret = Missing /\ key = Missing
  /\ lock = Nobody /\ thread = [t \in Threads |-> IdleThread]
  /\ sealed = {}
  /\ now = 0 /\ tokens = {}
  /\ loop = Nobody /\ request = [q \in Requests |-> IdleRequest]
  /\ cut = {}

Up == boot.at = "up"

(* The process ends; Python keeps nothing but the files.                   *)
Crash ==
  /\ boot' = [at |-> "down", drawn |-> Missing]
  /\ secret' = Missing /\ key' = Missing
  /\ lock' = Nobody /\ thread' = [t \in Threads |-> IdleThread]
  /\ loop' = Nobody /\ request' = [q \in Requests |-> IdleRequest]
  /\ cut' = cut \cup (IF file.key = Empty THEN {"key"} ELSE {})
                \cup (IF loop # Nobody THEN {"thumb"} ELSE {})
  /\ UNCHANGED <<file, sealed, now, tokens>>

-----------------------------------------------------------------------------
(* Login: _load_auth_secret when the module is imported, and tokens.       *)

Boot(at, drawn) == boot' = [at |-> at, drawn |-> drawn]

InUse == {file.secret} \cup {t.secret : t \in tokens}

LoadSecret ==
  /\ boot.at = "down"
  /\ IF file.secret # Missing
     THEN secret' = file.secret /\ Boot("up", Missing)
     ELSE /\ \E s \in Values \ InUse : Boot("open", s)
          /\ UNCHANGED secret
  /\ UNCHANGED <<file, now, tokens, keyVars, thumbVars, cut>>

(* Mutant: the new secret is used before it is written.                    *)
UseUnwrittenSecret ==
  /\ boot.at = "open"
  /\ secret' = boot.drawn /\ Boot("up", Missing)
  /\ UNCHANGED <<file, now, tokens, keyVars, thumbVars, cut>>

SaveSecret ==
  /\ \/ boot.at = "open" /\ file' = [file EXCEPT !.secret = Empty]
        /\ Boot("write", boot.drawn) /\ UNCHANGED secret
     \/ boot.at = "write" /\ file' = [file EXCEPT !.secret = boot.drawn]
        /\ Boot("up", Missing) /\ secret' = boot.drawn
  /\ UNCHANGED <<now, tokens, keyVars, thumbVars, cut>>

Tick == now < MaxTime /\ now' = now + 1
        /\ UNCHANGED <<file, boot, secret, tokens, keyVars, thumbVars, cut>>

(* Mutant: the age of the signed message is not looked at.                 *)
IssueForAnyMessage(signed) ==
  /\ Up /\ Cardinality(tokens) < MaxTokens
  /\ tokens' = tokens \cup {[secret |-> secret, signed |-> signed, expiry |-> now + TTL]}
  /\ UNCHANGED <<file, boot, secret, now, keyVars, thumbVars, cut>>

(* The message says when it was signed, by the clock of the wallet.        *)
IssueToken(signed) ==
  /\ Up /\ Cardinality(tokens) < MaxTokens
  /\ signed - now \in -MaxAge .. MaxAge
  /\ tokens' = tokens \cup {[secret |-> secret, signed |-> signed, expiry |-> now + TTL]}
  /\ UNCHANGED <<file, boot, secret, now, keyVars, thumbVars, cut>>

VerifyToken(t) == t.secret = secret /\ t.expiry >= now

-----------------------------------------------------------------------------
(* The master key: checked, checked again under the lock, read or drawn,   *)
(* and published last.                                                     *)

Thread(t, at, drawn) == thread' = [thread EXCEPT ![t] = [at |-> at, drawn |-> drawn]]

EnterKey(t) ==
  /\ Up /\ thread[t].at = "idle"
  /\ Thread(t, IF key = Missing THEN "lock" ELSE "use", Missing)
  /\ UNCHANGED <<file, loginVars, key, lock, sealed, thumbVars, cut>>

(* Mutant: there is no lock.                                               *)
LockNothing(t) ==
  /\ thread[t].at = "lock"
  /\ Thread(t, IF key = Missing THEN "read" ELSE "use", Missing)
  /\ UNCHANGED <<file, loginVars, key, lock, sealed, thumbVars, cut>>

LockKey(t) ==
  /\ thread[t].at = "lock" /\ lock = Nobody
  /\ Thread(t, IF key = Missing THEN "read" ELSE "use", Missing)
  /\ lock' = IF key = Missing THEN t ELSE Nobody
  /\ UNCHANGED <<file, loginVars, key, sealed, thumbVars, cut>>

ReadKey(t) ==
  /\ thread[t].at = "read"
  /\ IF file.key # Missing
     THEN key' = file.key /\ lock' = Nobody /\ Thread(t, "use", Missing)
     ELSE /\ \E k \in Values \ sealed : Thread(t, "open", k)
          /\ UNCHANGED <<key, lock>>
  /\ UNCHANGED <<file, loginVars, sealed, thumbVars, cut>>

(* Mutant: an error leaves the lock held.                                  *)
RaiseLocked(t) ==
  /\ thread[t].at \in {"read", "open", "write"} /\ Thread(t, "idle", Missing)
  /\ cut' = cut \cup (IF file.key = Empty THEN {"key"} ELSE {})
  /\ UNCHANGED <<file, loginVars, key, lock, sealed, thumbVars>>

(* The file cannot be read or opened, or writing or closing it fails, with *)
(* nothing written or, when closing fails, perhaps all.                    *)
RaiseKey(t) ==
  /\ thread[t].at \in {"read", "open", "write"} /\ Thread(t, "idle", Missing)
  /\ \/ UNCHANGED file
     \/ thread[t].at = "write" /\ file' = [file EXCEPT !.key = thread[t].drawn]
  /\ cut' = cut \cup (IF file'.key = Empty THEN {"key"} ELSE {})
  /\ lock' = Nobody
  /\ UNCHANGED <<loginVars, key, sealed, thumbVars>>

(* Mutant: the key is published before it is written.                      *)
PublishFirst(t) ==
  /\ \/ /\ thread[t].at = "open" /\ Thread(t, "write", thread[t].drawn)
        /\ key' = thread[t].drawn /\ UNCHANGED <<file, lock>>
     \/ /\ thread[t].at = "write" /\ Thread(t, "use", Missing)
        /\ file' = [file EXCEPT !.key = thread[t].drawn]
        /\ lock' = Nobody /\ UNCHANGED key
  /\ UNCHANGED <<loginVars, sealed, thumbVars, cut>>

SaveKey(t) ==
  /\ \/ /\ thread[t].at = "open" /\ Thread(t, "write", thread[t].drawn)
        /\ file' = [file EXCEPT !.key = Empty] /\ UNCHANGED <<key, lock>>
     \/ /\ thread[t].at = "write" /\ Thread(t, "publish", thread[t].drawn)
        /\ file' = [file EXCEPT !.key = thread[t].drawn] /\ UNCHANGED <<key, lock>>
     \/ /\ thread[t].at = "publish" /\ Thread(t, "use", Missing)
        /\ key' = thread[t].drawn /\ lock' = Nobody /\ UNCHANGED file
  /\ UNCHANGED <<loginVars, sealed, thumbVars, cut>>

(* encrypt and decrypt raise if the key is empty.                          *)
UseKey(t) ==
  /\ thread[t].at = "use" /\ Thread(t, "idle", Missing)
  /\ sealed' \in {sealed, sealed \cup ({key} \ {Empty})}
  /\ UNCHANGED <<file, loginVars, key, lock, thumbVars, cut>>

-----------------------------------------------------------------------------
(* Thumbnails.                                                             *)

Request(q, at) == request' = [request EXCEPT ![q].at = at]

LookForThumb(q) ==
  /\ Up /\ request[q].at = "idle" /\ loop = Nobody
  /\ request' = [request EXCEPT ![q] =
       [IdleRequest EXCEPT !.at = IF file.thumb = "missing" THEN "fetch" ELSE "send"]]
  /\ UNCHANGED <<file, loginVars, keyVars, loop, cut>>

FetchFails(q) ==
  /\ request[q].at = "fetch" /\ loop = Nobody
  /\ Request(q, "idle")
  /\ UNCHANGED <<file, loginVars, keyVars, loop, cut>>

Saving == {"create", "overwrite"}

Overtaken(q) == [p \in Requests |->
  IF p = q
  THEN [request[p] EXCEPT !.at = IF file.thumb = "missing" THEN "create" ELSE "overwrite"]
  ELSE [request[p] EXCEPT !.overtaken = @ \/ request[p].at = "send"]]

(* Mutant: the save does not keep the event loop busy.                     *)
OpenThumbAside(q) ==
  /\ request[q].at = "fetch"
  /\ file' = [file EXCEPT !.thumb = "torn"]
  /\ request' = Overtaken(q)
  /\ UNCHANGED <<loginVars, keyVars, loop, cut>>

OpenThumb(q) ==
  /\ request[q].at = "fetch" /\ loop = Nobody
  /\ file' = [file EXCEPT !.thumb = "torn"]
  /\ loop' = q
  /\ request' = Overtaken(q)
  /\ UNCHANGED <<loginVars, keyVars, cut>>

WriteThumb(q) ==
  /\ request[q].at \in Saving
  /\ file' = [file EXCEPT !.thumb = "whole"]
  /\ loop' = Nobody
  /\ Request(q, "send")
  /\ UNCHANGED <<loginVars, keyVars, cut>>

(* The save raises and the request is answered with 404.  Pillow removes   *)
(* the file if it was not there before, and else leaves it as it is.       *)
FailThumb(q) ==
  /\ request[q].at \in Saving
  /\ \/ /\ request[q].at = "create"
        /\ file' = [file EXCEPT !.thumb = "missing"] /\ UNCHANGED cut
     \/ /\ request[q].at = "overwrite"
        /\ cut' = cut \cup {"thumb"} /\ UNCHANGED file
  /\ loop' = Nobody
  /\ Request(q, "idle")
  /\ UNCHANGED <<loginVars, keyVars>>

SendThumb(q) ==
  /\ request[q].at = "send"
  /\ request' = [request EXCEPT ![q] = IF file.thumb = "torn"
                    THEN [@ EXCEPT !.at = "idle", !.broken = TRUE] ELSE IdleRequest]
  /\ UNCHANGED <<file, loginVars, keyVars, loop, cut>>

-----------------------------------------------------------------------------
KeyStep(t) == LockKey(t) \/ ReadKey(t) \/ RaiseKey(t) \/ SaveKey(t) \/ UseKey(t)

Next ==
  \/ Crash \/ LoadSecret \/ SaveSecret \/ Tick
  \/ \E signed \in 0 .. MaxTime : IssueToken(signed)
  \/ \E t \in Threads : EnterKey(t) \/ KeyStep(t)
  \/ \E q \in Requests :
       \/ LookForThumb(q) \/ FetchFails(q) \/ OpenThumb(q)
       \/ WriteThumb(q) \/ FailThumb(q) \/ SendThumb(q)

(* A thread that can take its next step is scheduled.                      *)
Spec == Init /\ [][Next]_vars /\ \A t \in Threads : WF_vars(KeyStep(t))

-----------------------------------------------------------------------------
(* The types, and that what the lock guards is done by its holder only.    *)
TypeOK ==
  /\ file \in [secret : Contents, key : Contents, thumb : {"missing", "torn", "whole"}]
  /\ boot \in [at : {"down", "open", "write", "up"}, drawn : Values \cup {Missing}]
  /\ secret \in Contents /\ key \in Contents /\ (Up <=> secret # Missing)
  /\ lock \in Threads \cup {Nobody}
  /\ thread \in [Threads -> [at : {"idle", "lock", "read", "open", "write", "publish", "use"},
                             drawn : Values \cup {Missing}]]
  /\ \A t \in Threads : thread[t].at \in {"read", "open", "write", "publish"} <=> lock = t
  /\ sealed \subseteq Values
  /\ now \in Nat
  /\ tokens \subseteq [secret : Values \cup {Empty}, signed : Nat, expiry : Nat]
  /\ loop \in Requests \cup {Nobody}
  /\ request \in [Requests -> [at : {"idle", "fetch", "create", "overwrite", "send"},
                               broken : BOOLEAN, overtaken : BOOLEAN]]
  /\ \A q \in Requests : request[q].at # "idle" => ~request[q].broken
  /\ cut \subseteq {"key", "thumb"}

(* Content that was sealed can be opened by this process and by every      *)
(* later one: the key it was sealed with is in the file before anybody     *)
(* uses it, whatever ran at the same time and wherever the process ended   *)
(* ("Losing it makes every encrypted file unreadable").                    *)
SealedIsReadable == \A k \in sealed : file.key = k /\ key \in {k, Missing}

(* No process works with a key that is only half there, except after a     *)
(* crash or a failed write between opening the file and closing it: never  *)
(* because of what other threads do meanwhile.                             *)
KeyUnusableOnlyAfterCut == key = Empty => "key" \in cut

(* A token is good until it expires, whichever process issued it and       *)
(* however often the server was started since; and one signed message is   *)
(* worth no more than its skew and one lifetime.                           *)
TokensHold == Up => \A t \in tokens :
  /\ VerifyToken(t) <=> now <= t.expiry
  /\ t.expiry <= t.signed + MaxAge + TTL

(* A request is sent a broken preview only after a crash, or an error in   *)
(* saving over a preview that was there, cut a save, or if another request *)
(* began to save after this one had found the file.                        *)
BrokenPreviewOnlyAfterCut == \A q \in Requests :
  request[q].broken => "thumb" \in cut \/ request[q].overtaken

(* The lock of the key does not stay held, whatever fails under it.        *)
LockIsReleased == lock # Nobody ~> lock = Nobody
=============================================================================
