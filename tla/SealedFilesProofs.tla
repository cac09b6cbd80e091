------------------------- MODULE SealedFilesProofs -------------------------
(***************************************************************************)
(* What holds of the server's own files for any number of threads,         *)
(* requests, values and restarts.  One inductive invariant per file: the   *)
(* types, the key, the secret and its tokens, the thumbnail.               *)
(***************************************************************************)
EXTENDS SealedFiles, TLAPS

-----------------------------------------------------------------------------
(* Types.                                                                  *)

(* What is drawn is a value, in every step that has drawn it, and there is *)
(* a key when it is used.                                                  *)
Drawn ==
  /\ boot.at \in {"open", "write"} => boot.drawn \in Values
  /\ \A t \in Threads :
       thread[t].at \in {"open", "write", "publish"} => thread[t].drawn \in Values
  /\ \A t \in Threads : thread[t].at = "use" => key # Missing

Typed == TypeOK /\ Drawn

(* The process starts from nothing.                                        *)
LEMMA TypedInit == Init => Typed
<1> SUFFICES ASSUME Init PROVE Typed
  OBVIOUS
<1> USE SealedFilesAssumption DEF Init
<1>1. Drawn
  BY DEF Drawn, IdleThread
<1>2. request \in [Requests -> [at : {"idle", "fetch", "create", "overwrite", "send"},
                                broken : BOOLEAN, overtaken : BOOLEAN]]
      /\ \A q \in Requests : ~request[q].broken
  BY DEF IdleRequest
<1>3. file \in [secret : Contents, key : Contents, thumb : {"missing", "torn", "whole"}]
  BY DEF Contents
<1> QED
  BY <1>1, <1>2, <1>3 DEF Typed, TypeOK, IdleThread, Up, Contents

(* The start of the process and the tokens (_load_auth_secret, auth.py).   *)
LEMMA TypedLogin ==
  ASSUME Typed, Crash \/ LoadSecret \/ SaveSecret \/ Tick \/ \E s \in 0 .. MaxTime : IssueToken(s)
  PROVE  Typed'
<1> USE SealedFilesAssumption DEF Typed, keyVars, thumbVars, loginVars
<1>1. CASE Crash
  BY <1>1 DEF Crash, TypeOK, Drawn, Up, Contents, IdleThread, IdleRequest
<1>2. CASE LoadSecret
  BY <1>2 DEF LoadSecret, Boot, TypeOK, Drawn, Up, Contents
<1>3. CASE SaveSecret
  BY <1>3 DEF SaveSecret, Boot, TypeOK, Drawn, Up, Contents
<1>4. CASE Tick
  BY <1>4 DEF Tick, TypeOK, Drawn, Up
<1>5. ASSUME NEW s \in 0 .. MaxTime, IssueToken(s) PROVE Typed'
  <2>1. [secret |-> secret, signed |-> s, expiry |-> now + TTL]
          \in [secret : Values \cup {Empty}, signed : Nat, expiry : Nat]
    BY <1>5 DEF IssueToken, TypeOK, Contents, Up
  <2>2. tokens' \subseteq [secret : Values \cup {Empty}, signed : Nat, expiry : Nat]
    BY <1>5, <2>1 DEF IssueToken, TypeOK
  <2> QED
    BY <1>5, <2>2 DEF IssueToken, TypeOK, Drawn, Up
<1> QED
  BY <1>1, <1>2, <1>3, <1>4, <1>5

(* The steps of a thread (_master_key, encrypt, decrypt).                  *)
LEMMA TypedKey ==
  ASSUME Typed, NEW t \in Threads, EnterKey(t) \/ KeyStep(t)
  PROVE  Typed'
<1> USE SealedFilesAssumption DEF Typed, loginVars, thumbVars, Thread
<1>1. CASE EnterKey(t)
  BY <1>1 DEF EnterKey, TypeOK, Drawn, Up
<1>2. CASE LockKey(t)
  BY <1>2 DEF LockKey, TypeOK, Drawn, Up
<1>3. CASE ReadKey(t)
  <2>1. CASE file.key # Missing
    BY <1>3, <2>1 DEF ReadKey, TypeOK, Drawn, Up, Contents
  <2>2. CASE file.key = Missing
    BY <1>3, <2>2 DEF ReadKey, TypeOK, Drawn, Up, Contents
  <2> QED
    BY <2>1, <2>2
<1>4. CASE RaiseKey(t)
  <2>1. file'.key \in Contents /\ file' = [file EXCEPT !.key = file'.key]
    BY <1>4 DEF RaiseKey, TypeOK, Drawn, Contents
  <2>2. /\ thread' = [thread EXCEPT ![t] = [at |-> "idle", drawn |-> Missing]] /\ lock' = Nobody
        /\ thread[t].at \in {"read", "open", "write"}
        /\ cut' \subseteq cut \cup {"key"} /\ UNCHANGED <<loginVars, key, sealed, thumbVars>>
    BY <1>4 DEF RaiseKey
  <2>3. file' \in [secret : Contents, key : Contents, thumb : {"missing", "torn", "whole"}]
    BY <2>1 DEF TypeOK
  <2> QED
    BY <2>2, <2>3 DEF TypeOK, Drawn, Up
<1>5. CASE SaveKey(t)
  BY <1>5 DEF SaveKey, TypeOK, Drawn, Up, Contents
<1>6. CASE UseKey(t)
  BY <1>6 DEF UseKey, TypeOK, Drawn, Up, Contents
<1> QED
  BY <1>1, <1>2, <1>3, <1>4, <1>5, <1>6 DEF KeyStep

(* The steps of a request for the thumbnail.                               *)
ThumbStep(q) ==
  LookForThumb(q) \/ FetchFails(q) \/ OpenThumb(q) \/ WriteThumb(q) \/ FailThumb(q) \/ SendThumb(q)

RequestType == [at : {"idle", "fetch", "create", "overwrite", "send"}, broken : BOOLEAN, overtaken : BOOLEAN]

(* Editing the record of a request.                                        *)
LEMMA RequestEdits ==
  ASSUME NEW r \in RequestType, NEW b \in BOOLEAN, NEW a \in Saving
  PROVE  /\ [r EXCEPT !.at = a] \in RequestType
         /\ [r EXCEPT !.at = a].broken = r.broken
         /\ [r EXCEPT !.at = "idle", !.broken = TRUE] \in RequestType
         /\ [r EXCEPT !.at = "idle", !.broken = TRUE].at = "idle"
         /\ [r EXCEPT !.overtaken = b] \in RequestType
         /\ [r EXCEPT !.overtaken = b].at = r.at
         /\ [r EXCEPT !.overtaken = b].broken = r.broken
  BY DEF RequestType, Saving

(* They keep the types (download.py).                                      *)
LEMMA TypedThumb ==
  ASSUME Typed, NEW q \in Requests, ThumbStep(q)
  PROVE  Typed'
<1> USE SealedFilesAssumption DEF Typed, loginVars, keyVars, Request, IdleRequest
<1>1. CASE LookForThumb(q)
  BY <1>1 DEF LookForThumb, TypeOK, Drawn, Up
<1>2. CASE FetchFails(q)
  BY <1>2 DEF FetchFails, TypeOK, Drawn, Up
<1>3. CASE OpenThumb(q)
  <2>1. ASSUME NEW p \in Requests
        PROVE  request'[p] \in RequestType /\ (request'[p].at # "idle" => ~request'[p].broken)
    <3> DEFINE r == request[p]
               b == r.overtaken \/ r.at = "send"
               a == IF file.thumb = "missing" THEN "create" ELSE "overwrite"
    <3>1. r \in RequestType /\ (r.at # "idle" => ~r.broken)
      BY DEF TypeOK, RequestType
    <3>2. b \in BOOLEAN /\ a \in Saving
      BY DEF Saving
    <3>3. request'[p] = IF p = q THEN [r EXCEPT !.at = a] ELSE [r EXCEPT !.overtaken = b]
      BY <1>3 DEF OpenThumb, Overtaken
    <3>4. p = q => r.at = "fetch"
      BY <1>3 DEF OpenThumb
    <3> HIDE DEF a, b, r
    <3>5. CASE p = q
      <4>1. ~r.broken /\ request'[p] = [r EXCEPT !.at = a]
        BY <3>1, <3>3, <3>4, <3>5
      <4>2. [r EXCEPT !.at = a] \in RequestType /\ [r EXCEPT !.at = a].broken = r.broken
        BY <3>1, <3>2, RequestEdits
      <4> QED
        BY ONLY <4>1, <4>2
    <3>6. CASE p # q
      <4>1. request'[p] = [r EXCEPT !.overtaken = b]
        BY <3>3, <3>6
      <4>2. /\ [r EXCEPT !.overtaken = b] \in RequestType
            /\ [r EXCEPT !.overtaken = b].at = r.at /\ [r EXCEPT !.overtaken = b].broken = r.broken
        BY <3>1, <3>2, RequestEdits
      <4> QED
        BY ONLY <3>1, <4>1, <4>2
    <3> QED
      BY <3>5, <3>6
  <2>2. DOMAIN request' = Requests /\ request' = [p \in Requests |-> request'[p]]
    BY <1>3 DEF OpenThumb, Overtaken
  <2>3. request' \in [Requests -> [at : {"idle", "fetch", "create", "overwrite", "send"},
                                  broken : BOOLEAN, overtaken : BOOLEAN]]
    BY <2>1, <2>2 DEF RequestType
  <2> QED
    BY <1>3, <2>1, <2>3 DEF OpenThumb, TypeOK, Drawn, Up
<1>4. CASE WriteThumb(q)
  BY <1>4 DEF WriteThumb, Saving, TypeOK, Drawn, Up
<1>5. CASE SendThumb(q)
  <2> DEFINE sent == IF file.thumb = "torn"
                     THEN [request[q] EXCEPT !.at = "idle", !.broken = TRUE] ELSE IdleRequest
  <2>1. request' = [request EXCEPT ![q] = sent]
    BY <1>5 DEF SendThumb
  <2>2. sent.at = "idle" /\ sent \in RequestType
    <3>1. request[q] \in RequestType
      BY DEF TypeOK, RequestType
    <3>2. IdleRequest \in RequestType /\ IdleRequest.at = "idle"
      BY DEF RequestType
    <3>3. "create" \in Saving
      BY DEF Saving
    <3> QED
      BY <3>1, <3>2, <3>3, RequestEdits
  <2> HIDE DEF sent
  <2>3. UNCHANGED <<file, loginVars, keyVars, loop, cut>>
    BY <1>5 DEF SendThumb
  <2> QED
    BY <2>1, <2>2, <2>3 DEF TypeOK, Drawn, Up, RequestType
<1>6. CASE FailThumb(q)
  BY <1>6 DEF FailThumb, Saving, TypeOK, Drawn, Up
<1> QED
  BY <1>1, <1>2, <1>3, <1>4, <1>5, <1>6 DEF ThumbStep

(* Every step keeps the types.                                             *)
LEMMA TypedNext == Typed /\ [Next]_vars => Typed'
<1> SUFFICES ASSUME Typed, [Next]_vars PROVE Typed'
  OBVIOUS
<1>1. CASE UNCHANGED vars
  BY <1>1 DEF vars, loginVars, keyVars, thumbVars, Typed, TypeOK, Drawn, Up
<1>2. CASE Next
  BY <1>2, TypedLogin, TypedKey, TypedThumb DEF Next, ThumbStep
<1> QED
  BY <1>1, <1>2

(* Every variable stays in its type, and only the holder of _key_lock is   *)
(* between reading and publishing the key.                                 *)
THEOREM TypeCorrect == Spec => []TypeOK
<1>1. Typed => TypeOK
  BY DEF Typed
<1> QED
  BY <1>1, TypedInit, TypedNext, PTL DEF Spec

-----------------------------------------------------------------------------
(* The master key.                                                         *)

(* Between two steps of _master_key the file is as the thread in it has    *)
(* left it and nothing is published; what is published is in the file; an  *)
(* empty file belongs to a thread that is writing, or to a crash or a      *)
(* failed write.                                                           *)
KeyKept ==
  /\ \A t \in Threads :
       /\ thread[t].at \in {"read", "open", "write", "publish"} => key = Missing
       /\ thread[t].at = "open" => file.key = Missing
       /\ thread[t].at = "write" => file.key = Empty
       /\ thread[t].at = "publish" => file.key = thread[t].drawn
  /\ key # Missing => key = file.key
  /\ file.key = Empty => "key" \in cut \/ \E t \in Threads : thread[t].at = "write"
  /\ \A k \in sealed : file.key = k

(* What leaves the key, its file and its threads alone keeps the invariant.*)
LEMMA KeyUntouched ==
  ASSUME KeyKept, UNCHANGED <<key, thread, sealed>>, file'.key = file.key, cut \subseteq cut'
  PROVE  KeyKept'
<1>1. ASSUME NEW t \in Threads PROVE thread'[t] = thread[t]
  OBVIOUS
<1> QED
  BY <1>1 DEF KeyKept

(* A crash forgets the key and keeps the file (_master_key).               *)
LEMMA KeyCrash == ASSUME Typed, KeyKept, Crash PROVE KeyKept'
<1>1. key' = Missing /\ file' = file /\ sealed' = sealed
      /\ \A t \in Threads : thread'[t].at = "idle"
  BY DEF Crash, IdleThread
<1>2. file.key = Empty => "key" \in cut'
  BY DEF Crash
<1> QED
  BY ONLY KeyKept, <1>1, <1>2 DEF KeyKept

(* Each step of a thread keeps the invariant (_master_key).                *)
LEMMA KeyThread ==
  ASSUME Typed, KeyKept, NEW t \in Threads, EnterKey(t) \/ KeyStep(t)
  PROVE  KeyKept'
<1> USE SealedFilesAssumption DEF Thread
<1>0. /\ TypeOK /\ Drawn
      /\ \A u \in Threads : thread[u].at \in {"read", "open", "write", "publish"} /\ u # t
           => thread[t].at \notin {"read", "open", "write", "publish"}
      /\ thread \in [Threads -> [at : {"idle", "lock", "read", "open", "write", "publish", "use"},
                                 drawn : Values \cup {Missing}]]
  BY DEF Typed, TypeOK
<1>1. CASE EnterKey(t)
  BY <1>0, <1>1 DEF EnterKey, KeyKept
<1>2. CASE LockKey(t)
  BY <1>0, <1>2 DEF LockKey, KeyKept
<1>3. CASE ReadKey(t)
  <2>1. CASE file.key # Missing
    BY <1>0, <1>3, <2>1 DEF ReadKey, KeyKept
  <2>2. CASE file.key = Missing
    BY <1>0, <1>3, <2>2 DEF ReadKey, KeyKept
  <2> QED
    BY <2>1, <2>2
<1>4. CASE RaiseKey(t)
  <2>1. thread' = [thread EXCEPT ![t] = [at |-> "idle", drawn |-> Missing]]
        /\ UNCHANGED <<key, sealed>> /\ key = Missing /\ cut \subseteq cut'
        /\ (file'.key = Empty => "key" \in cut')
    BY <1>4 DEF RaiseKey, KeyKept
  <2>2. CASE file' = file
    BY <1>0, <2>1, <2>2 DEF KeyKept
  <2>3. CASE thread[t].at = "write" /\ file' = [file EXCEPT !.key = thread[t].drawn]
    <3>1. sealed = {} /\ \A u \in Threads : u # t =>
            thread[u].at \notin {"read", "open", "write", "publish"}
      BY <1>0, <2>3 DEF KeyKept, TypeOK
    <3> QED
      BY <1>0, <2>1, <3>1 DEF KeyKept
  <2> QED
    BY <1>4, <2>2, <2>3 DEF RaiseKey
<1>5. CASE SaveKey(t)
  <2>0. UNCHANGED <<sealed, cut>> /\ file \in [secret : Contents, key : Contents,
                                               thumb : {"missing", "torn", "whole"}]
    BY <1>5 DEF SaveKey, loginVars, thumbVars, Typed, TypeOK
  <2>1. CASE thread[t].at = "open"
    <3>1. sealed = {} /\ key = Missing
      BY <1>0, <2>1 DEF KeyKept, TypeOK
    <3>2. file'.key = Empty /\ key' = key
          /\ thread' = [thread EXCEPT ![t] = [at |-> "write", drawn |-> thread[t].drawn]]
      BY <1>5, <2>0, <2>1 DEF SaveKey
    <3> QED
      BY <1>0, <2>0, <2>1, <3>1, <3>2 DEF KeyKept
  <2>2. CASE thread[t].at = "write"
    <3>1. sealed = {} /\ key = Missing /\ thread[t].drawn \in Values
      BY <1>0, <2>2 DEF KeyKept, TypeOK, Drawn
    <3>2. file'.key = thread[t].drawn /\ key' = key
          /\ thread' = [thread EXCEPT ![t] = [at |-> "publish", drawn |-> thread[t].drawn]]
      BY <1>5, <2>0, <2>2 DEF SaveKey
    <3> QED
      BY <1>0, <2>0, <2>2, <3>1, <3>2 DEF KeyKept
  <2>3. CASE thread[t].at = "publish"
    <3>1. file.key = thread[t].drawn /\ thread[t].drawn \in Values
      BY <1>0, <2>3 DEF KeyKept, Drawn
    <3>2. file' = file /\ key' = thread[t].drawn
          /\ thread' = [thread EXCEPT ![t] = [at |-> "use", drawn |-> Missing]]
      BY <1>5, <2>3 DEF SaveKey
    <3> QED
      BY <1>0, <2>0, <2>3, <3>1, <3>2 DEF KeyKept
  <2> QED
    BY <1>5, <2>1, <2>2, <2>3 DEF SaveKey
<1>6. CASE UseKey(t)
  <2>1. key # Missing /\ key = file.key
    BY <1>0, <1>6 DEF UseKey, Drawn, KeyKept
  <2>2. \A k \in sealed' : k \in sealed \/ k = key
    BY <1>6 DEF UseKey
  <2> QED
    BY <1>0, <1>6, <2>1, <2>2 DEF UseKey, KeyKept
<1> QED
  BY <1>1, <1>2, <1>3, <1>4, <1>5, <1>6 DEF KeyStep

(* Every step keeps the key's invariant.                                   *)
LEMMA KeyNext == Typed /\ KeyKept /\ [Next]_vars => KeyKept'
<1> SUFFICES ASSUME Typed, KeyKept, [Next]_vars PROVE KeyKept'
  OBVIOUS
<1>0. file \in [secret : Contents, key : Contents, thumb : {"missing", "torn", "whole"}]
  BY DEF Typed, TypeOK
<1> USE DEF keyVars
<1>1. CASE UNCHANGED vars
  BY <1>1, KeyUntouched DEF vars
<1>2. CASE Crash
  BY <1>2, KeyCrash
<1>3. CASE LoadSecret \/ SaveSecret \/ Tick \/ \E s \in 0 .. MaxTime : IssueToken(s)
  BY <1>0, <1>3, KeyUntouched DEF LoadSecret, SaveSecret, Tick, IssueToken
<1>4. CASE \E t \in Threads : EnterKey(t) \/ KeyStep(t)
  BY <1>4, KeyThread
<1>5. CASE \E q \in Requests : ThumbStep(q)
  BY <1>0, <1>5, KeyUntouched
     DEF ThumbStep, LookForThumb, FetchFails, OpenThumb, WriteThumb, FailThumb, SendThumb
<1> QED
  BY <1>1, <1>2, <1>3, <1>4, <1>5 DEF Next, ThumbStep

(* The key's invariant holds in every state.                               *)
LEMMA KeyInvariant == Spec => [](Typed /\ KeyKept)
<1>1. Init => KeyKept
  BY SealedFilesAssumption DEF Init, KeyKept, IdleThread
<1> QED
  BY <1>1, TypedInit, TypedNext, KeyNext, PTL DEF Spec

(* Whatever was sealed can be opened by every later process, for any       *)
(* number of threads, restarts and crashes (filecrypto.py).                *)
THEOREM SealedStaysReadable == Spec => []SealedIsReadable
<1>1. Typed /\ KeyKept => SealedIsReadable
  BY DEF KeyKept, SealedIsReadable
<1> QED
  BY <1>1, KeyInvariant, PTL

(* A process gets an empty key only after a crash or a failed write        *)
(* between opening the file and closing it (filecrypto.py:53-54).          *)
THEOREM EmptyKeyNeedsCut == Spec => []KeyUnusableOnlyAfterCut
<1>1. Typed /\ KeyKept => KeyUnusableOnlyAfterCut
  BY SealedFilesAssumption DEF KeyKept, KeyUnusableOnlyAfterCut
<1> QED
  BY <1>1, KeyInvariant, PTL

-----------------------------------------------------------------------------
(* The secret and the tokens.                                              *)

(* A running process has what is in the file, and so has every token; a    *)
(* new secret is drawn only while there is none and no token.              *)
TokensKept ==
  /\ Up => secret = file.secret
  /\ boot.at \in {"open", "write"} => tokens = {}
  /\ \A t \in tokens : t.secret = file.secret /\ t.expiry <= t.signed + MaxAge + TTL

(* What leaves the secret, its file and the tokens alone keeps them good.  *)
LEMMA TokensUntouched ==
  ASSUME TokensKept, UNCHANGED <<boot, secret, tokens>>, file'.secret = file.secret
  PROVE  TokensKept'
  BY DEF TokensKept, Up

(* Every step keeps the tokens good (_load_auth_secret, auth.py).          *)
LEMMA TokensNext == Typed /\ TokensKept /\ [Next]_vars => TokensKept'
<1> SUFFICES ASSUME Typed, TokensKept, [Next]_vars PROVE TokensKept'
  OBVIOUS
<1> USE SealedFilesAssumption DEF loginVars
<1>0. /\ file \in [secret : Contents, key : Contents, thumb : {"missing", "torn", "whole"}]
      /\ tokens \subseteq [secret : Values \cup {Empty}, signed : Nat, expiry : Nat]
      /\ boot \in [at : {"down", "open", "write", "up"}, drawn : Values \cup {Missing}]
      /\ now \in Nat
  BY DEF Typed, TypeOK
<1>1. CASE UNCHANGED vars
  BY <1>1, TokensUntouched DEF vars
<1>2. CASE Crash
  BY <1>2 DEF Crash, TokensKept, Up
<1>3. CASE LoadSecret
  <2>1. CASE file.secret = Missing
    <3>1. tokens = {}
      BY <1>0, <2>1 DEF TokensKept
    <3> QED
      BY <1>3, <2>1, <3>1 DEF LoadSecret, Boot, TokensKept, Up
  <2>2. CASE file.secret # Missing
    BY <1>3, <2>2 DEF LoadSecret, Boot, TokensKept, Up
  <2> QED
    BY <2>1, <2>2
<1>4. CASE SaveSecret
  <2>1. tokens = {} /\ tokens' = {}
    BY <1>4 DEF SaveSecret, TokensKept
  <2>2. (boot'.at = "write" /\ ~Up') \/ (boot'.at = "up" /\ secret' = file'.secret)
    BY <1>0, <1>4 DEF SaveSecret, Boot, Up
  <2> QED
    BY ONLY <2>1, <2>2 DEF TokensKept, Up
<1>5. CASE Tick
  BY <1>5, TokensUntouched DEF Tick
<1>6. ASSUME NEW s \in 0 .. MaxTime, IssueToken(s) PROVE TokensKept'
  <2> DEFINE new == [secret |-> secret, signed |-> s, expiry |-> now + TTL]
  <2>1. tokens' = tokens \cup {new} /\ Up /\ UNCHANGED <<file, boot, secret>>
    BY <1>6 DEF IssueToken
  <2>2. new.secret = file.secret
    BY <2>1 DEF TokensKept
  <2>3. new.expiry <= new.signed + MaxAge + TTL
    BY <1>0, <1>6 DEF IssueToken
  <2> HIDE DEF new
  <2> QED
    BY <2>1, <2>2, <2>3 DEF TokensKept, Up
<1>7. CASE \E t \in Threads : EnterKey(t) \/ KeyStep(t)
  BY <1>0, <1>7, TokensUntouched
     DEF EnterKey, KeyStep, LockKey, ReadKey, RaiseKey, SaveKey, UseKey
<1>8. CASE \E q \in Requests : ThumbStep(q)
  BY <1>0, <1>8, TokensUntouched
     DEF ThumbStep, LookForThumb, FetchFails, OpenThumb, WriteThumb, FailThumb, SendThumb
<1> QED
  BY <1>1, <1>2, <1>3, <1>4, <1>5, <1>6, <1>7, <1>8 DEF Next, ThumbStep

(* A token is good until its expiry in every process that comes up, and no *)
(* signed message buys more than one lifetime past its skew (auth.py).     *)
THEOREM TokensCorrect == Spec => []TokensHold
<1>1. Init => TokensKept
  BY DEF Init, TokensKept, Up
<1>2. Typed /\ TokensKept => TokensHold
  <2> SUFFICES ASSUME Typed, TokensKept, Up, NEW t \in tokens
               PROVE  (VerifyToken(t) <=> now <= t.expiry) /\ t.expiry <= t.signed + MaxAge + TTL
    BY DEF TokensHold
  <2>1. t.secret = secret /\ t.expiry <= t.signed + MaxAge + TTL
    BY DEF TokensKept
  <2>2. t.expiry \in Nat /\ now \in Nat
    BY DEF Typed, TypeOK
  <2> QED
    BY <2>1, <2>2 DEF VerifyToken
<1> QED
  BY <1>1, <1>2, TypedInit, TypedNext, TokensNext, PTL DEF Spec

-----------------------------------------------------------------------------
(* The thumbnail.                                                          *)

(* A half-written preview belongs to the request that is saving it, or to  *)
(* a crash or a failed save, and who is about to send one was overtaken by *)
(* that save.                                                              *)
ThumbKept ==
  /\ \A q \in Requests : loop = q <=> request[q].at \in Saving
  /\ file.thumb = "torn" => loop # Nobody \/ "thumb" \in cut
  /\ \A q \in Requests :
       request[q].broken \/ (request[q].at = "send" /\ file.thumb = "torn") =>
         "thumb" \in cut \/ request[q].overtaken

(* What leaves the thumbnail and its requests alone keeps the invariant.   *)
LEMMA ThumbUntouched ==
  ASSUME ThumbKept, UNCHANGED <<loop, request, cut>>, file'.thumb = file.thumb
  PROVE  ThumbKept'
  BY DEF ThumbKept

(* Each step of a request keeps the invariant (download.py).               *)
LEMMA ThumbRequest ==
  ASSUME Typed, ThumbKept, NEW q \in Requests, ThumbStep(q)
  PROVE  ThumbKept'
<1> USE SealedFilesAssumption DEF Request, IdleRequest, RequestType
<1>0. /\ request \in [Requests -> RequestType]
      /\ file \in [secret : Contents, key : Contents, thumb : {"missing", "torn", "whole"}]
      /\ loop \in Requests \cup {Nobody}
  BY DEF Typed, TypeOK
<1>1. CASE LookForThumb(q)
  BY <1>0, <1>1 DEF LookForThumb, ThumbKept, Saving
<1>2. CASE FetchFails(q)
  BY <1>0, <1>2 DEF FetchFails, ThumbKept, Saving
<1>3. CASE OpenThumb(q)
  <2>1. loop' = q /\ loop = Nobody /\ cut' = cut /\ file'.thumb = "torn"
    BY <1>0, <1>3 DEF OpenThumb
  <2>2. ASSUME NEW p \in Requests
        PROVE  /\ q = p <=> request'[p].at \in Saving
               /\ request'[p].broken \/ request'[p].at = "send" =>
                    "thumb" \in cut \/ request'[p].overtaken
    <3>1. CASE p = q
      <4>1. PICK a \in Saving : request'[q] = [request[q] EXCEPT !.at = a]
        BY <1>3 DEF OpenThumb, Overtaken, Saving
      <4>2. request[q] \in RequestType /\ request[q].at = "fetch"
        BY <1>0, <1>3 DEF OpenThumb
      <4>3. request[q].broken => "thumb" \in cut \/ request[q].overtaken
        BY DEF ThumbKept
      <4> QED
        BY ONLY <3>1, <4>1, <4>2, <4>3 DEF RequestType, Saving
    <3>2. CASE p # q
      <4>1. request'[p] = [request[p] EXCEPT !.overtaken = @ \/ request[p].at = "send"]
        BY <1>3, <3>2 DEF OpenThumb, Overtaken
      <4>2. request[p] \in RequestType
        BY <1>0
      <4>3. /\ request[p].at \notin Saving
            /\ request[p].broken => "thumb" \in cut \/ request[p].overtaken
        BY <2>1 DEF ThumbKept
      <4> QED
        BY ONLY <3>2, <4>1, <4>2, <4>3 DEF RequestType
    <3> QED
      BY <3>1, <3>2
  <2> QED
    BY <2>1, <2>2 DEF ThumbKept
<1>4. CASE WriteThumb(q)
  BY <1>0, <1>4 DEF WriteThumb, ThumbKept, Saving
<1>5. CASE SendThumb(q)
  BY <1>0, <1>5 DEF SendThumb, ThumbKept, Saving
<1>6. CASE FailThumb(q)
  BY <1>0, <1>6 DEF FailThumb, ThumbKept, Saving
<1> QED
  BY <1>1, <1>2, <1>3, <1>4, <1>5, <1>6 DEF ThumbStep

(* Every step keeps the thumbnail's invariant.                             *)
LEMMA ThumbNext == Typed /\ ThumbKept /\ [Next]_vars => ThumbKept'
<1> SUFFICES ASSUME Typed, ThumbKept, [Next]_vars PROVE ThumbKept'
  OBVIOUS
<1>0. file \in [secret : Contents, key : Contents, thumb : {"missing", "torn", "whole"}]
  BY DEF Typed, TypeOK
<1> USE DEF thumbVars
<1>1. CASE UNCHANGED vars
  BY <1>1, ThumbUntouched DEF vars
<1>2. CASE Crash
  <2>1. \A q \in Requests : request'[q] = IdleRequest
    BY <1>2 DEF Crash
  <2>2. file' = file /\ loop' = Nobody /\ cut \subseteq cut' /\ (loop # Nobody => "thumb" \in cut')
    BY <1>2 DEF Crash
  <2> QED
    BY <2>1, <2>2, SealedFilesAssumption DEF ThumbKept, IdleRequest, Saving
<1>3. CASE LoadSecret \/ SaveSecret \/ Tick \/ \E s \in 0 .. MaxTime : IssueToken(s)
  BY <1>0, <1>3, ThumbUntouched DEF LoadSecret, SaveSecret, Tick, IssueToken
<1>4. ASSUME NEW t \in Threads, EnterKey(t) \/ KeyStep(t) PROVE ThumbKept'
  <2>1. UNCHANGED <<loop, request>> /\ file'.thumb = file.thumb /\ cut' \cap {"thumb"} = cut \cap {"thumb"}
    BY <1>0, <1>4 DEF EnterKey, KeyStep, LockKey, ReadKey, RaiseKey, SaveKey, UseKey
  <2> QED
    BY <2>1 DEF ThumbKept
<1>5. CASE \E q \in Requests : ThumbStep(q)
  BY <1>5, ThumbRequest
<1> QED
  BY <1>1, <1>2, <1>3, <1>4, <1>5 DEF Next, ThumbStep

(* A broken preview is sent only after a crash, or an error in saving over *)
(* an older one, cut a save, or to a request that a save overtook          *)
(* (download.py:188-191).                                                  *)
THEOREM PreviewsCorrect == Spec => []BrokenPreviewOnlyAfterCut
<1>1. Init => ThumbKept
  BY SealedFilesAssumption DEF Init, ThumbKept, IdleRequest, Saving
<1>2. ThumbKept => BrokenPreviewOnlyAfterCut
  BY DEF ThumbKept, BrokenPreviewOnlyAfterCut
<1> QED
  BY <1>1, <1>2, TypedInit, TypedNext, ThumbNext, PTL DEF Spec
=============================================================================
