---------------------------- MODULE FaucetProofs ----------------------------
(***************************************************************************)
(* What holds of the faucet for any number of threads, wallets and prices. *)
(* Three inductive invariants, each on top of the one before: the types,   *)
(* where drips come from, and what a run without overlap looks like.       *)
(***************************************************************************)
EXTENDS Faucet, TLAPS, FiniteSetTheorems

(* What a request has gathered by the time it is in a phase, what the node *)
(* has accepted, and that the chain stays within its bound.                *)
Gathered ==
  /\ \A h \in Handlers :
       /\ ~At(h, "idle") => handler[h].to \in Addresses
       /\ handler[h].phase \in {"send", "wait"} =>
            handler[h].tx \in Tx /\ handler[h].tx.to = handler[h].to
  /\ pool # NoTx => treasury > 0
  /\ Len(chain) <= MaxTx

Typed == TypeOK /\ Gathered

Dripped == {a \in Addresses : drips[a] > 0}

(* Drips are what the chain mined with success, and what a thread is about *)
(* to save are addresses with a drip.                                      *)
Earned ==
  /\ \A i \in 1 .. Len(chain) : chain[i].ok => chain[i].tx.to \in Dripped
  /\ ledger.addrs \subseteq Dripped
  /\ \A h \in Handlers :
       /\ handler[h].phase \in {"load", "open", "write"} => handler[h].to \in Dripped
       /\ handler[h].phase \in {"open", "write"} => handler[h].funded \subseteq Dripped

(* The one request that is served while nothing overlaps: what it knows in *)
(* each phase of the ledger, the pool and the last mined transaction.      *)
Asking(h) == handler[h].phase \in {"balance", "treasury", "nonce", "send"} =>
  /\ pool = NoTx
  /\ ledger.addrs = Dripped
  /\ handler[h].to \notin Dripped

Pooled(h) ==
  /\ pool = handler[h].tx
  /\ handler[h].tx.nonce = Len(chain)
  /\ ledger.addrs = Dripped
  /\ handler[h].to \notin Dripped

Settled(h) ==
  /\ pool = NoTx
  /\ handler[h].tx.nonce = Len(chain) - 1
  /\ Dripped = IF chain[Len(chain)].ok THEN ledger.addrs \cup {handler[h].to} ELSE ledger.addrs

Waiting(h) == At(h, "wait") => Pooled(h) \/ Settled(h)

Saving(h) ==
  /\ At(h, "load") => pool = NoTx /\ Dripped = ledger.addrs \cup {handler[h].to}
  /\ At(h, "open") => pool = NoTx /\ handler[h].funded = Dripped
  /\ At(h, "write") => pool = NoTx /\ handler[h].funded = Dripped /\ ledger.size = 0

OneAtATime == \A g, h \in Handlers : g # h => At(g, "idle") \/ At(h, "idle")

Calm == undisturbed =>
  /\ OneAtATime
  /\ \A a \in Addresses : drips[a] <= 1
  /\ (\A h \in Handlers : At(h, "idle")) => pool = NoTx /\ ledger.addrs = Dripped
  /\ \A h \in Handlers : Asking(h) /\ Waiting(h) /\ Saving(h)

-----------------------------------------------------------------------------
(* Types.                                                                  *)

HandlerType == [phase : Phases, to : Addresses \cup {NoAddress},
                tx : Tx \cup {NoTx}, funded : SUBSET Addresses]

Moved(h, p, a, x, F) == handler' = [handler EXCEPT ![h] = Request(p, a, x, F)]

(* Going on to another phase keeps the rest of the record.                 *)
LEMMA PhaseEdit ==
  ASSUME NEW r \in HandlerType, NEW p
  PROVE  [r EXCEPT !.phase = p] = Request(p, r.to, r.tx, r.funded)
BY DEF HandlerType, Request

LEMMA GotoMoves ==
  ASSUME handler \in [Handlers -> HandlerType], NEW h \in Handlers, NEW p, Goto(h, p)
  PROVE  Moved(h, p, handler[h].to, handler[h].tx, handler[h].funded)
<1>1. handler[h] \in HandlerType
  OBVIOUS
<1>2. [handler[h] EXCEPT !.phase = p] = Request(p, handler[h].to, handler[h].tx, handler[h].funded)
  BY <1>1, PhaseEdit
<1> QED
  BY <1>2 DEF Goto, Moved

-----------------------------------------------------------------------------
LEMMA TypedInit == Init => Typed
<1> SUFFICES ASSUME Init PROVE Typed
  OBVIOUS
<1>1. TypeOK
  BY FaucetAssumption DEF Init, TypeOK, Idle, Request, Phases
<1>2. Gathered
  BY FaucetAssumption DEF Init, Gathered, At, Idle, Request
<1> QED
  BY <1>1, <1>2 DEF Typed

(* A step of one thread keeps the types when it keeps those of its record  *)
(* and of what it writes.                                                  *)
LEMMA TypedThread ==
  ASSUME Typed, NEW h \in Handlers, NEW p \in Phases, NEW a \in Addresses \cup {NoAddress},
         NEW x \in Tx \cup {NoTx}, NEW F \in SUBSET Addresses, Moved(h, p, a, x, F),
         p # "idle" => a \in Addresses,
         p \in {"send", "wait"} => x \in Tx /\ x.to = a,
         p \in {"open", "write"} => a \in F,
         ledger' \in [addrs : SUBSET Addresses, size : Nat],
         undisturbed' \in BOOLEAN,
         pool' \in Tx \cup {NoTx}, pool' # NoTx => treasury > 0,
         UNCHANGED <<chain, treasury, gas, drips>>
  PROVE  Typed'
<1> DEFINE r == Request(p, a, x, F)
<1>1. /\ r \in HandlerType
      /\ r.phase = p /\ r.to = a /\ r.tx = x /\ r.funded = F
  BY DEF Request, HandlerType
<1>2. handler' = [handler EXCEPT ![h] = r]
  BY DEF Moved
<1> HIDE DEF r
<1>3. handler \in [Handlers -> HandlerType]
  BY DEF Typed, TypeOK, HandlerType
<1>4. handler' \in [Handlers -> HandlerType]
  BY <1>1, <1>2, <1>3
<1>5. \A g \in Handlers : handler'[g].phase \in {"open", "write"} => handler'[g].to \in handler'[g].funded
  BY <1>1, <1>2, <1>3 DEF Typed, TypeOK
<1>6. TypeOK'
  BY <1>4, <1>5 DEF Typed, TypeOK, HandlerType
<1>7. Gathered'
  BY <1>1, <1>2, <1>3 DEF Typed, Gathered, At
<1> QED
  BY <1>6, <1>7 DEF Typed

(* The types of what a step of h starts from.                              *)
Start(h) ==
  /\ handler \in [Handlers -> HandlerType]
  /\ handler[h].phase \in Phases
  /\ handler[h].to \in Addresses \cup {NoAddress}
  /\ handler[h].tx \in Tx \cup {NoTx}
  /\ handler[h].funded \in SUBSET Addresses
  /\ handler[h].phase # "idle" => handler[h].to \in Addresses
  /\ handler[h].phase \in {"send", "wait"} => handler[h].tx \in Tx /\ handler[h].tx.to = handler[h].to
  /\ handler[h].phase \in {"open", "write"} => handler[h].to \in handler[h].funded
  /\ ledger \in [addrs : SUBSET Addresses, size : Nat]
  /\ pool \in Tx \cup {NoTx}
  /\ pool # NoTx => treasury > 0
  /\ undisturbed \in BOOLEAN

LEMMA StartTypes == ASSUME Typed, NEW h \in Handlers PROVE Start(h)
<1>1. handler[h] \in HandlerType
  BY DEF Typed, TypeOK, HandlerType
<1> QED
  BY <1>1 DEF Typed, TypeOK, Gathered, Start, HandlerType, At

LEMMA TypedGoto ==
  ASSUME Typed, NEW h \in Handlers, NEW p \in Phases \ {"idle", "send"}, Goto(h, p),
         handler[h].phase # "idle",
         p = "wait" => handler[h].phase = "send",
         p \in {"open", "write"} => handler[h].phase = "open",
         ledger' \in [addrs : SUBSET Addresses, size : Nat],
         pool' \in Tx \cup {NoTx}, pool' # NoTx => treasury > 0,
         UNCHANGED <<chain, treasury, gas, drips, undisturbed>>
  PROVE  Typed'
<1>1. Start(h)
  BY StartTypes
<1>2. Moved(h, p, handler[h].to, handler[h].tx, handler[h].funded)
  BY <1>1, GotoMoves DEF Start
<1> QED
  BY <1>1, <1>2, TypedThread DEF Start

LEMMA TypedAnswer ==
  ASSUME Typed, NEW h \in Handlers, Answer(h),
         ledger' \in [addrs : SUBSET Addresses, size : Nat],
         undisturbed' \in BOOLEAN,
         UNCHANGED <<pool, chain, treasury, gas, drips>>
  PROVE  Typed'
<1>1. Start(h)
  BY StartTypes
<1>2. Moved(h, "idle", NoAddress, NoTx, {})
  BY DEF Answer, Moved, Idle
<1> QED
  BY <1>1, <1>2, TypedThread DEF Start, Phases

(* The steps of a thread before it sends its transaction.                  *)
LEMMA TypedAsk ==
  ASSUME Typed, NEW h \in Handlers,
         \/ \E a \in Addresses : CheckLedger(h, a)
         \/ CheckBalance(h) \/ CheckTreasury(h)
         \/ \E price \in Prices : ReadNonce(h, price)
  PROVE  Typed'
<1>0. TypeOK /\ Start(h)
  BY StartTypes DEF Typed
<1>1. ASSUME NEW a \in Addresses, CheckLedger(h, a) PROVE Typed'
  <2>1. Moved(h, "balance", a, NoTx, {})
    BY <1>1 DEF CheckLedger, Moved
  <2> QED
    BY <1>0, <1>1, <2>1, TypedThread DEF Start, CheckLedger, chainVars, Phases
<1>2. CASE CheckBalance(h)
  BY <1>0, <1>2, TypedAnswer, TypedGoto DEF CheckBalance, Start, chainVars, Phases, At
<1>3. CASE CheckTreasury(h)
  BY <1>0, <1>3, TypedAnswer, TypedGoto DEF CheckTreasury, Start, chainVars, Phases, At
<1>4. ASSUME NEW price \in Prices, ReadNonce(h, price) PROVE Typed'
  <2> DEFINE x == [nonce |-> Len(chain), to |-> handler[h].to, price |-> price]
  <2>1. Moved(h, "send", handler[h].to, x, {})
    BY <1>4 DEF ReadNonce, Moved
  <2>2. Len(chain) \in 0 .. MaxTx
    BY FaucetAssumption DEF Typed, TypeOK, Gathered
  <2>3. handler[h].to \in Addresses
    BY <1>0, <1>4 DEF ReadNonce, At, Start
  <2>4. x \in Tx /\ x.to = handler[h].to
    BY <2>2, <2>3 DEF Tx
  <2> HIDE DEF x
  <2> QED
    BY <1>0, <1>4, <2>1, <2>3, <2>4, TypedThread DEF Start, ReadNonce, chainVars, Phases
<1> QED
  BY <1>1, <1>2, <1>3, <1>4

(* Sending, waiting and giving up.                                         *)
LEMMA TypedSend ==
  ASSUME Typed, NEW h \in Handlers, Send(h) \/ Receipt(h) \/ GiveUp(h)
  PROVE  Typed'
<1>0. Start(h)
  BY StartTypes
<1>1. CASE Send(h)
  <2>1. pool' \in Tx \cup {NoTx} /\ treasury > 0
    BY <1>0, <1>1 DEF Send, Start
  <2> QED
    BY <1>0, <1>1, <2>1, TypedGoto DEF Send, Start, Phases, At
<1>2. CASE Receipt(h)
  BY <1>0, <1>2, TypedAnswer, TypedGoto DEF Receipt, Start, chainVars, Phases, At
<1>3. CASE GiveUp(h)
  BY <1>0, <1>3, TypedAnswer DEF GiveUp, Start, chainVars, At
<1> QED
  BY <1>1, <1>2, <1>3

(* Reading, truncating and writing the ledger.                             *)
LEMMA TypedSave ==
  ASSUME Typed, NEW h \in Handlers, LoadLedger(h) \/ OpenLedger(h) \/ WriteLedger(h)
  PROVE  Typed'
<1>0. TypeOK /\ Start(h)
  BY StartTypes DEF Typed
<1>1. CASE LoadLedger(h)
  <2> DEFINE F == ledger.addrs \cup {handler[h].to}
  <2>1. handler[h].to \in Addresses
    BY <1>0, <1>1 DEF LoadLedger, At, Start
  <2>2. Moved(h, "open", handler[h].to, handler[h].tx, F)
    BY <1>1 DEF LoadLedger, Moved
  <2>3. F \in SUBSET Addresses /\ handler[h].to \in F
    BY <1>0, <2>1 DEF Start
  <2> HIDE DEF F
  <2> QED
    BY <1>0, <1>1, <2>1, <2>2, <2>3, TypedThread DEF Start, LoadLedger, chainVars, Phases
<1>2. CASE OpenLedger(h)
  BY <1>0, <1>2, TypedGoto DEF OpenLedger, Start, chainVars, Phases, At
<1>3. CASE WriteLedger(h)
  <2>1. Cardinality(handler[h].funded) \in Nat
    BY <1>0, FaucetAssumption, FS_Subset, FS_CardinalityType DEF Start
  <2>2. ledger' \in [addrs : SUBSET Addresses, size : Nat]
    BY <1>0, <1>3, <2>1 DEF WriteLedger, Start
  <2> QED
    BY <1>0, <1>3, <2>2, TypedAnswer DEF WriteLedger, Start, chainVars
<1> QED
  BY <1>1, <1>2, <1>3

(* The chain.                                                              *)
LEMMA TypedMine ==
  ASSUME Typed, NEW ok \in BOOLEAN, Mine(ok)
  PROVE  Typed'
<1> USE FaucetAssumption DEF Typed
<1>1. pool \in Tx /\ pool.to \in Addresses
  BY DEF Mine, TypeOK, Tx
<1>2. chain' \in Seq([tx : Tx, ok : BOOLEAN]) /\ Len(chain') = Len(chain) + 1
  BY <1>1 DEF Mine, TypeOK
<1>3. Len(chain') <= MaxTx
  BY <1>2 DEF Mine, TypeOK
<1>4. treasury' \in 0 .. Treasury
  BY DEF Mine, TypeOK, Gathered
<1>5. gas' \in [Addresses -> BOOLEAN]
  BY <1>1 DEF Mine, TypeOK
<1>6. drips' \in [Addresses -> Nat]
  <2>1. drips \in [Addresses -> Nat] /\ drips[pool.to] + 1 \in Nat
    BY <1>1 DEF TypeOK
  <2> QED
    BY <1>1, <2>1 DEF Mine
<1> QED
  BY <1>2, <1>3, <1>4, <1>5, <1>6 DEF Mine, TypeOK, Gathered, At

(* The users and the operator.                                             *)
LEMMA TypedRest ==
  ASSUME Typed, Restart \/ \E a \in Addresses : Spend(a)
  PROVE  Typed'
<1>1. ASSUME NEW a \in Addresses, Spend(a) PROVE Typed'
  BY <1>1 DEF Typed, Spend, TypeOK, Gathered, At
<1>2. CASE Restart
  BY <1>2, FaucetAssumption DEF Typed, Restart, chainVars, TypeOK, Gathered, Idle, Request, Phases, At
<1> QED
  BY <1>1, <1>2

LEMMA TypedNext == Typed /\ [Next]_vars => Typed'
<1> SUFFICES ASSUME Typed, [Next]_vars PROVE Typed'
  OBVIOUS
<1>1. CASE UNCHANGED vars
  BY <1>1 DEF vars, chainVars, Typed, TypeOK, Gathered, At
<1>2. ASSUME NEW h \in Handlers, FundWallet(h) PROVE Typed'
  BY <1>2, TypedAsk, TypedSend, TypedSave DEF FundWallet
<1> QED
  BY <1>1, <1>2, TypedMine, TypedRest DEF Next

(* Every value of the faucet's state stays in its type.                    *)
THEOREM TypeCorrect == Spec => []TypeOK
<1>1. Typed => TypeOK
  BY DEF Typed
<1> QED
  BY <1>1, TypedInit, TypedNext, PTL DEF Spec

-----------------------------------------------------------------------------
(* Recorded addresses had a drip.                                          *)

LEMMA MovedFacts ==
  ASSUME Typed, NEW h \in Handlers, NEW p, NEW a, NEW x, NEW F, Moved(h, p, a, x, F)
  PROVE  /\ handler'[h].phase = p
         /\ handler'[h].to = a
         /\ handler'[h].tx = x
         /\ handler'[h].funded = F
         /\ \A g \in Handlers : g # h => handler'[g] = handler[g]
BY DEF Typed, TypeOK, Moved, Request

LEMMA EarnedThread ==
  ASSUME Typed, Earned, NEW h \in Handlers, NEW p, NEW a, NEW x, NEW F, Moved(h, p, a, x, F),
         p \in {"load", "open", "write"} => a \in Dripped,
         p \in {"open", "write"} => F \subseteq Dripped,
         ledger'.addrs \subseteq Dripped,
         UNCHANGED <<chain, drips>>
  PROVE  Earned'
<1>1. Dripped' = Dripped
  BY DEF Dripped
<1>2. /\ handler'[h].phase = p /\ handler'[h].to = a /\ handler'[h].funded = F
      /\ \A g \in Handlers : g # h => handler'[g] = handler[g]
  BY MovedFacts
<1> QED
  BY <1>1, <1>2 DEF Earned

LEMMA EarnedGoto ==
  ASSUME Typed, Earned, NEW h \in Handlers, NEW p, Goto(h, p),
         p = "load" => handler[h].to \in Dripped,
         p # "open",
         p = "write" => handler[h].phase = "open",
         ledger'.addrs \subseteq Dripped,
         UNCHANGED <<chain, drips>>
  PROVE  Earned'
<1>1. Moved(h, p, handler[h].to, handler[h].tx, handler[h].funded)
  BY StartTypes, GotoMoves DEF Start
<1> QED
  BY <1>1, EarnedThread DEF Earned

LEMMA EarnedAnswer ==
  ASSUME Typed, Earned, NEW h \in Handlers, Answer(h),
         ledger'.addrs \subseteq Dripped,
         UNCHANGED <<chain, drips>>
  PROVE  Earned'
<1>1. Moved(h, "idle", NoAddress, NoTx, {})
  BY DEF Answer, Moved, Idle
<1> QED
  BY <1>1, EarnedThread

(* A step of a thread: only a receipt of success leads on to the ledger.   *)
LEMMA EarnedStep ==
  ASSUME Typed, Earned, NEW h \in Handlers, FundWallet(h)
  PROVE  Earned'
<1>0. Start(h) /\ ledger.addrs \subseteq Dripped
  BY StartTypes DEF Earned
<1>1. ASSUME NEW a \in Addresses, CheckLedger(h, a) PROVE Earned'
  <2>1. Moved(h, "balance", a, NoTx, {})
    BY <1>1 DEF CheckLedger, Moved
  <2> QED
    BY <1>0, <1>1, <2>1, EarnedThread DEF CheckLedger, chainVars
<1>2. CASE CheckBalance(h)
  BY <1>0, <1>2, EarnedAnswer, EarnedGoto DEF CheckBalance, chainVars
<1>3. CASE CheckTreasury(h)
  BY <1>0, <1>3, EarnedAnswer, EarnedGoto DEF CheckTreasury, chainVars
<1>4. ASSUME NEW price \in Prices, ReadNonce(h, price) PROVE Earned'
  <2> DEFINE x == [nonce |-> Len(chain), to |-> handler[h].to, price |-> price]
  <2>1. Moved(h, "send", handler[h].to, x, {})
    BY <1>4 DEF ReadNonce, Moved
  <2> QED
    BY <1>0, <1>4, <2>1, EarnedThread DEF ReadNonce, chainVars
<1>5. CASE Send(h)
  BY <1>0, <1>5, EarnedGoto DEF Send
<1>6. CASE Receipt(h)
  <2>1. ASSUME chain[handler[h].tx.nonce + 1].ok PROVE handler[h].to \in Dripped
    <3>1. handler[h].tx \in Tx /\ handler[h].tx.to = handler[h].to
      BY <1>0, <1>6 DEF Receipt, At, Start
    <3>2. handler[h].tx.nonce + 1 \in 1 .. Len(chain) /\ chain[handler[h].tx.nonce + 1].tx = handler[h].tx
      BY <1>6, <3>1, FaucetAssumption DEF Receipt, Mined, Tx, Typed, TypeOK
    <3> QED
      BY <2>1, <3>1, <3>2 DEF Earned
  <2> QED
    BY <1>0, <1>6, <2>1, EarnedAnswer, EarnedGoto DEF Receipt, chainVars
<1>7. CASE GiveUp(h)
  BY <1>0, <1>7, EarnedAnswer DEF GiveUp, chainVars
<1>8. CASE LoadLedger(h)
  <2> DEFINE F == ledger.addrs \cup {handler[h].to}
  <2>1. Moved(h, "open", handler[h].to, handler[h].tx, F)
    BY <1>8 DEF LoadLedger, Moved
  <2>2. handler[h].to \in Dripped
    BY <1>8 DEF LoadLedger, At, Earned
  <2>3. F \subseteq Dripped
    BY <1>0, <2>2
  <2> HIDE DEF F
  <2> QED
    BY <1>0, <1>8, <2>1, <2>2, <2>3, EarnedThread DEF LoadLedger, chainVars
<1>9. CASE OpenLedger(h)
  BY <1>9, EarnedGoto DEF OpenLedger, chainVars, At
<1>10. CASE WriteLedger(h)
  <2>1. handler[h].funded \subseteq Dripped
    BY <1>10 DEF WriteLedger, At, Earned
  <2>2. ledger'.addrs \subseteq Dripped
    BY <1>10, <2>1 DEF WriteLedger
  <2> QED
    BY <1>10, <2>2, EarnedAnswer DEF WriteLedger, chainVars
<1> QED
  BY <1>1, <1>2, <1>3, <1>4, <1>5, <1>6, <1>7, <1>8, <1>9, <1>10 DEF FundWallet

(* A transaction that is mined with success is a drip for its receiver.    *)
LEMMA EarnedMine ==
  ASSUME Typed, Earned, NEW ok \in BOOLEAN, Mine(ok)
  PROVE  Earned'
<1>1. pool \in Tx /\ pool.to \in Addresses
  BY DEF Mine, Typed, TypeOK, Tx
<1>2. \A a \in Addresses : drips'[a] \in Nat /\ drips'[a] >= drips[a]
  <2>1. drips \in [Addresses -> Nat]
    BY DEF Typed, TypeOK
  <2>2. drips' = drips \/ drips' = [drips EXCEPT ![pool.to] = drips[pool.to] + 1]
    BY DEF Mine
  <2> QED
    BY <1>1, <2>1, <2>2
<1>3. Dripped \subseteq Dripped'
  BY <1>2 DEF Dripped, Typed, TypeOK
<1>4. ok => pool.to \in Dripped'
  BY <1>1 DEF Mine, Dripped, Typed, TypeOK
<1>5. ASSUME NEW i \in 1 .. Len(chain'), chain'[i].ok PROVE chain'[i].tx.to \in Dripped'
  <2>1. CASE i \in 1 .. Len(chain)
    BY <1>3, <1>5, <2>1 DEF Mine, Earned, Typed, TypeOK
  <2>2. CASE i = Len(chain) + 1
    BY <1>4, <1>5, <2>2 DEF Mine, Typed, TypeOK
  <2> QED
    BY <2>1, <2>2 DEF Mine, Typed, TypeOK
<1> QED
  BY <1>3, <1>5 DEF Earned, Mine

LEMMA EarnedNext == Typed /\ Earned /\ [Next]_vars => Earned'
<1> SUFFICES ASSUME Typed, Earned, [Next]_vars PROVE Earned'
  OBVIOUS
<1>1. CASE UNCHANGED vars
  BY <1>1 DEF vars, chainVars, Earned, Dripped
<1>2. ASSUME NEW a \in Addresses, Spend(a) PROVE Earned'
  BY <1>2 DEF Spend, Earned, Dripped
<1>3. CASE Restart
  BY <1>3 DEF Restart, chainVars, Earned, Dripped, Idle, Request
<1> QED
  BY <1>1, <1>2, <1>3, EarnedStep, EarnedMine DEF Next

LEMMA EarnedInit == Init => Earned
BY DEF Init, Earned, Idle, Request

(* Whoever is refused as already funded did get a drip, whatever threads,  *)
(* timeouts, restarts and torn ledger files do ("record only after         *)
(* confirmed success").                                                    *)
THEOREM LedgerCorrect == Spec => []RecordedWasFunded
<1>1. Earned => RecordedWasFunded
  BY DEF Earned, RecordedWasFunded, Dripped
<1> QED
  BY <1>1, TypedInit, TypedNext, EarnedInit, EarnedNext, PTL DEF Spec

-----------------------------------------------------------------------------
(* One request at a time.                                                  *)

(* A step of h, with nothing overlapping: the others are idle, so what     *)
(* Calm says after the step is about h alone.                              *)
LEMMA CalmThread ==
  ASSUME Typed, NEW h \in Handlers, NEW p, NEW a, NEW x, NEW F, Moved(h, p, a, x, F),
         \A g \in Handlers : g # h => At(g, "idle"),
         \A b \in Addresses : drips[b] <= 1,
         UNCHANGED drips,
         p = "idle" => pool' = NoTx /\ ledger'.addrs = Dripped,
         Asking(h)', Waiting(h)', Saving(h)'
  PROVE  Calm'
<1>1. handler'[h].phase = p /\ \A g \in Handlers : g # h => handler'[g].phase = "idle"
  BY MovedFacts DEF At
<1>2. Dripped' = Dripped
  BY DEF Dripped
<1>3. OneAtATime'
  BY <1>1 DEF OneAtATime, At
<1>4. \A g \in Handlers : (Asking(g) /\ Waiting(g) /\ Saving(g))'
  BY <1>1 DEF Asking, Waiting, Saving, At
<1>5. (\A g \in Handlers : At(g, "idle"))' => pool' = NoTx /\ ledger'.addrs = Dripped'
  BY <1>1, <1>2 DEF At
<1> QED
  BY <1>3, <1>4, <1>5 DEF Calm

(* What Calm says of a thread that has begun.                              *)
Alone(h) ==
  /\ \A g \in Handlers : g # h => At(g, "idle")
  /\ \A b \in Addresses : drips[b] <= 1
  /\ Asking(h) /\ Waiting(h) /\ Saving(h)

LEMMA CalmAlone ==
  ASSUME Calm, undisturbed, NEW h \in Handlers, ~At(h, "idle")
  PROVE  Alone(h)
BY DEF Calm, OneAtATime, Alone

LEMMA CalmGoto ==
  ASSUME Typed, NEW h \in Handlers, NEW p, Goto(h, p), Alone(h), p # "idle",
         UNCHANGED drips, Asking(h)', Waiting(h)', Saving(h)'
  PROVE  Calm'
<1>1. Moved(h, p, handler[h].to, handler[h].tx, handler[h].funded)
  BY StartTypes, GotoMoves DEF Start
<1> QED
  BY <1>1, CalmThread DEF Alone

LEMMA CalmAnswer ==
  ASSUME Typed, NEW h \in Handlers, Answer(h), Alone(h), UNCHANGED drips,
         pool' = NoTx, ledger'.addrs = Dripped
  PROVE  Calm'
<1>1. Moved(h, "idle", NoAddress, NoTx, {})
  BY DEF Answer, Moved, Idle
<1>2. (Asking(h) /\ Waiting(h) /\ Saving(h))'
  BY <1>1, MovedFacts DEF Asking, Waiting, Saving, At
<1> QED
  BY <1>1, <1>2, CalmThread DEF Alone

(* The record of h after Goto.                                             *)
LEMMA GotoFields ==
  ASSUME Typed, NEW h \in Handlers, NEW p, Goto(h, p)
  PROVE  /\ handler'[h].phase = p /\ handler'[h].to = handler[h].to
         /\ handler'[h].tx = handler[h].tx /\ handler'[h].funded = handler[h].funded
<1>1. Moved(h, p, handler[h].to, handler[h].tx, handler[h].funded)
  BY StartTypes, GotoMoves DEF Start
<1> QED
  BY <1>1, MovedFacts

(* The steps up to the drip.                                               *)
LEMMA CalmAsk ==
  ASSUME Typed, Calm, undisturbed', NEW h \in Handlers,
         \/ \E a \in Addresses : CheckLedger(h, a)
         \/ CheckBalance(h) \/ CheckTreasury(h)
         \/ \E price \in Prices : ReadNonce(h, price)
  PROVE  Calm'
<1> USE DEF chainVars
<1>1. ASSUME NEW a \in Addresses, CheckLedger(h, a) PROVE Calm'
  <2>1. Moved(h, "balance", a, NoTx, {}) /\ undisturbed /\ \A g \in Handlers : At(g, "idle")
    BY <1>1 DEF CheckLedger, Moved
  <2>2. pool = NoTx /\ ledger.addrs = Dripped /\ \A b \in Addresses : drips[b] <= 1
    BY <2>1 DEF Calm
  <2>3. handler'[h].phase = "balance" /\ handler'[h].to = a
    BY <2>1, MovedFacts
  <2>4. Dripped' = Dripped /\ a \notin Dripped /\ UNCHANGED <<pool, ledger, drips>>
    BY <1>1, <2>2 DEF CheckLedger, Dripped
  <2>5. (Asking(h) /\ Waiting(h) /\ Saving(h))'
    BY <2>2, <2>3, <2>4 DEF Asking, Waiting, Saving, At
  <2> QED
    BY <2>1, <2>2, <2>4, <2>5, CalmThread
<1>2. CASE CheckBalance(h) \/ CheckTreasury(h)
  <2>1. /\ undisturbed /\ ~At(h, "idle")
        /\ handler[h].phase \in {"balance", "treasury"}
        /\ UNCHANGED <<ledger, pool, drips>>
    BY <1>2 DEF CheckBalance, CheckTreasury, At
  <2>2. Alone(h) /\ Dripped' = Dripped
    BY <2>1, CalmAlone DEF Dripped
  <2>3. pool = NoTx /\ ledger.addrs = Dripped /\ handler[h].to \notin Dripped
    BY <2>1, <2>2 DEF Alone, Asking
  <2>4. CASE Answer(h)
    BY <2>1, <2>2, <2>3, <2>4, CalmAnswer
  <2>5. ASSUME NEW p \in {"treasury", "nonce"}, Goto(h, p) PROVE Calm'
    <3>1. (Asking(h) /\ Waiting(h) /\ Saving(h))'
      BY <2>1, <2>2, <2>3, <2>5, GotoFields DEF Asking, Waiting, Saving, At
    <3> QED
      BY <2>1, <2>2, <2>5, <3>1, CalmGoto
  <2> QED
    BY <1>2, <2>4, <2>5 DEF CheckBalance, CheckTreasury
<1>3. ASSUME NEW price \in Prices, ReadNonce(h, price) PROVE Calm'
  <2> DEFINE x == [nonce |-> Len(chain), to |-> handler[h].to, price |-> price]
  <2>1. Moved(h, "send", handler[h].to, x, {})
    BY <1>3 DEF ReadNonce, Moved
  <2>2. undisturbed /\ ~At(h, "idle") /\ handler[h].phase = "nonce" /\ UNCHANGED <<ledger, pool, drips>>
    BY <1>3 DEF ReadNonce, At
  <2> HIDE DEF x
  <2>3. Alone(h) /\ Dripped' = Dripped
    BY <2>2, CalmAlone DEF Dripped
  <2>4. handler'[h].phase = "send" /\ handler'[h].to = handler[h].to
    BY <2>1, MovedFacts
  <2>5. (Asking(h) /\ Waiting(h) /\ Saving(h))'
    BY <2>2, <2>3, <2>4 DEF Asking, Waiting, Saving, At, Alone
  <2> QED
    BY <2>1, <2>2, <2>3, <2>5, CalmThread DEF Alone
<1> QED
  BY <1>1, <1>2, <1>3

(* Sending, the receipt and giving up: with nothing overlapping the pool   *)
(* is empty when h sends, and the receipt is that of the last transaction. *)
LEMMA CalmSend ==
  ASSUME Typed, Calm, undisturbed', NEW h \in Handlers, Send(h) \/ Receipt(h) \/ GiveUp(h)
  PROVE  Calm'
<1>0. undisturbed /\ ~At(h, "idle") /\ UNCHANGED <<ledger, chain, drips>>
  BY DEF Send, Receipt, GiveUp, At, chainVars
<1>1. Alone(h) /\ Dripped' = Dripped /\ Start(h)
  BY <1>0, CalmAlone, StartTypes DEF Dripped
<1>2. CASE Send(h)
  <2>1. /\ ledger.addrs = Dripped /\ handler[h].to \notin Dripped
        /\ pool' = handler[h].tx /\ handler[h].tx.nonce = Len(chain) /\ Goto(h, "wait")
    BY <1>1, <1>2 DEF Alone, Asking, Send, At
  <2>2. /\ handler'[h].phase = "wait" /\ handler'[h].to = handler[h].to
        /\ handler'[h].tx = handler[h].tx
    BY <2>1, GotoFields
  <2>3. Pooled(h)'
    BY <1>0, <1>1, <2>1, <2>2 DEF Pooled
  <2>4. (Asking(h) /\ Waiting(h) /\ Saving(h))'
    BY <2>2, <2>3 DEF Asking, Waiting, Saving, At
  <2> QED
    BY <1>0, <1>1, <2>1, <2>4, CalmGoto
<1>3. CASE Receipt(h)
  <2>1. handler[h].tx.nonce < Len(chain) /\ At(h, "wait") /\ UNCHANGED pool
    BY <1>3 DEF Receipt, Mined, chainVars
  <2>2. ~Pooled(h)
    BY <2>1 DEF Pooled, Typed, TypeOK
  <2>3. Settled(h)
    BY <1>1, <2>1, <2>2 DEF Alone, Waiting
  <2>4. chain[handler[h].tx.nonce + 1] = chain[Len(chain)]
    BY <2>3 DEF Settled, Typed, TypeOK
  <2>5. CASE Answer(h) /\ ~chain[handler[h].tx.nonce + 1].ok
    BY <1>0, <1>1, <2>1, <2>3, <2>4, <2>5, CalmAnswer DEF Settled
  <2>6. CASE Goto(h, "load") /\ chain[handler[h].tx.nonce + 1].ok
    <3>1. pool = NoTx /\ Dripped = ledger.addrs \cup {handler[h].to}
      BY <2>3, <2>4, <2>6 DEF Settled
    <3>2. handler'[h].phase = "load" /\ handler'[h].to = handler[h].to
      BY <2>6, GotoFields
    <3>3. (Asking(h) /\ Waiting(h) /\ Saving(h))'
      BY <1>0, <1>1, <2>1, <3>1, <3>2 DEF Asking, Waiting, Saving, At
    <3> QED
      BY <1>0, <1>1, <2>6, <3>3, CalmGoto
  <2> QED
    BY <1>3, <2>5, <2>6 DEF Receipt
<1>4. CASE GiveUp(h)
  <2>1. handler[h].phase \in {"balance", "treasury", "nonce", "send"} /\ Answer(h) /\ UNCHANGED pool
    BY <1>4 DEF GiveUp, At, chainVars
  <2> QED
    BY <1>0, <1>1, <2>1, CalmAnswer DEF Alone, Asking
<1> QED
  BY <1>2, <1>3, <1>4

(* Saving: what is written is every address with a drip.                   *)
LEMMA CalmSave ==
  ASSUME Typed, Calm, undisturbed', NEW h \in Handlers,
         LoadLedger(h) \/ OpenLedger(h) \/ WriteLedger(h)
  PROVE  Calm'
<1>0. undisturbed /\ ~At(h, "idle") /\ UNCHANGED <<pool, drips>>
  BY DEF LoadLedger, OpenLedger, WriteLedger, At, chainVars
<1>1. Alone(h) /\ Dripped' = Dripped /\ Start(h)
  BY <1>0, CalmAlone, StartTypes DEF Dripped
<1>2. CASE LoadLedger(h)
  <2> DEFINE F == ledger.addrs \cup {handler[h].to}
  <2>1. Moved(h, "open", handler[h].to, handler[h].tx, F)
    BY <1>2 DEF LoadLedger, Moved
  <2>2. pool = NoTx /\ F = Dripped
    BY <1>1, <1>2 DEF LoadLedger, Alone, Saving
  <2> HIDE DEF F
  <2>3. handler'[h].phase = "open" /\ handler'[h].funded = F
    BY <2>1, MovedFacts
  <2>4. (Asking(h) /\ Waiting(h) /\ Saving(h))'
    BY <1>0, <1>1, <2>2, <2>3 DEF Asking, Waiting, Saving, At
  <2> QED
    BY <1>0, <1>1, <2>1, <2>4, CalmThread DEF Alone
<1>3. CASE OpenLedger(h)
  <2>1. Goto(h, "write") /\ pool = NoTx /\ handler[h].funded = Dripped /\ ledger'.size = 0
    BY <1>1, <1>3 DEF OpenLedger, Alone, Saving
  <2>2. handler'[h].phase = "write" /\ handler'[h].funded = handler[h].funded
    BY <2>1, GotoFields
  <2>3. (Asking(h) /\ Waiting(h) /\ Saving(h))'
    BY <1>0, <1>1, <2>1, <2>2 DEF Asking, Waiting, Saving, At
  <2> QED
    BY <1>0, <1>1, <2>1, <2>3, CalmGoto
<1>4. CASE WriteLedger(h)
  <2>1. pool = NoTx /\ handler[h].funded = Dripped /\ ledger.size = 0
    BY <1>1, <1>4 DEF WriteLedger, Alone, Saving
  <2>2. Cardinality(handler[h].funded) \in Nat
    BY <1>1, FaucetAssumption, FS_Subset, FS_CardinalityType DEF Start
  <2>3. Answer(h) /\ ledger'.addrs = Dripped
    BY <1>4, <2>1, <2>2 DEF WriteLedger
  <2> QED
    BY <1>0, <1>1, <2>1, <2>3, CalmAnswer
<1> QED
  BY <1>2, <1>3, <1>4

(* The drip of the one request that waits is mined, the first of its       *)
(* wallet.                                                                 *)
LEMMA CalmMine ==
  ASSUME Typed, Calm, undisturbed, NEW ok \in BOOLEAN, Mine(ok)
  PROVE  Calm'
<1>1. PICK h \in Handlers : ~At(h, "idle")
  BY DEF Calm, Mine
<1>2. Alone(h) /\ Start(h)
  BY <1>1, CalmAlone, StartTypes
<1>3. At(h, "wait") /\ Pooled(h)
  BY <1>1, <1>2 DEF Alone, Asking, Waiting, Settled, Saving, At, Start, Phases, Mine
<1>4. pool.to = handler[h].to /\ pool.to \in Addresses /\ drips[pool.to] = 0
  BY <1>2, <1>3 DEF Start, At, Pooled, Dripped, Typed, TypeOK
<1>5. drips' = IF ok THEN [drips EXCEPT ![pool.to] = 1] ELSE drips
  BY <1>4 DEF Mine
<1>6. Dripped' = IF ok THEN Dripped \cup {pool.to} ELSE Dripped
  BY <1>4, <1>5 DEF Dripped, Typed, TypeOK
<1>7. \A b \in Addresses : drips'[b] <= 1
  BY <1>2, <1>4, <1>5 DEF Alone, Typed, TypeOK
<1>8. Len(chain') = Len(chain) + 1 /\ chain'[Len(chain')].ok = ok /\ Len(chain) \in Nat
  BY DEF Mine, Typed, TypeOK
<1>9. pool' = NoTx /\ UNCHANGED <<handler, ledger>>
  BY DEF Mine
<1>10. Settled(h)'
  <2>1. handler[h].tx.nonce = Len(chain) /\ ledger.addrs = Dripped
    BY <1>3 DEF Pooled
  <2> QED
    BY <1>4, <1>6, <1>8, <1>9, <2>1 DEF Settled
<1>11. \A g \in Handlers : (Asking(g) /\ Waiting(g) /\ Saving(g))'
  <2>1. Asking(h)' /\ Waiting(h)' /\ Saving(h)'
    BY <1>3, <1>9, <1>10 DEF Asking, Waiting, Saving, At
  <2>2. ASSUME NEW g \in Handlers, g # h PROVE Asking(g)' /\ Waiting(g)' /\ Saving(g)'
    BY <1>2, <1>9, <2>2 DEF Alone, Asking, Waiting, Saving, At
  <2> QED
    BY <2>1, <2>2
<1>12. OneAtATime'
  BY <1>9 DEF Calm, OneAtATime, At
<1> QED
  BY <1>1, <1>7, <1>9, <1>11, <1>12 DEF Calm, At

LEMMA CalmNext == Typed /\ Calm /\ [Next]_vars => Calm'
<1> SUFFICES ASSUME Typed, Calm, [Next]_vars, undisturbed' PROVE Calm'
  BY DEF Calm
<1>1. CASE UNCHANGED vars
  BY <1>1 DEF vars, chainVars, Calm, OneAtATime, Asking, Waiting, Pooled, Settled, Saving, Dripped, At
<1>2. ASSUME NEW h \in Handlers, FundWallet(h) PROVE Calm'
  BY <1>2, CalmAsk, CalmSend, CalmSave DEF FundWallet
<1>3. ASSUME NEW ok \in BOOLEAN, Mine(ok) PROVE Calm'
  BY <1>3, CalmMine DEF Mine
<1>4. ASSUME NEW a \in Addresses, Spend(a) PROVE Calm'
  BY <1>4 DEF Spend, Calm, OneAtATime, Asking, Waiting, Pooled, Settled, Saving, Dripped, At
<1>5. CASE Restart
  BY <1>5 DEF Restart
<1> QED
  BY <1>1, <1>2, <1>3, <1>4, <1>5 DEF Next

LEMMA CalmInit == Init => Calm
BY DEF Init, Calm, OneAtATime, Asking, Waiting, Saving, Dripped, Idle, Request, At

(* As long as requests come one at a time and none is cut short or left    *)
(* waiting, each wallet gets at most one drip and the ledger knows it.     *)
THEOREM OneDripCorrect == Spec => []OneDripUndisturbed
<1>1. Calm => OneDripUndisturbed
  BY DEF Calm, OneDripUndisturbed, Dripped
<1> QED
  BY <1>1, TypedInit, TypedNext, CalmInit, CalmNext, PTL DEF Spec
=============================================================================
