------------------------------- MODULE Faucet -------------------------------
(***************************************************************************)
(* /fund-wallet (app/routers/wallet.py): a drip of gas for new wallets, at *)
(* most one per address, remembered in a JSON file that is read and        *)
(* rewritten without a lock by handlers that run in the thread pool.       *)
(*                                                                         *)
(* The chain: get_transaction_count answers with the number of mined       *)
(* transactions, so the node holds at most one transaction of the faucet.  *)
(* A second one with its nonce replaces it at a higher gas price and is    *)
(* turned away otherwise.  A receipt is asked for by hash, which covers    *)
(* nonce, receiver and price.                                              *)
(***************************************************************************)
EXTENDS Integers, Sequences, FiniteSets

CONSTANTS
  Handlers,     \* threads of the pool
  Addresses,    \* wallets
  NoAddress,
  Prices,       \* gas prices
  NoTx,
  Treasury,     \* drips that the faucet can pay for
  MaxTx         \* bound of the model: mined transactions of the faucet

ASSUME FaucetAssumption ==
  /\ NoAddress \notin Addresses
  /\ IsFiniteSet(Addresses)
  /\ Prices \subseteq Nat
  /\ Treasury \in Nat
  /\ MaxTx \in Nat
  /\ NoTx \notin [nonce : Nat, to : Addresses, price : Prices]

VARIABLES
  ledger,       \* the file: the addresses a reader gets, and how many
                \* addresses' worth of bytes it holds
  handler,      \* thread -> the request it serves
  pool,         \* the faucet's transaction that waits to be mined
  chain,        \* the faucet's mined transactions, in the order of nonces
  treasury,     \* drips left
  gas,          \* wallet -> whether it holds at least the threshold
  drips,        \* history: wallet -> drips it got
  undisturbed   \* history: no two requests overlapped, no wait for a receipt
                \* was given up, the server never stopped during a request

chainVars == <<pool, chain, treasury, gas, drips>>
vars == <<ledger, handler, chainVars, undisturbed>>

Tx == [nonce : 0 .. MaxTx, to : Addresses, price : Prices]
Phases == {"idle", "balance", "treasury", "nonce", "send", "wait", "load", "open", "write"}

(* A request in a phase: its address, transaction and what it will save.   *)
Request(p, a, tx, F) == [phase |-> p, to |-> a, tx |-> tx, funded |-> F]
Idle == Request("idle", NoAddress, NoTx, {})

(* The types, and that what a request is about to save has its address.    *)
TypeOK ==
  /\ ledger \in [addrs : SUBSET Addresses, size : Nat]
  /\ handler \in [Handlers -> [phase : Phases, to : Addresses \cup {NoAddress},
                               tx : Tx \cup {NoTx}, funded : SUBSET Addresses]]
  /\ \A h \in Handlers : handler[h].phase \in {"open", "write"} =>
       handler[h].to \in handler[h].funded
  /\ pool \in Tx \cup {NoTx}
  /\ chain \in Seq([tx : Tx, ok : BOOLEAN])
  /\ treasury \in 0 .. Treasury
  /\ gas \in [Addresses -> BOOLEAN]
  /\ drips \in [Addresses -> Nat]
  /\ undisturbed \in BOOLEAN

(* No ledger file: it reads as the empty set.                              *)
Init ==
  /\ ledger = [addrs |-> {}, size |-> 0]
  /\ handler = [h \in Handlers |-> Idle]
  /\ pool = NoTx
  /\ chain = <<>>
  /\ treasury = Treasury
  /\ gas = [a \in Addresses |-> FALSE]
  /\ drips = [a \in Addresses |-> 0]
  /\ undisturbed = TRUE

At(h, phase) == handler[h].phase = phase
Goto(h, phase) == handler' = [handler EXCEPT ![h].phase = phase]
Answer(h) == handler' = [handler EXCEPT ![h] = Idle]

-----------------------------------------------------------------------------
(* The handler, one step for each read or write of something shared.       *)

(* A recorded address is refused at once, which changes nothing.           *)
CheckLedger(h, a) ==
  /\ At(h, "idle")
  /\ a \notin ledger.addrs
  /\ handler' = [handler EXCEPT ![h] = Request("balance", a, NoTx, {})]
  /\ undisturbed' = (undisturbed /\ \A g \in Handlers : At(g, "idle"))
  /\ UNCHANGED <<ledger, chainVars>>

CheckBalance(h) ==
  /\ At(h, "balance")
  /\ IF gas[handler[h].to] THEN Answer(h) ELSE Goto(h, "treasury")
  /\ UNCHANGED <<ledger, chainVars, undisturbed>>

CheckTreasury(h) ==
  /\ At(h, "treasury")
  /\ IF treasury = 0 THEN Answer(h) ELSE Goto(h, "nonce")
  /\ UNCHANGED <<ledger, chainVars, undisturbed>>

ReadNonce(h, price) ==
  /\ At(h, "nonce")
  /\ LET to == handler[h].to IN
     handler' = [handler EXCEPT ![h] =
       Request("send", to, [nonce |-> Len(chain), to |-> to, price |-> price], {})]
  /\ UNCHANGED <<ledger, chainVars, undisturbed>>

(* The node takes a transaction with the next nonce that the faucet can    *)
(* pay for, in place of a cheaper one; it turns others away (GiveUp).      *)
Send(h) ==
  /\ At(h, "send")
  /\ handler[h].tx.nonce = Len(chain)
  /\ treasury > 0
  /\ pool # NoTx => handler[h].tx.price > pool.price
  /\ pool' = handler[h].tx
  /\ Goto(h, "wait")
  /\ UNCHANGED <<ledger, chain, treasury, gas, drips, undisturbed>>

Mined(tx) == tx.nonce < Len(chain) /\ chain[tx.nonce + 1].tx = tx

(* Mutant: the status of the receipt is not looked at.                     *)
ReceiptUnchecked(h) ==
  /\ At(h, "wait") /\ Mined(handler[h].tx)
  /\ Goto(h, "load")
  /\ UNCHANGED <<ledger, chainVars, undisturbed>>

Receipt(h) ==
  /\ At(h, "wait") /\ Mined(handler[h].tx)
  /\ IF chain[handler[h].tx.nonce + 1].ok THEN Goto(h, "load") ELSE Answer(h)
  /\ UNCHANGED <<ledger, chainVars, undisturbed>>

(* A call to the node raises, or no receipt came within 120 seconds.       *)
GiveUp(h) ==
  /\ handler[h].phase \in {"balance", "treasury", "nonce", "send", "wait"}
  /\ Answer(h)
  /\ undisturbed' = (undisturbed /\ ~At(h, "wait"))
  /\ UNCHANGED <<ledger, chainVars>>

(* Mutant: the address is not added to what was read.                      *)
LoadWithoutAdding(h) ==
  /\ At(h, "load")
  /\ handler' = [handler EXCEPT ![h] = Request("open", @.to, @.tx, ledger.addrs)]
  /\ UNCHANGED <<ledger, chainVars, undisturbed>>

(* Mutant: the ledger is not read again before it is written.              *)
LoadNothing(h) ==
  /\ At(h, "load")
  /\ handler' = [handler EXCEPT ![h] = Request("open", @.to, @.tx, {@.to})]
  /\ UNCHANGED <<ledger, chainVars, undisturbed>>

(* _save_funded_address: read the file, truncate it, write it back.        *)
LoadLedger(h) ==
  /\ At(h, "load")
  /\ handler' = [handler EXCEPT ![h] = Request("open", @.to, @.tx, ledger.addrs \cup {@.to})]
  /\ UNCHANGED <<ledger, chainVars, undisturbed>>

OpenLedger(h) ==
  /\ At(h, "open")
  /\ ledger' = [addrs |-> {}, size |-> 0]
  /\ Goto(h, "write")
  /\ UNCHANGED <<chainVars, undisturbed>>

(* Two writers that both opened the file write over each other from its    *)
(* start: what is left of the longer text makes the JSON unreadable.       *)
WriteLedger(h) ==
  /\ At(h, "write")
  /\ LET n == Cardinality(handler[h].funded) IN
     ledger' = IF n >= ledger.size THEN [addrs |-> handler[h].funded, size |-> n]
               ELSE [addrs |-> {}, size |-> ledger.size]
  /\ Answer(h)
  /\ UNCHANGED <<chainVars, undisturbed>>

-----------------------------------------------------------------------------
(* The chain, the wallets' users and the server's operator.                *)

(* The transaction is mined; ok is the status of its receipt.              *)
Mine(ok) ==
  /\ pool # NoTx
  /\ Len(chain) < MaxTx
  /\ chain' = Append(chain, [tx |-> pool, ok |-> ok])
  /\ pool' = NoTx
  /\ IF ok
     THEN /\ treasury' = treasury - 1
          /\ gas' = [gas EXCEPT ![pool.to] = TRUE]
          /\ drips' = [drips EXCEPT ![pool.to] = @ + 1]
     ELSE UNCHANGED <<treasury, gas, drips>>
  /\ UNCHANGED <<ledger, handler, undisturbed>>

Spend(a) ==
  /\ gas[a]
  /\ gas' = [gas EXCEPT ![a] = FALSE]
  /\ UNCHANGED <<ledger, handler, pool, chain, treasury, drips, undisturbed>>

Restart ==
  /\ \E h \in Handlers : ~At(h, "idle")
  /\ handler' = [h \in Handlers |-> Idle]
  /\ undisturbed' = FALSE
  /\ UNCHANGED <<ledger, chainVars>>

(* The handler runs on by one step.                                        *)
FundWallet(h) ==
  \/ \E a \in Addresses : CheckLedger(h, a)
  \/ CheckBalance(h) \/ CheckTreasury(h)
  \/ \E price \in Prices : ReadNonce(h, price)
  \/ Send(h) \/ Receipt(h) \/ GiveUp(h)
  \/ LoadLedger(h) \/ OpenLedger(h) \/ WriteLedger(h)

Next ==
  \/ \E h \in Handlers : FundWallet(h)
  \/ \E ok \in BOOLEAN : Mine(ok)
  \/ \E a \in Addresses : Spend(a)
  \/ Restart

Spec == Init /\ [][Next]_vars

-----------------------------------------------------------------------------
(* Whoever is refused as already funded did get a drip ("record only after *)
(* confirmed success"): not a replaced, a failed or a lost transaction.    *)
RecordedWasFunded == \A a \in ledger.addrs : drips[a] > 0

(* As long as requests come one at a time and are neither cut short nor    *)
(* left waiting, no address gets a second drip, however often its gas runs *)
(* out, and between requests the ledger knows every address that got one.  *)
OneDripUndisturbed == undisturbed =>
  /\ \A a \in Addresses : drips[a] <= 1
  /\ (\A h \in Handlers : At(h, "idle")) => ledger.addrs = {a \in Addresses : drips[a] > 0}

(* "One drip per address, guarded by a JSON ledger" (wallet.py).           *)
OneDripPerAddress == \A a \in Addresses : drips[a] <= 1
=============================================================================
