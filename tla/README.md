# A verification development of the Web3FS backend

TLA+ modules, TLC configurations and TLAPS proofs for the backend of Web3FS: the
`FileStorage` contract, the handlers that prepare its transactions and those that read it, the
upload and delete path to the IPFS node, the files the server makes for itself, the gas faucet,
and the renewal of the TLS certificate that the enclave serves. Paths below are relative to the
repository.

## The system

| component | state | operations | interacts with |
|---|---|---|---|
| **FileStorage contract** (`smart-contracts/contracts/FileStorage.sol`) | owner, metadata, owner's files, sharing lists (per user and per file), permission bits, expiry blocks, requests, queues of open requests | upload, move, delete, grant, revoke (single and batch), request, cancel, approve, deny; views | called by transactions that users sign; read by every handler |
| **Prepared transactions** (`helpers.py`, `routers/sharing.py`, `routers/file_ops.py`, `routers/upload.py`) | none; the wallets keep what was prepared | check owners, estimate, read the nonce, inherit the shares of a folder | the contract through RPC, the user's wallet |
| **Listings, recipients, requests, mails** (`routers/files.py`, `routers/sharing.py`) | none | several reads each | the contract, mail |
| **Uploads, deletes, IPFS node** (`routers/upload.py`, `routers/file_ops.py`, `ipfs.py`, `helpers.unpin_cids`, `ipfs/docker-compose.yml`) | blocks and pins on the node; requests in progress | add unpinned, look up the owner, pin, prepare a transaction; verify a mined delete, unpin, sweep; daily sweep | the contract, the node through HTTP, the wallet |
| **Downloads and thumbnails** (`routers/download.py`, `security.py`) | thumbnails on disk | permission check, fetch, decrypt, render | the contract, the gateway |
| **Login tokens** (`routers/auth.py`, `security.py`), **file encryption** (`filecrypto.py`) | a secret and a master key, each in a file and in memory | create once, sign, check; seal, open | the disk |
| **Gas faucet** (`routers/wallet.py`) | `funded_addresses.json`; the faucet's account on the chain | `/fund-wallet` | the chain |
| **Certificate renewal, attestation** (`sgx/csr.py`, `provision.py`, `promote.py`, `renew-cert.sh`, `restart.sh`, `verify-attestation.py`, `routers/attestation.py`) | sealed key and certificate, pending ones, chain on the proxy, loaded pair, cached quote | the steps of the script, promote by hand, boot, `/attestation`, the client's check | certbot, the TLS library |
| **Recipient lookup and share mail; server, configuration, logging; enclave build; contract deployment** | – | wiring, external services, scripts | – |

What is hard: synchronous handlers run in a thread pool and interleave at every call to the
node or the chain; a handler that makes five calls sees five states of the chain; a prepared
transaction is signed and mined later or never; contents are addressed by hash, so a deleted
file's id comes back with the next upload of the same bytes; the contract keeps each relation in two
or three arrays and maps that are edited by hand; nothing runs when a grant expires; files are
created by opening and then writing them; scripts are cut between two writes. What makes
each component correct:

* contract: its copies of a relation agree; every pending request can be resolved by the one
  address that may; no access outlives a delete but a former owner's;
* prepared transactions: inherited grants and folder deletes are, when mined, those of the folder as it
  is then, and no prepared grant, revoke, move or delete reverts;
* listings, mails, downloads: what is shown, said or sent agrees with a state the chain was in
  while the request ran;
* uploads: every registered cid is pinned and stored;
* the server's own files: what was sealed can be opened, a token holds until it expires;
* faucet: one drip per address;
* renewal: the server can be restarted at any time; the quote binds the served certificate, or, between
  a promote and the restart, the next one.

`PROJECT.json` lists the hazards with the line where each bites and the properties that
would catch it.

## Modules

| module | models | runs | proofs |
|---|---|---|---|
| `FileStorage` | the contract, one action per transaction | `contract`; batches in `transactions` | `FileStorageProofs` |
| `PendingQueue` | the array and slot numbers of open requests, a delete one asker at a time | `pending_queue` | `PendingQueueProofs` |
| `PendingSet` | what the queue promises: a set of open requests | property of `pending_queue` | refinement in `PendingQueueProofs` |
| `Views` | what the contract answers, and the rows of a shared folder | part of the two below | rows of a folder in `TransactionsProofs` |
| `Reads` | the handlers that only read, one call at a time, over `FileStorage` | `reads` | `ReadsProofs` |
| `Transactions` | the handlers that prepare transactions, the wallets, nonces and mining, over `FileStorage` | `transactions`, `folder_share_lapsed` | `TransactionsProofs` |
| `StorageLifecycle` | upload handlers, node, transactions, `/verify-upload`, sweeps | `storage`, `storage_shared_folder` | `StorageProofs` |
| `SealedFiles` | secret, master key and thumbnails on the server's disk | `sealed_files` | `SealedFilesProofs` |
| `Faucet` | `/fund-wallet` and the faucet's account | `faucet`, `faucet_race` | `FaucetProofs` |
| `CertRotation` | renewal script, one-shot enclaves, server boot, quote, client | `cert_rotation`, `quote_before_restart` | `CertRotationProofs` |
| `MCFileStorage`, `MCReads`, `MCTransactions`, `MCStorage` | small instances | | |

### FileStorage

A transaction is atomic: its `require`s are guards (a transaction that reverts changes
nothing), its assignments the primed variables. `block` is `block.number`; `Mine` advances it.
Internal functions are operators with the code's names (`GrantEach` for `_grant` over a batch,
`UploadEach`, `MoveEach`, `RevokeEach`, `DeleteEach`), and the external ones call them with a
single cid or a set. A batch that names a cid twice has the effect of two transactions of the
same block, or reverts (`uploadFiles`), so a batch is a set; `cleanFolder` skips foreign cids.

Arrays are abstracted to what they contain. `sharedFiles` and `sharedUsers` count copies, because
`_grant` pushes whenever no bits are stored and nothing else keeps an entry from being pushed
twice (it happens after a grant of the mask 0). The owner's files and queue are sets: they are
looked up by cid or by slot, and `PendingQueue` models the slots. Permissions are sets of bits.
`formerOwners` is a history variable: `deleteFile` clears the bits of the users in `sharedUsers`
only, so an owner keeps their bits on a cid they delete.

### PendingQueue and PendingSet

`PendingQueue` has the arrays, the slot numbers and `_requesters` as sequences. The loop of
`deleteFile` is unrolled, because an underflow in one of its rounds would revert the whole
delete: fairness of the two delete steps says only that a transaction which has begun runs to its
end, and `DeletesFinish` then fails exactly if a round is blocked by a revert. The gates on
lapsed access are left to `FileStorage`. `PendingSet` is the abstract specification; the
refinement maps `open` to the keys with a slot.

### Views and Reads

`Views` has what a single call returns. In `Reads` a request is a record that remembers what its
calls returned; between any two calls the chain makes a step of `FileStorage!Next`. Handlers
that only read keep nothing and share nothing, so one request at a time is all they can do to each
other; a request that answers with rows is followed along one of them. `witnessed` is a history
variable: which facts about the followed row were true since the request's first call, whether the
file was deleted meanwhile, and, for rows of lists and for downloads, whether a transaction (`"tx"`,
more than a new block) came between. `regained` is another: the open requests whose requester the
owner has granted access again since they asked. `failed` remembers that a call raised and a default
was used. So a property can say "true at some moment of the request", which is the most that
several reads can promise, or "true if nothing came between".

### Transactions

A handler checks the owner or not (`Checked`, `Unchecked`), reads the nonce, estimates, and hands
out a transaction, or an upload with the grants its folder stands for: `folder_share_set` lists
the owner's files, looks up each file's owner, reads each file's recipients and goes one folder up
if there are none. Each of these calls is a step, each may raise, and the chain and the other
wallet transactions move on in between. `wallet` keeps what was prepared; an entry is mined
when its nonce is the sender's next, or declined. `blip` and `moved` mark entries during whose
preparation a call failed or a transaction of the sender was mined. A path is the sequence of its
names. `Effect` is what a mined call does to the chain and `Succeeds` the `require`s it has to
pass, which is what estimating its gas finds out.

### StorageLifecycle

One step for each call: add, owner lookup and pin per file, preparing the transaction, mining
it, one unpin per cid, the sweep. The node may fail at every call. Encryption is
deterministic, so equal content has one cid whoever uploads it. Of the contract it keeps owners
and sharing lists. Two constants describe environments: `PromptVerify` (no upload of a cid
begins between the mining of a delete that names it and the last verification of that delete) and
`OwnFoldersOnly` (no folder to delete holds a file of another user). The client calls
`/verify-upload` with the hash when the delete is mined; nothing in the code enforces it. An upload
that began before the delete was mined is under no restriction: it may be anywhere between its first
call and its signature when another user's delete of the same content is mined and verified.
`exposed` is a history variable: the cids in use that a mined delete may still release, or has released
and nobody has pinned anew. One `/verify-upload` is in progress at a time.

### SealedFiles

The secret, the key and a thumbnail are each created by `open` (the file is empty) and `write`;
`Crash` may come between any two steps. Writing the key may fail with the process up (`RaiseKey`: the
lock is released, the file stays empty or, when only closing failed, is whole), and so may saving a
thumbnail (`FailThumb`: Pillow removes a file it created and leaves one it was overwriting torn).
What was cut by either is recorded in `cut`. Uploads run `_master_key` in
threads: check without the lock, lock, check again, read or draw, write, publish. The login secret
is loaded when the process starts. Thumbnail handlers are coroutines of one event loop, which a
save keeps busy (`loop`), while a thread sends a file beside it. HMAC and AES are taken as what they
promise: a token verifies only with the secret it was signed with, content opens only with its key.

### Faucet

One step for each read or write of something shared: ledger check, wallet balance, faucet
balance, nonce, send, receipt, and load, truncate, write of the ledger. The chain counts mined
transactions for the nonce, so the node holds at most one transaction of the faucet; a second
with the same nonce replaces it at a higher price or is turned away. `ledger` is what a reader
gets and how many addresses its text holds: two writers that truncated before either wrote leave
the tail of the longer text, which does not parse and reads as empty. The text is taken to be
written at once when the file is closed. `undisturbed` is a history variable.

### CertRotation

A key is numbered by its csr run and a certificate by the key it was issued for. Every sealed file
is removed and then written, as two steps; any step may be the last one (`Cut`). An error of
certbot lets the script go on with what lies on the proxy. The server reads the certificate and
then the key and starts with a matching pair only. One renewal runs at a time. The client of
`verify-attestation.py` connects once for the certificate and once for the quote.

## Runs

| run | instance | states | checks |
|---|---|---|---|
| `contract` | 3 users, 1 cid, masks {} and {r}, durations 1 and 2, 2 blocks, deadlines up to 3, 2 copies, `Followed`, symmetry | 115,000 | `TypeOK`, `MirrorLists`, `RequestersExact`, `AccessAccountedFor`, `PendingQueueExact`, `DeadFilesAreClean` |
| `reads` | 2 users, 1 cid, a path and a path in the trash, bits r and d, masks {r} and {r, d}, durations 0 to 2, 2 blocks, deadlines up to 3, `Followed`, symmetry | 162,000 | `ListedOnce`, `ShownAsLapsedIsOver`, `GreyedOutMayAsk`, `RecipientsAreComplete`, `ShownRequestsAreOpen`, `MailsAreTrue`, `DownloadIsEntitled`, `RequestsAreAboutLapsedGrants`, `ApprovalGrantsAccess` |
| `pending_queue` | 3 users, 2 cids | 10,500 | `TypeOK`, `SlotsExact`, `DeletesFinish`, `ImplementsPendingSet` |
| `transactions` | 3 users, 3 cids, folders two deep, 2 prepared transactions, 2 blocks | 259,000 | `OwnerIndex`, `InheritedIsCurrent`, `PreparedSucceeds`, `FolderDeleteIsCurrent`, `FolderRowsAreRight` |
| `storage` | 2 users, 2 cids, `PromptVerify` and `OwnFoldersOnly`, symmetry | 595,000 | `TypeOK`, `StoredUnlessExposed`, `OnlyCrossingExposes` |
| `sealed_files` | 2 threads, 2 requests, 2 values, time 0 to 2, 1 token | 292,000 | `TypeOK`, `SealedIsReadable`, `KeyUnusableOnlyAfterCut`, `TokensHold`, `BrokenPreviewOnlyAfterCut`, `LockIsReleased` |
| `faucet` | 2 threads, 2 wallets, 2 prices, 2 drips, 3 transactions | 2,530,000 | `TypeOK`, `RecordedWasFunded`, `OneDripUndisturbed` |
| `cert_rotation` | 4 keys (three renewals) | 17,700 | `TypeOK`, `LivePairIntact`, `TornPromoteCanBeRepeated`, `AlarmOnlyAcrossRenewal` |
| `storage_shared_folder` | `OwnFoldersOnly` off | violation | `RegisteredIsStored` |
| `folder_share_lapsed` | as `transactions` | violation | `InheritorsSeeTheFolder` |
| `faucet_race` | as `faucet` | violation | `OneDripPerAddress` |
| `quote_before_restart` | 2 keys (one renewal after the first) | violation | `QuoteBindsServedCert` |

What they show, for each component:

* The contract: the lists per user and per file agree, copy by copy; `_requesters` names exactly
  those whose request was not deleted with the file; the owner's index has the file at its path;
  every pending request is in the queue of the one who may answer it and nothing else is; whoever has
  bits is the owner, a listed recipient or a former owner; a deleted file leaves no bits, requests
  or expiry to anybody but a former owner. A request is only made about a grant that ran out, and an
  approval gives its requester access for the time it states.
* The queue: slots and array agree, a delete never reverts half-way, and the whole is a set.
* Readers: an answer whose calls straddle transactions is still true of some moment of the request
  (`ShownAsLapsedIsOver`, the first half of `DownloadIsEntitled`), and so are the requests shown to an
  owner and the mails (`ShownRequestsAreOpen`, `MailsAreTrue`), with one exception that the formulas
  name: a mail says that the requester's access has expired also when the owner has granted it again
  with the request still pending. Rows and lists that no transaction interrupts are true altogether,
  although blocks go by and grants run out between their calls.
* Prepared transactions: an upload that can be mined carries the grants its folder stands for; a
  folder delete removes what its sender owns in the folder, unless another transaction of
  theirs came between the list and the nonce; a grant, revoke, move or delete whose turn has come
  does not revert, but for a grant behind an upload; and the rows of a shared folder name each
  recipient with the right state. Uploads, requests and answers may revert, since others can be
  first. Through the batches among them the owner's array, map and metadata agree.
* Storage: what is registered is pinned and stored, unless a mined delete named it while it was in use.
  In the environment of the run that takes one particular crossing, an owner's delete mined while
  another upload of the same content is under way or unsigned (below).
* The server's files: nothing that was sealed is lost and no token dies with a restart; an unusable
  key comes from a crash or an error between opening its file and closing it, a broken preview from
  a crash in a save, an error in saving over one that exists, or a save that overtakes a file that
  is being sent.
* Faucet: who is in the ledger was paid, and a request that no other one disturbs pays at most once.
* Renewal: the live pair survives every cut but one, and that one can be repeated; a client is alarmed
  about a genuine server only because of a newer certificate than the one it was presented: loaded
  since, or promoted, quoted and not loaded yet.

Why the bounds are enough. The contract's relations are about one file, and need an owner and two
recipients, or a former owner, a new owner and a recipient: three users and one cid. What relates
files to each other is the owner's array and batches, some of whose cids are gone when they are
mined; `transactions` has these, with three cids and paths that differ after a move. Two copies
show a double entry; `MaxCopies` stops grants of the mask 0 from growing the lists for ever. A timed
grant runs out in the second block. `MaxUint` stands for 2^256 - 1 and makes the longer of two timed
grants revert in the last block. `Followed` of `contract` goes no further than two owners' deletions of
the file, two recipients listed twice, or two answered or cancelled requests at once. The properties
of `reads` are about one user, their counterpart and one file, which may change hands. Its `Followed`
drops requests about which nothing is stated any more, keeps to deletions by one owner
(`OneDeleter`), and tells the two bits apart in downloads only, since the other handlers ask whether
there is any. A slot of the queue has to be swapped
and renumbered with a third key beside the two: three users with two files give queues of four.
`transactions` starts from a state that two uploads and three grants reach (`MCInit`): one user
prepares, another asks, a third receives only; folders are two deep because an empty folder
inherits from the one above, and two prepared transactions can race for one nonce. Storage needs two users for a duplicate
and two cids for a batch that is partly refused or a folder that is partly foreign. Two threads and
two drawn values show a key drawn twice, and time has to pass both the skew and the lifetime of a
token, which are 1. The faucet needs two threads, two wallets so that ledgers of different lengths
overwrite each other, two prices for a replacement, and a third transaction after a failed one. Three
renewals allow a torn promote, an abandoned run after it, and a run that finishes.

`CHECK_DEADLOCK FALSE` is said where a bound is used up: of the faucet's runs, which have no drips
left once every wallet is recorded, and of the runs of `Transactions`, whose nonces and
blocks are numbered up to a bound.

Fairness is assumed twice. In `PendingQueue` it is weak fairness of the two delete steps (above),
in `SealedFiles` weak fairness of `KeyStep(t)`: a thread of the pool that can take its next step is
scheduled. With it `LockIsReleased` says that no error under the lock leaves it held. Everything
else is safety: requests are answered or not, users sign or not.

Every property of a passing run comes with a mutant, an operator next to the definition it changes
(a dropped guard, a missing reset, a value not reread), under which TLC finds the property
violated. `PROJECT.json` has the list.

## Where the code disagrees with what the repository says

1. `delete_folder` names every listed file under a folder, also those shared by others; the contract
   skips them and `/verify-upload` unpins them, although "a mined delete is the point at which the
   bytes stop being ours to keep" (`storage_shared_folder`).
2. A new file is granted to the recipients of its folder's files, also to those whose access has run
   out, and for good; the test says that a folder is shared with "only the users who can see *every*
   file in it" (`folder_share_lapsed`).
3. "One drip per address": check and record are far apart and unlocked (`faucet_race`).
4. The quote is made from `cert.pem`, described as "the first certificate in the served chain — exactly
   the bytes a client receives from the TLS handshake" (`routers/attestation.py:52-53`). After a promote
   and before the restart the file holds the next certificate, and the first quote is kept
   (`quote_before_restart`). `AlarmOnlyAcrossRenewal` bounds what a client sees of it.

Two more are bounded by properties that pass, and have no run of their own:

5. "Callers must not register an unpinned CID on-chain" (`ipfs.py:45-46`, and `upload.py:168-171`). Two
   users upload the same content, both find no owner and both pin it; the first registers it, deletes
   it, and the delete is verified at once, which unpins it; then the second signs, and the content is
   registered and unpinned. `OnlyCrossingExposes` shows that with prompt verification and
   folders of one's own this crossing is the one way.
6. "Their access has expired" (`sharing.py:502`), where the comments want nothing sent "unless the
   on-chain state actually supports the claim" (`sharing.py:471-473`, `521-523`). `notify_request`
   asks whether the request is pending, not whether there is access, and `_grant` leaves a pending
   request as it is: when the owner shares the file again before answering, the mail is wrong. `Open`
   in `Reads` has this one exception (`regained`).

Worth knowing, though no text of the repository denies it: an owner keeps their bits on a cid they
delete, also when somebody else registers the same content later (`formerOwners` in
`AccessAccountedFor` and `RecipientsAreComplete`); a thumbnail is "generated once per CID"
(`download.py:120-122`), but two requests that find none both save one, the second over what the first may be
sending (`overtaken`); a delete that is verified late, or twice, unpins
what has been uploaded again (excluded by `PromptVerify`); an inherited grant may revert if
its sender used an earlier nonce for a delete (`behind` in `PreparedSucceeds`).

## Proofs

All theorems hold for every value of the constants under the assumptions the modules name
(`FileStorageAssumption`, `ReadsAssumption` and so on: what sets are disjoint, what numbers are
natural); bounds such as `MaxBlock` and `MaxCopies` are arbitrary numbers there. What a theorem
needs beyond that is a hypothesis of its statement.

* **`FileStorageProofs`**: `TypeCorrect`, and `Invariant`, from which follow the five relations that
  `contract` checks and `OwnerIndex`. `IInv` is the conjunction of the type invariant and these six. None but
  `MirrorLists` is inductive alone: that no pending request is left behind by a delete
  (`PendingQueueExact`) needs `RequestersExact`, because `deleteFile` walks `_requesters`; that a dead
  file keeps no bits (`DeadFilesAreClean`) needs `AccessAccountedFor`, because the delete clears only
  listed recipients; that a delete empties the lists of users (`sharedFiles`) needs `MirrorLists`, because
  it walks `sharedUsers`; and that a resolved request leaves the right queue needs `OwnerIndex` and the
  second half of `RequestersExact`. `StepKinds` reduces the actions to ten kinds, since single calls
  and batches differ only in the set they name. `Type...` lemmas show the types, `Shape...` lemmas
  the six relations, one lemma for each kind.
  Last come, over `IInv` and if `NoZeroMask` (no caller passes the mask 0; the handlers pass
  `SHARE_MASK`), `ListedOnce`, `RequestsAreAboutLapsedGrants` and `ApprovalGrantsAccess`.
  `ListedOnce` is inductive, because a listed recipient has bits and the first bits are what lists
  them; the other two are action properties that follow from it and from `IInv`.
* **`TransactionsProofs`**: `TransactionsRefineContract` (`TxSpec => Spec`), because each mined call
  is one transaction of the contract (`EffectIsNext`), or, for a folder delete that finds nothing left
  of its sender's, no change; and `InheritedCorrect`, `PreparedCorrect`, `FolderDeleteCorrect`, which
  follow from `TxInv`. None of the three properties is inductive: they speak of entries that wait,
  and what is right about an entry was gathered by a handler in many calls. `TxInv` therefore says
  of each phase of a handler what its reads still say about the chain as long as the nonce it read is
  its sender's next (`PrepKnows`): the files read are the sender's (`FilesCurrent`), every folder below
  the one looked at is empty (`LookingAt`), the owners found and those still to be looked up make up
  the folder, and the users left are those in all lists read so far. It says the same of each
  entry whose turn has come (`EntryHolds`). Two lemmas carry the induction over the chain's steps:
  `OthersKeep`, that no call changes what a user other than its sender owns or shares, and
  `LeftBehind`, that once a sender's nonce is used the only entries of theirs that are left are
  grants behind an upload. The
  grants' nonces are distinct because `Rank` is one to one (`PlacesInOrder`, `GrantNonces`).
  `PreparedCorrect` has two hypotheses: `NoZeroMask`, since otherwise a recipient may be listed
  more often than `MaxCopies` allows, and `Room`: the model's own bounds leave place for one
  copy of an entry, one block, and the deadlines that can be reached by `MaxBlock`, as those of the
  run do. `EffectNeedsSuccess`: a call that has its effect passed every `require` that
  `Succeeds` lists; the converse would need `ENABLED`.
  `FolderRowsAlwaysCorrect` says of `Views` that the rows of a folder are right for a list of
  cids of any length, with repetitions, which `FolderRowsCorrect` restates for the lists the run takes.
  It is an induction along the list that needs no induction theorem: the first prefix whose
  rows are wrong is taken (`Least`, from the well-founded order of finite sets), and one more file
  keeps them right (`RowsOneMore`).
* **`ReadsProofs`**: `ReadersLeaveTheContract` (`ReadsSpec => Spec`), so that every invariant of the
  contract holds while requests run; `RequestsKnow`, the invariant `Knows`, which says of each phase
  of each kind of request what its reads still say about the chain, or what `witnessed` has recorded
  since; and from it the six properties of `reads` about answers, under `NoZeroMask`. That a pending
  request is an open one needs an invariant beside it: who has access while their request is pending
  was granted it again since they asked (`AskedWithout`). The chain's
  steps need one lemma, that a step is a transaction of the same block or only advances
  `block` (`BlockOrTransaction`), after which effective permissions can only have shrunk.
* **`PendingQueueProofs`**: `TypeCorrect`, `SlotsCorrect` and `QueueImplementsSet`, the refinement of
  `PendingSet`. The invariant says that slots and array are inverse (`Inverse`), that every open
  request is numbered (`Numbered`), and that `_requesters` has it on record while a delete walks it
  (`OnRecord`).
* **`StorageProofs`**: `TypeCorrect`; `StoredCorrect`, which needs neither environment; and
  `CrossingCorrect`, whose two hypotheses are part of the property. `Guarded` is the inductive form of the
  first: not only registered but accepted cids are pinned or exposed, and a cid in use that a mined
  delete names is exposed. The second is about single steps: in the two environments the cids of a prepared delete
  are its user's own (`OwnDeletes`), so that a newly exposed cid was its owner's until then
  (`UploadMeetsNoDelete`, `OthersMeetNoDelete`).
* **`SealedFilesProofs`**: `TypeCorrect` and the four safety properties. `KeyKept`, `TokensKept` and
  `ThumbKept` say at each point of a thread, the boot and a request what file, memory and the value
  in hand have in common.
* **`FaucetProofs`**: `TypeCorrect`, `LedgerCorrect`, `OneDripCorrect`. `Earned` says which wallets are
  paid at each phase of a request, `Calm` what an undisturbed one may rely on.
* **`CertRotationProofs`**: `Invariant` (what is `Pending` and what the process that is `Serving` has
  loaded), `LivePairCorrect`, `TornPromoteRepairs`, and `AlarmsExplained` for the client.

Only model-checked, because they are out of the prover's reach: liveness (`DeletesFinish`,
`LockIsReleased`). The run of `Transactions` starts
from `MCInit`, a state with files and shares in it, and the theorems from `TxInit`, an empty chain.

## Not modelled

* `resolve-recipient` and `notify-share` talk to Privy and a mail server only.
* Declarations (`models.py`), settings, server wiring, logging; `AUTH_SECRET` from the environment,
  which only skips the file.
* Build, signing and deployment scripts, the ABI file.
* The mathematics of HMAC, AES-GCM and quotes, which are taken as what they promise; the text of paths and
  formats; file sizes and `storage-stats`; rendering and zipping; gas; events.
* The frontend is not part of the repository: a user may sign any prepared transaction, late, or
  never. Reorganisations of the chain: the code waits for one receipt.
