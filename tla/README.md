# TLA+ models of the Devote consensus-state manager (go-etherzero)

This directory models the consensus-state layer of go-etherzero: the type
`DevoteProtocol` in `src/unnamed/part_000` (lines 1-486, package `types`).
The manager keeps six tries (cycle, cache, vote, masternode, minerRolling and
voteCnt), and a checkpoint of their roots goes into every block header. The
RPC backend `EthAPIBackend` (`src/eth/api_backend.go`) is modelled against an
abstract node that changes under it (see *The RPC backend*). Line numbers
refer to `src/unnamed/part_000` unless a file is named.

## Inventory

### Components and their state

| Component | State | Operations (lines) |
|---|---|---|
| Devote manager: registry | `masternodeTrie` (ID or address -> account), `voteTrie` (delegator -> masternode), `cacheTrie` (masternode++delegator -> delegator, the reverse index), `cycleTrie` (key `"witness"` -> RLP witness list) | Register 179, Unregister 189, Delegate 402, UnDelegate 430, SetWitnesses 380, GetWitnesses 391 |
| Devote manager: rolling counters | `minerRollingTrie` ((8-byte cycle)++witness -> 8-byte count) | Rolling 457 |
| Devote manager: transactions | a second `DevoteProtocol` value | Copy 225, Snapshot 254, RevertToSnapShot 258 |
| Checkpoint and persistence | six `trie.Database`s over `ethdb` tables, and the `DevoteProtocolAtomic` checkpoint (six roots) | NewDevoteProtocol 80, NewDevoteProtocolFromAtomic 130, FromAtomic 267, Commit 315, ProtocolAtomic 357, Root 242 and 368 |
| Vote tally | `voteCntTrie`, written only through the setter SetVoteCnt 313 by code outside this repository | SetVoteCnt |
| Block pipeline (not in src) | the chain of headers | opens a manager at the parent's checkpoint, applies the block's operations, calls Rolling, calls Commit, stores the checkpoint |
| Masternode payment vote | none (values) | Hash, CheckSignature, Sign, Verify (486-605) |
| EthAPIBackend (`src/eth/api_backend.go`) | none of its own | RPC accessors over the blockchain, miner, tx pool and masternode contract |

### How they interact

The manager has a single user, the block pipeline. For each block, the
pipeline reopens the manager at the parent header's checkpoint
(`NewDevoteProtocolFromAtomic`). It applies the block's consensus operations,
taking a snapshot first and reverting to it if an operation returns an error.
It then calls `Rolling(parent.Time, header.Time, witness)`. Finally it calls
`Commit`, which writes each trie to its own namespaced table, and stores the
returned checkpoint in the header. The next block reopens the manager from
that checkpoint. This is how state survives between blocks and across
restarts.

### What is hard here

- **Partial failure.** Every trie access can fail with `MissingNodeError`
  when the database is pruned or corrupt. The code handles these failures in
  three ways:
  - Unregister (lines 193-219) and the old-vote read in Delegate (line 416)
    ignore the error.
  - `trie.Delete`, `trie.Update` and `trie.Get` (lines 387, 421, 472) log it.
  - The other calls return it.
  Delegate and UnDelegate change two tries one after the other, so they
  depend on the caller's revert.
- **Commit is not atomic.** It writes five tries in sequence. When the cycle
  trie's disk commit fails, it returns `(nil, nil)` (line 323). It ignores
  failed disk commits of the other four tries. It never sets `VoteCntHash`.
- **Iterators start at a key, not a prefix.** `NodeIterator(start)` yields
  every key from `start` to the end of the trie. Unregister (line 197) and
  Rolling (line 468) use it as if it yielded only the keys under a prefix.
- **Cycle boundaries.** Rolling's count restarts at the first block of a
  cycle. This depends on integer division of two different timestamps.
- **Key spaces.** Registration is keyed by ID, while unregistration and the
  delegation check are keyed by address.
- **Snapshots.** `Copy` copies only five of the six tries.

### What makes each component correct

- Registry:
  - The cache holds `m++d` exactly when d's vote is m.
  - A vote names only a masternode that is registered under that address.
  - Unregister withdraws exactly the votes for the masternode it removes.
  - An operation that fails has no effect once it is reverted.
- Rolling: the counter for (cycle, witness) equals the number of blocks that
  witness minted in that cycle.
- Commit/checkpoint:
  - Every header's checkpoint reopens.
  - It reopens to exactly the state that was committed.
  - Commit failures reach the caller.

## Modules

| Module | Models | State / actions |
|---|---|---|
| `DevoteProtocol` | the manager (lines 30-486) | The record `tries` holds one content per trie. Each operation is an operator `XxxOp(t, args, f)` that returns the new tries and an error flag, where `f` is the storage fault chosen for this call. Actions: Snapshot, RevertToSnapShot, Register, Unregister, Delegate, UnDelegate, SetWitnesses and SetVoteCnt, used under the pipeline's per-operation snapshot discipline (`phase`). SetVoteCnt is written under the snapshot, before the operation. The history variable `before` records all six tries at the last Snapshot. The operators RollingOp, CommitOp, ProtocolAtomic and NewDevoteProtocolFromAtomic are used by `DevoteChain`. |
| `DevoteRegistry` | the abstract registry the manager promises | `masternodes`, `votes`, `witnesses`. Unregister removes the masternode and every vote for it in one step; there is no cache and there are no faults. |
| `DevoteChain` | the block pipeline composed with the manager (through `INSTANCE DevoteProtocol`) | `chain` (the headers), `disk` (the committed trie contents), `work` (the open manager). Actions: OpenParent, ApplyTx, Rolling, Commit, Crash. |
| `PaymentVote`, `MC_PaymentVote` | `MasternodePaymentVote` (file lines 486-605): Sign's serialisation of (r, s) and Verify's split | `votes`, `sigs`, `verdicts`. Actions: NewVote, SignVote, VerifyVote. `BigBytes` (RECURSIVE, `big.Int.Bytes`), `SetBytes`, `KeyBytes` and `PadLeft` translate the byte arithmetic. ECDSA is a constant table `EcdsaSig` of signatures, chosen with short r and s. |
| `MC_DevoteProtocol`, `MC_DevoteChain` | the TLC instances | the constants, the refinement mapping to `DevoteRegistry` |

Abstractions:
- A trie is its content. A root is that content, which treats the hash as
  injective. The zero hash `common.Hash{}` is the separate model value
  `ZeroHash`.
- Addresses are naturals, because raw trie keys compare as bytes and the
  iterators depend on that order. A masternode ID is a model value. An ID
  whose bytes equal an address is represented by that address (`RegKeys`).
- A storage failure is a fault at a named call site (`FaultSites`). A run
  allows at most `MaxFaults` of them, and at most one per call.
- RLP encoding and Keccak hashing are not modelled. No property depends on
  byte layout, and the hash is abstracted as injective.

### The RPC backend (`src/eth/api_backend.go`)

`EthAPIBackend` has no state of its own. Each RPC method reads from or writes
to a collaborator (blockchain, miner, downloader, tx pool, masternode
contracts), and the node changes those collaborators concurrently with the RPC
goroutine. The models therefore make the collaborators *environment* actions
(not mapped to backend code) and translate each backend method as an action.
A method that calls two collaborators in sequence is split into two steps,
with a `call` variable between them, so that node steps can interleave. `reply`
holds the value the last method returned; a node step resets it to `NoVal`
(the client has taken the reply), so properties about replies are invariants.
`EthAPIBackend` composes the chain and pool models over one node (through
`INSTANCE EthAPIChain` and `INSTANCE EthAPIPool`): a block import is one step
that extends the chain and takes the next pending transaction of some
accounts out of the pool, or of none. Calls of either kind, and the node,
interleave, also between the two steps of a chain method. `EthAPIMasternode`
shares no state with them and is checked on its own.

| Module | Methods (lines of api_backend.go) | Environment |
|---|---|---|
| `EthAPIChain` | CurrentBlock 55, HeaderByNumber 64, BlockByNumber 81, StateAndHeaderByNumber 94 (two steps: header, then `StateAt` of its root), HeaderByHash 77, GetBlock 109, GetReceipts 113, GetLogs 117, GetTd 129, SetHead 59 (two steps: `downloader.Cancel`, then `blockchain.SetHead`) | Import of a new head, the miner assembling a pending block, the downloader starting, pruning of old states |
| `EthAPIPool` | SendTx 162, GetPoolTransactions 166 (ranging over the pending map in every order, via `SetToSeqs`), GetPoolTransaction 178, GetPoolNonce 182, Stats 186, TxPoolContent 190 | Inclusion of an account's lowest-nonce transaction in a block |
| `EthAPIBackend`, `MC_EthAPIBackend` | the two rows above over one node | ImportBlock (the chain's Import together with the pool's inclusion), the other node steps, either component's RPC; the pool's accounts form a symmetry set |
| `EthAPIMasternode` | Masternodes 234, GetInfo 240, GetEnode 264, Data 326, StartMasternode/StopMasternode 354 | The masternode contracts changing; every contract call may fail |

Abstractions: a block is a natural id and its hash is that id; the miner's
pending block is `PendingOn(p)`, a negative id naming its parent, or `NoVal`
before the miner has one. A nodeid argument is abstracted to the result of
`hex.DecodeString`: the error flag and the length of the bytes returned (Go
returns the bytes decoded before an error), and the id they spell. An enode
record is three presence flags (id1, id2, port), which is all `GetEnode`
tests.

## Runs

| Run | Checks | Shows |
|---|---|---|
| `manager_safety` (pass) | TypeOK, CacheMatchesVote, VoteTargetsRegistered, RegistrySpec | The faults that the manager returns are reverted, and with them the cache stays the exact reverse index of the votes. No vote outlives its masternode, including through Unregister's start-key iteration. Every manager step is a `DevoteRegistry` step or a stutter; a failed operation together with its revert is a stutter. |
| `manager_swallowed_faults` (violation) | CacheMatchesVote | A `MissingNodeError` that Unregister or Delegate ignores breaks the index while the call reports success. |
| `manager_revert_keeps_votecnt` (violation) | RevertRestoresSnapshot | A vote tally written after `Snapshot` survives the `RevertToSnapShot` of a failed operation, because `Copy` leaves voteCnt out. |
| `chain_rolling_and_commit` (pass, `LiveSpec`) | TypeOK, MintCntMatchesChain, ChainStateAvailable, ChainGrows | Over three blocks that cross cycle boundaries, with reopening, crashes and a failing CommitTo, the counters are right and every header reopens. Under the fairness below, block production never stalls once a witness list is committed. The type invariant also catches a Commit that swaps two roots in its `DevoteProtocolAtomic` literal (lines 348-354). |
| `chain_commit_flush_faults` (violation) | ChainStateAvailable | A failed disk commit inside Commit is not reported, and the header that follows cannot be reopened. |
| `chain_votecnt_dropped` (violation) | CheckpointCapturesState | Commit's checkpoint drops voteCnt, so the next block reopens a different state from the one that was committed. |
| `chain_rolling_faults` (violation) | MintCntMatchesChain | A failing Get or TryUpdate inside Rolling is logged and dropped; the block is committed anyway with a mint counter that does not count the witness's blocks. |
| `api_backend` (pass) | TypeOK | Under every interleaving of calls of either kind with imports that drain the pool, pruning and rewinds, including between the two steps of StateAndHeaderByNumber and of SetHead, every method returns a value of its type. The run exercises the composed model; the backend's methods only pass through what their collaborators return, so no property beyond the types and the nil dereference below is left to state about them. |
| `payment_vote_signatures` (pass) | SignatureSplitsBack | Every signature Sign returns cuts back at keyBytes into its r and s, also for a 9-bit curve (a partial byte) and for r = 1 or s = 1, which need padding. |
| `payment_vote_verify` (violation) | VerifyAcceptsSigned | Verify rejects a signature that Sign made for the same hash. |
| `api_pending_nil` (violation) | NoNilDeref | HeaderByNumber and StateAndHeaderByNumber on the pending block dereference a nil block before the miner has one. |
| `api_masternode` (pass) | TypeOK | With changing contracts, failing contract calls and a p2p server that starts late, every method returns a value of its type; Data never reads the identity of a server that has not started. |

Bounds:
- Manager runs:
  - Masternode addresses {1, 2}, delegators {3, 4}, one ID that is not an
    address, and two witness lists.
  - Two faults, so that a failed operation can be followed by a second
    failure after the revert.
  - Two masternodes and two delegators are enough for re-delegation between
    masternodes, for Unregister's iterator to visit another masternode's
    entries, and for two delegators of one masternode.
- Chain runs:
  - Masternodes {1, 2} and delegator {3}.
  - The real `CycleInterval` of 3600 and a genesis at 3599.
  - Block gaps of 1 and 3600. The first block crosses a cycle boundary, a
    gap of 1 stays in its cycle, and a gap of 3600 rolls over again.
  - Three blocks and one operation per block.

- Backend runs: block ids up to 3 (three imports, enough for a rewind below
  a pruned state). In `api_backend`, two accounts (a symmetry set: no
  constant or property names one) with at most two pool transactions and
  nonces below 2, so that one account can hold two transactions; the composed instance has about 1.9 million states. Two
  masternode ids with every enode record shape.

Deadlock: the chain stops at `MaxBlocks` through the explicit `Done` step.
Any other deadlock would mean that the chain stalls, so deadlock checking
stays on.

Fairness (`LiveSpec` in `DevoteChain`, used by `chain_rolling_and_commit`):
- Weak fairness for OpenParent. The node's block-processing goroutine
  starts the next block as long as it can.
- Strong fairness for Rolling and Commit. Both are enabled only while a
  block is open, and a crash closes it. Strong fairness says that a node
  restarted again and again is not always crashed before the same step.
- No fairness for Crash or ApplyTx. Both are the environment's choices.

Under this fairness, `ChainGrows` states the following. Once a committed
checkpoint carries a witness list, the chain reaches `MaxBlocks`. The genesis
checkpoint is empty, as `NewDevoteProtocol` makes it, so the premise needs a
block that sets the witnesses. The mutant that fails to reopen the cycle trie
stalls the chain in a block whose witness list cannot be read.

## Findings

See `PROJECT.json` "findings":
- Swallowed `MissingNodeError` in Unregister and Delegate.
- Commit's `(nil, nil)` return and its unchecked disk commits.
- Commit dropping the voteCnt root.
- `Copy`/`RevertToSnapShot` leaving voteCnt out of the snapshot.
- `MasternodePaymentVote.Verify` cutting r and s out of the hash at KeySize 0, so that it rejects every signature.
- Rolling's ignored storage errors, which leave a committed mint counter
  wrong.
- The nil pending block dereferenced in HeaderByNumber and
  StateAndHeaderByNumber.

## Not modelled

- What StateAndHeaderByNumber, SetHead, GetPoolTransactions, GetInfo and
  GetEnode return, beyond its type. The backend passes on what its
  collaborators give it:
  - the state at the header's own root (line 105);
  - the chain that `blockchain.SetHead` rewinds, which is outside this
    repository;
  - the per-account batches appended whole (line 173);
  - a contract record behind the decode and length guards (lines 243-247 and
    272-281).
  A property about these values would restate the definition. The same
  holds for an abstract mint ledger over the head's counters: it repeats
  `MintCntMatchesChain`.

- In `MasternodePaymentVote`: ECDSA itself (a fixed signature per hash
  stands for it), `Hash` (RLP and Keccak, taken as a byte string) and
  `CheckSignature` (a single call to `crypto.VerifySignature`).
- `DevoteProtocol.Root` and `DevoteProtocolAtomic.Root`. Neither has a
  caller in this repository, and the spec leaves open whether the vote tally
  belongs in the combined root. The voteCnt root that Commit drops is checked
  where it matters, by `chain_votecnt_dropped`.
- In `EthAPIBackend`: GetEVM (it sets the sender's balance in a state copy
  the caller owns), the Subscribe* methods, BloomStatus and ServiceFilter
  (the bloom indexer and matcher are outside this repository, and with a
  few blocks no 4096-block section completes), and the accessors (ChainDb,
  EventMux, AccountManager, Downloader, SuggestPrice, ChainConfig,
  ProtocolVersion, Ns), which only forward to a collaborator. What the methods should return when a contract
  call fails is not stated anywhere, so no property is checked about it.
- The trie and ethdb engines, which are abstracted as described above.
- The setters `SetCycle`, `SetCache`, `SetVote`, `SetMasternode` and
  `SetMinerRollingTrie`, which install arbitrary external tries.

## Plan

1. (done) `DevoteProtocol`: registry operations, snapshot and revert, and
   storage faults. Checked for the cache/vote invariants, by refinement to
   `DevoteRegistry`, and for the revert (violation).
2. (done) `DevoteChain`: Rolling with its faults, Commit and reopening.
   Checked for counter accuracy, checkpoint availability and, under
   fairness, progress.
3. (done) `EthAPIChain`, `EthAPIPool`, `EthAPIMasternode`: the RPC backend
   against a changing node; `EthAPIBackend` composes the first two.
4. The `FromAtomic` method (line 267), once a caller in the repository
   shows how it is used.
5. The remaining hazards without a property: SetWitnessesUpdate's logged
   failure (line 387) and Unregister(account) on an ID-keyed registration
   (line 191). Both need a property about what an operation that reports
   success has done, which the model does not yet record.
