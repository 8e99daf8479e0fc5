# hodlchain in TLA+

hodlchain is a Bitcoin sidechain with one sequencer. Coins locked on L1 mint
atoms on L2; the sequencer orders mints and transfers into blocks and commits
to the newest block with one attestation (an OP_RETURN) per L1 block. The
attestations form a chain of spends that starts at `anchor_0`. Nodes and light
wallets follow that chain and re-run every block.

This directory holds TLA+ modules of that program, the TLC configurations that
check them on small instances, and theorems that TLAPS proves. Paths below are
relative to `src/crates/`.

- [1. The system](#1-the-system)
- [2. What is modelled, and how it corresponds to the code](#2-what-is-modelled)
- [3. What the runs check](#3-what-the-runs-check)
- [4. What is proved](#4-what-is-proved)
- [5. Where the program and its documentation disagree](#5-findings)
- [6. Only model-checked, not modelled](#6-limits)
- [7. Plan](#7-plan)

To repeat the checks, in this directory:

    tlc -workers 2 -config seq_faults.cfg MCSequencer.tla
    tlc -workers 2 -config attest.cfg Attestor.tla
    tlc -workers 2 -config light.cfg MCLightWallet.tla
    tlapm SequencerProofs.tla

## 1. The system

### Parts, state and operations

| part | state | operations |
|---|---|---|
| L2 ledger (`hodl-core/state.rs`) | balances, nonces, consumed nullifiers, minted total | `apply_mint`, `apply_transfer`, `state_root` |
| Sequencer HTTP API (`hodl-sequencer/api.rs`) | none of its own; shares `state`, `head`, `mempool`, three mutexes | `submit_mint`, `submit_transfer`, `get_balance` and other reads |
| Block production (`producer.rs`) | locals of one task | `produce_block` on a ticker |
| Attestation loop (`producer.rs`, `bitcoind.rs`) | kv `anchor`, `last_attested_l1_height`, `pending_attestations` | `monitor_pending`, `check_and_attest` on a second ticker of the same task |
| Sequencer store (`store.rs`) | SQLite: `blocks`, `state_snapshots`, `kv` | `write_block_and_state` (one transaction), one write per kv key |
| Sequencer bootstrap (`main.rs`) | | genesis and `anchor_0`, or resume from the newest snapshot |
| Node follower (`hodl-node/follower.rs`, `bitcoind.rs`, `store.rs`) | ledger, head, anchor, `l1_cursor`, `anchor_spends` | `tick`, `process_advance`, `apply_one_l2_block`, `validate_block` |
| Node API (`hodl-node/api.rs`) | none of its own; shares the follower's `state` and `head` | `get_balance`, `get_nullifiers`, `get_block`, `get_witness`, `get_outspend`, pass-through to bitcoind |
| Light wallet (`hodl-wallet/verify.rs`, `esplora.rs`, `ops::light_balance`) | `VerifiedHead`: one account leaf and its path, the consumed nullifiers, an L2 block and an anchor | `walk_attestation_chain`, `bootstrap`, `walk_forward`, `verify_one_l2_block` |
| Merkle tree (`hodl-core/smt.rs`, `witness.rs`) | | `compute_root`, `compute_proof`, `verify`, `apply_updates`, `refresh_observer` |
| Mint proof (`hodl-core/proof.rs`, `consensus.rs`) | | `OutpointProof::verify`, `verify_mint_entry`, `mint_fn` |
| Wallet records (`hodl-wallet/ops.rs`, `wallet.rs`, `reclaim.rs`) | the wallet file: mint records, transactions and their status | `mint_*`, `transfer`, `project_events`, `finalize_and_refresh`, reclaim |
| Wallet file encryption (`hodl-wallet/encryption.rs`) | | load, save |
| Desktop shell (`hodl-desktop/state.rs`, `commands.rs`) | the selected wallet, the keys of unlocked wallets | `load_current`, `save_current`, `select`, `deselect`, commands |
| Attestation encoding (`hodl-core/op_return.rs`) | | encode, decode |
| Regtest orchestration (`hodl-regtest`) | processes | start, stop |

### How they interact

    wallet --POST /mint, /transfer, GET /balance--> handlers --mempool--> produce_block --> store
                                                       \--- state, head (mutexes) ---/
    bitcoind <--gettxout, getblockcount-- handlers, produce_block, follower
    bitcoind <--send, gettransaction----- attestation loop
    follower --scan blocks--> bitcoind; --GET /block--> sequencer
    light wallet --/outspend, outputs, tip--> node (Esplora routes)
    light wallet --/balance, /nullifiers, /block, /witness--> node
    light wallet --events of verified blocks--> wallet records
    desktop, CLI --load, work, save--> wallet file

The producer is the only writer of the ledger, the head and the store, so the
concurrency of the sequencer is that of handlers against one producer: a handler
takes each mutex for a few lines and holds none while it awaits bitcoind or
takes the next. Crashes matter because a block, the l1 cursor, and each of the
attestation keys are written separately. L1 matters because locks are spent and
blocks are replaced between the time something is read and the time it is used.

A light wallet trusts L1 and nothing else: each answer of the node is checked
against an attestation or against the head the wallet keeps, across some ten calls
during which chain, node and L1 all move. Its records live in one file that each
command loads as a whole, works on while it awaits L1 and L2, and writes back.

### What is hard, and what makes each part correct

| part | hard behaviour | correct when |
|---|---|---|
| ledger | saturating u64, fee recipient equal to a party | supply conserved, nothing mints or transfers twice |
| handlers and producer | checks made before the mempool is drained and the ledger replaced; receipts signed after the push | `MintedOnce`, `TransferredOnce`, `AtMostOneLate`, `AcceptedMintNotLost`, `WaitingEnds` |
| store and bootstrap | a write fails, or the process dies, between two writes | `ChainLinked`, `HeadIsStored`, `RootsReplay` |
| attestation loop | `send` and three writes, reorgs, evictions, retries | `ImplementsChain`, `ForgottenIsFinal`, `AnchorRecovers`, `EveryAdvanceAttested` |
| follower | several blocks per attestation, crash between block and anchor, L1 state of today used for blocks of yesterday | `AnchorIsApplied`, `StoredReplays`, `RejectedLeavesNoTrace`, `NothingSkipped`, `WalkReachesAnchor`, `CatchesUp` |
| light wallet | intermediate blocks, incomplete or repeated proofs, a node between two blocks, L1 read at two moments | `HeadCommits`, `VerifiedIsValid`, `HeadIsAttested`, `ShownIsTrue`, `HistoryExact`, `NeverBack`, `HonestNeverRejected`, `CatchesUp` |
| Merkle tree | several updates share a path | `HeadCommits`: sparse updates agree with recomputing the tree |
| mint proof | half-open intervals, saturation, two RPC reads | `VerifiedIsValid`, `HonestNeverRejected` |
| wallet records | load, change, save of a whole file; events seen again; calls that fail half way | `MintRecordsTrue`, `HistoryComplete`, `FinalizedIsBuried`, `ReadyIsSpendable`, `FileForward` |
| desktop shell, encryption | the selection changes under a command; keys come and go | `FilesKeepIdentity`, `ShownKept` |

`PROJECT.json` lists the hazards at their lines, each with the properties that
would catch it, or the reason why none does.

<a name="2-what-is-modelled"></a>
## 2. What is modelled, and how it corresponds to the code

| module | extends / instantiates | role |
|---|---|---|
| `Ledger` | | the ledger as operators: no variables, every other module keeps ledgers in its own |
| `Sequencer` | `Ledger` | handlers, producer, store, restart, and the L1 locks they read |
| `MCSequencer` | `Sequencer` | TLC values |
| `AttestationChain` | | abstract: what Bitcoin shows to a follower |
| `Attestor` | instantiates `AttestationChain` | attestation loop, its keys, L1 with reorgs and evictions |
| `Follower` | instantiates `AttestationChain` | the node: bootstrap, follower task, store, against an L1 with reorgs |
| `Smt` | `Ledger` | the sparse Merkle tree, its proofs and sparse updates, and the witness of a block, as operators |
| `MintProof` | `Ledger` | what `OutpointProof::verify` and `verify_mint_entry` demand of a view of L1, as operators |
| `LightWallet` | `Smt`, `MintProof` | the verifying wallet, with a node that follows and may lie, a sequencer that may lie, and L1 |
| `MCLightWallet` | `LightWallet` | TLC values |
| `WalletRecords` | | the wallet file, the commands that change it, the session of the desktop |
| `Induction` | | lemmas: induction over numbers and finite sets, folds and sums |
| `LedgerProofs`, `SmtProofs`, `SequencerProofs`, `AttestorProofs`, `FollowerProofs`, `LightWalletProofs`, `WalletRecordsProofs` | the module they are about | theorems |

### Ledger

`LedgerState` becomes a record. Accounts are total functions, because an absent
entry and a default one are indistinguishable to `balance_of` and `nonce_of`.
`MintApplies`/`TransferApplies` are the early returns of `apply_mint` and
`apply_transfer`; `AfterMint`/`AfterTransfer` their effects. The three balance
updates of a transfer are made in the code's order (`Debited`, `Credited`,
`AfterFee`), which is what makes a fee recipient that is also the sender or
receiver come out right. `SatAdd` and `SatMul` keep the width of u64 as
`MaxAtoms`. A hash is what it commits to (`Root`), which takes hashes as collision
free; a signature is the flag `signed`.

### Sequencer

| code | model |
|---|---|
| `Shared.state`, `.head`, `.mempool` | `state`, `head`, `mempool` |
| locals of `produce_block` | `prod`, with the place it has reached in `prod.at` |
| tables `blocks` and `state_snapshots` | `chain` (entry h + 1 is height h) |
| kv `l1_cursor` | `l1Cursor` |
| one HTTP request | `pc[r]`, `sub[r]`, and the `target[r]` of its receipt |
| `submit_mint` | `VerifyMint`, `CheckConsumed`, `PushMint`, `SignSoftConf` |
| `get_balance` (nonce), then `transfer` in the wallet | `QueryNonce`, `AddPending` |
| a transfer signed earlier (retry) | `SendTransfer` |
| `submit_transfer` | `CheckNonce`, `PushTransfer`, `SignSoftConf` |
| `produce_block` | `ReadL1`, `Drain`, `BuildMint`, `BuildTransfer`, `Seal`, `WriteBlock`, `SetL1Cursor`, `PublishHead`; `WriteFails`, `CursorFails` |
| restart | `Crash` |
| bitcoind's `gettxout` | `locks`, changed by `FundLock`, `ReclaimLock`, `ReorgLock` |

An action ends where the code releases a mutex, awaits, or makes a call that can
fail. Places inside the producer that nobody else can observe are merged. The
number of seals, `builds`, identifies a block and stands for its hash: two blocks
sealed at one height have different hashes. `WriteFails` covers both a failing
disk and the PRIMARY KEY conflict that follows `CursorFails`. Handlers that only
read (`/head`, `/block`, `/witness`, `/nullifiers`) change nothing and are left
out. What a lock is worth is fixed by the L1 output, so `MintAmount` is a
constant; the checks inside `OutpointProof::verify` are reduced to their verdict.

### Attestor and AttestationChain

| code | model |
|---|---|
| attestation transactions | `txs`, oldest first: the anchor spent, the L2 height carried, the L1 tip at the time, and `mempool`, `mined` or `gone` |
| an anchor outpoint | the number of the attestation whose change it is; 0 is `anchor_0` |
| kv `anchor`, `last_attested_l1_height`, `pending_attestations` | `anchor`, `lastAttested` (or `Unset`), `pending` |
| newest block and kv `l1_cursor` | `head`, `l1Cursor` |
| `monitor_pending` | `PollTick`, `MonitorEntry` per entry, `SavePending`, `RevertAnchor`, `Rewind` |
| `check_and_attest` | `CheckTip`, `ProduceFirst`, `Post`/`PostRefused`, `SetAnchor`, `SetLastAttested`, `PushPending` |
| the block ticker | `BlockTick` |
| errors of a call, a lost reply of `send`, a failing kv write, a crash | `CallFails`, `ReplyLost`, `WriteFails`, `Crash` |

L2 heights are ranks: blocks between two attestations count as one, since the loop
only reads the newest height. This keeps the state space finite while the ticker
runs forever. `NewL1Block(depth)` adds a block, or replaces the last `depth`; the
attestations of the replaced blocks return to the mempool, and the new block takes
any part of the mempool closed under parents. An eviction takes its descendants
along. `Missing` is what `attestation_status` makes of a transaction the node no
longer knows (bitcoind.rs:107-118); `Reorged` and `Mempool` both keep the entry, and
the model does not tell them apart. `Confirmations`, as the code, counts the tip
as one. Inside the loop produce_block succeeds or fails as a whole here; its own
partial failures are `Sequencer`'s.

`AttestationChain` is the promise to whoever starts at `anchor_0`: `links` maps
each attestation in a block to the anchor it spends and the height it carries. At
most one attestation continues an anchor, heights rise along the links, and the
`settled` ones stay. What a reorg puts in the place of others carries a height that
was in L1 before, or one above all of those (`attested`). `Attestor` implements it
with `links` the mined attestations and `settled` those `FinalityDepth` deep.
`Follower` takes every L1 block from `AttestationChain!NewBlock`, so what is
checked of the node rests on that promise and on nothing else of the sequencer's
loop. The promise about heights is needed: if a reorg could bring an attestation
lower than the blocks the node had already applied, the node would skip it without
moving its anchor, and loop (section 5).

### Follower

| code | model |
|---|---|
| L1 blocks, counted from `l1_genesis_height` | `l1Tip`, and `path`: the attestations from `anchor_0` on, each with its L2 height and its L1 block |
| an anchor outpoint | the sequence of L2 heights attested on the way to it, `<<>>` for `anchor_0`; its txid commits to them |
| `gettxout` of a mint's lock | `spent`: the mints whose lock has been spent |
| `GET /block` | `blocks`, the transactions of each height |
| `Shared.state`, `.head` | `state`, `head` |
| locals of `tick` and `process_advance` | `node` |
| tables `blocks`, `state_snapshots` | `stored`, `snapshot`: the newest row of each |
| kv `anchor`, `l1_cursor`, table `anchor_spends` | `anchor` (or `Nothing`), `cursor`, `spends` |
| `bootstrap` | `StoreGenesis`, `AdoptAnchor0`; `Restart` resumes |
| `tick` | `Tick`, `ScanFindsAdvance`, `ScanFindsNone`, `ScanFails`, `SetL1Cursor` |
| `process_advance` | `SkipKnown` or `StartBatch`; at the end `SetAnchor`, `RecordSpend` |
| `apply_one_l2_block` | `ApplyBlock` or `RejectBlock`, then `StoreBlock` |
| an error of a call; a failing write; a process that dies | `CallFails`; `WriteFails`; `CrashBetweenWrites`, `CrashElsewhere` |

A ledger is the set of transactions it has executed. That is enough here, because
what the node compares is whether a ledger is the one the sequencer had, and an
executed transaction is not accepted again (`LedgerProofs!ApplyKnows`). The checks
of one block are one action: blocks do not change and a spent lock stays spent, so
nothing that happens between two of the checks makes a later one succeed. A
reorg that takes back a spending, or a lock, is not modelled here. The sequencer
serves the blocks it attested, so `validate_block` and the check of `prev_hash`
succeed; a server that lies is the light wallet's subject. `TornAt` is the set of
writes before which the process may die or the write may fail; `torn` counts those
events, because several properties hold only without them.

### Smt and MintProof

| code | model |
|---|---|
| `compute_root`, `root_recursive`, `empty_subtree_hashes` | `ComputeRoot`, `SubtreeRoot`, `EmptySubtree` |
| `compute_proof`, `InclusionProof::verify` | `ComputeProof`, `ProofRoot`, `ProofVerifies` |
| `apply_updates`, `post_root_recursive` | `UpdatesValid`, `ApplyUpdates`, `PostRoot` |
| `refresh_observer` | `RefreshObserver` |
| `touched_addresses`, `BlockWitness::build` | `TouchedAddresses`, `BuildWitness` |
| `OutpointProof::verify`, `verify_mint_entry` | `Authorises`, `Credit`, `EntryVerifies` |
| `expected_p2tr_spk`, a schnorr signature | `MintScript`, `Signature` |

A hash is the term it is computed from: hashes are collision free, and the domain
tags keep leaves and branches apart. The depth of the tree and the bits of an
address are constants. The recursion of the code over the levels is a function of
the height (`Roots`, `PostRoots`, `ProofHashes`). `mint_fn` is a constant function; its f64 formula is not
modelled, only that everybody computes the same. Heights saturate at
`MaxL1Height` as u32 does.

### LightWallet

| code | model |
|---|---|
| `wf.verified_head` | `head` (or `NoHead`); `booted` is the height it was bootstrapped at |
| locals of `light_balance` | `walk`: the place reached, the head worked on, the steps still to verify |
| `walk_attestation_chain` | `WalkStep` per `/outspend`, `WalkDone` |
| `bootstrap` | `GetBalance`, `GetNullifiers` |
| `walk_forward`, `verify_one_l2_block` | `GetTip`, `SkipKnown`, `VerifyBlock`, `WalkForwardDone` |
| `light_balance`, of the own address or of another | `Refresh`; `ShowOwn`, `ShowOther` |
| any `bail!` or failing call; the app is closed | `GivesUp`; `Interrupted` |
| node: `Shared.state`, then store and `Shared.head`, then `record_anchor_spend` | `NodeAppliesBlock`, `NodeStoresBlock`, `NodeRecordsSpend` |
| `get_balance` of the node: two locks, one after the other | `TrueBalance` of `node.ledger` and `node.head` |
| `submit_mint`, `produce_block` (verification of mints), `check_and_attest` | `SubmitMint`, `ProduceBlock`, `Attest` |
| `get_output` of the sequencer: gettxout, then getblockcount | `SequencerView(tears)`: unspent locks only; a block may arrive between the two |
| `get_output` of the node, in `validate_block` | `NodeView`, by which `NodeRefuses` a block whose lock was reclaimed, for good |
| `prefetch_l1_for_block` of the wallet | `ViewAt`: it asks for the transaction, which stays when its output is spent |

`ProduceAnyBlock` and the `False...` sets are the adversary: a sequencer that
executes transactions that do not apply, falsifies a mint, a fee or the set of
nullifiers, and a node that follows such a block, or answers with another block,
an incomplete, repeated, stale or richer witness, a false balance, the true proof
of another account, or too few nullifiers. Each is one `Lie`. `BalanceConsistent`
compares no address, as verify.rs:162-196 and ops.rs:1097-1115 do not: the
proof is verified for the address that it carries. Links between attestations are those of the
table `Follower!spends`, so a wallet that meets a node between two attestations
sees a shorter chain. The anchor is the number of attestations before it.

Left out: `total_minted` and the top-up for heads without it, the L1 height in the
head, attestations that are evicted or malformed, a reorg that takes back the
spending of a lock, and an attestation whose root
disagrees with the header it names. Which of the two the wallet compares
with does not matter then. `MoveLock` is a reorg of the newest L1
block that mines a lock one block later, `ReclaimLock` the owner's spending of a lock
whose period is over. A tear in the node's own reading is not modelled: it fails one
tick.

### WalletRecords

| code | model |
|---|---|
| `<name>.json` of each wallet | `file[w]`: seed, whether encrypted, next index, mint records, head, transaction records |
| `AppState.current`, the cache of contexts | `current`, `unlocked` |
| a command in flight, with its copy of the file | `cmd[c]`: operation, copy, argument, what it read, the step it is about to take |
| `load_current`, `save_current` | `CanLoad` with `load_current`, `save_current` |
| `keygen`, `select`, `deselect` | `Keygen`, `select`, `deselect` |
| `mint_utxo`, `check_mint_funding` | `MintUtxo`; `CheckFunding`, `FundingAnswer` |
| `mint_message`, `transfer` | `MintMessage`, `ReadsTip`, `SubmitMint`; `Transfer`, `ReadsNonce`, `SubmitTransfer` |
| `light_balance`, `project_events`, `finalize_and_refresh` | `LightBalance`, `Walks` |
| `list_reclaimable_mints`, `reclaim_mint` | `ReclaimStatus`; `Reclaim`, `Broadcast` |
| a call fails or its answer is lost, a write fails; the process dies | `Fail`; `Crash` |

A command is split where it awaits, so that the sequencer and L1 move between
its reads and its submission, and a command that fails after its submission leaves
no trace in the file of what L1 or L2 accepted. The key of a mint is its address,
that of a transfer its whole body, as nullifier and sighash are. A walk delivers
the events of the blocks it crossed; that they are the right ones is
`LightWallet!HistoryExact`. L1 neither reorganises nor evicts here, and what the
sequencer refuses a transfer for, funds apart from the nonce, is a free choice.

<a name="3-what-the-runs-check"></a>
## 3. What the runs check

| run | result | shows |
|---|---|---|
| `seq_faults` | holds | `TypeOK`, `MintedOnce`, `TransferredOnce`, `ChainLinked`, `HeadIsStored`, `AtMostOneLate`, `SupplyConserved` with failing writes, failing bitcoind calls, a crash and an L1 reorg |
| `seq_live` | holds | `RootsReplay`, `AcceptedMintNotLost`, `WaitingEnds` without faults, while locks are funded and reclaimed |
| `attest` | holds | `TypeOK`, `ForgottenIsFinal`, `ImplementsChain`, `AnchorRecovers`, `EveryAdvanceAttested` |
| `follow` | holds | `TypeOK`, `AnchorIsApplied`, `NothingSkipped`, `WalkReachesAnchor`, `RejectedLeavesNoTrace`, `StoredReplays`, `CatchesUp` |
| `light` | holds | `TypeOK`, `HeadCommits`, `VerifiedIsValid`, `HeadIsAttested`, `HistoryExact`, `ShownIsTrue`, `NeverBack`, against one lie of sequencer or node |
| `light_live` | holds | `CatchesUp`, `HonestNeverRejected`, with L1 blocks that arrive inside `get_output`, a reorg that moves a lock, a lock that is reclaimed, and a failing call |
| `wallet` | holds | `TypeOK`, `FilesKeepIdentity`, `ShownKept`, `MintRecordsTrue`, `HistoryComplete`, `FinalizedIsBuried`, `ReadyIsSpendable`, `FileForward`, with commands one at a time, failing calls and crashes |
| `seq_replay` | violated | `RootsReplay`, once a write may fail |
| `seq_late` | violated | `NeverLate`, without any fault |
| `attest_revert` | violated | `AnchorAlwaysRecovers` |
| `follow_torn` | violated | `LoopEnds` |
| `wallet_lost` | violated | `ShownKept`, once commands overlap |

Every property of a run that holds has a mutant in `PROJECT.json`: a plausible
mistake in one definition (`MintApplies_AnyNullifier`, `NewBlock_PrevSealed`,
`PushPending_Swapped`, ...) with which TLC finds the property violated under the
same configuration.

### Bounds

- Three requests (interchangeable, hence the symmetry in `seq_faults`; none in a
  run with a temporal property) and two locks: the smallest numbers with two
  submissions of one lock and a third transaction, or a mint and two transfers
  with one nonce. Clients may choose any mint or transfer for each.
- `MaxAtoms` 15, with mints of 12 and 10 atoms to one address: a second mint
  saturates a u64. `MinFee` 1 and a rate of 1/2 put both arms of the fee on
  reachable amounts; 12 atoms pay for one transfer of 4 with its fee and for a
  second, a third is refused. The fee goes to an address of its own in the runs; in the proofs it is any
  address, a party to the transfer included, or none (the fee is burned).
- `MaxBuilds` 1 is the number of seals after which an *empty* block is no longer
  started; blocks with transactions are bounded by the requests. `MaxL1Tip`,
  `MaxCrashes`, `MaxReorgs` bound the environment. `StoreFaults` and `RpcFaults`
  are not counted: with them on, every write and call may fail.
- `attest`: `FinalityDepth` 2 and reorgs one block deep, four L1 blocks. That is
  enough for two attestations to be pending at once, one to become final, one to
  be reorged and mined again, and one to be evicted and posted again. One
  eviction, one failing call, and one crash, failed write or lost reply, each at any place.
  `ReorgDepth < FinalityDepth` is an assumption: deeper reorgs are outside what
  `REORG_FINALITY_DEPTH` is for.
- `follow`: three L1 blocks, three L2 blocks, one mint, at most two attestations
  per new L1 block, one reorg, one failing call or restart, one failure between
  two writes. That is enough for a batch of two blocks that fails half way, for
  two advances in one L1 block, for a reorg in the middle of a batch, and for a
  lock reclaimed between the production of a block and its arrival. With
  `MaxReorgs` 1 and `FinalityDepth` 2 one block is replaced at a time.
- `light`: two L2 blocks of at most two transactions, two attestations, and one lie at
  any place; two addresses that share the first bit and a fee account on the
  other side of the root, so that a block may update two leaves under one
  branch, the observed one among them or not. Tree depth 2. Two attestations
  with an unattested block below the second, or both of one block, are the cases
  of `walk_forward`. L1 stands still, and `light_live` is the other half: up to two L1
  blocks inside `get_output`, one moved lock, one failing call or restart, L1
  height 4, no lie. A lock of three blocks that is there from block 1 on can be
  reclaimed in block 4, before or after the node has seen its mint. One torn read is allowed to `Honest`: with two, a mint may
  be queued and verified again under the same wrong height.
- `wallet`: one encrypted wallet, two mint addresses, two submissions (of the wallet or
  to it), one deposit, L1 height 3, `FinalityDepth` 1, two L2 blocks, so
  that a record can go from submission to finality, a mint can be submitted
  twice, and a deposit be reclaimed. A bounded number of failures is not needed:
  a command may fail, and the process die, at each step. `Slots` has one member and
  `Overlap` is FALSE, as state.rs:74-76 assumes; `wallet_lost` has two slots and
  lets commands overlap, as they do.
- Where the bounds stop the system (`seq_*`, `follow*`, `light*`, `wallet*`), deadlock is not checked. `attest`
  checks it: the tickers never stop.

### Fairness

`Sequencer` assumes weak fairness of each handler and of the producer: axum runs
a handler that was called to its end, and the loop in `Producer::run` keeps
firing its interval. `Attestor` assumes weak fairness of the poll branch of the
same loop, `Follower` that of the node: `Follower::run` polls forever, whatever a
tick returned. Nothing is assumed of clients, miners, evictions or faults: a request
may never be sent and a block never mined. In particular no call is assumed to
succeed infinitely often; `CallFails` is bounded instead.

`AnchorRecovers` and `EveryAdvanceAttested` have two premises, both about a whole
run. No write of the loop was cut short (`breaks = 0`): a crash between `send`
and `set_anchor` leaves the stored anchor spent by a transaction the store does
not know, and nothing repairs that (producer.rs:266-282). And no two
pending attestations were lost at once (`AtMostOneMissing`): `attest_revert`
shows what happens without it. `EveryAdvanceAttested` starts at the first post,
because before it `last_attested_l1_height` defaults to `l1_cursor`, which
every produced block moves to the tip (producer.rs:198, 237-243): until a tick
happens to see a tip newer than the newest L2 block, nothing is posted.

`CatchesUp` too has premises about a whole run: no write failed and no crash fell
between two writes (`torn = 0`; `follow_torn` shows what happens otherwise), and
every mint ahead of the node can still be verified (`AllVerify`). A node that
comes after a lock was reclaimed refuses the block with that mint, and stays where
it is: it re-verifies mints against the outputs that are unspent now
(follower.rs:163-177). `NothingSkipped` is stated while L1 does not reorg: the cursor only moves forward
(section 5).

`LightWallet!FairSpec` is weak fairness of the node's steps and of the wallet's,
written out as `[]<>` over what enables them (for ENABLED, TLC would enumerate
every lie in every state): the node polls L1, and the app refreshes every few
seconds. `CatchesUp` has the premise that nobody lies, no lock
is moved, at most one L1 block falls into a `get_output`, and every lock is in place
until the node has verified its mint (`AllVerify`, as in `Follower`: what a node
refuses it refuses for good, and a wallet follows a node). `MoveLock` shows why:
a mint names the height of its lock, so that a block with it stays unverifiable for ever
once a reorg has moved the lock. Failures and bootstraps that meet the node
between `NodeAppliesBlock` and `NodeStoresBlock` are only repeated. A tear in the
node's or the wallet's own reading of an output fails that one attempt, like
`Interrupted`.

<a name="4-what-is-proved"></a>
## 4. What is proved

All theorems hold for every value of the constants, under `LedgerAssumption`,
`SequencerAssumption`, `AttestorAssumption`, `FollowerAssumption`, `SmtAssumption`,
`MintProofAssumption`, `LightAssumption` and `WalletAssumption`: the constants
have their types, addresses are finitely many and told apart by their bits, the
fee is positive, and reorgs are shallower than the finality depth. The numbers in
the assumptions that bound a run (`MaxHeight`, `MaxLies`, ...) may be any naturals.

| theorem | statement |
|---|---|
| `SequencerProofs!TypeCorrect` | `Spec => []TypeOK` |
| `SequencerProofs!LockMintsOnce` | `Spec => []MintedOnce` |
| `SequencerProofs!TransferAppliesOnce` | `Spec => []TransferredOnce` |
| `SequencerProofs!StoredChainIsLinked` | `Spec => []ChainLinked` |
| `SequencerProofs!PublishedHeadIsStored` | `Spec => []HeadIsStored` |
| `SequencerProofs!AcceptedInTime` | `Spec => []AtMostOneLate` |
| `SequencerProofs!AcceptedMintIsKept` | `Spec => [](Undisturbed => AcceptedMintNotLost)` |
| `SequencerProofs!SupplyIsConserved` | `Spec => []SupplyConserved` |
| `SequencerProofs!StoredBlocksReplay` | `Spec => [](~StoreFaults => RootsReplay)` |
| `AttestorProofs!TypeCorrect` | `Spec => []TypeOK` |
| `AttestorProofs!AttestorImplementsChain` | `Spec => ImplementsChain` |
| `AttestorProofs!ForgottenIsSettled` | `Spec => []ForgottenIsFinal` |
| `FollowerProofs!TypeCorrect` | `Spec => []TypeOK` |
| `FollowerProofs!AnchorNotAhead` | `Spec => []AnchorIsApplied` |
| `FollowerProofs!StoreIsReplayable` | `Spec => []StoredReplays` |
| `FollowerProofs!MemoryIsStore` | `Spec => []RejectedLeavesNoTrace` |
| `FollowerProofs!WalletReachesAnchor` | `Spec => []WalkReachesAnchor` |
| `FollowerProofs!NoneIsSkipped` | `Spec => []NothingSkipped` |
| `SmtProofs!MadeProofVerifies` | the proof `ComputeProof` makes verifies against the root |
| `SmtProofs!ProofBinds` | a proof that verifies shows the leaf and the siblings of the tree, no others |
| `SmtProofs!RootBinds` | ledgers with one root have the same leaves |
| `SmtProofs!UpdatesReachRoot` | `ApplyUpdates`, from proofs of the touched accounts, gives the root of the whole new ledger |
| `SmtProofs!ObserverIsRefreshed` | `RefreshObserver` gives the observer's proof in the new ledger |
| `LightWalletProofs!LightTypes` | `Spec => []TypeOK` |
| `LightWalletProofs!HeadNeverBack` | `Spec => NeverBack` |
| `LightWalletProofs!HeadIsAlwaysAttested` | `Spec => []HeadIsAttested` |
| `LightWalletProofs!HeadAlwaysCommits` | `Spec => []HeadCommits` |
| `LightWalletProofs!VerifiedIsAlwaysValid` | `Spec => []VerifiedIsValid` |
| `LightWalletProofs!HistoryIsExact` | `Spec => []HistoryExact` |
| `LightWalletProofs!ShownIsAlwaysTrue` | `Spec => []ShownIsTrue` |
| `LightWalletProofs!HonestAreAccepted` | `Spec => []HonestNeverRejected` |
| `WalletRecordsProofs!ReclaimsAreSpendable` | `Spec => []ReadyIsSpendable` |
| `WalletRecordsProofs!IdentityKept` | `Spec => [](~Overlap => FilesKeepIdentity)` |
| `WalletRecordsProofs!AddressesKept` | `Spec => [](~Overlap => ShownKept)` |
| `WalletRecordsProofs!RecordsTyped` | `Spec => []TypeOK` |
| `WalletRecordsProofs!RecordsTrue` | `Spec => []MintRecordsTrue` |
| `WalletRecordsProofs!FinalizedBuried` | `Spec => []FinalizedIsBuried` |
| `WalletRecordsProofs!HistoryAgrees` | `Spec => [](~Overlap => HistoryComplete)` |
| `WalletRecordsProofs!FilesGoForward` | `~Overlap` implies `Spec => FileForward` |

`LedgerProofs` has the lemmas they rest on: an applied transaction keeps every
balance within u64 (`AfterTransferType`: the debit does not underflow because the
check covers amount and fee); an applied transaction was not *known* to the
ledger and is known after (`ApplyKnows`); and ledgers only *grow* (`ApplyGrows`:
consumed nullifiers and nonces never go back).

**Nothing is stored twice.** `MintedOnce` is not inductive: whether a stored
transaction can be stored again is decided by `prod.working`, a ledger in
memory that runs ahead of the stored one, and after a failed write by a ledger
that no stored block explains. `SafeInv` ties them together: newest snapshot,
`state` and `prod.working` each grow out of the one before (`LedgersGrow`); the
newest snapshot knows every stored transaction (`StoredIsKnown`); a transaction
of the block being built is unknown to the newest snapshot and known to
`prod.working` (`BuiltIsNew`). A crash goes back to the snapshot, which is why
the statement must be about the snapshot and not about `state`. The rest of
the argument is `HeadIsBehind`: between its write and its publication a block is
exactly one above the head.

**What is stored is at most one block late.** A receipt names the height after the
head that the handler read; the block under way may be that one already, which is
why `NeverLate` fails (section 5) and `AtMostOneLate` is what is left. Nothing is
said of an accepted transaction that a crash, a failed write or `produce_block` drops. `LateInv` says of
each place a transaction can be in (mempool, drained, built, stored) how far
below its target the head can be there (`QueuedInTime`, `DrainedInTime`,
`StoredInTime`), and `StoreIsNear` that the store is at most one block ahead of
the head.

**Accepted mints are kept.** `Kept` follows an accepted mint through the queues
(`HeldIsSubmitted`, `HandsEmpty`, `LocksApart`): what the producer lets go of has
been executed by the ledger in memory, or L1 has taken its lock away. It
holds while `Undisturbed`, and writes may fail: a block that was not stored is lost,
and its mint is then neither in the mempool nor in the store. Memory has executed it, and
that is what `AcceptedMintNotLost` counts.

**The supply.** `Backed` is shown of each ledger there is (`SupplyInv`). A sum over
accounts moves with one account (`Induction!SumChanges`), and the three updates of a
transfer cancel out, the fee recipient being sender, receiver, a third party or nobody.
Below saturation no `SatAdd` cuts a balance, because a balance is at most the supply.

**Stored blocks replay.** `ReplayInv`: while no write fails, the ledger in memory is the newest stored
one plus the block under way, which makes it a fold over that block; the fold
of a longer block is one more `Apply` (`FoldRuns`).
`seq_replay` shows that the premise is needed.

**The attestations are a chain.** `ChainInv` is the type invariant with
`LiveChain` (the attestations that are not gone form one chain of spends, with
the mined ones first, in the order of their blocks) and `HeightsRise` (heights
rise with broadcast order, and at the `post` place the head is above them all).
Both are needed: a reorg returns a suffix of the chain to the mempool only
because mined ones come first, and heights rise along the links only because
`check_and_attest` produces a block before each post. `Settled` then stays because
a reorg is shallower than the finality depth. `NewcomersAreNewer` is for the third
promise of `AttestationChain`: an attestation that was never in a block is above
all that ever were, because the mempool holds what was broadcast last. The proof maps every step to a step
of `AttestationChain` or to a stutter.

**What is forgotten is final.** `Watched` adds the middle of a pass: every entry
is still in `todo`, or in `surviving`, or was dropped for a reason; and during
a post the new attestation is in the locals.

**The node's anchor, store and memory agree.** `NodeInv` is the type invariant with
`PathProduced` (L1 attests only blocks the sequencer has), `Booted` (outside
`write_block_and_state`, head and newest row have one height) and `InBatch` (from
the advance to `SetAnchor` the stored anchor is the one the advance spends, and the
head is below the attested height until the last block is stored). From it:
`AnchorIsApplied`, because at `SetAnchor` the head is the attested height and the
anchor grows by one element; `StoredReplays` with the addition that a ledger about
to be stored is that of the block it is stored with (`ReplayInv`), which
survives a failed write because the file is written from a ledger whose root was
just compared; `WalkReachesAnchor` with the addition that between its two writes
the anchor is one link ahead (`WalkInv`).

**No attestation is skipped.** `SkipInv` says, for L1 without reorgs, that the attestations on
L1 are in the order of their blocks and that the stored anchor *covers* the cursor: every
attestation in a block at or below it is on the way to the anchor. In the middle of an L1 block the
anchor may be ahead of that; when the scan finds no more advance, it covers
that block, too, and only then the cursor moves.

**The Merkle tree is sound and complete.** `SubtreeRoot`, the path of a proof and
the sparse updates are functions of the height, and each lemma is an induction over it. Two
accounts are told apart by a bit on some level, so below the root a subtree
with one touched account is rebuilt from its proof, one with several from its halves, and
one with none keeps the root it had: `UpdatesReachRoot` and `ObserverIsRefreshed` need
only that the proofs verify and that every account that changed is among those
touched.

**What the wallet verifies is true.** Nothing is assumed of what was served. `TInv`:
the head is `Pinned` (its chain of hashes is that of the L2 chain, and an
attestation up to its anchor names it) and `Committed` (its last header commits to its accounts root
and its nullifiers, and its leaf and path verify against that root); so are the
head a walk works on, except between two attestations (`MidBlocks`), where blocks
are not pinned by anything yet: what pins them is that the chain of hashes must end in
the attested one. Then `HeadCommits` follows from `ProofBinds`: whatever
updates the wallet made, a leaf and path that verify against the true root are the true ones
of *some* account. Whose, is `MInv`: `verify_one_l2_block` refreshes the leaf and
path under the wallet's own address, and they verify against the new root only if they are the
wallet's own; so they are from the first block on that the wallet verified, and before
that only if the node proved the right account at the bootstrap (`LeavesAreOwn`).
`ShownIsTrue` is the same argument for the proof of another address, which nothing ties to
the address that was asked for.
`HInv` is for the history: events of own transactions are those of the blocks crossed,
read from the hashes and not from what was served, and a walk that fails leaves
them out with its head. `VInv` is for validity: a block that passed `verify_one_l2_block` is valid
on *some* ledger that agrees with the witness on the touched accounts (`Backs`, `AgreeOn`),
and that the header before commits to; once the head is pinned, `RootBinds`
makes it the true one. This takes `UpdatesReachRoot` and that `AllApply` and `Replay`
look at touched accounts and nullifiers only.

**Honest blocks are accepted.** Not by every node: a block whose lock was reclaimed
is refused by those that come later (`NodeSeesUnspent`, with `SpentAreLocked`, says by no others).
`NInv`, by which a block that the rules allow is one that all
checks of node and wallet pass: the witness is complete and its order is a function
of the block (`BuiltWitness`), every update verifies (`MadeProofVerifies`), and
every mint stands in L1 (`Stands`). A mint may be queued with a wrong height when a
block arrives inside `get_output`; producing a block verifies it again, and as
at most one reading is torn, that second reading is right and drops it (`ReverifiedStands`).

**The verified head never moves back.** `NotBehind` is the strengthening: the head a
walk works on, the anchor it has reached, and the anchor of every attestation it
still has to verify are at or past the stored head. It needs `IsWalk`, that the places
after the bootstrap carry a head: then a wallet that has a head never
passes through `bootstrap`, which could replace it by an older one. Nothing is
assumed of what was served; the proof leaves the checks of `verify_one_l2_block`
unexpanded.

**No deposit address is lost.** For commands that overlap, `Files` and `Commands` say
that each file, and each copy in flight, has mints of distinct indices below its
`next_mint_index` that are right about their deposits; deposits never change once
made, so a stale copy is right, too, and `ReadyIsSpendable` follows. For one command at
a time `Alone` adds that the copy in flight is `Forward` of the file it
will replace (same seed, key and mints, perhaps more), and that an address handed out
has an index its file has used up, so that the next one is another.

**The history of a wallet is the chain's.** `HInv` has three parts. `Once` is about the
sequencer: no transaction is in two blocks, or in a block and in the pool, since a lock
mints once and the nonce of an accepted transfer is below the number of those of its
sender (`Numbered`). Therefore two events with one key are one event (`DeliveredOnce`), without
which a walk would settle one record twice. `Told` is about a file and a *world* (`Now`:
deposits, reclaims, blocks, what was accepted, the tip): the events of the blocks crossed,
and no others, are settled, each by the first record of its key (`Settles`); what is
settled on L1 is at the height L1 has, what is finalized is buried below the height its
record carries (`Stands`); and every
deposit and reclaim is booked when its mint record says so and not before, and only for indices used up
(`Books`). Nothing the world does is undone (`Later`), so what was told of the world at
the moment a copy was taken is true of every later one (`ToldLater`): this is why a stale copy,
written back, is still right about L1 and L2, and `MintRecordsTrue` and
`FinalizedIsBuried` hold for commands that overlap. "The first record of its key" is what makes `Settles`
inductive: `project_event` settles the first match, and a failed or lost submission may have
left records of the same key before or after it. A walk is the fold of
`project_event` over the events of the blocks it crosses; by induction over their
number (`AllProjected`), after k events the history settles those of before and the first k. `Onward`,
for one command at a time, adds that the copy in flight took nothing back from the file it
will replace, of which `FileForward` is what a save shows. `HistoryComplete` needs one command at a time
only because two that overlap may write one wallet's file over another's (section 5).

<a name="5-findings"></a>
## 5. Where the program and its documentation disagree

1. `RootsReplay`, run `seq_replay` (producer.rs:183). `produce_block` replaces
   `Shared.state` and then stores the block. If the write fails, memory keeps the
   ledger of a block that does not exist; the next block is built on it and its
   `state_root` cannot be reproduced. Every follower rejects it, and all later ones.
2. `AnchorAlwaysRecovers`, run `attest_revert` (producer.rs:374). When two
   chained attestations are missing in one pass, the last entry decides the
   anchor. Its `spent_anchor` belongs to the other missing one, both entries are
   dropped, and no attestation can be posted again.
3. `LoopEnds`, run `follow_torn` (follower.rs:104). The blocks of a batch are stored
   before the anchor. If the process dies or `set_anchor` fails in between, the
   attestation is found again, skipped as already known *without moving the
   anchor*, found again, and so on: `tick` never leaves that L1 block, not after a
   restart either.
4. `NeverLate`, run `seq_late` (hodl-sequencer/api.rs:38). A receipt is signed after
   the transaction was pushed, for the height after the head read then. If the producer drained the
   mempool before the push and has not published its block yet, the transaction is stored one
   block above the height promised. api.rs:31-32 promises the next block, and
   rpc.rs:82-87 and docs/design.md:433-437 call an inclusion past the promised height
   provable misbehaviour. `AtMostOneLate` is what the code keeps.
5. `ShownKept`, run `wallet_lost` (commands.rs:235). `light_balance` works on the copy
   of the wallet file it loaded, through many awaits. A `mint_utxo` that
   saves in between is overwritten: the record and the index of an address that was
   shown to the user are gone, and the next `mint_utxo` hands out the same address.
   state.rs:74-76 takes commands to run one after the other; the async ones do not.

Met while reading, and without a run of their own:

- `/balance` offers an `effective_nonce` that counts waiting transfers, for
  back-to-back use (rpc.rs), and `/transfer` refuses every nonce but the committed
  one (hodl-sequencer/api.rs:243). A transfer posted twice is queued twice and may get
  receipts for two heights, which rpc.rs:82-87 calls proof of misbehaviour.
- `save_current` writes to the path of the wallet selected *now*. A command that was
  started for another wallet and is still in flight replaces this one's file.
  Two savers of one file also share its `.json.tmp`.
- The follower's cursor only moves forward (follower.rs:71-95). When a reorg mines an
  attestation in an L1 block at or below it, the node does not see it; its anchor is never
  spent in any later block, and it follows nothing any more. docs/design.md:563-566 calls such a
  reorg covered; it is on the sequencer's side only.
- The wallet never compares the address of an inclusion proof with the one it asked for:
  verify.rs:162 compares that of the answer around it, ops.rs:1097-1115 none, and
  `InclusionProof::verify` hashes with the proof's own (smt.rs:131-146). A true proof of another
  account passes as the wallet's own at the bootstrap, until the next block is verified, and
  as that of any other address always. verify.rs:162-164 means to exclude it ("balance
  response is for the wrong address"). `HeadCommits` and `ShownIsTrue` say what is left.
- An L2 transaction counts as `Finalized` by the L1 height its block was *built* at; wallet.rs:336-338
  and the text shown for it (History.svelte) name the height of the attestation, which is
  later. `FinalizedIsBuried` is therefore about deposits and reclaims only. A record that is
  `InBlock` is not demoted when L1 reorganises.
- docs/design.md:556-559 says that a new attestation re-publishes the same L2 head;
  `check_and_attest` produces a block before each post and attests that one (producer.rs:248-255).
- The nullifier of a mint is recorded whatever its destination. A mint to somebody
  else's address stays `Soft` for ever, because no event of this wallet matches it.
- A transfer that was refused and is sent again with the same nonce has the same
  sighash. The event promotes the first record, the `Failed` one; the `Soft` one stays.
- A wallet that bootstraps past blocks with its own transfers does not get their
  records (ops.rs:1061-1063 says otherwise); `HistoryComplete` starts at `booted`.
- `reclaim_mint` broadcasts before it saves. A crash in between leaves the mint
  `Ready`, and a second broadcast is refused by L1; a reclaim that is evicted stays
  marked `reclaimed`.
- Real Esplora nests `block_height` in `status` and reports mempool spends in
  `/outspend`; the wallet follows the node's flat answers.

<a name="6-limits"></a>
## 6. Only model-checked, not modelled

Only TLC:

- All liveness: `WaitingEnds`, `AnchorRecovers`, `EveryAdvanceAttested`, `CatchesUp`.
  TLAPS does not handle fairness.

The induction theorems of the library take an operator as a parameter, which
the provers here cannot instantiate. `Induction` states what is needed of them for sets
(`SetInduction`: a set with 0 that is closed under successor holds every number) and
derives them from `WFMin`, so that facts about recursive functions and folds
can be proved; RECURSIVE operators are not used.

Modelled in part:

- Node API: what a light wallet asks. The other Esplora routes pass through to
  bitcoind.
- Desktop: sessions and commands. Not the order of the two mutexes: for encrypted
  wallets `load_current` and `deselect` take them in opposite orders
  (state.rs:77), which is one deadlock with no interesting state. Not a forced keygen
  over an existing file.
- Sequencer bootstrap: the crash window inside its genesis writes is only modelled for the
  node (`CrashBetweenWrites` at `bootAnchor`), which has the same one.
- Encryption: whether a file is written in the clear, not the cryptography.
- Attestation encoding: what an attestation carries. The layout of 73
  bytes has a round-trip test.

Not modelled: the f64 formula of `mint_fn`, malformed OP_RETURNs, a chain whose root
attestation has no fee address, the Svelte interface, the regtest scripts. A second
spender of an anchor is left out of `Attestor`, since only the sequencer holds the
key; therefore the case of a conflicted transaction with negative confirmations
(bitcoind.rs:124-143) is not reached. `LightWallet` walks attestations that stay:
one that is evicted after the node recorded it makes the wallet stop for ever,
like the node whose cursor has passed it (section 5).

<a name="7-plan"></a>
## 7. Plan

Done: the modules of section 2, and a theorem for every safety property that a passing run
of `Sequencer`, `Attestor`, `Follower`, `LightWallet` and `WalletRecords` checks. What is left,
most important first.

| # | work | checked against | theorem |
|---|---|---|---|
| 1 | `LightWallet` over `Attestor`'s L1: attestations that reorgs replace, evictions | `AttestationChain` | |
| 2 | `WalletRecords` with an L1 that reorganises: demotion of records, evicted reclaims | | |
| 3 | the order of the desktop's mutexes; two wallets with overlapping commands | absence of deadlock | |
