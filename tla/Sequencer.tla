----------------------------- MODULE Sequencer ------------------------------
(***************************************************************************)
(* hodl-sequencer without its L1 attestations: the HTTP handlers           *)
(* (api.rs), the state they share with the producer task (shared.rs), the  *)
(* block-production path of the producer (producer.rs), the SQLite store   *)
(* (store.rs), and a crash followed by a restart (main.rs).                *)
(*                                                                         *)
(* `state`, `head` and `mempool` are three separate mutexes, so a handler  *)
(* or the producer holds none of them between two of the actions below.    *)
(* Steps that only the producer can tell apart (it is the one writer of    *)
(* `state`, `head` and the store) are one action.                          *)
(***************************************************************************)
EXTENDS Ledger, SequencesExt

CONSTANTS
    Requests,       \* identities of HTTP submissions, each used once
    MintAmount,     \* atoms a lock is worth (proof.rs, fixed by the L1 output)
    MintInputs,     \* the mints clients may submit
    TransferInputs, \* the transfers clients may submit
    RawNonces,      \* nonces used without asking /balance (replays, retries)
    FundedBefore,   \* locks already on L1 when the sequencer starts
    StoreFaults,    \* may a store write fail?
    RpcFaults,      \* may a call to bitcoind fail?
    MaxBuilds,      \* bound on blocks sealed with nothing waiting
    MaxCrashes,     \* bound on crashes
    MaxReorgs,      \* bound on L1 reorgs that un-confirm a lock
    MaxL1Tip        \* bound on the L1 height

\* Addresses are 32-byte keys, so there are finitely many.
ASSUME SequencerAssumption ==
    /\ IsFiniteSet(Addrs)
    /\ MintAmount \in [Nullifiers -> Amount]
    /\ MintInputs \subseteq [nullifier : Nullifiers, dest : Addrs]
    /\ TransferInputs \subseteq
         [from : Addrs, to : Addrs, amount : Amount, signed : BOOLEAN]
    /\ RawNonces \subseteq Nat
    /\ FundedBefore \subseteq Nullifiers
    /\ StoreFaults \in BOOLEAN /\ RpcFaults \in BOOLEAN
    /\ MaxBuilds \in Nat /\ MaxCrashes \in Nat
    /\ MaxReorgs \in Nat /\ MaxL1Tip \in Nat

\* Bitcoin, as bitcoind reports it.
VARIABLES
    l1Tip,          \* getblockcount
    locks           \* each lock output: not in a block, unspent, or reclaimed

\* Memory of the sequencer process (shared.rs).
VARIABLES
    state,          \* Shared.state
    head,           \* Shared.head
    mempool,        \* Shared.mempool
    prod            \* locals of the producer task

\* The SQLite file.
VARIABLES
    chain,          \* tables blocks and state_snapshots: entry h + 1 is height h
    l1Cursor        \* kv l1_cursor

\* Clients and their submissions.
VARIABLES
    pc,             \* how far the handler of each submission has come
    sub,            \* the transaction it carries
    target          \* target_l2_height of the soft confirmation it got

\* Counters for the bounds; `builds` also numbers the sealed blocks, and so
\* stands for their (collision-free) hashes.
VARIABLES builds, crashes, reorgs

l1Vars   == <<l1Tip, locks>>
procVars == <<state, head, mempool, prod>>
dbVars   == <<chain, l1Cursor>>
reqVars  == <<pc, sub, target>>
counters == <<builds, crashes, reorgs>>
vars == <<l1Vars, procVars, dbVars, reqVars, counters>>

NoTx == [type |-> "none"]
GenesisL1 == 0

Mints     == MintTx(Requests)
Transfers == TransferTx(Requests)
Txs       == Mints \cup Transfers

Terminal == {"idle", "rejected", "accepted", "lost"}
Phases   == Terminal \cup
            {"verified", "queried", "ready", "checked", "pushed"}

Block == [hash : Nat, prev : Nat, l1Height : Nat, txs : Seq(Txs),
          root : [Addrs -> Amount] \X [Addrs -> Nat] \X SUBSET Nullifiers,
          snapshot : LedgerType]

\* height |-> 0 is genesis: written by `bootstrap` before anything is served.
GenesisBlock == [hash |-> 0, prev |-> 0, l1Height |-> GenesisL1, txs |-> <<>>,
                 root |-> Root(EmptyLedger), snapshot |-> EmptyLedger]

LastBlock == chain[Len(chain)]
EmptyMempool == [mints |-> <<>>, transfers |-> <<>>, pending |-> {}]
IdleProducer == [at |-> "idle", l1Height |-> GenesisL1, mints |-> <<>>,
                 transfers |-> <<>>, txs |-> <<>>, working |-> EmptyLedger]

\* HeadInfo of the newest stored block, what `bootstrap` resumes from.
ResumedHead == [height |-> Len(chain) - 1, hash |-> LastBlock.hash]

Init ==
    /\ l1Tip = GenesisL1
    /\ locks = [n \in Nullifiers |->
                  IF n \in FundedBefore THEN "locked" ELSE "unfunded"]
    /\ state = EmptyLedger
    /\ head = [height |-> 0, hash |-> 0]
    /\ mempool = EmptyMempool
    /\ prod = IdleProducer
    /\ chain = <<GenesisBlock>>
    /\ l1Cursor = GenesisL1
    /\ pc = [r \in Requests |-> "idle"]
    /\ sub = [r \in Requests |-> NoTx]
    /\ target = [r \in Requests |-> 0]
    /\ builds = 0 /\ crashes = 0 /\ reorgs = 0

-----------------------------------------------------------------------------
(* Bitcoin.                                                                *)

\* A lock output is mined.
FundLock(n) ==
    /\ locks[n] = "unfunded"
    /\ l1Tip < MaxL1Tip
    /\ l1Tip' = l1Tip + 1
    /\ locks' = [locks EXCEPT ![n] = "locked"]
    /\ UNCHANGED <<procVars, dbVars, reqVars, counters>>

\* Its owner reclaims it: gettxout no longer returns it.
ReclaimLock(n) ==
    /\ locks[n] = "locked"
    /\ l1Tip < MaxL1Tip
    /\ l1Tip' = l1Tip + 1
    /\ locks' = [locks EXCEPT ![n] = "spent"]
    /\ UNCHANGED <<procVars, dbVars, reqVars, counters>>

\* The block that mined it is replaced by one that does not contain it.
ReorgLock(n) ==
    /\ locks[n] = "locked"
    /\ reorgs < MaxReorgs
    /\ reorgs' = reorgs + 1
    /\ locks' = [locks EXCEPT ![n] = "unfunded"]
    /\ UNCHANGED <<l1Tip, procVars, dbVars, reqVars, builds, crashes>>

-----------------------------------------------------------------------------
(* POST /mint: verify against L1, look in the committed nullifiers, look in *)
(* the mempool and insert, then read the head and sign.                    *)

MintOf(r, in) ==
    [type |-> "mint", nullifier |-> in.nullifier, dest |-> in.dest,
     amount |-> MintAmount[in.nullifier], by |-> r]

\* `witness.verify`: the output exists with a confirmation and is worth an atom.
\* An RPC error and a refusal are both `Err` to the callers.
WitnessVerifies(n) == locks[n] = "locked" /\ MintAmount[n] # 0
Answers == {TRUE, ~RpcFaults}

Goto(r, phase) == pc' = [pc EXCEPT ![r] = phase]

VerifyMint(r, in) ==
    /\ pc[r] = "idle"
    /\ sub' = [sub EXCEPT ![r] = MintOf(r, in)]
    /\ \E answered \in Answers :
          Goto(r, IF answered /\ WitnessVerifies(in.nullifier)
                  THEN "verified" ELSE "rejected")
    /\ UNCHANGED <<l1Vars, procVars, dbVars, target, counters>>

CheckConsumed(r) ==
    /\ pc[r] = "verified"
    /\ Goto(r, IF sub[r].nullifier \in state.consumed THEN "rejected"
               ELSE "checked")
    /\ UNCHANGED <<l1Vars, procVars, dbVars, sub, target, counters>>

PushMint(r) ==
    /\ pc[r] = "checked" /\ sub[r].type = "mint"
    /\ IF sub[r].nullifier \in mempool.pending
       THEN Goto(r, "rejected") /\ UNCHANGED mempool
       ELSE /\ Goto(r, "pushed")
            /\ mempool' = [mempool EXCEPT
                   !.mints = Append(@, sub[r]),
                   !.pending = @ \cup {sub[r].nullifier}]
    /\ UNCHANGED <<l1Vars, state, head, prod, dbVars, sub, target, counters>>
-----------------------------------------------------------------------------
(* POST /transfer, and the GET /balance a wallet does before it.           *)

TransferOf(r, in, n) ==
    [type |-> "transfer", from |-> in.from, to |-> in.to,
     amount |-> in.amount, nonce |-> n, signed |-> in.signed, by |-> r]

PendingFrom(a) ==
    Cardinality({i \in 1..Len(mempool.transfers) :
                    mempool.transfers[i].from = a})

\* get_balance reads the ledger under the state lock ...
QueryNonce(r, in) ==
    /\ pc[r] = "idle"
    /\ sub' = [sub EXCEPT ![r] = TransferOf(r, in, state.nonce[in.from])]
    /\ Goto(r, "queried")
    /\ UNCHANGED <<l1Vars, procVars, dbVars, target, counters>>

\* ... and then counts the sender's waiting transfers under the mempool lock:
\* effective_nonce, which the wallet signs.
AddPending(r) ==
    /\ pc[r] = "queried"
    /\ sub' = [sub EXCEPT ![r].nonce = @ + PendingFrom(sub[r].from)]
    /\ Goto(r, "ready")
    /\ UNCHANGED <<l1Vars, procVars, dbVars, target, counters>>

\* A client that sends a transfer signed earlier.
SendTransfer(r, in, n) ==
    /\ pc[r] = "idle"
    /\ sub' = [sub EXCEPT ![r] = TransferOf(r, in, n)]
    /\ Goto(r, "ready")
    /\ UNCHANGED <<l1Vars, procVars, dbVars, target, counters>>

CheckNonce(r) ==
    /\ pc[r] = "ready"
    /\ Goto(r, IF sub[r].signed /\ sub[r].nonce = state.nonce[sub[r].from]
               THEN "checked" ELSE "rejected")
    /\ UNCHANGED <<l1Vars, procVars, dbVars, sub, target, counters>>

PushTransfer(r) ==
    /\ pc[r] = "checked" /\ sub[r].type = "transfer"
    /\ mempool' = [mempool EXCEPT !.transfers = Append(@, sub[r])]
    /\ Goto(r, "pushed")
    /\ UNCHANGED <<l1Vars, state, head, prod, dbVars, sub, target, counters>>

\* Mutant: the receipt names the current head.
SignSoftConf_Head(r) ==
    /\ pc[r] = "pushed"
    /\ target' = [target EXCEPT ![r] = head.height]
    /\ Goto(r, "accepted")
    /\ UNCHANGED <<l1Vars, procVars, dbVars, sub, counters>>

\* sign_soft_conf: the last step of both handlers.
SignSoftConf(r) ==
    /\ pc[r] = "pushed"
    /\ target' = [target EXCEPT ![r] = head.height + 1]
    /\ Goto(r, "accepted")
    /\ UNCHANGED <<l1Vars, procVars, dbVars, sub, counters>>

-----------------------------------------------------------------------------
(* produce_block.                                                          *)

\* Bounds the number of blocks; blocks with waiting transactions are bounded
\* by the number of requests.
CanBuild ==
    \/ builds < MaxBuilds
    \/ mempool # EmptyMempool

\* The two L1 calls come first; if one fails nothing has been touched.
ReadL1 ==
    /\ prod.at = "idle"
    /\ CanBuild
    /\ prod' = [prod EXCEPT !.at = "drain", !.l1Height = l1Tip]
    /\ UNCHANGED <<l1Vars, state, head, mempool, dbVars, reqVars, counters>>

Drain ==
    /\ prod.at = "drain"
    /\ prod' = [prod EXCEPT !.at = "build", !.mints = mempool.mints,
                            !.transfers = mempool.transfers,
                            !.txs = <<>>, !.working = state]
    /\ mempool' = EmptyMempool
    /\ UNCHANGED <<l1Vars, state, head, dbVars, reqVars, counters>>

\* Mutant: `break` for `continue` at the first mint that does not verify.
BuildMint_Break ==
    /\ prod.at = "build"
    /\ prod.mints # <<>>
    /\ \E answered \in Answers :
       LET tx == Head(prod.mints)
           ok == /\ answered /\ WitnessVerifies(tx.nullifier)
                 /\ Applies(prod.working, tx)
       IN  prod' = [prod EXCEPT
               !.mints = IF ok THEN Tail(@) ELSE <<>>,
               !.txs = IF ok THEN Append(@, tx) ELSE @,
               !.working = IF ok THEN Apply(@, tx) ELSE @]
    /\ UNCHANGED <<l1Vars, state, head, mempool, dbVars, reqVars, counters>>

\* One round of `for entry in mints`: re-verify against L1, then apply.
BuildMint ==
    /\ prod.at = "build"
    /\ prod.mints # <<>>
    /\ \E answered \in Answers :
       LET tx == Head(prod.mints)
           ok == /\ answered /\ WitnessVerifies(tx.nullifier)
                 /\ Applies(prod.working, tx)
       IN  prod' = [prod EXCEPT
               !.mints = Tail(@),
               !.txs = IF ok THEN Append(@, tx) ELSE @,
               !.working = IF ok THEN Apply(@, tx) ELSE @]
    /\ UNCHANGED <<l1Vars, state, head, mempool, dbVars, reqVars, counters>>

\* Mutant: a transfer that does not apply goes back into the queue.
BuildTransfer_Requeue ==
    /\ prod.at = "build"
    /\ prod.mints = <<>>
    /\ prod.transfers # <<>>
    /\ LET tx == Head(prod.transfers)
           ok == Applies(prod.working, tx)
       IN  prod' = [prod EXCEPT
               !.transfers = IF ok THEN Tail(@) ELSE Append(Tail(@), tx),
               !.txs = IF ok THEN Append(@, tx) ELSE @,
               !.working = IF ok THEN Apply(@, tx) ELSE @]
    /\ UNCHANGED <<l1Vars, state, head, mempool, dbVars, reqVars, counters>>

\* One round of `for st in transfers`.
BuildTransfer ==
    /\ prod.at = "build"
    /\ prod.mints = <<>>
    /\ prod.transfers # <<>>
    /\ LET tx == Head(prod.transfers)
           ok == Applies(prod.working, tx)
       IN  prod' = [prod EXCEPT
               !.transfers = Tail(@),
               !.txs = IF ok THEN Append(@, tx) ELSE @,
               !.working = IF ok THEN Apply(@, tx) ELSE @]
    /\ UNCHANGED <<l1Vars, state, head, mempool, dbVars, reqVars, counters>>

\* The header is built, and the new ledger becomes visible to the handlers
\* before it is stored.
Seal ==
    /\ prod.at = "build"
    /\ prod.mints = <<>> /\ prod.transfers = <<>>
    /\ state' = prod.working
    /\ prod' = [prod EXCEPT !.at = "write"]
    /\ builds' = builds + 1
    /\ UNCHANGED <<l1Vars, head, mempool, dbVars, reqVars, crashes, reorgs>>

\* Mutants: linked to the block sealed last, stored or not; and the root of the
\* ledger before the block.
NewBlock_PrevSealed ==
    [hash |-> builds, prev |-> builds - 1, l1Height |-> prod.l1Height,
     txs |-> prod.txs, root |-> Root(prod.working), snapshot |-> state]
NewBlock_PriorRoot ==
    [hash |-> builds, prev |-> head.hash, l1Height |-> prod.l1Height,
     txs |-> prod.txs, root |-> Root(LastBlock.snapshot), snapshot |-> state]

NewBlock ==
    [hash |-> builds, prev |-> head.hash, l1Height |-> prod.l1Height,
     txs |-> prod.txs, root |-> Root(prod.working), snapshot |-> state]

\* `blocks.height` is a PRIMARY KEY and the statement is a plain INSERT.
HeightIsFree == head.height + 1 = Len(chain)

\* write_block_and_state, one SQL transaction.
WriteBlock ==
    /\ prod.at = "write"
    /\ HeightIsFree
    /\ chain' = Append(chain, NewBlock)
    /\ prod' = [prod EXCEPT !.at = "cursor"]
    /\ UNCHANGED <<l1Vars, state, head, mempool, l1Cursor, reqVars, counters>>

\* Mutant: the error is logged and the block published all the same.
WriteFails_Ignored ==
    /\ prod.at = "write"
    /\ StoreFaults \/ ~HeightIsFree
    /\ prod' = [prod EXCEPT !.at = "cursor"]
    /\ UNCHANGED <<l1Vars, state, head, mempool, dbVars, reqVars, counters>>

\* It fails, and produce_block returns its error: whatever was drained is gone,
\* and Shared.state keeps the ledger of the block that was not stored.
WriteFails ==
    /\ prod.at = "write"
    /\ StoreFaults \/ ~HeightIsFree
    /\ prod' = IdleProducer
    /\ UNCHANGED <<l1Vars, state, head, mempool, dbVars, reqVars, counters>>

SetL1Cursor ==
    /\ prod.at = "cursor"
    /\ l1Cursor' = prod.l1Height
    /\ prod' = [prod EXCEPT !.at = "publish"]
    /\ UNCHANGED <<l1Vars, state, head, mempool, chain, reqVars, counters>>

\* The block is stored and the head is not: every later INSERT conflicts.
CursorFails ==
    /\ prod.at = "cursor"
    /\ StoreFaults
    /\ prod' = IdleProducer
    /\ UNCHANGED <<l1Vars, state, head, mempool, dbVars, reqVars, counters>>

PublishHead ==
    /\ prod.at = "publish"
    /\ head' = [height |-> head.height + 1, hash |-> builds]
    /\ prod' = IdleProducer
    /\ UNCHANGED <<l1Vars, state, mempool, dbVars, reqVars, counters>>

-----------------------------------------------------------------------------
(* The process dies and `bootstrap` resumes it from the newest snapshot.   *)

Crash ==
    /\ crashes < MaxCrashes
    /\ crashes' = crashes + 1
    /\ state' = LastBlock.snapshot
    /\ head' = ResumedHead
    /\ mempool' = EmptyMempool
    /\ prod' = IdleProducer
    /\ pc' = [r \in Requests |-> IF pc[r] \in Terminal THEN pc[r] ELSE "lost"]
    /\ UNCHANGED <<l1Vars, dbVars, sub, target, builds, reorgs>>
-----------------------------------------------------------------------------
L1Step == \E n \in Nullifiers : FundLock(n) \/ ReclaimLock(n) \/ ReorgLock(n)

ClientStep(r) ==
    \/ \E in \in MintInputs : VerifyMint(r, in)
    \/ \E in \in TransferInputs :
          QueryNonce(r, in) \/ \E n \in RawNonces : SendTransfer(r, in, n)

HandlerStep(r) ==
    \/ CheckConsumed(r)
    \/ PushMint(r)
    \/ AddPending(r)
    \/ CheckNonce(r)
    \/ PushTransfer(r)
    \/ SignSoftConf(r)

ProducerStep ==
    \/ ReadL1 \/ Drain \/ BuildMint \/ BuildTransfer \/ Seal
    \/ WriteBlock \/ WriteFails \/ SetL1Cursor \/ CursorFails \/ PublishHead

Next ==
    \/ L1Step
    \/ \E r \in Requests : ClientStep(r) \/ HandlerStep(r)
    \/ ProducerStep
    \/ Crash

Spec == Init /\ [][Next]_vars

\* A handler that was called runs to its end, and the producer's ticker keeps
\* firing.  Clients, Bitcoin and crashes owe nothing.
Fairness ==
    /\ \A r \in Requests : WF_vars(HandlerStep(r))
    /\ WF_vars(ProducerStep)

FairSpec == Spec /\ Fairness
-----------------------------------------------------------------------------
(* What must hold.                                                         *)

ProducerType ==
    [at : {"idle", "drain", "build", "write", "cursor", "publish"},
     l1Height : Nat, mints : Seq(Mints), transfers : Seq(Transfers),
     txs : Seq(Txs), working : LedgerType]

\* Types of every variable.  The file and the process only ever hold whole
\* transactions, so no handler step may leave half of one behind.
TypeOK ==
    /\ l1Tip \in Nat
    /\ locks \in [Nullifiers -> {"unfunded", "locked", "spent"}]
    /\ state \in LedgerType
    /\ head \in [height : Nat, hash : Nat]
    /\ mempool \in [mints : Seq(Mints), transfers : Seq(Transfers),
                    pending : SUBSET Nullifiers]
    /\ prod \in ProducerType
    /\ chain \in Seq(Block) /\ chain # <<>>
    /\ l1Cursor \in Nat
    /\ pc \in [Requests -> Phases]
    /\ sub \in [Requests -> Txs \cup {NoTx}]
    /\ target \in [Requests -> Nat]
    /\ builds \in Nat /\ crashes \in Nat /\ reorgs \in Nat

Positions == UNION {{i} \X (1..Len(chain[i].txs)) : i \in 1..Len(chain)}
TxAt(p) == chain[p[1]].txs[p[2]]

\* A lock mints at most once in the stored chain.  Two submissions of one lock
\* can both be accepted: `drain` forgets pending_nullifiers before the block
\* that consumes them is in Shared.state (shared.rs:23, api.rs:175-203).
MintedOnce ==
    \A p, q \in Positions :
        (TxAt(p).type = "mint" /\ TxAt(q).type = "mint"
            /\ TxAt(p).nullifier = TxAt(q).nullifier) => p = q

\* No signed transfer is applied twice, however often it is submitted, also
\* across a restart or a failed store write (state.rs:114-117).
TransferredOnce ==
    \A p, q \in Positions :
        (TxAt(p).type = "transfer" /\ TxAt(q).type = "transfer"
            /\ TxAt(p).from = TxAt(q).from /\ TxAt(p).nonce = TxAt(q).nonce)
        => p = q

\* Every stored block names the stored block below it, also after a block that
\* was stored but never became the head, or was sealed but never stored.
ChainLinked ==
    \A i \in 2..Len(chain) : chain[i].prev = chain[i - 1].hash

\* Whatever /head has answered survives a crash: the published head is a
\* stored block (producer.rs:187-209 stores first and publishes last).
HeadIsStored ==
    /\ head.height < Len(chain)
    /\ chain[head.height + 1].hash = head.hash

\* Fees move to the fee address or are burned, and a transfer creates nothing:
\* until a u64 has saturated, balances add up to what was minted, or to less
\* where fees are burned (state.rs:119-151).
Supply(l) == SumFunction(l.balance)
Backed(l) ==
    l.minted < MaxAtoms =>
        /\ Supply(l) <= l.minted
        /\ FeeAddr # NoFeeAddr => Supply(l) = l.minted
SupplyConserved == Backed(state)

\* Re-running a stored block on the stored ledger below it gives the ledger
\* stored with it, and that ledger is the one its header commits to: what every
\* follower checks before it accepts the block (follower.rs:180-205).
RootsReplay ==
    \A i \in 2..Len(chain) :
        LET replayed == FoldLeft(Apply, chain[i - 1].snapshot, chain[i].txs)
        IN  /\ replayed = chain[i].snapshot
            /\ chain[i].root = Root(replayed)

\* What the code keeps of a receipt.  The height is read after the push, while
\* the producer may already have drained (api.rs:36-38), so a transaction that is
\* stored is stored at most one height above its target_l2_height.  Nothing is
\* said of one that is not: a crash, a failed write or produce_block may drop it.
AtMostOneLate ==
    \A p \in Positions :
        LET r == TxAt(p).by
        IN  pc[r] = "accepted" => p[1] - 1 <= target[r] + 1

\* What the receipt says, of those that are stored: "inclusion of `tx_hash` at
\* the next L2 block (current head + 1)" (api.rs:31-32), and inclusion past that
\* height proves misbehaviour (rpc.rs:82-87, design.md:432-437).
NeverLate ==
    \A p \in Positions :
        LET r == TxAt(p).by
        IN  pc[r] = "accepted" => p[1] - 1 <= target[r]

Waiting(r) ==
    \E s \in {mempool.mints, mempool.transfers,
               prod.mints, prod.transfers, prod.txs} :
        \E i \in 1..Len(s) : s[i].by = r

\* An accepted mint is waiting, or its lock has minted, or L1 took the lock
\* away.  (Without crashes or failed writes, which lose what was drained.)
AcceptedMintNotLost ==
    \A r \in Requests :
        (pc[r] \in {"pushed", "accepted"} /\ sub[r].type = "mint")
        => \/ Waiting(r)
           \/ sub[r].nullifier \in state.consumed
           \/ locks[sub[r].nullifier] # "locked"

\* Everything pushed to the mempool leaves the producer's hands: it is in a
\* block, or was dropped (producer.rs:111-148).
WaitingEnds == \A r \in Requests : Waiting(r) ~> ~Waiting(r)
=============================================================================
