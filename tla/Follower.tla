------------------------------ MODULE Follower ------------------------------
(***************************************************************************)
(* hodl-node: the follower task (follower.rs) with its bootstrap           *)
(* (main.rs), its store (store.rs) and its view of L1 (bitcoind.rs),       *)
(* against an L1 that obeys AttestationChain, a sequencer that serves its  *)
(* stored blocks, failing calls, failing writes and restarts.              *)
(*                                                                         *)
(* An anchor is named by the L2 heights attested on the way to it: an      *)
(* attestation commits to its input and its height, so that sequence is    *)
(* its txid, and <<>> is anchor_0.  A ledger is the set of transactions it *)
(* has executed: executing one twice is an error (LedgerProofs!ApplyKnows).*)
(***************************************************************************)
EXTENDS Integers, Sequences, FiniteSets

CONSTANTS
    Txs,            \* transactions of the L2 blocks
    Mints,          \* those verified against L1
    FinalityDepth,  \* how deep a settled attestation is
    TornAt,         \* the writes before which the node may die or fail
    MaxL1Tip,       \* bound on the L1 height
    MaxHeight,      \* bound on the L2 height
    MaxReorgs,      \* bound on L1 reorgs
    MaxFaults,      \* bound on failed calls and restarts between two blocks
    MaxTorn         \* bound on failures between two writes

Writes == {"bootAnchor", "store", "anchor", "record"}

ASSUME FollowerAssumption ==
    /\ Mints \subseteq Txs
    /\ FinalityDepth \in Nat \ {0}
    /\ TornAt \subseteq Writes
    /\ MaxL1Tip \in Nat /\ MaxHeight \in Nat /\ MaxReorgs \in Nat
    /\ MaxFaults \in Nat /\ MaxTorn \in Nat

\* Bitcoin and the sequencer.
VARIABLES
    l1Tip,          \* getblockcount, counted from l1_genesis_height
    path,           \* the attestations in L1 blocks, from anchor_0 on
    attested,       \* the L2 heights that ever were in an L1 block
    spent,          \* mints whose lock gettxout no longer returns
    blocks          \* what GET /block serves: the transactions at each height

\* Memory of the node: Shared, and locals of the follower task.
VARIABLES state, head, node

\* The SQLite file of the node.
VARIABLES
    stored,         \* height of the newest block and snapshot, or Nothing
    snapshot,       \* that snapshot
    cursor,         \* kv l1_cursor
    anchor,         \* kv anchor, or Nothing
    spends          \* table anchor_spends

\* Counters for the bounds.
VARIABLES reorgs, faults, torn

worldVars == <<l1Tip, path, attested, spent, blocks>>
memVars   == <<state, head, node>>
dbVars    == <<stored, snapshot, cursor, anchor, spends>>
counters  == <<reorgs, faults, torn>>
vars == <<worldVars, memVars, dbVars, counters>>

Nothing == <<-1>>

Heights == [i \in 1..Len(path) |-> path[i].l2]
AnchorAt(n) == SubSeq(Heights, 1, n)
Executed(h) == UNION {blocks[i] : i \in 1..h}

\* Locals of tick: the tip it read, the L1 height it is at, and the advance
\* that scan_block_for_chain_advance returned (its new anchor).
IdleNode == [at |-> "idle", tip |-> 0, scan |-> 0, adv |-> <<>>]

Init ==
    /\ l1Tip = 0 /\ path = <<>> /\ attested = {} /\ spent = {} /\ blocks = <<>>
    /\ state = {} /\ head = 0
    /\ node = [IdleNode EXCEPT !.at = "genesis"]
    /\ stored = -1 /\ snapshot = {} /\ cursor = 0
    /\ anchor = Nothing /\ spends = [a \in {} |-> a]
    /\ reorgs = 0 /\ faults = 0 /\ torn = 0

-----------------------------------------------------------------------------
(* Bitcoin and the sequencer.                                              *)

Included(depth) == {i \in 1..Len(path) : path[i].at <= l1Tip - depth}
SettledAnchors == {AnchorAt(i) : i \in Included(FinalityDepth - 1)}
Links == [a \in {AnchorAt(i) : i \in 1..Len(path)} |->
            [spends |-> SubSeq(a, 1, Len(a) - 1), l2 |-> a[Len(a)]]]

Chain == INSTANCE AttestationChain
         WITH Anchor0 <- <<>>, links <- Links, settled <- SettledAnchors,
              attested <- attested

\* One or two attestations of blocks the sequencer has, in the new L1 blocks.
Attestation(depth) ==
    [l2 : 1..Len(blocks), at : (l1Tip - depth + 1)..(l1Tip + 1)]
Tails(depth) ==
    {<<>>} \cup {<<a>> : a \in Attestation(depth)}
           \cup {<<a, b>> : a, b \in Attestation(depth)}

\* The next block replaces the last `depth` ones.
NewL1Block(depth) ==
    /\ l1Tip < MaxL1Tip
    /\ depth <= l1Tip
    /\ depth > 0 => reorgs < MaxReorgs
    /\ reorgs' = IF depth > 0 THEN reorgs + 1 ELSE reorgs
    /\ l1Tip' = l1Tip + 1
    /\ \E tail \in Tails(depth) :
          /\ path' = SubSeq(path, 1, Cardinality(Included(depth))) \o tail
          /\ \A i \in 2..Len(tail) : tail[i - 1].at <= tail[i].at
    /\ Chain!NewBlock
    /\ UNCHANGED <<spent, blocks, memVars, dbVars, faults, torn>>

\* A lock is reclaimed by its owner when it has matured.
ReclaimLock(m) ==
    /\ m \in Executed(Len(blocks)) \ spent
    /\ spent' = spent \cup {m}
    /\ UNCHANGED <<l1Tip, path, attested, blocks, memVars, dbVars, counters>>

ProduceBlock ==
    /\ Len(blocks) < MaxHeight
    /\ \E txs \in SUBSET (Txs \ Executed(Len(blocks))) :
          blocks' = Append(blocks, txs)
    /\ UNCHANGED <<l1Tip, path, attested, spent, memVars, dbVars, counters>>

-----------------------------------------------------------------------------
(* bootstrap.                                                              *)

Goto(place) == node' = [node EXCEPT !.at = place]

\* Genesis is fetched and stored; l1_cursor is set to its height, 0.
StoreGenesis ==
    /\ node.at = "genesis"
    /\ stored' = 0 /\ snapshot' = {} /\ cursor' = 0
    /\ state' = {} /\ head' = 0
    /\ Goto("bootAnchor")
    /\ UNCHANGED <<worldVars, anchor, spends, counters>>

AdoptAnchor0 ==
    /\ node.at = "bootAnchor"
    /\ anchor' = <<>>
    /\ Goto("idle")
    /\ UNCHANGED <<worldVars, state, head, stored, snapshot, cursor, spends,
                   counters>>

-----------------------------------------------------------------------------
(* tick.                                                                   *)

\* Mutant: the range of L1 heights leaves out the tip.
Tick_ExclusiveRange ==
    /\ node.at = "idle"
    /\ l1Tip - 1 > cursor
    /\ node' = [IdleNode EXCEPT !.at = "scan", !.tip = l1Tip - 1,
                                !.scan = cursor + 1]
    /\ UNCHANGED <<worldVars, state, head, dbVars, counters>>

Tick ==
    /\ node.at = "idle"
    /\ l1Tip > cursor
    /\ node' = [IdleNode EXCEPT !.at = "scan", !.tip = l1Tip,
                                !.scan = cursor + 1]
    /\ UNCHANGED <<worldVars, state, head, dbVars, counters>>

\* The stored anchor is spent by attestation `n` of L1 block node.scan.
Advances(n) ==
    /\ n \in 1..Len(path)
    /\ path[n].at = node.scan
    /\ AnchorAt(n - 1) = anchor

ScanFindsAdvance ==
    /\ node.at = "scan"
    /\ \E n \in 1..Len(path) :
          /\ Advances(n)
          /\ node' = [node EXCEPT !.at = "advance", !.adv = AnchorAt(n)]
    /\ UNCHANGED <<worldVars, state, head, dbVars, counters>>

ScanFindsNone ==
    /\ node.at = "scan"
    /\ anchor # Nothing
    /\ ~ \E n \in 1..Len(path) : Advances(n)
    /\ Goto("cursor")
    /\ UNCHANGED <<worldVars, state, head, dbVars, counters>>

\* "anchor not initialised in store"
ScanFails ==
    /\ node.at = "scan"
    /\ anchor = Nothing
    /\ node' = IdleNode
    /\ UNCHANGED <<worldVars, state, head, dbVars, counters>>

SetL1Cursor ==
    /\ node.at = "cursor"
    /\ cursor' = node.scan
    /\ node' = IF node.scan < node.tip
               THEN [node EXCEPT !.at = "scan", !.scan = @ + 1]
               ELSE IdleNode
    /\ UNCHANGED <<worldVars, state, head, stored, snapshot, anchor, spends,
                   counters>>

-----------------------------------------------------------------------------
(* process_advance: the blocks in (head, att.height], then the anchor and  *)
(* the link.                                                               *)

AttHeight == node.adv[Len(node.adv)]

\* "skipping already-known attestation": back into the loop over this L1 block.
SkipKnown ==
    /\ node.at = "advance"
    /\ AttHeight <= head
    /\ Goto("scan")
    /\ UNCHANGED <<worldVars, state, head, dbVars, counters>>

StartBatch ==
    /\ node.at = "advance"
    /\ AttHeight > head
    /\ Goto("block")
    /\ UNCHANGED <<worldVars, state, head, dbVars, counters>>

\* What apply_one_l2_block checks: the witness of every mint against L1 as it
\* is now, every transaction, the state root.  A lock is spent once and for all
\* and a block never changes, so checks made one after the other find what they
\* would find together.
WitnessesVerify == blocks[head + 1] \cap Mints \cap spent = {}
TxsApply == blocks[head + 1] \cap state = {}
RootAgrees == state \cup blocks[head + 1] = Executed(head + 1)

\* Mutant: Shared.state is replaced before the mints are verified.
ApplyBlock_StateFirst ==
    /\ node.at = "block"
    /\ TxsApply
    /\ state' = state \cup blocks[head + 1]
    /\ IF WitnessesVerify THEN Goto("store") ELSE node' = IdleNode
    /\ UNCHANGED <<worldVars, head, dbVars, counters>>

\* Mutant: a mint that does not verify is dropped, as the producer drops it,
\* and the root is not recomputed.
ApplyBlock_DropsMints ==
    /\ node.at = "block"
    /\ TxsApply
    /\ state' = state \cup (blocks[head + 1] \ spent)
    /\ Goto("store")
    /\ UNCHANGED <<worldVars, head, dbVars, counters>>

\* The block is fetched and accepted: Shared.state is replaced first.
ApplyBlock ==
    /\ node.at = "block"
    /\ WitnessesVerify /\ TxsApply /\ RootAgrees
    /\ state' = state \cup blocks[head + 1]
    /\ Goto("store")
    /\ UNCHANGED <<worldVars, head, dbVars, counters>>

RejectBlock ==
    /\ node.at = "block"
    /\ ~(WitnessesVerify /\ TxsApply /\ RootAgrees)
    /\ node' = IdleNode
    /\ UNCHANGED <<worldVars, state, head, dbVars, counters>>

\* Mutant: one block per attestation.
StoreBlock_NoBatch ==
    /\ node.at = "store"
    /\ stored' = head + 1 /\ snapshot' = state
    /\ head' = head + 1
    /\ Goto("anchor")
    /\ UNCHANGED <<worldVars, state, cursor, anchor, spends, counters>>

\* write_block_and_state, then Shared.head.
StoreBlock ==
    /\ node.at = "store"
    /\ stored' = head + 1 /\ snapshot' = state
    /\ head' = head + 1
    /\ Goto(IF head' = AttHeight THEN "anchor" ELSE "block")
    /\ UNCHANGED <<worldVars, state, cursor, anchor, spends, counters>>

SetAnchor ==
    /\ node.at = "anchor"
    /\ anchor' = node.adv
    /\ Goto("record")
    /\ UNCHANGED <<worldVars, state, head, stored, snapshot, cursor, spends,
                   counters>>

SpentAnchor == SubSeq(node.adv, 1, Len(node.adv) - 1)

\* Mutants: the link starts at the anchor read back from the store; one advance
\* is taken from each L1 block.
RecordSpend_StoredAnchor ==
    /\ node.at = "record"
    /\ spends' = [a \in DOMAIN spends \cup {anchor} |->
                    IF a = anchor THEN node.adv ELSE spends[a]]
    /\ Goto("scan")
    /\ UNCHANGED <<worldVars, state, head, stored, snapshot, cursor, anchor,
                   counters>>
RecordSpend_OnePerL1Block ==
    /\ node.at = "record"
    /\ spends' = [a \in DOMAIN spends \cup {SpentAnchor} |->
                    IF a = SpentAnchor THEN node.adv ELSE spends[a]]
    /\ Goto("cursor")
    /\ UNCHANGED <<worldVars, state, head, stored, snapshot, cursor, anchor,
                   counters>>

\* record_anchor_spend, an upsert; then the same L1 block is scanned again.
RecordSpend ==
    /\ node.at = "record"
    /\ spends' = [a \in DOMAIN spends \cup {SpentAnchor} |->
                    IF a = SpentAnchor THEN node.adv ELSE spends[a]]
    /\ Goto("scan")
    /\ UNCHANGED <<worldVars, state, head, stored, snapshot, cursor, anchor,
                   counters>>
-----------------------------------------------------------------------------
(* What goes wrong.                                                        *)

\* A call to bitcoind or the sequencer fails, or the cursor is not written: the
\* tick ends with an error.
CallFails ==
    /\ faults < MaxFaults
    /\ faults' = faults + 1
    /\ node.at \in {"scan", "block", "cursor"}
    /\ node' = IdleNode
    /\ UNCHANGED <<worldVars, state, head, dbVars, reorgs, torn>>

\* A write inside process_advance fails; Shared is left as it is.
WriteFails ==
    /\ torn < MaxTorn
    /\ torn' = torn + 1
    /\ node.at \in TornAt \ {"bootAnchor"}
    /\ node' = IdleNode
    /\ UNCHANGED <<worldVars, state, head, dbVars, reorgs, faults>>

\* Mutant: an empty store is resumed from like any other.
Restart_WithoutGenesis ==
    /\ node' = IdleNode /\ state' = snapshot /\ head' = stored
    /\ UNCHANGED <<worldVars, dbVars>>

\* The process dies and `bootstrap` resumes it from the newest snapshot.
Restart ==
    /\ IF stored = -1 THEN Goto("genesis") /\ state' = {} /\ head' = 0
       ELSE node' = IdleNode /\ state' = snapshot /\ head' = stored
    /\ UNCHANGED <<worldVars, dbVars>>

CrashBetweenWrites ==
    /\ torn < MaxTorn
    /\ torn' = torn + 1
    /\ node.at \in TornAt \ {"store"}
    /\ Restart
    /\ UNCHANGED <<reorgs, faults>>

CrashElsewhere ==
    /\ faults < MaxFaults
    /\ faults' = faults + 1
    /\ node.at \notin {"bootAnchor", "anchor", "record"}
    /\ Restart
    /\ UNCHANGED <<reorgs, torn>>
-----------------------------------------------------------------------------
World ==
    \/ \E depth \in 0..(FinalityDepth - 1) : NewL1Block(depth)
    \/ \E m \in Mints : ReclaimLock(m)
    \/ ProduceBlock

NodeStep ==
    \/ StoreGenesis \/ AdoptAnchor0
    \/ Tick \/ ScanFindsAdvance \/ ScanFindsNone \/ ScanFails \/ SetL1Cursor
    \/ SkipKnown \/ StartBatch \/ ApplyBlock \/ RejectBlock \/ StoreBlock
    \/ SetAnchor \/ RecordSpend

Fault == CallFails \/ WriteFails \/ CrashBetweenWrites \/ CrashElsewhere

Next == World \/ NodeStep \/ Fault

Spec == Init /\ [][Next]_vars

\* Follower::run polls forever, and main starts the node.  Bitcoin, the
\* sequencer and the faults owe nothing.
FairSpec == Spec /\ WF_vars(NodeStep)
-----------------------------------------------------------------------------
(* What must hold.                                                         *)

Places == Writes \cup {"genesis", "idle", "scan", "advance", "cursor", "block"}
Anchors == Seq(Nat \ {0})
IsPrefix(s, t) == Len(s) <= Len(t) /\ SubSeq(t, 1, Len(s)) = s

\* Types; and wherever a batch is being applied, its last block exists.
TypeOK ==
    /\ l1Tip \in Nat /\ path \in Seq([l2 : Nat \ {0}, at : Nat])
    /\ attested \subseteq Nat
    /\ spent \subseteq Mints /\ blocks \in Seq(SUBSET Txs)
    /\ state \subseteq Txs /\ head \in 0..Len(blocks)
    /\ node \in [at : Places, tip : Nat, scan : Nat, adv : Anchors]
    /\ node.at \in {"advance", "block", "store", "anchor", "record"}
       => node.adv # <<>> /\ AttHeight <= Len(blocks)
    /\ stored \in {-1} \cup 0..Len(blocks) /\ snapshot \subseteq Txs
    /\ cursor \in Nat /\ anchor \in Anchors \cup {Nothing}
    /\ DOMAIN spends \subseteq Anchors
    /\ \A a \in DOMAIN spends : spends[a] \in Anchors
    /\ reorgs \in Nat /\ faults \in Nat /\ torn \in Nat

\* The stored anchor never runs ahead of the blocks: wherever a restart finds
\* the node, every block up to the anchor's is stored (follower.rs:117-132).
AnchorIsApplied ==
    anchor # Nothing => \A i \in 1..Len(anchor) : anchor[i] <= stored

\* While L1 does not reorg, no attestation at or below the cursor is left out:
\* several may sit in one L1 block, and a tick may fail in the middle of one.
Scanned == {i \in 1..Len(path) : path[i].at <= cursor}
NothingSkipped ==
    (reorgs = 0 /\ anchor # Nothing)
    => IsPrefix(AnchorAt(Cardinality(Scanned)), anchor)

\* A wallet that asks /outspend from anchor_0 on arrives at the node's anchor,
\* unless the two writes were torn apart (follower.rs:130-131).
WalkReachesAnchor ==
    (torn = 0 /\ anchor # Nothing /\ node.at # "record")
    => \A n \in 1..Len(anchor) :
          /\ SubSeq(anchor, 1, n - 1) \in DOMAIN spends
          /\ spends[SubSeq(anchor, 1, n - 1)] = SubSeq(anchor, 1, n)

\* The stored ledger is that of the stored block, also when a write failed and
\* Shared.state was left ahead of it (follower.rs:214-229).
StoredReplays == stored # -1 => snapshot = Executed(stored)

\* A block that is rejected, or never fetched, leaves no trace: between blocks
\* memory is what a restart would load (follower.rs:164-229).
RejectedLeavesNoTrace ==
    (torn = 0 /\ node.at # "store" /\ stored # -1)
    => state = snapshot /\ head = stored

\* Every mint the node has yet to apply can still be verified.
AllVerify == Executed(Len(blocks)) \cap Mints \cap spent \subseteq snapshot

EveryL1BlockScanned ==
    \A n \in 1..MaxL1Tip : l1Tip >= n ~> cursor >= n

\* Failing calls and restarts only delay the node, while locks stay unspent
\* until it has seen them: every L1 block is scanned to its end.
CatchesUp == [](torn = 0 /\ AllVerify) => EveryL1BlockScanned

\* follower.rs:72-76, "Loop until this block yields no more advances": the loop
\* over an L1 block ends, also after a batch whose anchor was not written.
LoopEnds == []AllVerify => EveryL1BlockScanned
=============================================================================
