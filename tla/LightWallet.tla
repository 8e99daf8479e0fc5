----------------------------- MODULE LightWallet -----------------------------
(***************************************************************************)
(* The light wallet of hodl-wallet (verify.rs, esplora.rs, the refresh of  *)
(* ops::light_balance): it follows the attestations that L1 holds, and     *)
(* checks every L2 block against a head of its own that keeps one account, *)
(* one Merkle path and the consumed nullifiers.  Around it are the         *)
(* sequencer, which may build and attest invalid blocks, a node that       *)
(* serves blocks, witnesses and balances (api.rs of hodl-node) while it    *)
(* follows, and may lie, and an L1 that grows between any two calls.       *)
(***************************************************************************)
EXTENDS Smt, MintProof

CONSTANTS
    Own,            \* the wallet's address
    Targets,        \* addresses whose balance the user asks for
    Outpoints,      \* lock outputs: Nullifiers
    LockOf,         \* of each: the key, duration, value and destination
    Early,          \* those mined when the system starts, in L1 block 1
    Transfers,      \* signed and unsigned transfers
    BadMints,       \* outpoints whose mint a lying sequencer may falsify
    MaxL1Tip,       \* bound on the L1 height
    MaxHeight,      \* bound on the L2 height
    MaxTxs,         \* bound on the transactions of a block
    MaxAtts,        \* bound on attestations
    MaxLies,        \* bound on lies of the sequencer and of the node
    MaxTorn,        \* bound on L1 blocks that arrive inside get_output
    MaxMoves,       \* bound on locks that an L1 reorg moves to another height
    MaxFaults       \* bound on calls that fail

ASSUME LightAssumption ==
    /\ Own \in Addrs /\ Targets \subseteq Addrs
    /\ Outpoints = Nullifiers /\ Early \subseteq Outpoints
    /\ {MaxL1Tip, MaxHeight, MaxTxs, MaxAtts, MaxLies, MaxTorn, MaxMoves,
        MaxFaults} \subseteq Nat
    /\ \A o \in Outpoints :
          /\ LockOf[o].dest \in Addrs /\ LockOf[o].lock \in Nat
          /\ MintFn(LockOf[o].value, LockOf[o].lock) \in Amount
    /\ \A t \in Transfers :
          t.type = "transfer" /\ {t.from, t.to} \subseteq Addrs /\ t.amount \in Amount

\* Bitcoin and the sequencer.
VARIABLES
    l1Tip,          \* L1 height
    confirmed,      \* of each lock output: its L1 height, 0 while it has none
    spent,          \* the lock outputs that their owners have reclaimed
    pending,        \* the mint of each outpoint in the mempool
    chain,          \* the L2 blocks: [txs, ledger], the ledger being what the
                    \* header's state_root commits to
    atts            \* the L2 heights attested in L1, in order; an anchor is the
                    \* number of attestations before it

\* The node: its ledger's height, its head's, and the attestations it recorded
\* in anchor_spends.
VARIABLES node

\* The wallet: its persisted head, the walk it is on, and what it handed to the
\* history.
VARIABLES
    head, walk,
    history,        \* own transactions projected, as <<L2 height, index>>
    booted,         \* the L2 height it was bootstrapped at
    shown,          \* the last balance shown
    rejected        \* whether it ever refused a block

\* Counters for the bounds.
VARIABLES lies, torn, moves, faults

worldVars  == <<l1Tip, confirmed, spent, pending, chain, atts>>
walletVars == <<head, walk, history, booted, shown, rejected>>
counters   == <<lies, torn, moves, faults>>
vars == <<worldVars, node, walletVars, counters>>

-----------------------------------------------------------------------------
(* Blocks.                                                                 *)

\* Transactions in a row; one that does not apply changes nothing.
Ledgers(l, txs) ==
    LET after[i \in 0..Len(txs)] ==
            IF i = 0 THEN l
            ELSE IF Applies(after[i - 1], txs[i]) THEN Apply(after[i - 1], txs[i])
            ELSE after[i - 1]
    IN  after
AllApply(l, txs) == \A i \in 1..Len(txs) : Applies(Ledgers(l, txs)[i - 1], txs[i])
Replay(l, txs) == Ledgers(l, txs)[Len(txs)]

LedgerAt(h) == IF h = 0 THEN EmptyLedger ELSE chain[h].ledger
RootOf(l) == StateRoot(ComputeRoot(l), l.consumed)

\* A header, and its hash: the contents of the headers up to it.
MkHeader(height, prev, txs, l) ==
    [height |-> height, prev |-> prev, txsRoot |-> txs, root |-> RootOf(l)]
HashOf(header) ==
    Append(header.prev, <<header.height, header.txsRoot, header.root>>)

HeaderAt ==
    LET header[h \in 0..Len(chain)] ==
            IF h = 0 THEN MkHeader(0, <<>>, <<>>, EmptyLedger)
            ELSE MkHeader(h, HashOf(header[h - 1]), chain[h].txs, LedgerAt(h))
    IN  header
BlockAt(h) == [header |-> HeaderAt[h], txs |-> chain[h].txs]

\* What an attestation of height h says (op_return.rs).
Attestation(h) ==
    [height |-> h, hash |-> HashOf(HeaderAt[h]), root |-> HeaderAt[h].root]

-----------------------------------------------------------------------------
(* L1 and its views.                                                       *)

OutputOf(o, height, confs) ==
    [value |-> LockOf[o].value, script |-> MintScript(LockOf[o].pk, LockOf[o].lock),
     height |-> height, confirmations |-> confs]
Locked == {o \in Outpoints : confirmed[o] # 0}

\* prefetch_l1_for_block, against a tip read earlier: the subtraction saturates.
\* The wallet asks for the transaction, which stays when its output is spent.
ViewAt(tip) ==
    [outputs |-> [o \in Locked |->
                    OutputOf(o, confirmed[o],
                             IF confirmed[o] > tip THEN 1 ELSE tip - confirmed[o] + 1)],
     tip |-> tip]

\* get_output of the sequencer and of the node: gettxout, which knows unspent
\* outputs only, and then getblockcount.  When a block arrives between the two,
\* the output looks one block younger than it is.
SequencerView(tears) ==
    [outputs |-> [o \in Locked \ spent |->
                    OutputOf(o, IF o \in tears THEN confirmed[o] + 1 ELSE confirmed[o],
                             l1Tip - confirmed[o] + 1)],
     tip |-> l1Tip + Cardinality(tears)]
NodeView == SequencerView({})

\* At most one of the outputs read is torn.
Tears == {{}} \cup {{o} : o \in Outpoints}
Reads(tears) ==
    /\ torn + Cardinality(tears) <= MaxTorn
    /\ l1Tip + Cardinality(tears) <= MaxL1Tip
    /\ l1Tip' = l1Tip + Cardinality(tears)
    /\ torn' = torn + Cardinality(tears)

NewL1Block ==
    /\ l1Tip < MaxL1Tip
    /\ l1Tip' = l1Tip + 1
    /\ UNCHANGED <<confirmed, spent, pending, chain, atts, node, walletVars, counters>>

\* The user's lock output is mined in the next block.
ConfirmLock(o) ==
    /\ confirmed[o] = 0
    /\ l1Tip < MaxL1Tip
    /\ l1Tip' = l1Tip + 1
    /\ confirmed' = [confirmed EXCEPT ![o] = l1Tip + 1]
    /\ UNCHANGED <<spent, pending, chain, atts, node, walletVars, counters>>

\* The owner spends it once its lock has run out, in the next block.
ReclaimLock(o) ==
    /\ confirmed[o] # 0 /\ o \notin spent
    /\ l1Tip < MaxL1Tip
    /\ l1Tip + 1 >= confirmed[o] + LockOf[o].lock
    /\ l1Tip' = l1Tip + 1
    /\ spent' = spent \cup {o}
    /\ UNCHANGED <<confirmed, pending, chain, atts, node, walletVars, counters>>

\* A reorg of the tip mines the lock again, one block later.
MoveLock(o) ==
    /\ moves < MaxMoves
    /\ moves' = moves + 1
    /\ confirmed[o] = l1Tip /\ l1Tip \in 1..(MaxL1Tip - 1)
    /\ l1Tip' = l1Tip + 1
    /\ confirmed' = [confirmed EXCEPT ![o] = l1Tip + 1]
    /\ UNCHANGED <<spent, pending, chain, atts, node, walletVars, lies, torn, faults>>

-----------------------------------------------------------------------------
(* The sequencer.                                                          *)

Mints(txs) == {txs[i] : i \in {j \in DOMAIN txs : txs[j].type = "mint"}}

\* The proof the owner of a lock makes at L1 height `claimed`.
ProofOf(o, claimed) ==
    [outpoint |-> o, pk |-> LockOf[o].pk, lock |-> LockOf[o].lock,
     claimed |-> claimed,
     sig |-> Signature(LockOf[o].pk, Sighash(o, claimed, LockOf[o].dest))]

\* POST /mint: the credit the proof earns is queued with it.
SubmitMint(o, claimed, tears) ==
    /\ \A e \in pending : e.nullifier # o
    /\ o \notin LedgerAt(Len(chain)).consumed
    /\ Reads(tears) /\ tears \subseteq {o}
    /\ LET p == ProofOf(o, claimed)
           view == SequencerView(tears)
       IN  /\ Authorises(p, view, LockOf[o].dest)
           /\ pending' = pending \cup {MintEntry(Credit(p, view, LockOf[o].dest), p)}
    /\ UNCHANGED <<confirmed, spent, chain, atts, node, walletVars, lies, moves,
                   faults>>

TxSeqs(S) == UNION {[1..n -> S] : n \in 1..MaxTxs}

\* produce_block verifies the queued mints again and drops the ones that fail.
\* Mutant: a queued mint is not verified again.
Reverified_Trusted(view) == pending
Reverified(view) == {e \in pending : EntryVerifies(e, view)}

ProduceBlock(tears) ==
    /\ Len(chain) < MaxHeight
    /\ Reads(tears) /\ tears \subseteq {e.nullifier : e \in pending}
    /\ LET good == Reverified(SequencerView(tears))
           before == LedgerAt(Len(chain))
       IN  \E txs \in TxSeqs(good \cup Transfers) :
              /\ AllApply(before, txs)
              /\ chain' = Append(chain, [txs |-> txs, ledger |-> Replay(before, txs)])
              /\ pending' = good \ Mints(txs)
    /\ UNCHANGED <<confirmed, spent, atts, node, walletVars, lies, moves, faults>>

Lie == lies < MaxLies /\ lies' = lies + 1

\* A mint whose event says more than its proof, one for somebody else, one that
\* is not signed at all.
FalseMints ==
    UNION {LET p == ProofOf(o, confirmed[o])
               true == Credit(p, ViewAt(l1Tip), LockOf[o].dest)
           IN  {MintEntry([true EXCEPT !.amount = @ + 1], p),
                MintEntry([true EXCEPT !.dest = FeeAddr], p),
                MintEntry(true, [p EXCEPT !.claimed = l1Tip + 1,
                    !.sig = Signature(LockOf[o].pk,
                                Sighash(o, l1Tip + 1, LockOf[o].dest))])}
           : o \in BadMints \cap Locked}

\* Transactions executed whether they apply or not; a fee that is not credited,
\* or more than the fee; a nullifier that is not recorded.
Forced(l, txs) ==
    LET after[i \in 0..Len(txs)] == IF i = 0 THEN l ELSE Apply(after[i - 1], txs[i])
    IN  after[Len(txs)]
FalseLedgers(l, txs) ==
    {forged \in {Forced(l, txs), Replay(l, txs),
                 [Replay(l, txs) EXCEPT !.balance[FeeAddr] = l.balance[FeeAddr]],
                 [Replay(l, txs) EXCEPT !.balance[FeeAddr] = @ + 1],
                 [Replay(l, txs) EXCEPT !.consumed = l.consumed]} :
        \A a \in Addrs : forged.balance[a] \in Amount}

BlockValid(before, txs, after, view) ==
    /\ \A e \in Mints(txs) : EntryVerifies(e, view)
    /\ AllApply(before, txs)
    /\ Root(Replay(before, txs)) = Root(after)

\* Whether a block of the chain is valid to whoever reads L1 like that.
ValidIn(h, view) == BlockValid(LedgerAt(h - 1), chain[h].txs, LedgerAt(h), view)

\* A sequencer that lies puts anything into its chain.
ProduceAnyBlock ==
    /\ Lie
    /\ Len(chain) < MaxHeight
    /\ LET before == LedgerAt(Len(chain))
           txSet == pending \cup Transfers \cup FalseMints
       IN  \E txs \in {<<>>} \cup {<<t>> : t \in txSet} \cup {<<t, t>> : t \in txSet} :
           \E forged \in FalseLedgers(before, txs) :
              /\ chain' = Append(chain, [txs |-> txs, ledger |-> forged])
    /\ UNCHANGED <<l1Tip, confirmed, spent, pending, atts, node, walletVars, torn,
                   moves, faults>>

LastAttested == IF atts = <<>> THEN 0 ELSE atts[Len(atts)]

\* The sequencer attests its head; or, lying, something older again.
Attest(h) ==
    /\ Len(atts) < MaxAtts
    /\ \/ h > LastAttested /\ UNCHANGED lies
       \/ h <= LastAttested /\ Lie
    /\ atts' = Append(atts, h)
    /\ UNCHANGED <<l1Tip, confirmed, spent, pending, chain, node, walletVars, torn,
                   moves, faults>>

-----------------------------------------------------------------------------
(* The node follows: Shared.state, then the store and Shared.head, then    *)
(* record_anchor_spend (Follower has the details).                         *)

NextAttested == atts[node.spends + 1]
Following == node.spends < Len(atts)

\* validate_block and the re-execution, against the L1 of now: a block with a mint
\* whose lock has been reclaimed is refused for ever.  A node that colludes with
\* the sequencer follows an invalid block, too.
NodeRefuses(h) == ~ValidIn(h, NodeView)

NodeAppliesBlock ==
    /\ Following
    /\ node.ledger = node.head /\ node.head < NextAttested
    /\ NodeRefuses(node.head + 1) => lies > 0
    /\ node' = [node EXCEPT !.ledger = @ + 1]
    /\ UNCHANGED <<worldVars, walletVars, counters>>

NodeStoresBlock ==
    /\ node.head < node.ledger
    /\ node' = [node EXCEPT !.head = node.ledger]
    /\ UNCHANGED <<worldVars, walletVars, counters>>

NodeRecordsSpend ==
    /\ Following
    /\ node.ledger = node.head /\ node.head >= NextAttested
    /\ node' = [node EXCEPT !.spends = @ + 1]
    /\ UNCHANGED <<worldVars, walletVars, counters>>

-----------------------------------------------------------------------------
(* What the wallet is told.                                                *)

\* GET /balance: the ledger and the head's height, read under one lock after
\* the other.
BalanceAnswer(l, height, a) ==
    [root |-> RootOf(l), components |-> RootOf(l), height |-> height, address |-> a,
     proof |-> ComputeProof(l, a), balance |-> l.balance[a], nonce |-> l.nonce[a]]
TrueBalance(a) == BalanceAnswer(LedgerAt(node.ledger), node.head, a)

\* A false leaf; a false number; a false ledger under the true root; another
\* account, with its true proof.
Richer(l, a) == [l EXCEPT !.balance[a] = @ + 1]
FalseBalances(a) ==
    LET b == TrueBalance(a)
        rich == ComputeProof(Richer(LedgerAt(node.ledger), a), a)
    IN  {[b EXCEPT !.proof.leaf = rich.leaf, !.balance = @ + 1],
         [b EXCEPT !.balance = @ + 1],
         [BalanceAnswer(Richer(LedgerAt(node.ledger), a), node.head, a)
             EXCEPT !.root = b.root]}
        \cup {[TrueBalance(other) EXCEPT !.address = a] : other \in Addrs \ {a}}

TrueNullifiers == LedgerAt(node.ledger).consumed
FalseNullifiers == {TrueNullifiers \ {o} : o \in TrueNullifiers}

TrueWitness(h) == BuildWitness(LedgerAt(h - 1), chain[h].txs, h)

\* Another block that extends the same parent; one whose header is genuine.
FalseBlocks(h) ==
    LET before == LedgerAt(h - 1)
        txSets == {<<>>} \cup {<<t>> : t \in {u \in Transfers : Applies(before, u)}}
        block  == BlockAt(h)
    IN  ({[header |-> MkHeader(h, block.header.prev, txs, Replay(before, txs)),
           txs |-> txs] : txs \in txSets}
         \cup {[block EXCEPT !.txs = txs] : txs \in txSets}) \ {block}

\* Proofs left out, repeated in place of another, with a richer leaf, from an
\* older ledger.
FalseWitnesses(h, w) ==
    LET n == Len(w.proofs)
    IN  ({[w EXCEPT !.proofs = SubSeq(@, 1, n - 1)]}
        \cup {[w EXCEPT !.proofs = Append(@, w.proofs[i])] : i \in 1..n}
        \cup {[w EXCEPT !.proofs[i] = w.proofs[j]] : i, j \in 1..n}
        \cup {[w EXCEPT !.proofs[i].leaf =
                  AccountLeaf(w.proofs[i].leaf.balance + 1, w.proofs[i].leaf.nonce)]
              : i \in 1..n}
        \cup {[w EXCEPT !.proofs[i] = ComputeProof(EmptyLedger, w.proofs[i].address)]
              : i \in 1..n}) \ {w}

-----------------------------------------------------------------------------
(* light_balance.                                                          *)

\* A wallet with no head yet.
NoHead == [none |-> TRUE]
IdleWalk == [at |-> "idle", bal |-> NoHead, work |-> NoHead, anchor |-> 0, steps |-> <<>>,
             tip |-> 0, events |-> <<>>, ask |-> Own, boot |-> 0]

\* Any `bail!`, and any call that fails: nothing is saved.
GivesUp == walk' = IdleWalk

Goto(place) == walk' = [walk EXCEPT !.at = place]

\* Bootstrap walks from anchor_0, a warm start from the head's anchor.
Refresh(ask) ==
    /\ walk.at = "idle"
    /\ walk' = [IdleWalk EXCEPT !.at = "walk", !.ask = ask, !.work = head,
                    !.anchor = IF head = NoHead THEN 0 ELSE head.anchor]
    /\ UNCHANGED <<worldVars, node, head, history, booted, shown, rejected, counters>>

\* walk_attestation_chain: outspend of the anchor, and the tx that spends it.
WalkStep ==
    /\ walk.at = "walk"
    /\ walk.anchor < node.spends
    /\ walk' = [walk EXCEPT !.anchor = @ + 1,
                    !.steps = Append(@, [anchor |-> walk.anchor + 1,
                                         att |-> Attestation(atts[walk.anchor + 1])])]
    /\ UNCHANGED <<worldVars, node, head, history, booted, shown, rejected, counters>>

\* Mutant: a wallet without a head walks forward, too.
WalkDone_Unbooted ==
    /\ walk.at = "walk"
    /\ walk.anchor = node.spends
    /\ Goto(IF walk.steps = <<>> THEN "done" ELSE "tip")
    /\ UNCHANGED <<worldVars, node, head, history, booted, shown, rejected, counters>>

\* The anchor is unspent.
WalkDone ==
    /\ walk.at = "walk"
    /\ walk.anchor = node.spends
    /\ Goto(IF walk.work = NoHead THEN "balance"
            ELSE IF walk.steps = <<>> THEN "done" ELSE "tip")
    /\ UNCHANGED <<worldVars, node, head, history, booted, shown, rejected, counters>>

\* What bootstrap bootstraps to: the last attestation, or genesis.
BootPoint ==
    IF walk.steps = <<>> THEN Attestation(0) ELSE walk.steps[Len(walk.steps)].att

\* The proof is verified for the address that it carries itself; nothing compares
\* that with the address that was asked for.
BalanceConsistent(bal, accountsRoot) ==
    /\ ProofVerifies(bal.proof, accountsRoot)
    /\ bal.proof.leaf.balance = bal.balance /\ bal.proof.leaf.nonce = bal.nonce

BootBalance(bal) ==
    /\ bal.root = BootPoint.root /\ bal.height = BootPoint.height
    /\ bal.address = Own
    /\ bal.components = bal.root
    /\ BalanceConsistent(bal, bal.components.accounts)

GetBalance ==
    /\ walk.at = "balance"
    /\ \/ /\ walk' = IF BootBalance(TrueBalance(Own))
                     THEN [walk EXCEPT !.at = "nullifiers",
                                       !.bal = TrueBalance(Own)]
                     ELSE IdleWalk
          /\ UNCHANGED lies
       \/ \E bal \in FalseBalances(Own) :
             /\ Lie
             /\ walk' = IF BootBalance(bal)
                        THEN [walk EXCEPT !.at = "nullifiers", !.bal = bal]
                        ELSE IdleWalk
    /\ UNCHANGED <<worldVars, node, head, history, booted, shown, rejected, torn,
                   moves, faults>>

BootHead(nullifiers) ==
    [l2 |-> BootPoint.height, hash |-> BootPoint.hash,
     accounts |-> walk.bal.components.accounts, consumed |-> nullifiers,
     anchor |-> walk.anchor, leaf |-> walk.bal.proof.leaf,
     path |-> walk.bal.proof.siblings]

\* Mutant: the nullifiers are not hashed.
TakesNullifiers_Unchecked(nullifiers) ==
    walk' = [IdleWalk EXCEPT !.at = "walk", !.ask = walk.ask, !.anchor = walk.anchor,
                     !.boot = BootPoint.height, !.work = BootHead(nullifiers)]

\* The head is complete; walk_forward starts from it.
TakesNullifiers(nullifiers) ==
    walk' = IF nullifiers = walk.bal.components.nullifiers
            THEN [IdleWalk EXCEPT !.at = "walk", !.ask = walk.ask,
                      !.anchor = walk.anchor, !.boot = BootPoint.height,
                      !.work = BootHead(nullifiers)]
            ELSE IdleWalk

GetNullifiers ==
    /\ walk.at = "nullifiers"
    /\ \/ TakesNullifiers(TrueNullifiers) /\ UNCHANGED lies
       \/ Lie /\ \E nullifiers \in FalseNullifiers : TakesNullifiers(nullifiers)
    /\ UNCHANGED <<worldVars, node, head, history, booted, shown, rejected, torn,
                   moves, faults>>

GetTip ==
    /\ walk.at = "tip"
    /\ walk' = [walk EXCEPT !.at = "blocks", !.tip = l1Tip]
    /\ UNCHANGED <<worldVars, node, head, history, booted, shown, rejected, counters>>

Step == walk.steps[1]

\* Mutant: the head, too, is set back to the attestation.
SkipKnown_Rewinds ==
    /\ walk.at = "blocks" /\ walk.steps # <<>>
    /\ Step.att.height <= walk.work.l2
    /\ walk' = [walk EXCEPT !.steps = Tail(@), !.work.anchor = Step.anchor,
                            !.work.l2 = Step.att.height]
    /\ UNCHANGED <<worldVars, node, head, history, booted, shown, rejected, counters>>

\* An attestation of a height already verified: only the anchor moves on.
SkipKnown ==
    /\ walk.at = "blocks" /\ walk.steps # <<>>
    /\ Step.att.height <= walk.work.l2
    /\ walk' = [walk EXCEPT !.steps = Tail(@), !.work.anchor = Step.anchor]
    /\ UNCHANGED <<worldVars, node, head, history, booted, shown, rejected, counters>>

-----------------------------------------------------------------------------
(* verify_one_l2_block, of the block and the witness that were served.     *)

ProofAddresses(w) == {w.proofs[i].address : i \in DOMAIN w.proofs}

\* Structural checks; `last` is whether the attestation is of this block.
\* Mutant: the last block is not compared with the attestation.
WellFormed_Unpinned(b, w, h, last) ==
    /\ b.header.height = h
    /\ b.txs = b.header.txsRoot
    /\ b.header.prev = walk.work.hash
    /\ w.height = h /\ w.prior = walk.work.accounts
    /\ ProofAddresses(w) = TouchedAddresses(b.txs)

WellFormed(b, w, h, last) ==
    /\ b.header.height = h
    /\ last => HashOf(b.header) = Step.att.hash /\ b.header.root = Step.att.root
    /\ b.txs = b.header.txsRoot
    /\ b.header.prev = walk.work.hash
    /\ w.height = h /\ w.prior = walk.work.accounts
    /\ Len(w.proofs) = Cardinality(ProofAddresses(w))
    /\ ProofAddresses(w) = TouchedAddresses(b.txs)

\* The ledger of the touched accounts; every other account looks absent.
ProofFor(w, a) == w.proofs[CHOOSE i \in DOMAIN w.proofs : w.proofs[i].address = a]
SparseLedger(w) ==
    LET leaf(a) == IF a \in ProofAddresses(w) THEN ProofFor(w, a).leaf ELSE EmptyLeaf
    IN  [balance  |-> [a \in Addrs |-> leaf(a).balance],
         nonce    |-> [a \in Addrs |-> leaf(a).nonce],
         consumed |-> walk.work.consumed, minted |-> 0]

UpdatesOf(w, after) ==
    [i \in DOMAIN w.proofs |->
        [proof |-> w.proofs[i], post |-> LeafOf(after, w.proofs[i].address)]]

\* The errors apply_updates and refresh_observer return, the empty set of
\* updates being neither's.
SparseUpdateSound(us) ==
    LET own == [address |-> Own, leaf |-> walk.work.leaf, siblings |-> walk.work.path]
    IN  us # <<>> => UpdatesValid(us, walk.work.accounts)
                     /\ ProofVerifies(own, walk.work.accounts)

\* The head after a block that was accepted.
NewHead(b, w, h) ==
    LET after == Replay(SparseLedger(w), b.txs)
        us    == UpdatesOf(w, after)
        own   == RefreshObserver(us, [address |-> Own, leaf |-> walk.work.leaf,
                                      siblings |-> walk.work.path])
    IN  [l2 |-> h, hash |-> HashOf(b.header),
         accounts |-> ApplyUpdates(us, walk.work.accounts),
         consumed |-> after.consumed, anchor |-> walk.work.anchor,
         leaf |-> own.leaf, path |-> own.siblings]

Accepts(b, w, h, last) ==
    /\ WellFormed(b, w, h, last)
    /\ \A e \in Mints(b.txs) : EntryVerifies(e, ViewAt(walk.tip))
    /\ AllApply(SparseLedger(w), b.txs)
    /\ SparseUpdateSound(UpdatesOf(w, Replay(SparseLedger(w), b.txs)))
    /\ LET new == NewHead(b, w, h)
       IN  /\ StateRoot(new.accounts, new.consumed) = b.header.root
           /\ ProofVerifies([address |-> Own, leaf |-> new.leaf, siblings |-> new.path],
                            new.accounts)

\* Own transactions of a block, by place.
OwnEvents(txs, h) ==
    LET own[i \in 0..Len(txs)] ==
            IF i = 0 THEN <<>>
            ELSE IF Own \in Party(txs[i]) THEN Append(own[i - 1], <<h, i>>)
            ELSE own[i - 1]
    IN  own[Len(txs)]

Verifies(b, w) ==
    LET h    == walk.work.l2 + 1
        last == h = Step.att.height
        new  == NewHead(b, w, h)
    IN  IF Accepts(b, w, h, last)
        THEN /\ walk' = [walk EXCEPT
                    !.work = IF last THEN [new EXCEPT !.anchor = Step.anchor] ELSE new,
                    !.steps = IF last THEN Tail(@) ELSE @,
                    !.events = @ \o OwnEvents(b.txs, h)]
             /\ UNCHANGED rejected
        ELSE GivesUp /\ rejected' = TRUE

\* Serving an invalid block with a false witness is one and the same lie.
Colludes(h) ==
    \/ ~ValidIn(h, ViewAt(l1Tip)) /\ lies > 0 /\ UNCHANGED lies
    \/ Lie

VerifyBlock ==
    /\ walk.at = "blocks" /\ walk.steps # <<>>
    /\ Step.att.height > walk.work.l2
    /\ LET h == walk.work.l2 + 1
       IN  \/ Verifies(BlockAt(h), TrueWitness(h)) /\ UNCHANGED lies
           \/ /\ Colludes(h)
              /\ \E w \in FalseWitnesses(h, TrueWitness(h)) : Verifies(BlockAt(h), w)
           \/ /\ Lie
              /\ \E b \in FalseBlocks(h) :
                    Verifies(b, BuildWitness(LedgerAt(h - 1), b.txs, h))
    /\ UNCHANGED <<worldVars, node, head, history, booted, shown, torn, moves, faults>>

WalkForwardDone ==
    /\ walk.at = "blocks" /\ walk.steps = <<>>
    /\ Goto("done")
    /\ UNCHANGED <<worldVars, node, head, history, booted, shown, rejected, counters>>

Save ==
    /\ head' = walk.work
    /\ history' = history \o walk.events
    /\ booted' = IF head = NoHead THEN walk.boot ELSE booted
    /\ walk' = IdleWalk

\* The balance shown is that of the leaf, or one the node proves; head and
\* history are saved together, after it.
ShowOwn ==
    /\ walk.at = "done" /\ walk.ask = Own
    /\ shown' = [addr |-> Own, balance |-> walk.work.leaf.balance,
                 nonce |-> walk.work.leaf.nonce, l2 |-> walk.work.l2]
    /\ Save
    /\ UNCHANGED <<worldVars, node, rejected, counters>>

\* Mutants: the proof is verified against the root that came with it; the
\* history is saved although the head is not.
ShowsOther_OwnComponents(bal) ==
    IF BalanceConsistent(bal, bal.components.accounts)
    THEN /\ shown' = [addr |-> walk.ask, balance |-> bal.balance, nonce |-> bal.nonce,
                      l2 |-> walk.work.l2]
         /\ Save
    ELSE GivesUp /\ UNCHANGED <<head, history, booted, shown>>
ShowsOther_SavesHistory(bal) ==
    IF /\ bal.root = StateRoot(walk.work.accounts, walk.work.consumed)
       /\ BalanceConsistent(bal, walk.work.accounts)
    THEN /\ shown' = [addr |-> walk.ask, balance |-> bal.balance, nonce |-> bal.nonce,
                      l2 |-> walk.work.l2]
         /\ Save
    ELSE GivesUp /\ history' = history \o walk.events /\ UNCHANGED <<head, booted, shown>>

ShowsOther(bal) ==
    IF /\ bal.root = StateRoot(walk.work.accounts, walk.work.consumed)
       /\ BalanceConsistent(bal, walk.work.accounts)
    THEN /\ shown' = [addr |-> walk.ask, balance |-> bal.balance, nonce |-> bal.nonce,
                      l2 |-> walk.work.l2]
         /\ Save
    ELSE GivesUp /\ UNCHANGED <<head, history, booted, shown>>

ShowOther ==
    /\ walk.at = "done" /\ walk.ask # Own
    /\ \/ ShowsOther(TrueBalance(walk.ask)) /\ UNCHANGED lies
       \/ Lie /\ \E bal \in FalseBalances(walk.ask) : ShowsOther(bal)
    /\ UNCHANGED <<worldVars, node, rejected, torn, moves, faults>>

\* A call that fails, or the app that is closed.
Interrupted ==
    /\ walk.at # "idle"
    /\ faults < MaxFaults
    /\ faults' = faults + 1
    /\ GivesUp
    /\ UNCHANGED <<worldVars, node, head, history, booted, shown, rejected, lies, torn,
                   moves>>

-----------------------------------------------------------------------------
Init ==
    /\ l1Tip = 1 /\ pending = {}
    /\ confirmed = [o \in Outpoints |-> IF o \in Early THEN 1 ELSE 0] /\ spent = {}
    /\ chain = <<>> /\ atts = <<>>
    /\ node = [ledger |-> 0, head |-> 0, spends |-> 0]
    /\ head = NoHead /\ walk = IdleWalk /\ history = <<>> /\ booted = 0
    /\ shown = [addr |-> Own, balance |-> 0, nonce |-> 0, l2 |-> 0]
    /\ rejected = FALSE
    /\ lies = 0 /\ torn = 0 /\ moves = 0 /\ faults = 0

World ==
    \/ NewL1Block
    \/ \E o \in Outpoints : ConfirmLock(o)
    \/ \E o \in Outpoints : ReclaimLock(o)
    \/ \E o \in Outpoints : MoveLock(o)
    \/ \E o \in Outpoints, claimed \in {l1Tip}, tears \in Tears :
          SubmitMint(o, claimed, tears)
    \/ \E tears \in Tears : ProduceBlock(tears)
    \/ ProduceAnyBlock
    \/ \E h \in 1..Len(chain) : Attest(h)

NodeStep == NodeAppliesBlock \/ NodeStoresBlock \/ NodeRecordsSpend

WalletStep ==
    \/ \E ask \in Targets : Refresh(ask)
    \/ WalkStep \/ WalkDone \/ GetBalance \/ GetNullifiers \/ GetTip
    \/ SkipKnown \/ VerifyBlock \/ WalkForwardDone \/ ShowOwn \/ ShowOther

Next == World \/ NodeStep \/ WalletStep \/ Interrupted

Spec == Init /\ [][Next]_vars

\* Whether a step of the node is enabled; one of the wallet always is, since an
\* idle wallet can refresh and any other has a next call.
NodeEnabled ==
    \/ node.head < node.ledger
    \/ /\ Following
       /\ node.head >= NextAttested \/ ~NodeRefuses(node.head + 1) \/ lies > 0

\* The node polls L1, the app refreshes every few seconds: weak fairness of
\* NodeStep and of WalletStep, written out.  Bitcoin, the sequencer, the user and
\* the faults owe nothing.
FairSpec ==
    /\ Spec
    /\ []<>~NodeEnabled \/ []<><<TRUE>>_node
    /\ []<><<TRUE>>_walk
-----------------------------------------------------------------------------
(* What must hold.                                                         *)

Places == {"idle", "walk", "balance", "nullifiers", "tip", "blocks", "done"}

\* Types; and a walk that is past bootstrap has a head to extend.
TypeOK ==
    /\ l1Tip \in Nat /\ confirmed \in [Outpoints -> 0..l1Tip]
    /\ spent \subseteq Locked
    /\ \A e \in pending : e.nullifier \in Outpoints
    /\ \A h \in 1..Len(chain) : chain[h].ledger \in LedgerType
    /\ atts \in Seq(1..Len(chain))
    /\ node.spends \in 0..Len(atts)
    /\ node.head \in 0..Len(chain) /\ node.ledger \in {node.head, node.head + 1}
    /\ walk.at \in Places /\ walk.ask \in Addrs
    /\ walk.at \in {"tip", "blocks", "done"} => walk.work # NoHead
    /\ walk.anchor \in 0..Len(atts) /\ booted \in 0..Len(chain)
    /\ head # NoHead => head.l2 \in 0..Len(chain) /\ head.anchor \in 0..Len(atts)
    /\ {lies, torn, moves, faults} \subseteq Nat

\* What the wallet carries from block to block, by sparse updates alone, are the
\* accounts root, the nullifiers, one leaf and one path of the ledger the attested
\* block commits to, whatever was served to it (verify.rs:292-535,
\* smt.rs:265-412).  The leaf is the wallet's own from the first block on that it
\* verified.  At the bootstrap it is that of whichever account the node proved:
\* verify.rs:162-174 compares the address of the answer and not that of the proof.
HeadCommits ==
    head # NoHead =>
    LET l == LedgerAt(head.l2)
        LeafAndPathOf(a) == /\ head.leaf = LeafOf(l, a)
                            /\ head.path = ComputeProof(l, a).siblings
    IN  /\ head.accounts = ComputeRoot(l) /\ head.consumed = l.consumed
        /\ \E a \in Addrs : LeafAndPathOf(a)
        /\ lies = 0 \/ head.l2 > booted => LeafAndPathOf(Own)

\* A mint credits what its lock earns, to whom its owner named, at a height of
\* the lock period that L1 had reached.
MintEarned(e) ==
    LET lock == LockOf[e.nullifier]
    IN  /\ e.amount = MintFn(lock.value, lock.lock) /\ e.dest = lock.dest
        /\ e.create <= e.proof.claimed /\ e.proof.claimed < e.create + lock.lock
        /\ e.proof.claimed <= l1Tip

\* No head lies beyond an invalid block, if it was not bootstrapped there: a
\* sequencer and a node that collude make the wallet stop, never follow
\* (verify.rs:24-27).
VerifiedIsValid ==
    head # NoHead =>
    \A h \in (booted + 1)..head.l2 :
        /\ AllApply(LedgerAt(h - 1), chain[h].txs)
        /\ Root(Replay(LedgerAt(h - 1), chain[h].txs)) = Root(LedgerAt(h))
        /\ \A e \in Mints(chain[h].txs) : MintEarned(e)

\* Intermediate blocks are not pinned by an attestation, yet the head that is
\* kept is the attested block, on the chain of its ancestors
\* (verify.rs:255-272).
HeadIsAttested ==
    head # NoHead =>
    /\ head.hash = HashOf(HeaderAt[head.l2])
    /\ head.l2 = 0 \/ \E i \in 1..head.anchor : atts[i] = head.l2

\* Every own transaction of the verified blocks is handed to the history once,
\* in order, though walks fail half way and start again (verify.rs:413-456).
OwnSince(h) ==
    LET events[i \in booted..h] ==
            IF i = booted THEN <<>> ELSE events[i - 1] \o OwnEvents(chain[i].txs, i)
    IN  events[h]
HistoryExact ==
    history = IF head = NoHead THEN <<>> ELSE OwnSince(head.l2)

\* Any balance that is shown is one of the attested ledger, at the height shown
\* with it.  It is that of the address shown while the node does not lie; and the
\* wallet's own one always, once the wallet has verified a block.  Otherwise the
\* node may prove another account: ops.rs:1093-1116 compares no address.
ShownIsTrue ==
    LET l == LedgerAt(shown.l2)
        IsOf(a) == shown.balance = l.balance[a] /\ shown.nonce = l.nonce[a]
    IN  /\ \E a \in Addrs : IsOf(a)
        /\ lies = 0 \/ (shown.addr = Own /\ shown.l2 > booted) => IsOf(shown.addr)

\* While nobody lies and no lock moves, the wallet refuses no block, and a node
\* none but one with a mint whose lock has been reclaimed since, though one L1
\* block may arrive inside get_output: verifying a mint again before it enters a
\* block takes care of that (bitcoind.rs:187).  A tear in a node's or wallet's own
\* reading only fails that attempt, which is repeated, as after Interrupted.
Honest == lies = 0 /\ moves = 0 /\ torn <= 1
HonestNeverRejected ==
    Honest =>
    /\ ~rejected
    /\ \A h \in 1..Len(chain) :
          /\ ValidIn(h, ViewAt(l1Tip))
          /\ NodeRefuses(h) => \E e \in Mints(chain[h].txs) : e.nullifier \in spent

\* The head is never lost and never moves back, neither in L2 nor in L1, also
\* when older attestations are posted again (verify.rs:255-262).
NeverBack ==
    [][head # NoHead => /\ head' # NoHead
                        /\ head'.l2 >= head.l2 /\ head'.anchor >= head.anchor]_head

\* Every lock is in place until the node has verified its mint: the premise that
\* Follower has, too (AllVerify), since what a node refuses it refuses for ever.
AllVerify ==
    \A h \in (node.ledger + 1)..LastAttested :
        \A e \in Mints(chain[h].txs) : e.nullifier \notin spent

\* Then every attestation is verified in the end: walks that fail and bootstraps
\* that meet the node between two blocks are only repeated.
CatchesUp ==
    [](Honest /\ AllVerify) =>
    \A n \in 1..MaxAtts : Len(atts) >= n ~> (head # NoHead /\ head.anchor >= n)
=============================================================================
