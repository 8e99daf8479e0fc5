------------------------------ MODULE Attestor ------------------------------
(***************************************************************************)
(* The attestation side of hodl-sequencer: the l1_tick branch of the       *)
(* producer task (monitor_pending, then check_and_attest, producer.rs),    *)
(* the kv entries it keeps (store.rs) and the wallet calls it makes        *)
(* (bitcoind.rs), with L1 blocks, reorgs and evictions, failing calls, and *)
(* crashes between any two writes.                                         *)
(*                                                                         *)
(* An attestation is numbered by its place in `txs`; anchor k is the       *)
(* change output of attestation k, and anchor 0 is anchor_0.  L2 heights   *)
(* are ranks: blocks that no attestation separates count as one.           *)
(***************************************************************************)
EXTENDS Integers, Sequences, FiniteSets

CONSTANTS
    FinalityDepth,  \* REORG_FINALITY_DEPTH
    ReorgDepth,     \* how many L1 blocks a reorg may replace
    MaxL1Tip,       \* bound on the L1 height
    MaxEvictions,   \* bound on attestations lost by bitcoind
    MaxErrors,      \* bound on calls that fail without an effect
    MaxBreaks       \* bound on crashes, failed writes and lost replies

ASSUME AttestorAssumption ==
    /\ FinalityDepth \in Nat \ {0}
    /\ ReorgDepth \in 0..(FinalityDepth - 1)
    /\ MaxL1Tip \in Nat /\ MaxEvictions \in Nat
    /\ MaxErrors \in Nat /\ MaxBreaks \in Nat

\* Bitcoin.
VARIABLES
    tip,            \* getblockcount, counted from l1_genesis_height
    txs,            \* the attestations ever broadcast, oldest first
    attested        \* the L2 heights ever attested in an L1 block

\* The SQLite file; an update of each is a write of its own.
VARIABLES
    head,           \* newest L2 block
    l1Cursor,       \* kv l1_cursor
    anchor,         \* kv anchor
    lastAttested,   \* kv last_attested_l1_height, or Unset
    pending         \* kv pending_attestations

\* Locals of the producer task.
VARIABLE prod

\* Counters for the bounds.
VARIABLES evictions, errors, breaks

l1Vars == <<tip, txs, attested>>
dbVars == <<head, l1Cursor, anchor, lastAttested, pending>>
counters == <<evictions, errors, breaks>>
vars == <<l1Vars, dbVars, prod, counters>>

Unset == -1

\* txid, spent_anchor; new_anchor is the anchor numbered txid.
Pending(t, spent) == [tx |-> t, spent |-> spent]

IdleProducer == [at |-> "idle", tip |-> 0, todo |-> <<>>, surviving |-> <<>>,
                 revert |-> Unset, tx |-> 0, spent |-> 0]

Init ==
    /\ tip = 0 /\ txs = <<>> /\ attested = {}
    /\ head = 0 /\ l1Cursor = 0 /\ anchor = 0
    /\ lastAttested = Unset /\ pending = <<>>
    /\ prod = IdleProducer
    /\ evictions = 0 /\ errors = 0 /\ breaks = 0

-----------------------------------------------------------------------------
(* Bitcoin.  The attestations that are not gone form one chain, each       *)
(* spending the one before it, so a transaction's descendants are the ones *)
(* after it.                                                               *)

Gone(t)  == txs[t].at = "gone"
Mined(t) == txs[t].at = "mined"
Confirmations(t) == IF Mined(t) THEN tip - txs[t].height + 1 ELSE 0
Exists(a) == a # 0 => ~Gone(a)
Unspent(a) == \A t \in DOMAIN txs : txs[t].spends = a => Gone(t)
Usable(a) == Exists(a) /\ Unspent(a)

Orphaned(depth) == {t \in DOMAIN txs : Mined(t) /\ txs[t].height > tip - depth}
Minable(depth)  == {t \in DOMAIN txs : txs[t].at = "mempool"} \cup Orphaned(depth)

Moved(t, place, height) == [txs[t] EXCEPT !.at = place, !.height = height]

\* The next block: it extends the tip (depth = 0) or replaces `depth` blocks,
\* whose attestations return to the mempool; it mines some of the mempool, no
\* transaction without its parent.
NewL1Block(depth) ==
    /\ tip < MaxL1Tip
    /\ tip' = tip + 1
    /\ \E block \in SUBSET Minable(depth) :
          /\ \A t \in block : \A u \in Minable(depth) : u < t => u \in block
          /\ txs' = [t \in DOMAIN txs |->
                IF t \in block
                THEN Moved(t, "mined", tip + 1)
                ELSE IF t \in Orphaned(depth) THEN Moved(t, "mempool", 0)
                ELSE txs[t]]
    /\ attested' = attested \cup
          {txs'[t].l2 : t \in {u \in DOMAIN txs : txs'[u].at = "mined"}}
    /\ UNCHANGED <<dbVars, prod, counters>>

\* bitcoind drops an unconfirmed attestation, and what spends it.
Evict(t) ==
    /\ txs[t].at = "mempool"
    /\ evictions < MaxEvictions
    /\ evictions' = evictions + 1
    /\ txs' = [u \in DOMAIN txs |->
                 IF u >= t THEN [txs[u] EXCEPT !.at = "gone"] ELSE txs[u]]
    /\ UNCHANGED <<tip, attested, dbVars, prod, errors, breaks>>

-----------------------------------------------------------------------------
(* Block production, seen from here: one more L2 block, and l1_cursor.     *)

NextHead == IF head = 0 \/ (\E t \in DOMAIN txs : txs[t].l2 = head)
            THEN head + 1 ELSE head

Produce ==
    /\ head' = NextHead
    /\ l1Cursor' = tip
    /\ UNCHANGED <<anchor, lastAttested, pending>>

BlockTick ==
    /\ prod.at = "idle"
    /\ Produce
    /\ UNCHANGED <<l1Vars, prod, counters>>

-----------------------------------------------------------------------------
(* monitor_pending.                                                        *)

Goto(place) == prod' = [prod EXCEPT !.at = place]

PollTick ==
    /\ prod.at = "idle"
    /\ prod' = [IdleProducer EXCEPT
                  !.at = IF pending = <<>> THEN "check" ELSE "monitor",
                  !.todo = pending]
    /\ UNCHANGED <<l1Vars, dbVars, counters>>

\* Mutants: final one confirmation early; the lost attestation's own change
\* is taken for the anchor to return to.
IsFinal_Early(t) == Confirmations(t) >= FinalityDepth - 1
MonitorEntry_NewAnchor ==
    /\ prod.at = "monitor"
    /\ prod.todo # <<>>
    /\ LET p == Head(prod.todo)
       IN  prod' = [prod EXCEPT
               !.todo = Tail(@),
               !.surviving = IF Gone(p.tx) \/ Confirmations(p.tx) >= FinalityDepth
                             THEN @ ELSE Append(@, p),
               !.revert = IF Gone(p.tx) THEN p.tx ELSE @]
    /\ UNCHANGED <<l1Vars, dbVars, counters>>

IsFinal(t) == Confirmations(t) >= FinalityDepth

\* One round of `for p in pending`.  Mempool, Reorged and few confirmations
\* all keep the entry; Missing drops it and wants its anchor back.
MonitorEntry ==
    /\ prod.at = "monitor"
    /\ prod.todo # <<>>
    /\ LET p == Head(prod.todo)
       IN  prod' = [prod EXCEPT
               !.todo = Tail(@),
               !.surviving = IF Gone(p.tx) \/ IsFinal(p.tx)
                             THEN @ ELSE Append(@, p),
               !.revert = IF Gone(p.tx) THEN p.spent ELSE @]
    /\ UNCHANGED <<l1Vars, dbVars, counters>>

\* The three writes at its end.
SavePending ==
    /\ prod.at = "monitor"
    /\ prod.todo = <<>>
    /\ pending' = prod.surviving
    /\ Goto(IF prod.revert = Unset THEN "check" ELSE "revert")
    /\ UNCHANGED <<l1Vars, head, l1Cursor, anchor, lastAttested, counters>>

RevertAnchor ==
    /\ prod.at = "revert"
    /\ anchor' = prod.revert
    /\ Goto("rewind")
    /\ UNCHANGED <<l1Vars, head, l1Cursor, lastAttested, pending, counters>>

\* Mutant: last_attested is left where it is.
Rewind_Forgotten ==
    /\ prod.at = "rewind"
    /\ Goto("check")
    /\ UNCHANGED <<l1Vars, dbVars, counters>>

Rewind ==
    /\ prod.at = "rewind"
    /\ lastAttested' = IF lastAttested > 0 THEN lastAttested - 1
                       ELSE lastAttested
    /\ Goto("check")
    /\ UNCHANGED <<l1Vars, head, l1Cursor, anchor, pending, counters>>

-----------------------------------------------------------------------------
(* check_and_attest.                                                       *)

\* Before the first post, l1_cursor stands in.
LastOrCursor == IF lastAttested = Unset THEN l1Cursor ELSE lastAttested

CheckTip ==
    /\ prod.at = "check"
    /\ prod' = IF tip <= LastOrCursor THEN IdleProducer
               ELSE [IdleProducer EXCEPT !.at = "produce", !.tip = tip]
    /\ UNCHANGED <<l1Vars, dbVars, counters>>

\* Mutant: the block that was to be produced first is left out.
ProduceFirst_Skipped ==
    /\ prod.at = "produce"
    /\ Goto("post")
    /\ UNCHANGED <<l1Vars, dbVars, counters>>

ProduceFirst ==
    /\ prod.at = "produce"
    /\ Produce
    /\ Goto("post")
    /\ UNCHANGED <<l1Vars, counters>>

\* post_attestation_chained: `send` with the stored anchor as its one input.
Broadcast ==
    /\ prod.at = "post"
    /\ Usable(anchor)
    /\ txs' = Append(txs, [spends |-> anchor, l2 |-> head, posted |-> prod.tip,
                           at |-> "mempool", height |-> 0])

Post ==
    /\ Broadcast
    /\ prod' = [prod EXCEPT !.at = "setAnchor", !.tx = Len(txs'),
                            !.spent = anchor]
    /\ UNCHANGED <<tip, attested, dbVars, counters>>

\* The anchor is spent or unknown: a warning, until the next tick.
PostRefused ==
    /\ prod.at = "post"
    /\ ~Usable(anchor)
    /\ prod' = IdleProducer
    /\ UNCHANGED <<l1Vars, dbVars, counters>>

SetAnchor ==
    /\ prod.at = "setAnchor"
    /\ anchor' = prod.tx
    /\ Goto("setLast")
    /\ UNCHANGED <<l1Vars, head, l1Cursor, lastAttested, pending, counters>>

SetLastAttested ==
    /\ prod.at = "setLast"
    /\ lastAttested' = prod.tip
    /\ Goto("push")
    /\ UNCHANGED <<l1Vars, head, l1Cursor, anchor, pending, counters>>

\* Mutant: spent_anchor and new_anchor are exchanged.
PushPending_Swapped ==
    /\ prod.at = "push"
    /\ pending' = Append(pending, Pending(prod.tx, prod.tx))
    /\ prod' = IdleProducer
    /\ UNCHANGED <<l1Vars, head, l1Cursor, anchor, lastAttested, counters>>

PushPending ==
    /\ prod.at = "push"
    /\ pending' = Append(pending, Pending(prod.tx, prod.spent))
    /\ prod' = IdleProducer
    /\ UNCHANGED <<l1Vars, head, l1Cursor, anchor, lastAttested, counters>>
-----------------------------------------------------------------------------
(* What goes wrong.                                                        *)

\* A call fails before it has an effect: the status of an entry (or the save
\* after them) ends monitor_pending and the tick goes on with check_and_attest;
\* any other ends the tick.
CallFails ==
    /\ errors < MaxErrors
    /\ prod.at \in {"monitor", "check", "produce", "post"}
    /\ errors' = errors + 1
    /\ prod' = [IdleProducer EXCEPT
                  !.at = IF prod.at = "monitor" THEN "check" ELSE "idle"]
    /\ UNCHANGED <<l1Vars, dbVars, evictions, breaks>>

\* `send` has succeeded and its reply is lost: only a warning.
ReplyLost ==
    /\ breaks < MaxBreaks
    /\ breaks' = breaks + 1
    /\ Broadcast
    /\ prod' = IdleProducer
    /\ UNCHANGED <<tip, attested, dbVars, evictions, errors>>

\* One of the writes after the first fails.
WriteFails ==
    /\ breaks < MaxBreaks
    /\ breaks' = breaks + 1
    /\ prod.at \in {"revert", "rewind", "setAnchor", "setLast", "push"}
    /\ prod' = [IdleProducer EXCEPT
                  !.at = IF prod.at \in {"revert", "rewind"} THEN "check"
                         ELSE "idle"]
    /\ UNCHANGED <<l1Vars, dbVars, evictions, errors>>

\* The process dies and is started again on what is stored.
Crash ==
    /\ breaks < MaxBreaks
    /\ breaks' = breaks + 1
    /\ prod.at # "idle"
    /\ prod' = IdleProducer
    /\ UNCHANGED <<l1Vars, dbVars, evictions, errors>>

-----------------------------------------------------------------------------
L1Step ==
    \/ \E depth \in 0..ReorgDepth : NewL1Block(depth)
    \/ \E t \in DOMAIN txs : Evict(t)

PollStep ==
    \/ PollTick \/ MonitorEntry \/ SavePending \/ RevertAnchor \/ Rewind
    \/ CheckTip \/ ProduceFirst \/ Post \/ PostRefused
    \/ SetAnchor \/ SetLastAttested \/ PushPending

Fault == CallFails \/ ReplyLost \/ WriteFails \/ Crash

Next == L1Step \/ BlockTick \/ PollStep \/ Fault

Spec == Init /\ [][Next]_vars

\* The l1_tick of tokio::select! keeps firing and its branch runs to its end.
\* Miners, and whatever fails, owe nothing.
FairSpec == Spec /\ WF_vars(PollStep)
-----------------------------------------------------------------------------
(* What must hold.                                                         *)

Places == {"idle", "monitor", "revert", "rewind", "check", "produce", "post",
           "setAnchor", "setLast", "push"}
Attestations == 1..Len(txs)
TxType == [spends : Nat, l2 : Nat, posted : Nat,
           at : {"mempool", "mined", "gone"}, height : Nat]

Entries == {p \in [tx : Attestations, spent : Nat] : p.spent < p.tx}

ProducerType ==
    [at : Places, tip : Nat, todo : Seq(Entries), surviving : Seq(Entries),
     revert : {Unset, 0} \cup Attestations, tx : {0} \cup Attestations,
     spent : Nat]

\* Every stored number means an attestation that was broadcast, and an entry's
\* spent_anchor is older than its own: following them back ends at anchor_0.
TypeOK ==
    /\ tip \in Nat /\ txs \in Seq(TxType) /\ attested \subseteq Nat
    /\ head \in Nat /\ l1Cursor \in Nat
    /\ anchor \in {0} \cup Attestations
    /\ lastAttested \in Nat \cup {Unset}
    /\ pending \in Seq(Entries)
    /\ prod \in ProducerType
    /\ evictions \in Nat /\ errors \in Nat /\ breaks \in Nat

\* What followers see of L1.
MinedTxs == {t \in Attestations : Mined(t)}
Links == [t \in MinedTxs |-> [spends |-> txs[t].spends, l2 |-> txs[t].l2]]
Settled == {t \in Attestations : Confirmations(t) >= FinalityDepth}
\* An attestation that can still be reorged away is watched: only a final (or
\* lost) one is missing from the pending list.  (breaks: a crash before the
\* last write of a post leaves it out.)
ForgottenIsFinal ==
    (breaks = 0 /\ prod.at \notin {"setAnchor", "setLast", "push"})
    => \A t \in Attestations :
          Gone(t) \/ t \in Settled \/ \E i \in 1..Len(pending) : pending[i].tx = t

Chain == INSTANCE AttestationChain
         WITH Anchor0 <- 0, links <- Links, settled <- Settled,
              attested <- attested

\* Across crashes, lost replies, reorgs and evictions, the mined attestations
\* are one linked list of ever higher L2 heights, those FinalityDepth deep stay
\* where they are, and whatever replaces one that was lost attests a block newer
\* than all that were attested (producer.rs:229-254, bitcoind.rs:154-181).
ImplementsChain == Chain!Spec

AtMostOneMissing ==
    Cardinality({i \in 1..Len(pending) : Gone(pending[i].tx)}) <= 1

\* producer.rs:358-363, the recovery of monitor_pending: when bitcoind loses an
\* attestation, the stored anchor becomes one that can be spent again.
AnchorRecovers ==
    [](breaks = 0 /\ AtMostOneMissing) => (~Usable(anchor) ~> Usable(anchor))

\* "post one attestation per new L1 block" (store.rs:241-244), from the first
\* post on: an attestation made at that height or later is on L1 or on its way,
\* also when the one that was is evicted.
EveryAdvanceAttested ==
    [](breaks = 0 /\ AtMostOneMissing) =>
    \A h \in 1..MaxL1Tip :
        (tip = h /\ lastAttested # Unset)
        ~> \E t \in Attestations : ~Gone(t) /\ txs[t].posted >= h

\* The same recovery as the comment has it, however many are lost at once.
AnchorAlwaysRecovers ==
    [](breaks = 0) => (~Usable(anchor) ~> Usable(anchor))
=============================================================================
