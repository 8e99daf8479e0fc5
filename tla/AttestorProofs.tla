--------------------------- MODULE AttestorProofs ---------------------------
(***************************************************************************)
(* Theorems about Attestor: for any finality depth, any number of L1       *)
(* blocks, reorgs shallower than that depth, evictions, failing calls and  *)
(* crashes.                                                                *)
(***************************************************************************)
EXTENDS Attestor, SequenceTheorems, TLAPS

Posting == {"setAnchor", "setLast", "push"}

\* TypeOK alone is not inductive: RevertAnchor and PushPending store locals
\* that are only filled in at those places.
LocalsSet ==
    /\ prod.at \in Posting => prod.tx \in Attestations /\ prod.spent < prod.tx
    /\ prod.at = "revert" => prod.revert # Unset

TypeInv == TypeOK /\ LocalsSet

\* The attestations that are not gone are one chain, and its mined ones come
\* first, in the order of their blocks.
LiveChain ==
    /\ \A t \in Attestations :
          /\ txs[t].spends < t
          /\ txs[t].at # "gone" /\ txs[t].spends # 0
             => txs[txs[t].spends].at # "gone"
          /\ txs[t].at = "mined" => txs[t].height <= tip
    /\ \A t, u \in Attestations :
          (/\ txs[t].at # "gone" /\ txs[u].at # "gone"
           /\ txs[t].spends = txs[u].spends) => t = u
    /\ \A t, u \in Attestations :
          (t < u /\ txs[t].at # "gone" /\ txs[u].at = "mined")
          => txs[t].at = "mined" /\ txs[t].height <= txs[u].height

\* Each attestation is of a higher block than all before it, and check_and_attest
\* posts only after it has produced a new one.
HeightsRise ==
    /\ \A t \in Attestations : 0 < txs[t].l2 /\ txs[t].l2 <= head
    /\ \A t, u \in Attestations : t < u => txs[t].l2 < txs[u].l2
    /\ prod.at = "post" => 0 < head /\ \A t \in Attestations : txs[t].l2 < head

\* An attestation that was in L1 never has a lower newcomer: one that is not
\* gone was in L1 already, or is newer than all that were.
NewcomersAreNewer ==
    /\ \A h \in attested : \E t \in Attestations : txs[t].l2 = h
    /\ \A t \in Attestations : txs[t].at = "mined" => txs[t].l2 \in attested
    /\ \A t \in Attestations :
          (txs[t].at # "gone" /\ txs[t].l2 \notin attested)
          => \A h \in attested : h < txs[t].l2

Listed(list, t) == \E i \in 1..Len(list) : list[i].tx = t

\* Without a crash or failed write: an attestation that is not settled is in
\* the pending list, or is being added to it; and while monitor_pending runs,
\* every entry it has not yet dropped for a reason is in one of its two lists.
Watched ==
    breaks = 0 =>
    /\ \A t \in Attestations :
          \/ Gone(t) \/ t \in Settled \/ Listed(pending, t)
          \/ prod.at \in Posting /\ t = prod.tx
    /\ prod.at = "monitor" =>
          \A t \in Attestations :
             Listed(pending, t) =>
             \/ Gone(t) \/ t \in Settled
             \/ Listed(prod.todo, t) \/ Listed(prod.surviving, t)

ChainInv == TypeInv /\ LiveChain /\ HeightsRise /\ NewcomersAreNewer

-----------------------------------------------------------------------------
(* What the three L1 actions do to `txs`.                                  *)

\* A sequence is a function on 1..n, both ways.
LEMMA SeqFun ==
    ASSUME NEW S, NEW n \in Nat, NEW f \in [1..n -> S]
    PROVE  f \in Seq(S) /\ Len(f) = n
<1>1. f \in Seq(S)
  BY SeqDef
<1> QED
  BY <1>1, LenProperties

LEMMA TxFacts ==
    ASSUME TypeOK
    PROVE  /\ Len(txs) \in Nat /\ DOMAIN txs = Attestations
           /\ txs \in [Attestations -> TxType]
           /\ \A t \in Attestations : txs[t] \in TxType /\ t \in Nat
BY LenProperties, ElementOfSeq DEF TypeOK, Attestations

\* Moving an attestation changes neither its input nor its payload.
LEMMA MovedType ==
    ASSUME NEW t, txs[t] \in TxType,
           NEW place \in {"mempool", "mined", "gone"}, NEW h \in Nat
    PROVE  /\ Moved(t, place, h) \in TxType
           /\ Moved(t, place, h).at = place /\ Moved(t, place, h).height = h
           /\ Moved(t, place, h).spends = txs[t].spends
           /\ Moved(t, place, h).l2 = txs[t].l2
BY DEF TxType, Moved

\* A block moves attestations in and out of the mempool, and nothing else.
LEMMA NewL1BlockShape ==
    ASSUME TypeOK, NEW depth \in 0..ReorgDepth, NewL1Block(depth)
    PROVE  /\ tip' = tip + 1
           /\ txs' \in Seq(TxType) /\ Len(txs') = Len(txs)
           /\ Attestations' = Attestations
           /\ attested' = attested \cup
                 {txs'[t].l2 : t \in {u \in Attestations : txs'[u].at = "mined"}}
           /\ \E block \in SUBSET Minable(depth) :
                 /\ \A t \in block : \A u \in Minable(depth) : u < t => u \in block
                 /\ \A t \in Attestations :
                       /\ txs'[t].spends = txs[t].spends
                       /\ txs'[t].l2 = txs[t].l2
                       /\ t \in block =>
                             txs'[t].at = "mined" /\ txs'[t].height = tip + 1
                       /\ t \in Orphaned(depth) \ block => txs'[t].at = "mempool"
                       /\ t \notin block \cup Orphaned(depth) => txs'[t] = txs[t]
<1>0. DOMAIN txs = Attestations /\ Len(txs) \in Nat /\ tip \in Nat
      /\ \A t \in Attestations : txs[t] \in TxType
  BY TxFacts DEF TypeOK
<1>1. PICK block \in SUBSET Minable(depth) :
        /\ \A t \in block : \A u \in Minable(depth) : u < t => u \in block
        /\ txs' = [t \in DOMAIN txs |->
              IF t \in block
              THEN Moved(t, "mined", tip + 1)
              ELSE IF t \in Orphaned(depth) THEN Moved(t, "mempool", 0)
              ELSE txs[t]]
  BY DEF NewL1Block
<1>2. \A t \in Attestations :
         /\ txs'[t] \in TxType
         /\ txs'[t].spends = txs[t].spends
         /\ txs'[t].l2 = txs[t].l2
         /\ t \in block => txs'[t].at = "mined" /\ txs'[t].height = tip + 1
         /\ t \in Orphaned(depth) \ block => txs'[t].at = "mempool"
         /\ t \notin block \cup Orphaned(depth) => txs'[t] = txs[t]
  <2> TAKE t \in Attestations
  <2>1. txs'[t] = IF t \in block
                  THEN Moved(t, "mined", tip + 1)
                  ELSE IF t \in Orphaned(depth) THEN Moved(t, "mempool", 0)
                  ELSE txs[t]
    BY <1>0, <1>1
  <2>2. txs[t] \in TxType /\ tip + 1 \in Nat
    BY <1>0
  <2>3. CASE t \in block
    BY <2>1, <2>2, <2>3, MovedType
  <2>4. CASE t \notin block /\ t \in Orphaned(depth)
    BY <2>1, <2>2, <2>4, MovedType
  <2>5. CASE t \notin block /\ t \notin Orphaned(depth)
    BY <2>1, <2>2, <2>5
  <2> QED
    BY <2>3, <2>4, <2>5
<1>3. txs' \in [1..Len(txs) -> TxType]
  BY <1>0, <1>1, <1>2 DEF Attestations
<1>4. txs' \in Seq(TxType) /\ Len(txs') = Len(txs)
  BY <1>0, <1>3, SeqFun
<1>5. Attestations' = Attestations
  BY <1>4 DEF Attestations
<1>6. attested' = attested \cup
         {txs'[t].l2 : t \in {u \in Attestations : txs'[u].at = "mined"}}
  BY <1>0 DEF NewL1Block
<1> QED
  BY <1>1, <1>2, <1>4, <1>5, <1>6 DEF NewL1Block

\* An eviction takes one attestation and all after it.
LEMMA EvictShape ==
    ASSUME TypeOK, NEW e \in Attestations, Evict(e)
    PROVE  /\ txs[e].at = "mempool" /\ tip' = tip /\ attested' = attested
           /\ txs' \in Seq(TxType) /\ Len(txs') = Len(txs)
           /\ Attestations' = Attestations
           /\ \A t \in Attestations :
                 /\ txs'[t].spends = txs[t].spends
                 /\ txs'[t].l2 = txs[t].l2
                 /\ t >= e => txs'[t].at = "gone"
                 /\ ~(t >= e) => txs'[t] = txs[t]
<1>0. DOMAIN txs = Attestations /\ Len(txs) \in Nat
      /\ \A t \in Attestations : txs[t] \in TxType
  BY TxFacts
<1>1. txs' = [t \in DOMAIN txs |->
                IF t >= e THEN [txs[t] EXCEPT !.at = "gone"] ELSE txs[t]]
  BY DEF Evict
<1>2. \A t \in Attestations :
         /\ txs'[t] \in TxType
         /\ txs'[t].spends = txs[t].spends
         /\ txs'[t].l2 = txs[t].l2
         /\ t >= e => txs'[t].at = "gone"
         /\ ~(t >= e) => txs'[t] = txs[t]
  BY <1>0, <1>1 DEF TxType
<1>3. txs' \in [1..Len(txs) -> TxType]
  BY <1>0, <1>1, <1>2 DEF Attestations
<1>4. txs' \in Seq(TxType) /\ Len(txs') = Len(txs)
  BY <1>0, <1>3, SeqFun
<1>5. Attestations' = Attestations
  BY <1>4 DEF Attestations
<1> QED
  BY <1>2, <1>4, <1>5 DEF Evict

\* A broadcast adds an unconfirmed attestation that spends the stored anchor.
LEMMA BroadcastShape ==
    ASSUME TypeOK, Broadcast
    PROVE  LET n == Len(txs) + 1
           IN  /\ txs' \in Seq(TxType) /\ Len(txs') = n
               /\ n \in Nat /\ n \notin Attestations
               /\ Attestations' = Attestations \cup {n}
               /\ \A t \in Attestations : txs'[t] = txs[t] /\ t < n
               /\ txs'[n].spends = anchor /\ txs'[n].l2 = head
               /\ txs'[n].at = "mempool"
<1> DEFINE new == [spends |-> anchor, l2 |-> head, posted |-> prod.tip,
                   at |-> "mempool", height |-> 0]
<1>1. new \in TxType
  BY DEF TypeOK, ProducerType, TxType, Attestations
<1>2. txs' = Append(txs, new) /\ txs \in Seq(TxType) /\ Len(txs) \in Nat
  BY TxFacts DEF Broadcast, TypeOK
<1>3. /\ txs' \in Seq(TxType) /\ Len(txs') = Len(txs) + 1
      /\ \A t \in 1..Len(txs) : txs'[t] = txs[t]
      /\ txs'[Len(txs) + 1] = new
  BY <1>1, <1>2, AppendProperties
<1>4. Attestations' = Attestations \cup {Len(txs) + 1}
  BY <1>2, <1>3 DEF Attestations
<1> QED
  BY <1>2, <1>3, <1>4 DEF Attestations

-----------------------------------------------------------------------------
(* Type correctness.                                                       *)

\* New attestations do not unmake old entries.
LEMMA EntriesGrow ==
    ASSUME TypeInv, Attestations \subseteq Attestations'
    PROVE  /\ Entries \subseteq Entries'
           /\ pending \in Seq(Entries') /\ prod \in ProducerType'
           /\ anchor \in {0} \cup Attestations'
<1>1. Entries \subseteq Entries'
  BY DEF Entries
<1>2. \A list \in Seq(Entries) : list \in Seq(Entries')
  BY <1>1, SeqMonotonic
<1>3. prod \in ProducerType'
  BY <1>2 DEF TypeInv, TypeOK, ProducerType
<1> QED
  BY <1>1, <1>2, <1>3 DEF TypeInv, TypeOK

\* L1 steps leave the sequencer's own variables alone.
LEMMA TypeL1 ==
    ASSUME TypeInv, L1Step
    PROVE  TypeInv'
<1>0. TypeOK /\ DOMAIN txs = Attestations
  BY TxFacts DEF TypeInv
<1>1. /\ txs' \in Seq(TxType) /\ Attestations' = Attestations
      /\ tip' \in Nat /\ evictions' \in Nat /\ attested' \subseteq Nat
      /\ UNCHANGED <<dbVars, prod, errors, breaks>>
  <2>1. CASE \E depth \in 0..ReorgDepth : NewL1Block(depth)
    <3>1. PICK depth \in 0..ReorgDepth : NewL1Block(depth)
      BY <2>1
    <3> QED
      <4>1. /\ txs' \in Seq(TxType) /\ Attestations' = Attestations
            /\ tip' = tip + 1
        BY <1>0, <3>1, NewL1BlockShape
      <4>3. attested' \subseteq Nat
        <5>1. \A t \in Attestations : txs'[t] \in TxType
          BY <4>1, LenProperties, ElementOfSeq DEF Attestations
        <5>2. attested' = attested \cup
                 {txs'[t].l2 : t \in {u \in Attestations : txs'[u].at = "mined"}}
          BY <1>0, <3>1, NewL1BlockShape
        <5> QED
          BY <1>0, <5>1, <5>2 DEF TypeOK, TxType
      <4>2. UNCHANGED <<dbVars, prod, counters>>
        BY <3>1 DEF NewL1Block
      <4> QED
        BY <1>0, <4>1, <4>2, <4>3 DEF TypeOK, counters
  <2>2. CASE \E t \in DOMAIN txs : Evict(t)
    <3>1. PICK t \in Attestations : Evict(t)
      BY <1>0, <2>2
    <3>2. /\ txs' \in Seq(TxType) /\ Attestations' = Attestations
          /\ tip' = tip /\ attested' = attested
      BY <1>0, <3>1, EvictShape
    <3>3. evictions' = evictions + 1 /\ UNCHANGED <<dbVars, prod, errors, breaks>>
      BY <3>1 DEF Evict
    <3> QED
      BY <1>0, <3>2, <3>3 DEF TypeOK
  <2> QED
    BY <2>1, <2>2 DEF L1Step
<1>2. pending \in Seq(Entries') /\ prod \in ProducerType'
      /\ anchor \in {0} \cup Attestations'
  BY <1>1, EntriesGrow
<1> QED
  BY <1>1, <1>2 DEF TypeInv, TypeOK, LocalsSet, dbVars, Attestations

\* So does a broadcast, but for the locals that remember it.
LEMMA TypeBroadcast ==
    ASSUME TypeInv, Post \/ ReplyLost
    PROVE  TypeInv'
<1>1. Broadcast /\ TypeOK
  BY DEF Post, ReplyLost, TypeInv
<1> DEFINE n == Len(txs) + 1
<1>2. /\ txs' \in Seq(TxType) /\ Len(txs') = n /\ n \in Nat
      /\ Attestations' = Attestations \cup {n}
  BY <1>1, BroadcastShape
<1>3. /\ Entries \subseteq Entries' /\ prod \in ProducerType'
      /\ pending \in Seq(Entries') /\ anchor \in {0} \cup Attestations'
  BY <1>2, EntriesGrow
<1>4. anchor \in Nat /\ anchor < n
  BY <1>1, <1>2 DEF TypeOK, Attestations
<1>5. CASE Post
  <2>1. prod' = [prod EXCEPT !.at = "setAnchor", !.tx = n, !.spent = anchor]
        /\ UNCHANGED <<tip, attested, dbVars, counters>>
    BY <1>2, <1>5 DEF Post
  <2>2. prod' \in ProducerType' /\ prod'.at = "setAnchor" /\ prod'.tx = n
        /\ prod'.spent = anchor
    BY <1>2, <1>3, <1>4, <2>1 DEF ProducerType, Places
  <2> QED
    BY <1>1, <1>2, <1>3, <1>4, <2>1, <2>2
    DEF TypeInv, TypeOK, LocalsSet, dbVars, counters, Attestations
<1>6. CASE ReplyLost
  <2>1. prod' = IdleProducer /\ breaks' = breaks + 1
        /\ UNCHANGED <<tip, attested, dbVars, evictions, errors>>
    BY <1>6 DEF ReplyLost
  <2>2. prod' \in ProducerType' /\ prod'.at = "idle"
    BY <2>1, EmptySeq DEF ProducerType, Places, IdleProducer, Unset
  <2> QED
    BY <1>1, <1>2, <1>3, <2>1, <2>2
    DEF TypeInv, TypeOK, LocalsSet, dbVars, Posting
<1> QED
  BY <1>5, <1>6

\* The remaining steps leave L1 alone.
LEMMA TypeLocal ==
    ASSUME TypeInv, UNCHANGED l1Vars, BlockTick \/ PollStep \/ Fault,
           ~Post, ~ReplyLost
    PROVE  TypeInv'
<1>0. /\ TypeOK /\ LocalsSet /\ Attestations' = Attestations
      /\ Entries' = Entries /\ ProducerType' = ProducerType
      /\ tip' \in Nat /\ txs' \in Seq(TxType) /\ attested' \subseteq Nat
  BY DEF TypeInv, TypeOK, l1Vars, Attestations, Entries, ProducerType
<1>i. /\ IdleProducer \in ProducerType /\ IdleProducer.at = "idle"
      /\ \A place \in Places :
            /\ [IdleProducer EXCEPT !.at = place] \in ProducerType
            /\ [IdleProducer EXCEPT !.at = place].at = place
  BY EmptySeq DEF ProducerType, IdleProducer, Unset, Places
<1>g. ASSUME NEW place \in Places, Goto(place)
      PROVE  /\ prod' \in ProducerType' /\ prod'.at = place
             /\ prod'.tx = prod.tx /\ prod'.spent = prod.spent
             /\ prod'.tip = prod.tip /\ prod'.revert = prod.revert
  BY <1>0, <1>g DEF Goto, TypeOK, ProducerType
<1>p. ASSUME Produce
      PROVE  /\ head' \in Nat /\ l1Cursor' \in Nat
             /\ UNCHANGED <<anchor, lastAttested, pending>>
  BY <1>0, <1>p DEF Produce, NextHead, TypeOK
<1>1. CASE BlockTick
  BY <1>0, <1>1, <1>p DEF BlockTick, counters, TypeInv, TypeOK, LocalsSet
<1>2. CASE PollTick
  <2>1. prod' \in ProducerType' /\ prod'.at \in {"check", "monitor"}
    BY <1>0, <1>2, EmptySeq
    DEF PollTick, ProducerType, IdleProducer, Unset, Places, TypeOK
  <2> QED
    BY <1>0, <1>2, <2>1
    DEF PollTick, dbVars, counters, TypeInv, TypeOK, LocalsSet, Posting
<1>3. CASE MonitorEntry
  <2> DEFINE p == Head(prod.todo)
  <2>1. p \in Entries /\ Tail(prod.todo) \in Seq(Entries)
    BY <1>0, <1>3, HeadTailProperties DEF MonitorEntry, TypeOK, ProducerType
  <2>2. /\ Append(prod.surviving, p) \in Seq(Entries)
        /\ prod.surviving \in Seq(Entries)
    BY <1>0, <2>1, AppendProperties DEF TypeOK, ProducerType
  <2>3. p.spent \in {Unset, 0} \cup Attestations
    BY <1>0, <2>1 DEF Entries, Attestations, TypeOK
  <2>4. prod' = [prod EXCEPT
               !.todo = Tail(prod.todo),
               !.surviving = IF Gone(p.tx) \/ IsFinal(p.tx)
                             THEN prod.surviving ELSE Append(prod.surviving, p),
               !.revert = IF Gone(p.tx) THEN p.spent ELSE prod.revert]
    BY <1>3 DEF MonitorEntry
  <2>5. prod' \in ProducerType' /\ prod'.at = "monitor"
    BY <1>0, <1>3, <2>1, <2>2, <2>3, <2>4
    DEF MonitorEntry, TypeOK, ProducerType
  <2> QED
    BY <1>0, <1>3, <2>5
    DEF MonitorEntry, dbVars, counters, TypeInv, TypeOK, LocalsSet, Posting
<1>4. CASE SavePending
  <2>1. PICK place \in {"check", "revert"} :
           Goto(place) /\ (place = "revert" => prod.revert # Unset)
    BY <1>4 DEF SavePending
  <2>2. prod' \in ProducerType' /\ prod'.at = place
        /\ prod'.revert = prod.revert
    BY <1>g, <2>1 DEF Places
  <2> QED
    BY <1>0, <1>4, <2>1, <2>2
    DEF SavePending, counters, TypeInv, TypeOK, ProducerType, LocalsSet, Posting
<1>5. CASE RevertAnchor
  <2>1. prod' \in ProducerType' /\ prod'.at = "rewind"
    BY <1>5, <1>g DEF RevertAnchor, Places
  <2> QED
    BY <1>0, <1>5, <2>1
    DEF RevertAnchor, counters, TypeInv, TypeOK, ProducerType, LocalsSet, Posting
<1>6. CASE Rewind
  <2>1. prod' \in ProducerType' /\ prod'.at = "check"
    BY <1>6, <1>g DEF Rewind, Places
  <2>2. lastAttested' \in Nat \cup {Unset}
    BY <1>0, <1>6 DEF Rewind, TypeOK, Unset
  <2> QED
    BY <1>0, <1>6, <2>1, <2>2
    DEF Rewind, counters, TypeInv, TypeOK, LocalsSet, Posting
<1>7. CASE CheckTip
  <2>1. prod' \in ProducerType' /\ prod'.at \in {"idle", "produce"}
    BY <1>0, <1>7, EmptySeq
    DEF CheckTip, ProducerType, IdleProducer, Unset, Places, TypeOK
  <2> QED
    BY <1>0, <1>7, <2>1
    DEF CheckTip, dbVars, counters, TypeInv, TypeOK, LocalsSet, Posting
<1>8. CASE ProduceFirst
  <2>1. prod' \in ProducerType' /\ prod'.at = "post"
    BY <1>8, <1>g DEF ProduceFirst, Places
  <2> QED
    BY <1>0, <1>8, <1>p, <2>1
    DEF ProduceFirst, counters, TypeInv, TypeOK, LocalsSet, Posting
<1>9. CASE PostRefused
  BY <1>0, <1>9, <1>i
  DEF PostRefused, dbVars, counters, TypeInv, TypeOK, LocalsSet, Posting
<1>10. CASE SetAnchor
  <2>1. prod' \in ProducerType' /\ prod'.at = "setLast"
        /\ prod'.tx = prod.tx /\ prod'.spent = prod.spent
    BY <1>10, <1>g DEF SetAnchor, Places
  <2> QED
    BY <1>0, <1>10, <2>1
    DEF SetAnchor, counters, TypeInv, TypeOK, ProducerType, LocalsSet, Posting
<1>11. CASE SetLastAttested
  <2>1. prod' \in ProducerType' /\ prod'.at = "push"
        /\ prod'.tx = prod.tx /\ prod'.spent = prod.spent
    BY <1>11, <1>g DEF SetLastAttested, Places
  <2> QED
    BY <1>0, <1>11, <2>1
    DEF SetLastAttested, counters, TypeInv, TypeOK, ProducerType, LocalsSet,
        Posting
<1>12. CASE PushPending
  <2>1. Pending(prod.tx, prod.spent) \in Entries
    BY <1>0, <1>12
    DEF PushPending, Pending, Entries, LocalsSet, Posting, TypeOK, ProducerType
  <2>2. pending' \in Seq(Entries)
    BY <1>0, <1>12, <2>1, AppendProperties DEF PushPending, TypeOK
  <2> QED
    BY <1>0, <1>12, <1>i, <2>2
    DEF PushPending, counters, TypeInv, TypeOK, LocalsSet, Posting
<1>13. CASE CallFails
  <2>1. prod' \in ProducerType' /\ prod'.at \in {"check", "idle"}
    BY <1>0, <1>13, <1>i DEF CallFails, Places
  <2> QED
    BY <1>0, <1>13, <2>1
    DEF CallFails, dbVars, TypeInv, TypeOK, LocalsSet, Posting
<1>14. CASE WriteFails
  <2>1. prod' \in ProducerType' /\ prod'.at \in {"check", "idle"}
    BY <1>0, <1>14, <1>i DEF WriteFails, Places
  <2> QED
    BY <1>0, <1>14, <2>1
    DEF WriteFails, dbVars, TypeInv, TypeOK, LocalsSet, Posting
<1>15. CASE Crash
  BY <1>0, <1>15, <1>i DEF Crash, dbVars, TypeInv, TypeOK, LocalsSet, Posting
<1> QED
  BY <1>1, <1>2, <1>3, <1>4, <1>5, <1>6, <1>7, <1>8, <1>9, <1>10, <1>11,
     <1>12, <1>13, <1>14, <1>15 DEF PollStep, Fault

\* Every step is one of four kinds, by what it does to L1.
LEMMA StepKinds ==
    ASSUME [Next]_vars
    PROVE  \/ L1Step
           \/ Post \/ ReplyLost
           \/ /\ UNCHANGED l1Vars /\ ~Post /\ ~ReplyLost
              /\ BlockTick \/ PollStep \/ Fault
           \/ UNCHANGED vars
<1>1. CASE BlockTick
  BY <1>1 DEF BlockTick
<1>2. CASE PollStep /\ ~Post
  BY <1>2 DEF PollStep, PollTick, MonitorEntry, SavePending, RevertAnchor,
     Rewind, CheckTip, ProduceFirst, PostRefused, SetAnchor, SetLastAttested,
     PushPending, l1Vars
<1>3. CASE Fault /\ ~ReplyLost
  BY <1>3 DEF Fault, CallFails, WriteFails, Crash, l1Vars
<1> QED
  BY <1>1, <1>2, <1>3 DEF Next

LEMMA TypeInit == Init => TypeInv
<1> SUFFICES ASSUME Init PROVE TypeInv
  OBVIOUS
<1>1. txs = <<>> /\ Len(txs) = 0
  BY EmptySeq DEF Init
<1>2. IdleProducer \in ProducerType /\ IdleProducer.at = "idle"
  BY EmptySeq DEF ProducerType, IdleProducer, Unset, Places
<1> QED
  BY <1>1, <1>2, EmptySeq
  DEF Init, TypeInv, TypeOK, LocalsSet, Posting, Attestations, Unset

LEMMA TypeStep == TypeInv /\ [Next]_vars => TypeInv'
<1> SUFFICES ASSUME TypeInv, [Next]_vars PROVE TypeInv'
  OBVIOUS
<1>1. CASE UNCHANGED vars
  BY <1>1 DEF TypeInv, TypeOK, LocalsSet, vars, l1Vars, dbVars, counters,
     Attestations, Entries, ProducerType
<1> QED
  BY <1>1, StepKinds, TypeL1, TypeBroadcast, TypeLocal

\* Every reachable state is well typed, whatever fails and whenever the process
\* dies: the store never names an attestation that was not broadcast, and
\* following spent_anchor back always ends at anchor_0 (store.rs:26-39).
THEOREM TypeCorrect == Spec => []TypeOK
<1>1. TypeInv => TypeOK
  BY DEF TypeInv
<1> QED
  BY TypeInit, TypeStep, <1>1, PTL DEF Spec

-----------------------------------------------------------------------------
(* The chain on L1.                                                        *)

\* A follower that stands on an anchor sees a live parent below it.
LEMMA LiveChainStep ==
    ASSUME TypeInv, LiveChain, [Next]_vars
    PROVE  LiveChain'
<1>0. /\ TypeOK /\ tip \in Nat /\ Len(txs) \in Nat
      /\ \A t \in Attestations : txs[t] \in TxType /\ t \in Nat /\ t # 0
      /\ Attestations = 1..Len(txs)
  BY TxFacts DEF TypeInv, TypeOK, Attestations
<1>1. CASE UNCHANGED l1Vars
  BY <1>1 DEF LiveChain, l1Vars, Attestations
<1>2. ASSUME NEW depth \in 0..ReorgDepth, NewL1Block(depth)
      PROVE  LiveChain'
  <2>1. /\ tip' = tip + 1 /\ Attestations' = Attestations
    BY <1>0, <1>2, NewL1BlockShape
  <2>2. PICK block \in SUBSET Minable(depth) :
          /\ \A t \in block : \A u \in Minable(depth) : u < t => u \in block
          /\ \A t \in Attestations :
                /\ txs'[t].spends = txs[t].spends
                /\ t \in block =>
                      txs'[t].at = "mined" /\ txs'[t].height = tip + 1
                /\ t \in Orphaned(depth) \ block => txs'[t].at = "mempool"
                /\ t \notin block \cup Orphaned(depth) => txs'[t] = txs[t]
    BY ZenonT(30), <1>0, <1>2, NewL1BlockShape
  <2>3. \A t \in Attestations :
           /\ t \in Minable(depth) =>
                 txs[t].at \in {"mempool", "mined"}
           /\ t \in Minable(depth) <=>
                 (txs[t].at = "mempool" \/ t \in Orphaned(depth))
           /\ t \in Orphaned(depth) <=>
                 (txs[t].at = "mined" /\ txs[t].height > tip - depth)
    BY <1>0, TxFacts DEF Minable, Orphaned, Mined
  <2>4. \A t \in Attestations : txs'[t].at = "gone" <=> txs[t].at = "gone"
    BY <1>0, <2>2, <2>3
  <2>5. \A t \in Attestations :
           /\ txs'[t].spends < t
           /\ txs'[t].at # "gone" /\ txs'[t].spends # 0
              => txs'[txs'[t].spends].at # "gone"
           /\ txs'[t].at = "mined" => txs'[t].height <= tip'
    <3> TAKE t \in Attestations
    <3>1. txs[t].spends < t /\ txs'[t].spends = txs[t].spends
          /\ txs[t].spends \in Nat
      BY <1>0, <2>2 DEF LiveChain, TxType
    <3>2. txs'[t].at # "gone" /\ txs'[t].spends # 0
              => txs'[txs'[t].spends].at # "gone"
      <4> SUFFICES ASSUME txs'[t].at # "gone", txs[t].spends # 0
                   PROVE  txs'[txs[t].spends].at # "gone"
        BY <3>1
      <4>1. txs[t].spends \in Attestations
        BY <1>0, <3>1
      <4>2. txs[txs[t].spends].at # "gone"
        BY <2>4 DEF LiveChain
      <4> QED
        BY <2>4, <4>1, <4>2
    <3>3. txs'[t].at = "mined" => txs'[t].height <= tip'
      BY <1>0, <2>1, <2>2, <2>3 DEF LiveChain, TxType
    <3> QED
      BY <3>1, <3>2, <3>3
  <2>6. \A t, u \in Attestations :
           (/\ txs'[t].at # "gone" /\ txs'[u].at # "gone"
            /\ txs'[t].spends = txs'[u].spends) => t = u
    BY <2>2, <2>4 DEF LiveChain
  <2>7. \A t, u \in Attestations :
           (t < u /\ txs'[t].at # "gone" /\ txs'[u].at = "mined")
           => txs'[t].at = "mined" /\ txs'[t].height <= txs'[u].height
    <3> SUFFICES ASSUME NEW t \in Attestations, NEW u \in Attestations,
                        t < u, txs'[t].at # "gone", txs'[u].at = "mined"
                 PROVE  txs'[t].at = "mined" /\ txs'[t].height <= txs'[u].height
      OBVIOUS
    <3>0. /\ txs[t].at # "gone" /\ txs[t].height \in Nat /\ txs[u].height \in Nat
          /\ depth \in Nat
      BY <1>0, <2>4, AttestorAssumption DEF TxType
    <3>1. CASE u \in block
      <4>1. CASE t \in Minable(depth)
        BY <2>2, <3>0, <3>1, <4>1, <1>0
      <4>2. CASE t \notin Minable(depth)
        BY <1>0, <2>2, <2>3, <3>0, <3>1, <4>2
        DEF TxType, LiveChain
      <4> QED
        BY <4>1, <4>2
    <3>2. CASE u \notin block
      <4>1. txs'[u] = txs[u] /\ txs[u].at = "mined" /\ u \notin Orphaned(depth)
        BY <2>2, <2>3, <3>2
      <4>2. txs[t].at = "mined" /\ txs[t].height <= txs[u].height
        BY <3>0, <4>1 DEF LiveChain
      <4>3. t \notin Orphaned(depth) /\ t \notin block
        BY <1>0, <2>2, <2>3, <3>0, <4>1, <4>2
      <4> QED
        BY <2>2, <4>1, <4>2, <4>3
    <3> QED
      BY <3>1, <3>2
  <2> QED
    BY <2>1, <2>5, <2>6, <2>7 DEF LiveChain
<1>3. ASSUME NEW e \in Attestations, Evict(e)
      PROVE  LiveChain'
  <2>1. /\ tip' = tip /\ Attestations' = Attestations
        /\ \A t \in Attestations :
              /\ txs'[t].spends = txs[t].spends
              /\ t >= e => txs'[t].at = "gone"
              /\ ~(t >= e) => txs'[t] = txs[t]
    BY <1>0, <1>3, EvictShape
  <2>2. \A t \in Attestations :
           txs'[t].at # "gone" => ~(t >= e) /\ txs[t].at # "gone" /\ txs'[t] = txs[t]
    BY <2>1
  <2>3. \A t \in Attestations :
           txs'[t].at = "mined" => ~(t >= e) /\ txs[t].at = "mined" /\ txs'[t] = txs[t]
    BY <2>1
  <2>4. \A t \in Attestations :
           /\ txs'[t].spends < t
           /\ txs'[t].at # "gone" /\ txs'[t].spends # 0
              => txs'[txs'[t].spends].at # "gone"
           /\ txs'[t].at = "mined" => txs'[t].height <= tip'
    <3> TAKE t \in Attestations
    <3>1. txs[t].spends < t /\ txs'[t].spends = txs[t].spends
          /\ txs[t].spends \in Nat
      BY <1>0, <2>1 DEF LiveChain, TxType
    <3>2. txs'[t].at # "gone" /\ txs'[t].spends # 0
              => txs'[txs'[t].spends].at # "gone"
      <4> SUFFICES ASSUME txs'[t].at # "gone", txs[t].spends # 0
                   PROVE  txs'[txs[t].spends].at # "gone"
        BY <3>1
      <4>1. txs[t].spends \in Attestations /\ ~(txs[t].spends >= e)
        BY <1>0, <2>2, <3>1
      <4>2. txs[txs[t].spends].at # "gone"
        BY <2>2 DEF LiveChain
      <4> QED
        BY <2>1, <4>1, <4>2
    <3> QED
      BY <2>1, <2>3, <3>1, <3>2 DEF LiveChain
  <2>5. \A t, u \in Attestations :
           (/\ txs'[t].at # "gone" /\ txs'[u].at # "gone"
            /\ txs'[t].spends = txs'[u].spends) => t = u
    BY <2>2 DEF LiveChain
  <2>6. \A t, u \in Attestations :
           (t < u /\ txs'[t].at # "gone" /\ txs'[u].at = "mined")
           => txs'[t].at = "mined" /\ txs'[t].height <= txs'[u].height
    <3> SUFFICES ASSUME NEW t \in Attestations, NEW u \in Attestations,
                        t < u, txs'[t].at # "gone", txs'[u].at = "mined"
                 PROVE  txs'[t].at = "mined" /\ txs'[t].height <= txs'[u].height
      OBVIOUS
    <3>1. txs[t].at = "mined" /\ txs[t].height <= txs[u].height
      BY <2>2, <2>3 DEF LiveChain
    <3> QED
      BY <2>2, <2>3, <3>1
  <2> QED
    BY <2>1, <2>4, <2>5, <2>6 DEF LiveChain
<1>4. CASE Post \/ ReplyLost
  <2> DEFINE n == Len(txs) + 1
  <2>0. Broadcast /\ tip' = tip /\ Usable(anchor)
    BY <1>4 DEF Post, ReplyLost, Broadcast
  <2>1. /\ n \in Nat /\ n \notin Attestations
        /\ Attestations' = Attestations \cup {n}
        /\ \A t \in Attestations : txs'[t] = txs[t] /\ t < n
        /\ txs'[n].spends = anchor /\ txs'[n].at = "mempool"
    BY <1>0, <2>0, BroadcastShape
  <2>2. /\ anchor \in {0} \cup Attestations /\ (anchor # 0 => txs[anchor].at # "gone")
        /\ \A t \in Attestations : txs[t].spends = anchor => txs[t].at = "gone"
    BY <1>0, <2>0, TxFacts DEF Usable, Unspent, Exists, Gone, TypeOK
  <2>3. txs'[n].at # "gone" /\ txs'[n].at # "mined"
    BY <2>1
  <2>4. \A t \in Attestations' :
           /\ txs'[t].spends < t
           /\ txs'[t].at # "gone" /\ txs'[t].spends # 0
              => txs'[txs'[t].spends].at # "gone"
           /\ txs'[t].at = "mined" => txs'[t].height <= tip'
    <3>1. ASSUME NEW t \in Attestations
          PROVE  /\ txs'[t].spends < t
                 /\ txs'[t].at # "gone" /\ txs'[t].spends # 0
                    => txs'[txs'[t].spends].at # "gone"
                 /\ txs'[t].at = "mined" => txs'[t].height <= tip'
      <4>1. txs[t].spends < t /\ txs'[t].spends = txs[t].spends
            /\ txs[t].spends \in Nat
        BY <1>0, <2>1 DEF LiveChain, TxType
      <4>2. txs[t].spends # 0 => txs[t].spends \in Attestations
        BY <1>0, <4>1
      <4> QED
        BY <2>0, <2>1, <2>3, <4>1, <4>2 DEF LiveChain
    <3>2. /\ anchor < n
          /\ (anchor # 0 => txs'[anchor].at # "gone")
      BY <1>0, <2>1, <2>2, <2>3
    <3> QED
      BY <2>1, <2>3, <3>1, <3>2
  <2>5. \A t, u \in Attestations' :
           (/\ txs'[t].at # "gone" /\ txs'[u].at # "gone"
            /\ txs'[t].spends = txs'[u].spends) => t = u
    BY <2>1, <2>2, <2>3 DEF LiveChain
  <2>6. \A t, u \in Attestations' :
           (t < u /\ txs'[t].at # "gone" /\ txs'[u].at = "mined")
           => txs'[t].at = "mined" /\ txs'[t].height <= txs'[u].height
    BY <1>0, <2>1, <2>3 DEF LiveChain
  <2> QED
    BY <2>4, <2>5, <2>6 DEF LiveChain
<1> QED
  <2>1. DOMAIN txs = Attestations
    BY <1>0, TxFacts
  <2> QED
    BY <1>1, <1>2, <1>3, <1>4, <2>1, StepKinds DEF L1Step, vars

\* The block produced before a post is above everything attested so far.
LEMMA ProduceRises ==
    ASSUME TypeOK, HeightsRise, Produce
    PROVE  /\ head <= head' /\ 0 < head'
           /\ \A t \in Attestations : txs[t].l2 < head'
<1>1. head \in Nat /\ DOMAIN txs = Attestations
      /\ \A t \in Attestations : txs[t].l2 \in Nat
  BY TxFacts DEF TypeOK, TxType
<1>2. CASE head = 0 \/ (\E t \in DOMAIN txs : txs[t].l2 = head)
  BY <1>1, <1>2 DEF Produce, NextHead, HeightsRise
<1>3. CASE ~(head = 0 \/ (\E t \in DOMAIN txs : txs[t].l2 = head))
  BY <1>1, <1>3 DEF Produce, NextHead, HeightsRise
<1> QED
  BY <1>2, <1>3

LEMMA HeightsRiseStep ==
    ASSUME TypeInv, HeightsRise, [Next]_vars
    PROVE  HeightsRise'
<1>0. /\ TypeOK /\ head \in Nat /\ DOMAIN txs = Attestations
      /\ \A t \in Attestations : txs[t].l2 \in Nat
  BY TxFacts DEF TypeInv, TypeOK, TxType
<1>1. CASE L1Step
  <2>1. Attestations' = Attestations
        /\ \A t \in Attestations : txs'[t].l2 = txs[t].l2
    BY <1>0, <1>1, NewL1BlockShape, EvictShape DEF L1Step
  <2>2. UNCHANGED <<head, prod>>
    BY <1>1 DEF L1Step, NewL1Block, Evict, dbVars
  <2> QED
    BY <2>1, <2>2 DEF HeightsRise
<1>2. CASE Post \/ ReplyLost
  <2> DEFINE n == Len(txs) + 1
  <2>0. Post => prod'.at = "setAnchor"
    BY <1>0 DEF Post, TypeOK, ProducerType
  <2>1. /\ Broadcast /\ head' = head /\ prod.at = "post"
        /\ prod'.at # "post"
    BY <1>2, <2>0 DEF Post, ReplyLost, Broadcast, dbVars, IdleProducer
  <2>2. /\ n \in Nat /\ Attestations' = Attestations \cup {n}
        /\ \A t \in Attestations : txs'[t] = txs[t] /\ t < n
        /\ txs'[n].l2 = head
    BY <1>0, <2>1, BroadcastShape
  <2>3. \A t \in Attestations' : 0 < txs'[t].l2 /\ txs'[t].l2 <= head'
    BY <1>0, <2>1, <2>2 DEF HeightsRise
  <2>4. \A t, u \in Attestations' : t < u => txs'[t].l2 < txs'[u].l2
    <3> SUFFICES ASSUME NEW t \in Attestations', NEW u \in Attestations', t < u
                 PROVE  txs'[t].l2 < txs'[u].l2
      OBVIOUS
    <3>1. t \in Attestations
      BY <2>2, LenProperties DEF Attestations
    <3> QED
      BY <2>1, <2>2, <3>1 DEF HeightsRise
  <2> QED
    BY <2>1, <2>3, <2>4 DEF HeightsRise
<1>3. CASE UNCHANGED l1Vars /\ ~Post /\ ~ReplyLost
           /\ (BlockTick \/ PollStep \/ Fault)
  <2>0. txs' = txs /\ Attestations' = Attestations
    BY <1>3 DEF l1Vars, Attestations
  <2>1. CASE BlockTick
    <3>1. Produce /\ prod'.at # "post"
      BY <2>1 DEF BlockTick
    <3>2. head' \in Nat
      BY <1>0, <3>1 DEF Produce, NextHead
    <3> QED
      BY <1>0, <2>0, <3>1, <3>2, ProduceRises DEF HeightsRise
  <2>2. CASE ProduceFirst
    <3>1. Produce
      BY <2>2 DEF ProduceFirst
    <3>2. head' \in Nat
      BY <1>0, <3>1 DEF Produce, NextHead
    <3> QED
      BY <1>0, <2>0, <3>1, <3>2, ProduceRises DEF HeightsRise
  <2>3. CASE ~BlockTick /\ ~ProduceFirst
    <3>1. head' = head
      BY <1>3, <2>3
      DEF PollStep, Fault, PollTick, MonitorEntry, SavePending, RevertAnchor,
          Rewind, CheckTip, PostRefused, SetAnchor, SetLastAttested,
          PushPending, CallFails, WriteFails, Crash, dbVars
    <3>2. prod'.at # "post"
      <4>1. ASSUME NEW place \in Places \ {"post"}, Goto(place)
            PROVE  prod'.at # "post"
        BY <1>0, <4>1 DEF Goto, TypeOK, ProducerType
      <4>2. ASSUME NEW place \in Places \ {"post"},
                   prod' = [IdleProducer EXCEPT !.at = place]
            PROVE  prod'.at # "post"
        BY <4>2 DEF IdleProducer
      <4>3. CASE SavePending \/ RevertAnchor \/ Rewind \/ SetAnchor
                 \/ SetLastAttested
        BY <4>1, <4>3 DEF SavePending, RevertAnchor, Rewind, SetAnchor,
           SetLastAttested, Places
      <4>4. CASE CallFails \/ WriteFails
        <5>1. PICK place \in {"check", "idle"} :
                 prod' = [IdleProducer EXCEPT !.at = place]
          BY <4>4 DEF CallFails, WriteFails
        <5> QED
          BY <4>2, <5>1 DEF Places
      <4>5. CASE PostRefused \/ PushPending \/ Crash
        BY <4>5 DEF PostRefused, PushPending, Crash, IdleProducer
      <4>6. CASE PollTick
        BY <4>6 DEF PollTick, IdleProducer
      <4>8. CASE CheckTip
        BY <4>8 DEF CheckTip, IdleProducer
      <4>7. CASE MonitorEntry
        BY <1>0, <4>7 DEF MonitorEntry, TypeOK, ProducerType
      <4> QED
        BY <1>3, <2>3, <4>3, <4>4, <4>5, <4>6, <4>7, <4>8
        DEF PollStep, Fault
    <3> QED
      BY <2>0, <3>1, <3>2 DEF HeightsRise
  <2> QED
    BY <2>1, <2>2, <2>3
<1>4. CASE UNCHANGED vars
  BY <1>4 DEF HeightsRise, vars, l1Vars, dbVars, Attestations
<1> QED
  BY <1>1, <1>2, <1>3, <1>4, StepKinds

\* Heights and places of mined attestations, after an L1 block.
LEMMA NewcomersStep ==
    ASSUME TypeInv, LiveChain, HeightsRise, NewcomersAreNewer, [Next]_vars,
           LiveChain'
    PROVE  NewcomersAreNewer'
<1>0. /\ TypeOK /\ DOMAIN txs = Attestations
      /\ \A t \in Attestations : t \in Nat /\ txs[t].l2 \in Nat
      /\ attested \subseteq Nat
  BY TxFacts DEF TypeInv, TypeOK, TxType
<1>1. ASSUME NEW depth \in 0..ReorgDepth, NewL1Block(depth)
      PROVE  NewcomersAreNewer'
  <2>1. /\ Attestations' = Attestations
        /\ attested' = attested \cup
              {txs'[t].l2 : t \in {u \in Attestations : txs'[u].at = "mined"}}
        /\ \A t \in Attestations : txs'[t].l2 = txs[t].l2
    BY <1>0, <1>1, NewL1BlockShape
  <2>2. \A t \in Attestations : txs'[t].at # "gone" => txs[t].at # "gone"
    <3>1. PICK block \in SUBSET Minable(depth) :
             \A t \in Attestations :
                t \notin block \cup Orphaned(depth) => txs'[t] = txs[t]
      BY <1>0, <1>1, NewL1BlockShape
    <3>2. \A t \in block \cup Orphaned(depth) : txs[t].at # "gone"
      BY <3>1 DEF Minable, Orphaned, Mined
    <3> QED
      BY <3>1, <3>2
  <2>3. ASSUME NEW t \in Attestations, txs'[t].at # "gone",
               txs'[t].l2 \notin attested', NEW h \in attested'
        PROVE  h < txs'[t].l2
    <3>1. CASE h \in attested
      BY <2>1, <2>2, <2>3, <3>1 DEF NewcomersAreNewer
    <3>2. CASE h \notin attested
      <4>1. PICK u \in Attestations : txs'[u].at = "mined" /\ h = txs'[u].l2
        BY <2>1, <2>3, <3>2
      <4>2. txs'[t].at # "mined"
        BY <2>1, <2>3
      <4>3. u < t
        BY <1>0, <2>1, <2>3, <4>1, <4>2 DEF LiveChain
      <4> QED
        BY <2>1, <4>1, <4>3 DEF HeightsRise
    <3> QED
      BY <3>1, <3>2
  <2> QED
    BY <2>1, <2>3 DEF NewcomersAreNewer
<1>2. ASSUME NEW e \in Attestations, Evict(e)
      PROVE  NewcomersAreNewer'
  <2>1. /\ Attestations' = Attestations /\ attested' = attested
        /\ \A t \in Attestations :
              /\ txs'[t].l2 = txs[t].l2
              /\ t >= e => txs'[t].at = "gone"
              /\ ~(t >= e) => txs'[t] = txs[t]
    BY <1>0, <1>2, EvictShape
  <2> QED
    BY <2>1 DEF NewcomersAreNewer
<1>3. CASE Post \/ ReplyLost
  <2> DEFINE n == Len(txs) + 1
  <2>1. Broadcast /\ attested' = attested /\ prod.at = "post"
    BY <1>3 DEF Post, ReplyLost, Broadcast
  <2>2. /\ n \notin Attestations /\ Attestations' = Attestations \cup {n}
        /\ \A t \in Attestations : txs'[t] = txs[t]
        /\ txs'[n].l2 = head /\ txs'[n].at = "mempool"
    BY <1>0, <2>1, BroadcastShape
  <2>3. \A h \in attested : h < txs'[n].l2
    BY <2>1, <2>2 DEF HeightsRise, NewcomersAreNewer
  <2> QED
    BY <2>1, <2>2, <2>3 DEF NewcomersAreNewer
<1>4. CASE UNCHANGED l1Vars
  BY <1>4 DEF NewcomersAreNewer, l1Vars, Attestations
<1> QED
  BY <1>0, <1>1, <1>2, <1>3, <1>4, StepKinds DEF L1Step, vars

\* ChainInv is inductive.
LEMMA ChainInvStep == ChainInv /\ [Next]_vars => ChainInv'
BY TypeStep, LiveChainStep, HeightsRiseStep, NewcomersStep DEF ChainInv

LEMMA ChainInvInit == Init => ChainInv
<1> SUFFICES ASSUME Init PROVE ChainInv
  OBVIOUS
<1>1. Attestations = {} /\ prod.at = "idle" /\ attested = {}
  BY EmptySeq DEF Init, Attestations, IdleProducer
<1> QED
  BY <1>1, TypeInit DEF ChainInv, LiveChain, HeightsRise, NewcomersAreNewer

-----------------------------------------------------------------------------
(* Attestor implements AttestationChain.                                   *)

\* A spent anchor is below its spender: the mined attestations are linked.
LEMMA LinksAreLinked ==
    ASSUME ChainInv
    PROVE  Chain!Linked(Links)
<1>0. /\ TypeOK /\ LiveChain /\ HeightsRise
      /\ \A t \in Attestations : txs[t] \in TxType /\ t \in Nat
      /\ Attestations = 1..Len(txs) /\ Len(txs) \in Nat
  BY TxFacts DEF ChainInv, TypeInv, TypeOK, Attestations
<1>1. /\ DOMAIN Links = MinedTxs
      /\ \A t \in MinedTxs : /\ t \in Attestations /\ txs[t].at = "mined"
                            /\ Links[t].spends = txs[t].spends
                            /\ Links[t].l2 = txs[t].l2
  BY DEF Links, MinedTxs, Mined
<1>2. ASSUME NEW i \in MinedTxs
      PROVE  /\ Links[i].spends \in {0} \cup MinedTxs
             /\ Chain!HeightAt(Links, Links[i].spends) < Links[i].l2
  <2>1. txs[i].spends \in Nat /\ txs[i].spends < i
    BY <1>0, <1>1, <1>2 DEF TxType, LiveChain
  <2>2. CASE txs[i].spends = 0
    BY <1>0, <1>1, <1>2, <2>2 DEF Chain!HeightAt, HeightsRise
  <2>3. CASE txs[i].spends # 0
    <3> DEFINE a == txs[i].spends
    <3>1. a \in Attestations
      BY <1>0, <1>1, <1>2, <2>1, <2>3
    <3>2. txs[a].at # "gone"
      BY <1>0, <1>1, <1>2, <2>3 DEF LiveChain
    <3>3. a \in MinedTxs
      BY <1>0, <1>1, <1>2, <2>1, <3>1, <3>2 DEF LiveChain, MinedTxs, Mined
    <3>4. txs[a].l2 < txs[i].l2
      BY <1>0, <1>1, <1>2, <2>1, <3>1 DEF HeightsRise
    <3> QED
      BY <1>1, <1>2, <2>3, <3>3, <3>4 DEF Chain!HeightAt
  <2> QED
    BY <2>2, <2>3
<1>3. \A i, j \in MinedTxs : Links[i].spends = Links[j].spends => i = j
  BY <1>0, <1>1 DEF LiveChain
<1> QED
  BY <1>1, <1>2, <1>3 DEF Chain!Linked

LEMMA SettledIsMined ==
    ASSUME ChainInv
    PROVE  Settled \subseteq MinedTxs
<1>1. FinalityDepth \in Nat \ {0}
  BY AttestorAssumption
<1> QED
  BY <1>1 DEF Settled, Confirmations, MinedTxs, Mined

\* No reorg is deep enough, and no eviction low enough, to reach a settled one.
LEMMA SettledStays ==
    ASSUME ChainInv, [Next]_vars
    PROVE  /\ Settled \subseteq Settled'
           /\ \A t \in Settled : txs'[t].spends = txs[t].spends
                                /\ txs'[t].l2 = txs[t].l2
<1>0. /\ TypeOK /\ LiveChain /\ tip \in Nat
      /\ \A t \in Attestations : txs[t] \in TxType /\ t \in Nat
      /\ \A t \in Attestations : txs[t].height \in Nat
      /\ DOMAIN txs = Attestations
      /\ FinalityDepth \in Nat \ {0} /\ ReorgDepth \in 0..(FinalityDepth - 1)
  BY TxFacts, AttestorAssumption DEF ChainInv, TypeInv, TypeOK, TxType
<1>1. \A t \in Attestations :
         t \in Settled <=> /\ txs[t].at = "mined"
                          /\ tip - txs[t].height + 1 >= FinalityDepth
  BY <1>0 DEF Settled, Confirmations, Mined
<1>2. Settled \subseteq MinedTxs /\ Settled \subseteq Attestations
  BY <1>1 DEF Settled, MinedTxs, Mined
<1>3. ASSUME Attestations \subseteq Attestations', tip <= tip', tip' \in Nat,
             \A t \in Settled : txs'[t] = txs[t]
      PROVE  Settled \subseteq Settled'
  <2> SUFFICES ASSUME NEW t \in Settled PROVE t \in Settled'
    OBVIOUS
  <2>1. /\ txs'[t].at = "mined" /\ txs'[t].height = txs[t].height
        /\ tip - txs[t].height + 1 >= FinalityDepth
        /\ txs[t].height \in Nat /\ t \in Attestations'
    BY <1>0, <1>1, <1>2, <1>3
  <2>2. tip' - txs'[t].height + 1 >= FinalityDepth
    BY <1>0, <1>3, <2>1
  <2> QED
    BY <2>1, <2>2 DEF Settled, Confirmations, Mined
<1>4. ASSUME NEW depth \in 0..ReorgDepth, NewL1Block(depth)
      PROVE  /\ Attestations' = Attestations /\ tip' = tip + 1
             /\ \A t \in Settled : txs'[t] = txs[t]
  <2>1. PICK block \in SUBSET Minable(depth) :
          \A t \in Attestations :
             t \notin block \cup Orphaned(depth) => txs'[t] = txs[t]
    BY <1>0, <1>4, NewL1BlockShape
  <2>2. \A t \in Settled : t \notin Minable(depth) \cup Orphaned(depth)
    BY <1>0, <1>1, <1>2 DEF Minable, Orphaned, Mined
  <2> QED
    BY <1>0, <1>2, <1>4, <2>1, <2>2, NewL1BlockShape
<1>5. ASSUME NEW e \in Attestations, Evict(e)
      PROVE  /\ Attestations' = Attestations /\ tip' = tip
             /\ \A t \in Settled : txs'[t] = txs[t]
  <2>1. /\ txs[e].at = "mempool" /\ Attestations' = Attestations /\ tip' = tip
        /\ \A t \in Attestations : ~(t >= e) => txs'[t] = txs[t]
    BY <1>0, <1>5, EvictShape
  <2>2. ASSUME NEW t \in Settled PROVE ~(t >= e)
    BY <1>0, <1>1, <1>2, <2>1 DEF LiveChain
  <2> QED
    BY <1>2, <2>1, <2>2
<1>6. CASE Post \/ ReplyLost
  <2>1. Broadcast /\ tip' = tip
    BY <1>6 DEF Post, ReplyLost
  <2>2. /\ Attestations \subseteq Attestations'
        /\ \A t \in Attestations : txs'[t] = txs[t]
    BY <1>0, <2>1, BroadcastShape
  <2> QED
    BY <1>0, <1>2, <1>3, <2>1, <2>2
<1>7. CASE UNCHANGED l1Vars
  <2>1. Attestations' = Attestations /\ txs' = txs /\ tip' = tip
    BY <1>7 DEF l1Vars, Attestations
  <2> QED
    BY <1>0, <1>2, <1>3, <2>1
<1>8. CASE L1Step
  BY <1>0, <1>2, <1>3, <1>4, <1>5, <1>8 DEF L1Step
<1> QED
  BY <1>6, <1>7, <1>8, StepKinds DEF vars

\* The heights in L1 are those that were, and new ones above them.
LEMMA AttestedGrows ==
    ASSUME ChainInv, ChainInv', [Next]_vars
    PROVE  /\ attested' = attested \cup {txs'[t].l2 : t \in MinedTxs'}
           /\ \A t \in MinedTxs' : txs'[t].l2 \notin attested =>
                 \A old \in attested : old < txs'[t].l2
<1>0. TypeOK /\ DOMAIN txs = Attestations
  BY TxFacts DEF ChainInv, TypeInv
<1>1. CASE attested' = attested
  BY <1>1 DEF ChainInv, NewcomersAreNewer, MinedTxs, Mined
<1>2. ASSUME NEW depth \in 0..ReorgDepth, NewL1Block(depth)
      PROVE  /\ attested' = attested \cup {txs'[t].l2 : t \in MinedTxs'}
             /\ \A t \in MinedTxs' : txs'[t].l2 \notin attested =>
                   \A old \in attested : old < txs'[t].l2
  <2>1. /\ Attestations' = Attestations
        /\ attested' = attested \cup
              {txs'[t].l2 : t \in {u \in Attestations : txs'[u].at = "mined"}}
        /\ \A t \in Attestations : txs'[t].l2 = txs[t].l2
    BY <1>0, <1>2, NewL1BlockShape
  <2>2. MinedTxs' = {u \in Attestations : txs'[u].at = "mined"}
    BY <2>1 DEF MinedTxs, Mined
  <2>3. \A t \in MinedTxs' : txs[t].at # "gone"
    <3>1. PICK block \in SUBSET Minable(depth) :
             \A t \in Attestations :
                t \notin block \cup Orphaned(depth) => txs'[t] = txs[t]
      BY <1>0, <1>2, NewL1BlockShape
    <3>2. \A t \in block \cup Orphaned(depth) : txs[t].at # "gone"
      BY <3>1 DEF Minable, Orphaned, Mined
    <3> QED
      BY <2>2, <3>1, <3>2
  <2> QED
    BY <2>1, <2>2, <2>3 DEF ChainInv, NewcomersAreNewer
<1>3. CASE \E e \in Attestations : Evict(e)
  BY <1>0, <1>1, <1>3, EvictShape
<1>4. CASE Post \/ ReplyLost
  BY <1>1, <1>4 DEF Post, ReplyLost
<1>5. CASE UNCHANGED l1Vars
  BY <1>1, <1>5 DEF l1Vars
<1> QED
  BY <1>0, <1>2, <1>3, <1>4, <1>5, StepKinds DEF L1Step, vars

\* What followers read on L1 is always a linked list of rising L2 heights from
\* anchor_0, and what is settled stays: across crashes between any two writes,
\* lost replies, reorgs and evictions, because every post is preceded by a new
\* block (producer.rs:253) and spends the one anchor that is stored.
THEOREM AttestorImplementsChain == Spec => ImplementsChain
<1>1. Init => Chain!Init
  <2> SUFFICES ASSUME Init PROVE Chain!Init
    OBVIOUS
  <2>1. Attestations = {} /\ attested = {}
    BY EmptySeq DEF Init, Attestations
  <2> QED
    BY <2>1 DEF Chain!Init, Links, Settled, MinedTxs
<1>2. ChainInv /\ ChainInv' /\ [Next]_vars => [Chain!NewBlock]_(Chain!chainVars)
  <2> SUFFICES ASSUME ChainInv, ChainInv', [Next]_vars
               PROVE  Chain!NewBlock
    OBVIOUS
  <2>1. Chain!Linked(Links)'
    BY LinksAreLinked, PTL
  <2>2. Settled \subseteq Settled' /\ Settled \subseteq MinedTxs
    BY SettledStays, SettledIsMined
  <2>4. (Settled \subseteq MinedTxs)'
    BY SettledIsMined, PTL
  <2>3. \A t \in Settled : Links'[t] = Links[t]
    BY <2>2, <2>4, SettledStays DEF Links
  <2>5. Chain!NewHeights = {txs'[t].l2 : t \in MinedTxs'}
    BY DEF Chain!NewHeights, Links
  <2>6. /\ attested' = attested \cup Chain!NewHeights
        /\ \A new \in Chain!NewHeights \ attested :
              \A old \in attested : old < new
    BY <2>5, AttestedGrows
  <2> QED
    BY <2>1, <2>2, <2>3, <2>4, <2>6 DEF Chain!NewBlock, Links
<1> QED
  BY ChainInvInit, ChainInvStep, <1>1, <1>2, PTL DEF Spec, ImplementsChain, Chain!Spec

-----------------------------------------------------------------------------
(* monitor_pending forgets nothing that can still be lost.                 *)

LEMMA ListedFacts ==
    ASSUME NEW S, NEW list \in Seq(S), NEW t
    PROVE  /\ ~Listed(<<>>, t)
           /\ \A p \in S : Listed(Append(list, p), t) <=> Listed(list, t) \/ p.tx = t
           /\ list # <<>> /\ Listed(list, t)
              => Head(list).tx = t \/ Listed(Tail(list), t)
<1>0. Len(list) \in Nat
  BY LenProperties
<1>1. ~Listed(<<>>, t)
  BY EmptySeq DEF Listed
<1>2. ASSUME NEW p \in S
      PROVE  Listed(Append(list, p), t) <=> Listed(list, t) \/ p.tx = t
  <2>1. /\ Len(Append(list, p)) = Len(list) + 1
        /\ \A i \in 1..Len(list) : Append(list, p)[i] = list[i]
        /\ Append(list, p)[Len(list) + 1] = p
    BY AppendProperties
  <2>2. \A i \in 1..(Len(list) + 1) : i \in 1..Len(list) \/ i = Len(list) + 1
    BY <1>0
  <2>3. Len(list) + 1 \in 1..(Len(list) + 1)
        /\ 1..Len(list) \subseteq 1..(Len(list) + 1)
    BY <1>0
  <2> QED
    BY <2>1, <2>2, <2>3 DEF Listed
<1>3. ASSUME list # <<>>, Listed(list, t)
      PROVE  Head(list).tx = t \/ Listed(Tail(list), t)
  <2>1. PICK i \in 1..Len(list) : list[i].tx = t
    BY <1>3 DEF Listed
  <2>2. Len(Tail(list)) = Len(list) - 1 /\ Head(list) = list[1]
        /\ \A j \in 1..Len(Tail(list)) : Tail(list)[j] = list[j + 1]
    BY <1>3, HeadTailProperties
  <2>3. CASE i = 1
    BY <2>1, <2>2, <2>3
  <2>4. CASE i # 1
    <3>1. i - 1 \in 1..Len(Tail(list)) /\ (i - 1) + 1 = i
      BY <1>0, <2>2, <2>4
    <3>2. Tail(list)[i - 1].tx = t
      BY <2>1, <2>2, <3>1
    <3> QED
      BY <3>1, <3>2 DEF Listed
  <2> QED
    BY <2>3, <2>4
<1> QED
  BY <1>1, <1>2, <1>3

\* What is lost stays lost.
LEMMA GoneStays ==
    ASSUME TypeOK, [Next]_vars
    PROVE  /\ Attestations \subseteq Attestations'
           /\ \A t \in Attestations : Gone(t) => txs'[t].at = "gone"
<1>0. DOMAIN txs = Attestations
  BY TxFacts
<1>1. ASSUME NEW depth \in 0..ReorgDepth, NewL1Block(depth)
      PROVE  /\ Attestations' = Attestations
             /\ \A t \in Attestations : Gone(t) => txs'[t].at = "gone"
  BY <1>0, <1>1, NewL1BlockShape DEF Gone, Minable, Orphaned, Mined
<1>2. ASSUME NEW e \in Attestations, Evict(e)
      PROVE  /\ Attestations' = Attestations
             /\ \A t \in Attestations : Gone(t) => txs'[t].at = "gone"
  BY <1>2, EvictShape DEF Gone
<1>3. CASE Post \/ ReplyLost
  BY <1>3, BroadcastShape DEF Post, ReplyLost, Gone
<1>4. CASE UNCHANGED l1Vars
  BY <1>4 DEF l1Vars, Attestations, Gone
<1> QED
  BY <1>0, <1>1, <1>2, <1>3, <1>4, StepKinds DEF L1Step, vars

\* A step that leaves the lists alone keeps Watched.
LEMMA WatchedKept ==
    ASSUME ChainInv, Watched, [Next]_vars, breaks = 0,
           Attestations' = Attestations, pending' = pending,
           prod.at \in Posting => prod'.at \in Posting /\ prod'.tx = prod.tx,
           prod'.at = "monitor" =>
              \/ prod'.todo = pending
              \/ /\ prod.at = "monitor" /\ prod'.todo = prod.todo
                 /\ prod'.surviving = prod.surviving
    PROVE  Watched'
<1>0. /\ \A t \in Attestations : Gone(t) => Gone(t)'
      /\ Settled \subseteq Settled'
  BY GoneStays, SettledStays DEF ChainInv, TypeInv, Gone
<1>1. \A t \in Attestations :
         \/ Gone(t)' \/ t \in Settled' \/ Listed(pending', t)
         \/ prod'.at \in Posting /\ t = prod'.tx
  BY <1>0 DEF Watched
<1>2. ASSUME prod'.at = "monitor"
      PROVE  \A t \in Attestations :
                Listed(pending', t) =>
                \/ Gone(t)' \/ t \in Settled'
                \/ Listed(prod'.todo, t) \/ Listed(prod'.surviving, t)
  BY <1>0, <1>2 DEF Watched
<1> QED
  BY <1>1, <1>2 DEF Watched, Listed

LEMMA WatchedStep ==
    ASSUME ChainInv, Watched, [Next]_vars
    PROVE  Watched'
<1> SUFFICES ASSUME breaks' = 0 PROVE Watched'
  BY DEF Watched
<1>0. /\ TypeOK /\ prod \in ProducerType /\ breaks \in Nat
      /\ \A t \in Attestations : t \in Nat
      /\ \A t \in Attestations : Gone(t) => Gone(t)'
      /\ Settled \subseteq Settled' /\ Attestations \subseteq Attestations'
  BY TxFacts, GoneStays, SettledStays DEF ChainInv, TypeInv, TypeOK, Gone
<1>1. CASE L1Step
  <2>1. /\ UNCHANGED <<pending, prod, breaks>>
    BY <1>1 DEF L1Step, NewL1Block, Evict, dbVars, counters
  <2>2. Attestations' = Attestations
    BY <1>0, <1>1, TxFacts, NewL1BlockShape, EvictShape DEF L1Step
  <2> QED
    BY <2>1, <2>2, WatchedKept
<1>2. CASE Post
  <2> DEFINE n == Len(txs) + 1
  <2>1. /\ Attestations' = Attestations \cup {n}
        /\ Len(txs') = n /\ prod.at = "post"
    BY <1>0, <1>2, BroadcastShape DEF Post, Broadcast
  <2>2. /\ prod'.at = "setAnchor" /\ prod'.tx = n
        /\ UNCHANGED <<pending, breaks>>
    BY <1>0, <1>2, <2>1 DEF Post, ProducerType, dbVars, counters
  <2>3. \A t \in Attestations' :
           \/ Gone(t)' \/ t \in Settled' \/ Listed(pending', t)
           \/ prod'.at \in Posting /\ t = prod'.tx
    BY <1>0, <2>1, <2>2 DEF Watched, Posting
  <2> QED
    BY <2>2, <2>3 DEF Watched, Listed
<1>3. CASE ReplyLost
  BY <1>0, <1>3 DEF ReplyLost
<1>4. CASE UNCHANGED vars
  BY <1>4, WatchedKept DEF vars, l1Vars, dbVars, counters, Attestations
<1>5. CASE UNCHANGED l1Vars /\ ~Post /\ ~ReplyLost
           /\ (BlockTick \/ PollStep \/ Fault)
  <2>0. Attestations' = Attestations
    BY <1>5 DEF l1Vars, Attestations
  <2>g. ASSUME NEW place \in Places, Goto(place)
        PROVE  prod'.at = place /\ prod'.tx = prod.tx
    BY <1>0, <2>g DEF Goto, ProducerType
  <2>i. ASSUME NEW place \in Places,
               prod' = [IdleProducer EXCEPT !.at = place]
        PROVE  prod'.at = place
    BY <2>i DEF IdleProducer
  <2>1. CASE BlockTick
    BY <2>0, <2>1, WatchedKept DEF BlockTick, Produce, counters, Posting
  <2>2. CASE PollTick
    <3>1. /\ prod.at = "idle" /\ UNCHANGED <<pending, breaks>>
          /\ prod'.todo = pending
      BY <2>2 DEF PollTick, IdleProducer, dbVars, counters
    <3> QED
      BY <2>0, <3>1, WatchedKept DEF Posting
  <2>3. CASE MonitorEntry
    <3> DEFINE p == Head(prod.todo)
               kept == IF Gone(p.tx) \/ IsFinal(p.tx) THEN prod.surviving
                       ELSE Append(prod.surviving, p)
    <3>1. /\ prod.at = "monitor" /\ prod.todo # <<>>
          /\ prod.todo \in Seq(Entries) /\ prod.surviving \in Seq(Entries)
          /\ p \in Entries /\ p.tx \in Attestations
      BY <1>0, <2>3, HeadTailProperties DEF MonitorEntry, ProducerType, Entries
    <3>2. prod' = [prod EXCEPT !.todo = Tail(prod.todo), !.surviving = kept,
                     !.revert = IF Gone(p.tx) THEN p.spent ELSE prod.revert]
          /\ UNCHANGED <<pending, breaks>>
      BY <2>3 DEF MonitorEntry, dbVars, counters
    <3> HIDE DEF kept
    <3>3. /\ prod'.at = "monitor" /\ prod'.todo = Tail(prod.todo)
          /\ prod'.surviving = kept
      BY <1>0, <3>1, <3>2 DEF ProducerType
    <3>4. ASSUME NEW t \in Attestations, Listed(pending, t)
          PROVE  \/ Gone(t) \/ t \in Settled
                 \/ Listed(Tail(prod.todo), t) \/ Listed(kept, t)
      <4>1. CASE Listed(prod.surviving, t)
        BY <3>1, <4>1, ListedFacts DEF kept
      <4>2. CASE Listed(prod.todo, t) /\ p.tx # t
        BY <3>1, <4>2, ListedFacts
      <4>3. CASE p.tx = t
        BY <3>1, <4>3, ListedFacts DEF kept, IsFinal, Settled
      <4> QED
        BY <3>1, <3>2, <3>4, <4>1, <4>2, <4>3 DEF Watched
    <3>5. \A t \in Attestations' :
             \/ Gone(t)' \/ t \in Settled' \/ Listed(pending', t)
      BY <1>0, <2>0, <3>1, <3>2 DEF Watched, Posting
    <3>6. \A t \in Attestations' :
             Listed(pending', t) =>
             \/ Gone(t)' \/ t \in Settled'
             \/ Listed(prod'.todo, t) \/ Listed(prod'.surviving, t)
      BY <1>0, <2>0, <3>2, <3>3, <3>4
    <3> QED
      BY <3>5, <3>6 DEF Watched, Listed
  <2>4. CASE SavePending
    <3>1. /\ prod.at = "monitor" /\ prod.todo = <<>>
          /\ pending' = prod.surviving /\ breaks' = breaks
          /\ prod.surviving \in Seq(Entries)
      BY <1>0, <2>4 DEF SavePending, ProducerType, counters
    <3>2. prod'.at \in {"check", "revert"}
      BY <2>4, <2>g DEF SavePending, Places
    <3>3. \A t \in Attestations' :
             Gone(t)' \/ t \in Settled' \/ Listed(pending', t)
      BY <1>0, <2>0, <3>1, ListedFacts DEF Watched, Posting
    <3> QED
      BY <3>2, <3>3 DEF Watched, Listed
  <2>5. CASE RevertAnchor \/ Rewind \/ ProduceFirst
    <3>1. /\ prod.at \notin Posting /\ UNCHANGED <<pending, breaks>>
          /\ prod'.at # "monitor"
      BY <2>5, <2>g
      DEF RevertAnchor, Rewind, ProduceFirst, Produce, counters, Posting, Places
    <3> QED
      BY <2>0, <3>1, WatchedKept
  <2>6. CASE CheckTip
    <3>1. prod.at = "check" /\ UNCHANGED <<pending, breaks>>
      BY <2>6 DEF CheckTip, dbVars, counters
    <3>2. prod'.at # "monitor"
      BY <2>6 DEF CheckTip, IdleProducer
    <3> QED
      BY <2>0, <3>1, <3>2, WatchedKept DEF Posting
  <2>7. CASE PostRefused
    <3>1. prod.at = "post" /\ prod'.at = "idle" /\ UNCHANGED <<pending, breaks>>
      BY <2>7 DEF PostRefused, IdleProducer, dbVars, counters
    <3> QED
      BY <2>0, <3>1, WatchedKept DEF Posting
  <2>8. CASE SetAnchor \/ SetLastAttested
    <3>1. /\ prod'.at \in Posting /\ prod'.tx = prod.tx /\ prod'.at # "monitor"
          /\ UNCHANGED <<pending, breaks>>
      BY <2>8, <2>g DEF SetAnchor, SetLastAttested, Posting, Places, counters
    <3> QED
      BY <2>0, <3>1, WatchedKept
  <2>9. CASE PushPending
    <3>1. /\ prod.at = "push" /\ prod'.at = "idle" /\ breaks' = breaks
          /\ pending' = Append(pending, Pending(prod.tx, prod.spent))
          /\ pending \in Seq(Entries)
      BY <1>0, <2>9 DEF PushPending, IdleProducer, counters, TypeOK
    <3>2. /\ Pending(prod.tx, prod.spent) \in Entries
          /\ Pending(prod.tx, prod.spent).tx = prod.tx
      BY <1>0, <3>1
      DEF ChainInv, TypeInv, LocalsSet, Posting, Pending, Entries, ProducerType
    <3>3. \A t \in Attestations' :
             Gone(t)' \/ t \in Settled' \/ Listed(pending', t)
      BY <1>0, <2>0, <3>1, <3>2, ListedFacts DEF Watched
    <3> QED
      BY <3>1, <3>3 DEF Watched, Listed
  <2>10. CASE CallFails
    <3>1. /\ prod.at \notin Posting /\ UNCHANGED <<pending, breaks>>
      BY <2>10 DEF CallFails, dbVars, Posting
    <3>2. prod'.at # "monitor"
      BY <2>10 DEF CallFails, IdleProducer
    <3> QED
      BY <2>0, <3>1, <3>2, WatchedKept
  <2>11. CASE WriteFails \/ Crash
    BY <1>0, <2>11 DEF WriteFails, Crash
  <2> QED
    BY <1>5, <2>1, <2>2, <2>3, <2>4, <2>5, <2>6, <2>7, <2>8, <2>9, <2>10,
       <2>11 DEF PollStep, Fault
<1> QED
  BY <1>1, <1>2, <1>3, <1>4, <1>5, StepKinds

\* Unless a crash or a failed write interrupts a post, whatever is missing from
\* the pending list is lost or deeper than any reorg reaches: monitor_pending
\* (producer.rs:313-378) never drops an attestation that it may have to replace.
THEOREM ForgottenIsSettled == Spec => []ForgottenIsFinal
<1>1. Init => Watched
  <2> SUFFICES ASSUME Init PROVE Watched
    OBVIOUS
  <2>1. Attestations = {} /\ prod.at = "idle"
    BY EmptySeq DEF Init, Attestations, IdleProducer
  <2> QED
    BY <2>1 DEF Watched
<1>2. ChainInv /\ Watched /\ [Next]_vars => Watched'
  BY WatchedStep
<1>3. Watched => ForgottenIsFinal
  BY DEF Watched, ForgottenIsFinal, Listed, Posting
<1> QED
  BY ChainInvInit, ChainInvStep, <1>1, <1>2, <1>3, PTL DEF Spec
=============================================================================
