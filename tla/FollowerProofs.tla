--------------------------- MODULE FollowerProofs ---------------------------
(***************************************************************************)
(* Theorems about Follower: for any L1 that obeys AttestationChain, any    *)
(* number of failing calls, failing writes and restarts, and locks that    *)
(* are reclaimed at any time.                                              *)
(***************************************************************************)
EXTENDS Follower, SequenceTheorems, FiniteSetTheorems, TLAPS

AttType == [l2 : Nat \ {0}, at : Nat]
NodeType == [at : Places, tip : Nat, scan : Nat, adv : Anchors]

\* L1 only attests blocks the sequencer has.
PathProduced == \A i \in 1..Len(path) : path[i].l2 <= Len(blocks)

\* What a restart finds is what the process had.
Booted ==
    /\ node.at = "genesis" <=> stored = -1
    /\ stored = -1 => anchor = Nothing
    /\ stored # -1 => head = stored

\* A batch that was started is not behind the head, and extends the stored
\* anchor by one attestation.
InBatch ==
    /\ node.at \in {"block", "store"} => head < AttHeight
    /\ node.at = "anchor" => head = AttHeight
    /\ node.at \in {"advance", "block", "store", "anchor"}
       => anchor = SpentAnchor
    /\ node.at = "record" => anchor = node.adv

NodeInv == TypeOK /\ PathProduced /\ Booted /\ InBatch

-----------------------------------------------------------------------------
(* Sequences.                                                              *)

LEMMA TypeFacts ==
    ASSUME TypeOK
    PROVE  /\ path \in Seq(AttType) /\ Len(path) \in Nat
           /\ blocks \in Seq(SUBSET Txs) /\ Len(blocks) \in Nat
           /\ node \in NodeType /\ head \in Nat /\ head <= Len(blocks)
           /\ \A i \in 1..Len(path) : path[i] \in AttType
           /\ \A i \in 1..Len(blocks) : blocks[i] \subseteq Txs
<1>1. path \in Seq(AttType) /\ blocks \in Seq(SUBSET Txs) /\ node \in NodeType
  BY DEF TypeOK, AttType, NodeType
<1>2. Len(path) \in Nat /\ Len(blocks) \in Nat
  BY <1>1, LenProperties
<1>3. head \in 0..Len(blocks)
  BY DEF TypeOK
<1>4. /\ \A i \in 1..Len(path) : path[i] \in AttType
      /\ \A i \in 1..Len(blocks) : blocks[i] \in SUBSET Txs
  BY <1>1, ElementOfSeq
<1> QED
  BY <1>1, <1>2, <1>3, <1>4

\* The prefixes of an anchor.
LEMMA Prefixes ==
    ASSUME NEW a \in Anchors, NEW m \in 0..Len(a)
    PROVE  /\ SubSeq(a, 1, m) \in Anchors /\ Len(SubSeq(a, 1, m)) = m
           /\ \A i \in 1..m : SubSeq(a, 1, m)[i] = a[i]
           /\ \A k \in 0..m : SubSeq(SubSeq(a, 1, m), 1, k) = SubSeq(a, 1, k)
<1>0. Len(a) \in Nat /\ m \in Nat
  BY LenProperties DEF Anchors
<1>1. \A i \in 1..m : a[i] \in Nat \ {0}
  BY <1>0, ElementOfSeq DEF Anchors
<1>2. /\ SubSeq(a, 1, m) \in Anchors /\ Len(SubSeq(a, 1, m)) = m
      /\ \A i \in 1..m : SubSeq(a, 1, m)[i] = a[i]
  BY <1>0, <1>1, SubSeqProperties, Z3 DEF Anchors
<1>3. ASSUME NEW k \in 0..m
      PROVE  SubSeq(SubSeq(a, 1, m), 1, k) = SubSeq(a, 1, k)
  <2>1. CASE k = 0
    BY <2>1, SubSeqEmpty
  <2>2. CASE k # 0
    BY <1>0, <1>3, <2>2, SubSeqOfSubSeq DEF Anchors
  <2> QED
    BY <2>1, <2>2
<1> QED
  BY <1>2, <1>3

\* The anchors on L1.
LEMMA AnchorsOnL1 ==
    ASSUME TypeOK, NEW n \in 1..Len(path)
    PROVE  /\ AnchorAt(n) \in Anchors /\ Len(AnchorAt(n)) = n
           /\ AnchorAt(n)[n] = path[n].l2
           /\ AnchorAt(n) # <<>>
           /\ SubSeq(AnchorAt(n), 1, n - 1) = AnchorAt(n - 1)
<1>1. Heights \in [1..Len(path) -> Nat \ {0}] /\ Len(path) \in Nat
  BY TypeFacts DEF Heights, AttType
<1>2. Heights \in Seq(Nat \ {0})
  BY <1>1, SeqDef
<1>3. Heights \in Anchors /\ Len(Heights) = Len(path)
  BY <1>1, <1>2, LenProperties DEF Anchors
<1>4. n \in 0..Len(Heights) /\ n - 1 \in 0..n /\ n \in Nat
  BY <1>1, <1>3
<1>5. /\ SubSeq(Heights, 1, n) \in Anchors /\ Len(SubSeq(Heights, 1, n)) = n
      /\ SubSeq(Heights, 1, n)[n] = Heights[n]
      /\ SubSeq(SubSeq(Heights, 1, n), 1, n - 1) = SubSeq(Heights, 1, n - 1)
  BY <1>3, <1>4, Prefixes
<1>6. Heights[n] = path[n].l2
  BY DEF Heights
<1>7. SubSeq(Heights, 1, n) # <<>>
  BY <1>4, <1>5, EmptySeq
<1> QED
  BY <1>5, <1>6, <1>7 DEF AnchorAt

\* The locals of the follower.
LEMMA GotoShape ==
    ASSUME node \in NodeType, NEW place \in Places, Goto(place)
    PROVE  /\ node' \in NodeType /\ node'.at = place /\ node'.adv = node.adv
           /\ node'.tip = node.tip /\ node'.scan = node.scan
BY DEF Goto, NodeType

LEMMA IdleShape == IdleNode \in NodeType /\ IdleNode.at = "idle"
BY EmptySeq DEF IdleNode, NodeType, Places, Anchors

-----------------------------------------------------------------------------
(* Type correctness.                                                       *)

\* The blocks L1 gains and loses.
LEMMA NewL1BlockShape ==
    ASSUME TypeOK, PathProduced, NEW depth \in 0..(FinalityDepth - 1),
           NewL1Block(depth)
    PROVE  /\ path' \in Seq(AttType) /\ l1Tip' \in Nat /\ attested' \subseteq Nat
           /\ \A i \in 1..Len(path') : path'[i].l2 <= Len(blocks)
           /\ reorgs' \in Nat
           /\ UNCHANGED <<spent, blocks, memVars, dbVars, faults, torn>>
<1>0. /\ path \in Seq(AttType) /\ Len(path) \in Nat /\ Len(blocks) \in Nat
      /\ FinalityDepth \in Nat /\ l1Tip \in Nat /\ reorgs \in Nat
      /\ depth <= l1Tip /\ depth \in Nat /\ attested \subseteq Nat
  BY TypeFacts, FollowerAssumption DEF TypeOK, NewL1Block
<1> DEFINE k == Cardinality(Included(depth))
           Good == {a \in AttType : a.l2 <= Len(blocks)}
<1>1. k \in 0..Len(path)
  <2>1. IsFiniteSet(1..Len(path)) /\ Cardinality(1..Len(path)) = Len(path)
    <3>1. 1 \in Int /\ Len(path) \in Int
      BY <1>0
    <3>2. /\ IsFiniteSet(1..Len(path))
          /\ Cardinality(1..Len(path))
             = IF 1 > Len(path) THEN 0 ELSE Len(path) - 1 + 1
      BY <3>1, FS_Interval
    <3> QED
      BY <1>0, <3>2
  <2>2. Included(depth) \in SUBSET (1..Len(path))
    BY DEF Included
  <2>3. IsFiniteSet(Included(depth)) /\ k <= Len(path)
    BY <2>1, <2>2, FS_Subset
  <2>4. k \in Nat
    BY <2>3, FS_CardinalityType
  <2> QED
    BY <1>0, <2>3, <2>4
<1>2. SubSeq(path, 1, k) \in Seq(Good)
  <2>1. \A i \in 1..k : path[i] \in Good
    BY <1>0, <1>1, TypeFacts DEF PathProduced
  <2> HIDE DEF Good, k
  <2> QED
    BY <1>0, <1>1, <2>1, SubSeqProperties
<1>3. PICK tail \in Tails(depth) : path' = SubSeq(path, 1, k) \o tail
  BY DEF NewL1Block
<1>4. tail \in Seq(Good)
  <2>1. Attestation(depth) \subseteq Good
    BY <1>0 DEF Attestation, AttType
  <2> HIDE DEF Good
  <2>2. ASSUME NEW a \in Good, NEW b \in Good
        PROVE  <<>> \in Seq(Good) /\ <<a>> \in Seq(Good) /\ <<a, b>> \in Seq(Good)
    OBVIOUS
  <2>3. CASE tail = <<>>
    BY <2>3, EmptySeq
  <2>4. ASSUME NEW a \in Attestation(depth), tail = <<a>>
        PROVE  tail \in Seq(Good)
    BY <2>1, <2>2, <2>4
  <2>5. ASSUME NEW a \in Attestation(depth), NEW b \in Attestation(depth),
               tail = <<a, b>>
        PROVE  tail \in Seq(Good)
    BY <2>1, <2>2, <2>5
  <2>6. \/ tail = <<>>
        \/ \E a \in Attestation(depth) : tail = <<a>>
        \/ \E a, b \in Attestation(depth) : tail = <<a, b>>
    BY <1>3 DEF Tails
  <2> QED
    BY <2>3, <2>4, <2>5, <2>6
<1>5. path' \in Seq(Good)
  <2> HIDE DEF Good, k
  <2> QED
    BY <1>2, <1>3, <1>4, ConcatProperties
<1>6. /\ path' \in Seq(AttType)
      /\ \A i \in 1..Len(path') : path'[i] \in Good
  <2>1. Good \subseteq AttType
    OBVIOUS
  <2> HIDE DEF Good
  <2> QED
    BY <1>5, <2>1, SeqMonotonic, ElementOfSeq
<1>7. attested' \subseteq Nat
  <2>1. attested' = attested \cup Chain!NewHeights
    BY DEF NewL1Block, Chain!NewBlock
  <2>2. Chain!NewHeights \subseteq Nat
    <3>1. ASSUME NEW i \in 1..Len(path')
          PROVE  /\ AnchorAt(i)' \in Seq(Nat)
                 /\ Len(AnchorAt(i)') = i
      <4>1. Len(path') \in Nat
        BY <1>6, LenProperties
      <4>2. \A j \in 1..i : Heights'[j] \in Nat
        BY <1>6, <3>1, <4>1 DEF Heights, AttType
      <4> QED
        BY <3>1, <4>1, <4>2, SubSeqProperties DEF AnchorAt
    <3>2. ASSUME NEW i \in 1..Len(path')
          PROVE  AnchorAt(i)'[Len(AnchorAt(i)')] \in Nat
      BY <3>1, ElementOfSeq, LenProperties
    <3> QED
      BY <3>2 DEF Chain!NewHeights, Links
  <2> QED
    BY <1>0, <2>1, <2>2
<1> QED
  BY SMTT(30), <1>0, <1>6, <1>7 DEF NewL1Block

\* At the start nothing is stored and no batch runs.
LEMMA NodeInvInit == Init => NodeInv
<1> SUFFICES ASSUME Init PROVE NodeInv
  OBVIOUS
<1>1. /\ path = <<>> /\ blocks = <<>> /\ Len(path) = 0 /\ Len(blocks) = 0
      /\ node \in NodeType /\ node.at = "genesis"
      /\ path \in Seq(AttType) /\ blocks \in Seq(SUBSET Txs)
  BY IdleShape, EmptySeq DEF Init, NodeType, IdleNode, Places
<1>2. DOMAIN spends = {}
  BY DEF Init
<1> QED
  BY <1>1, <1>2 DEF Init, NodeInv, TypeOK, PathProduced, Booted, InBatch,
     NodeType, AttType, Nothing

\* Bitcoin and the sequencer leave the node alone.
LEMMA WorldKeeps == NodeInv /\ World => NodeInv'
<1> SUFFICES ASSUME NodeInv, World PROVE NodeInv'
  OBVIOUS
<1>0. TypeOK /\ PathProduced
  BY DEF NodeInv
<1>1. ASSUME NEW depth \in 0..(FinalityDepth - 1), NewL1Block(depth)
      PROVE  NodeInv'
  <2>1. /\ path' \in Seq(AttType) /\ l1Tip' \in Nat /\ attested' \subseteq Nat
        /\ \A i \in 1..Len(path') : path'[i].l2 <= Len(blocks)
        /\ reorgs' \in Nat
        /\ UNCHANGED <<spent, blocks, memVars, dbVars, faults, torn>>
    BY <1>0, <1>1, NewL1BlockShape
  <2>2. TypeOK' /\ PathProduced'
    BY <1>0, <2>1 DEF TypeOK, PathProduced, AttType, memVars, dbVars, AttHeight
  <2>3. Booted' /\ InBatch'
    BY <2>1 DEF NodeInv, Booted, InBatch, memVars, dbVars, AttHeight, SpentAnchor
  <2> QED
    BY <2>2, <2>3 DEF NodeInv
<1>2. ASSUME NEW m \in Mints, ReclaimLock(m)
      PROVE  NodeInv'
  BY <1>2 DEF ReclaimLock, NodeInv, TypeOK, PathProduced, Booted, InBatch,
     memVars, dbVars, counters, AttHeight, SpentAnchor
<1>3. CASE ProduceBlock
  <2>1. PICK txs \in SUBSET Txs : blocks' = Append(blocks, txs)
    BY <1>3 DEF ProduceBlock
  <2>2. /\ blocks' \in Seq(SUBSET Txs) /\ Len(blocks') = Len(blocks) + 1
        /\ Len(blocks) \in Nat
    BY <1>0, <2>1, TypeFacts, AppendProperties
  <2>3. TypeOK'
    BY <1>0, <1>3, <2>2 DEF ProduceBlock, TypeOK, memVars, dbVars, counters,
       AttHeight, Anchors
  <2>4. PathProduced'
    BY <1>0, <1>3, <2>2, TypeFacts DEF ProduceBlock, PathProduced, AttType
  <2>5. Booted' /\ InBatch'
    BY <1>3 DEF ProduceBlock, NodeInv, Booted, InBatch, memVars, dbVars,
       AttHeight, SpentAnchor
  <2> QED
    BY <2>3, <2>4, <2>5 DEF NodeInv
<1> QED
  BY <1>1, <1>2, <1>3 DEF World

\* What a step of the node that leaves the L2 chain alone has to show.
LocalInv ==
    /\ state \subseteq Txs /\ head \in 0..Len(blocks)
    /\ node \in NodeType
    /\ node.at \in {"advance", "block", "store", "anchor", "record"}
       => node.adv # <<>> /\ AttHeight <= Len(blocks)
    /\ stored \in {-1} \cup 0..Len(blocks) /\ snapshot \subseteq Txs
    /\ cursor \in Nat /\ anchor \in Anchors \cup {Nothing}
    /\ DOMAIN spends \subseteq Anchors
    /\ \A a \in DOMAIN spends : spends[a] \in Anchors
    /\ faults \in Nat /\ torn \in Nat
    /\ Booted /\ InBatch

LEMMA Localise == NodeInv => LocalInv
BY DEF NodeInv, TypeOK, LocalInv, NodeType

LEMMA Globalise ==
    ASSUME NodeInv, LocalInv', UNCHANGED <<worldVars, reorgs>>
    PROVE  NodeInv'
BY DEF NodeInv, TypeOK, LocalInv, NodeType, worldVars, PathProduced

LEMMA IdleIsLocal ==
    ASSUME LocalInv, node' = IdleNode, faults' \in Nat, torn' \in Nat,
           UNCHANGED <<worldVars, state, head, dbVars>>, stored # -1
    PROVE  LocalInv'
<1>1. node' \in NodeType /\ node'.at = "idle"
  BY IdleShape
<1> QED
  BY <1>1 DEF LocalInv, worldVars, dbVars, Booted, InBatch

LEMMA GotoIsLocal ==
    ASSUME LocalInv, NEW place \in {"scan", "advance", "cursor", "block"},
           Goto(place), stored # -1,
           place = "advance" => node.at = "advance",
           place = "block" => node.at = "advance" /\ head < AttHeight,
           UNCHANGED <<worldVars, state, head, dbVars, faults, torn>>
    PROVE  LocalInv'
<1>1. place \in Places /\ node \in NodeType
  BY DEF LocalInv, Places, Writes
<1>2. node' \in NodeType /\ node'.at = place /\ node'.adv = node.adv
  BY <1>1, GotoShape
<1> QED
  BY <1>2 DEF LocalInv, worldVars, dbVars, Booted, InBatch, AttHeight, SpentAnchor

\* bootstrap and tick.
LEMMA TickKeeps ==
    ASSUME NodeInv,
           \/ StoreGenesis \/ AdoptAnchor0
           \/ Tick \/ ScanFindsAdvance \/ ScanFindsNone \/ ScanFails \/ SetL1Cursor
    PROVE  NodeInv'
<1>0. LocalInv /\ node \in NodeType /\ TypeOK
  BY Localise DEF LocalInv, NodeInv
<1>1. CASE StoreGenesis
  <2>1. node' \in NodeType /\ node'.at = "bootAnchor" /\ node'.adv = node.adv
    BY <1>0, <1>1, GotoShape DEF StoreGenesis, Places, Writes
  <2>2. LocalInv'
    BY <1>0, <1>1, <2>1, TypeFacts DEF StoreGenesis, LocalInv, worldVars, counters, Booted,
       InBatch
  <2> QED
    BY <1>1, <2>2, Globalise DEF StoreGenesis, counters
<1>2. CASE AdoptAnchor0
  <2>1. node' \in NodeType /\ node'.at = "idle" /\ node'.adv = node.adv
    BY <1>0, <1>2, GotoShape DEF AdoptAnchor0, Places, Writes
  <2>2. <<>> \in Anchors
    BY EmptySeq DEF Anchors
  <2>3. LocalInv'
    BY <1>0, <1>2, <2>1, <2>2 DEF AdoptAnchor0, LocalInv, worldVars, counters,
       Booted, InBatch
  <2> QED
    BY <1>2, <2>3, Globalise DEF AdoptAnchor0, counters
<1>3. CASE Tick
  <2> DEFINE new == [IdleNode EXCEPT !.at = "scan", !.tip = l1Tip,
                                     !.scan = cursor + 1]
  <2>1. l1Tip \in Nat /\ cursor + 1 \in Nat /\ "scan" \in Places
    BY <1>0 DEF TypeOK, Places
  <2>2. new \in NodeType /\ new.at = "scan"
    BY <2>1, IdleShape DEF NodeType
  <2>3. /\ node' \in NodeType /\ node'.at = "scan"
        /\ UNCHANGED <<worldVars, state, head, dbVars, counters>>
        /\ node.at = "idle"
    BY <1>3, <2>2 DEF Tick
  <2>4. LocalInv'
    BY <1>0, <2>3 DEF LocalInv, worldVars, dbVars, counters, Booted, InBatch
  <2> QED
    BY <2>3, <2>4, Globalise DEF counters
<1>4. CASE ScanFindsAdvance
  <2>1. PICK n \in 1..Len(path) :
            /\ Advances(n)
            /\ node' = [node EXCEPT !.at = "advance", !.adv = AnchorAt(n)]
    BY <1>4 DEF ScanFindsAdvance
  <2>2. /\ AnchorAt(n) \in Anchors /\ Len(AnchorAt(n)) = n
        /\ AnchorAt(n)[n] = path[n].l2 /\ AnchorAt(n) # <<>>
        /\ SubSeq(AnchorAt(n), 1, n - 1) = AnchorAt(n - 1)
    BY <1>0, AnchorsOnL1
  <2>3. /\ node' \in NodeType /\ node'.at = "advance" /\ node'.adv = AnchorAt(n)
        /\ UNCHANGED <<worldVars, state, head, dbVars, counters>>
        /\ node.at = "scan"
    BY <1>0, <1>4, <2>1, <2>2 DEF ScanFindsAdvance, NodeType, Places
  <2>4. /\ AttHeight' = path[n].l2 /\ SpentAnchor' = AnchorAt(n - 1)
        /\ anchor = AnchorAt(n - 1) /\ path[n].l2 <= Len(blocks)
    BY <2>1, <2>2, <2>3 DEF AttHeight, SpentAnchor, Advances, NodeInv, PathProduced
  <2>5. LocalInv'
    BY <1>0, <2>2, <2>3, <2>4 DEF LocalInv, worldVars, dbVars, counters, Booted,
       InBatch
  <2> QED
    BY <2>3, <2>5, Globalise DEF counters
<1>5. CASE ScanFindsNone
  <2>1. LocalInv'
    BY <1>0, <1>5, GotoIsLocal DEF ScanFindsNone, LocalInv, Booted, counters
  <2> QED
    BY <1>5, <2>1, Globalise DEF ScanFindsNone, counters
<1>6. CASE ScanFails
  <2>1. LocalInv'
    BY <1>0, <1>6, IdleIsLocal DEF ScanFails, LocalInv, Booted, counters
  <2> QED
    BY <1>6, <2>1, Globalise DEF ScanFails, counters
<1>7. CASE SetL1Cursor
  <2> DEFINE onward == [node EXCEPT !.at = "scan", !.scan = @ + 1]
  <2>1. node.scan \in Nat /\ "scan" \in Places
    BY <1>0 DEF NodeType, Places
  <2>2. onward \in NodeType /\ onward.at = "scan"
    <3>1. [node EXCEPT !.at = "scan"] \in NodeType
      BY <1>0, <2>1 DEF NodeType
    <3>2. ASSUME NEW r \in NodeType, NEW k \in Nat
          PROVE  /\ [r EXCEPT !.scan = k] \in NodeType
                 /\ [r EXCEPT !.scan = k].at = r.at
      BY DEF NodeType
    <3>3. onward = [[node EXCEPT !.at = "scan"] EXCEPT !.scan = node.scan + 1]
      OBVIOUS
    <3>4. [node EXCEPT !.at = "scan"].at = "scan"
      BY <1>0 DEF NodeType
    <3>5. node.scan + 1 \in Nat
      BY <2>1
    <3> HIDE DEF onward
    <3> QED
      BY <3>1, <3>2, <3>3, <3>4, <3>5, Zenon
  <2>3. node' = onward \/ node' = IdleNode
    BY <1>7 DEF SetL1Cursor
  <2>4. node' \in NodeType /\ node'.at \in {"scan", "idle"}
    BY <2>2, <2>3, IdleShape
  <2>5. LocalInv'
    BY <1>0, <1>7, <2>1, <2>4 DEF SetL1Cursor, LocalInv, worldVars, counters,
       Booted, InBatch
  <2> QED
    BY <1>7, <2>5, Globalise DEF SetL1Cursor, counters
<1> QED
  BY <1>1, <1>2, <1>3, <1>4, <1>5, <1>6, <1>7

\* process_advance and apply_one_l2_block.
LEMMA BatchKeeps ==
    ASSUME NodeInv,
           \/ SkipKnown \/ StartBatch \/ ApplyBlock \/ RejectBlock \/ StoreBlock
           \/ SetAnchor \/ RecordSpend
    PROVE  NodeInv'
<1>0. /\ LocalInv /\ node \in NodeType /\ TypeOK
      /\ head \in Nat /\ Len(blocks) \in Nat
  BY Localise, TypeFacts DEF LocalInv, NodeInv
<1>1. node.at \in {"advance", "block", "store", "anchor", "record"}
      => AttHeight \in Nat /\ SpentAnchor \in Anchors
  <2>1. SUFFICES ASSUME node.adv # <<>>
                 PROVE  AttHeight \in Nat /\ SpentAnchor \in Anchors
    BY <1>0 DEF LocalInv
  <2>2. node.adv \in Anchors
    BY <1>0 DEF NodeType
  <2>3. Len(node.adv) \in Nat /\ Len(node.adv) # 0
    BY <2>1, <2>2, EmptySeq, LenProperties DEF Anchors
  <2>4. AttHeight \in Nat
    BY <2>2, <2>3, ElementOfSeq DEF Anchors, AttHeight
  <2>5. SpentAnchor \in Anchors
    BY <2>2, <2>3, Prefixes DEF SpentAnchor
  <2> QED
    BY <2>4, <2>5
<1>2. CASE SkipKnown
  <2>1. LocalInv'
    BY <1>0, <1>2, GotoIsLocal DEF SkipKnown, LocalInv, Booted, counters
  <2> QED
    BY <1>2, <2>1, Globalise DEF SkipKnown, counters
<1>3. CASE StartBatch
  <2>1. head < AttHeight
    BY <1>0, <1>1, <1>3 DEF StartBatch
  <2>2. LocalInv'
    BY <1>0, <1>3, <2>1, GotoIsLocal DEF StartBatch, LocalInv, Booted, counters
  <2> QED
    BY <1>3, <2>2, Globalise DEF StartBatch, counters
<1>4. CASE ApplyBlock
  <2>1. head + 1 \in 1..Len(blocks)
    BY <1>0, <1>1, <1>4 DEF ApplyBlock, LocalInv, InBatch
  <2>2. state' \subseteq Txs
    BY <1>0, <1>4, <2>1, TypeFacts DEF ApplyBlock, LocalInv
  <2>3. node' \in NodeType /\ node'.at = "store" /\ node'.adv = node.adv
    BY <1>0, <1>4, GotoShape DEF ApplyBlock, Places, Writes
  <2>4. LocalInv'
    BY <1>0, <1>4, <2>2, <2>3 DEF ApplyBlock, LocalInv, worldVars, dbVars,
       counters, Booted, InBatch, AttHeight, SpentAnchor
  <2> QED
    BY <1>4, <2>4, Globalise DEF ApplyBlock, counters
<1>5. CASE RejectBlock
  <2>1. LocalInv'
    BY <1>0, <1>5, IdleIsLocal DEF RejectBlock, LocalInv, Booted, counters
  <2> QED
    BY <1>5, <2>1, Globalise DEF RejectBlock, counters
<1>6. CASE StoreBlock
  <2>1. /\ head' = head + 1 /\ stored' = head + 1 /\ head + 1 <= AttHeight
        /\ head + 1 \in 0..Len(blocks)
    BY <1>0, <1>1, <1>6 DEF StoreBlock, LocalInv, InBatch
  <2>2. /\ node' \in NodeType /\ node'.adv = node.adv
        /\ node'.at = (IF head + 1 = AttHeight THEN "anchor" ELSE "block")
    BY <1>0, <1>6, <2>1, GotoShape DEF StoreBlock, Places, Writes
  <2>3. AttHeight' = AttHeight /\ SpentAnchor' = SpentAnchor
    BY <2>2 DEF AttHeight, SpentAnchor
  <2>4. /\ snapshot' = state
        /\ UNCHANGED <<worldVars, state, cursor, anchor, spends, counters>>
        /\ node.at = "store"
    BY <1>6 DEF StoreBlock
  <2>5. LocalInv'
    BY <1>0, <1>1, <2>1, <2>2, <2>3, <2>4
    DEF LocalInv, worldVars, counters, Booted, InBatch
  <2> QED
    BY <2>4, <2>5, Globalise DEF counters
<1>7. CASE SetAnchor
  <2>1. node' \in NodeType /\ node'.at = "record" /\ node'.adv = node.adv
    BY <1>0, <1>7, GotoShape DEF SetAnchor, Places, Writes
  <2>2. LocalInv'
    BY <1>0, <1>7, <2>1 DEF SetAnchor, LocalInv, worldVars, counters, Booted,
       InBatch, AttHeight, NodeType
  <2> QED
    BY <1>7, <2>2, Globalise DEF SetAnchor, counters
<1>8. CASE RecordSpend
  <2>1. node' \in NodeType /\ node'.at = "scan" /\ node'.adv = node.adv
    BY <1>0, <1>8, GotoShape DEF RecordSpend, Places
  <2>2. /\ DOMAIN spends' = DOMAIN spends \cup {SpentAnchor}
        /\ \A a \in DOMAIN spends' : spends'[a] \in Anchors
    BY <1>0, <1>8 DEF RecordSpend, LocalInv, NodeType
  <2>3. LocalInv'
    BY <1>0, <1>1, <1>8, <2>1, <2>2 DEF RecordSpend, LocalInv, worldVars,
       counters, Booted, InBatch
  <2> QED
    BY <1>8, <2>3, Globalise DEF RecordSpend, counters
<1> QED
  BY <1>2, <1>3, <1>4, <1>5, <1>6, <1>7, <1>8

\* Failing calls, failing writes and restarts.
LEMMA FaultKeeps ==
    ASSUME NodeInv, Fault
    PROVE  NodeInv'
<1>0. LocalInv /\ node \in NodeType /\ faults + 1 \in Nat /\ torn + 1 \in Nat
  BY Localise DEF LocalInv
<1>1. CASE CallFails
  <2>1. LocalInv'
    BY <1>0, <1>1, IdleIsLocal DEF CallFails, LocalInv, Booted
  <2> QED
    BY <1>1, <2>1, Globalise DEF CallFails
<1>2. CASE WriteFails
  <2>1. stored # -1
    BY <1>0, <1>2, FollowerAssumption DEF WriteFails, LocalInv, Booted, Writes
  <2>2. LocalInv'
    BY <1>0, <1>2, <2>1, IdleIsLocal DEF WriteFails, LocalInv
  <2> QED
    BY <1>2, <2>2, Globalise DEF WriteFails
<1>3. CASE CrashBetweenWrites \/ CrashElsewhere
  <2>1. /\ Restart /\ faults' \in Nat /\ torn' \in Nat /\ UNCHANGED reorgs
    BY <1>0, <1>3 DEF CrashBetweenWrites, CrashElsewhere, LocalInv
  <2>2. CASE stored = -1
    <3>1. node' \in NodeType /\ node'.at = "genesis" /\ node'.adv = node.adv
      BY <1>0, <2>1, <2>2, GotoShape DEF Restart, Places
    <3>2. state' = {} /\ head' = 0 /\ UNCHANGED <<worldVars, dbVars>>
      BY <2>1, <2>2 DEF Restart
    <3>3. 0 \in 0..Len(blocks)
      BY <1>0 DEF LocalInv
    <3> QED
      BY <1>0, <2>1, <2>2, <3>1, <3>2, <3>3, Globalise
      DEF LocalInv, worldVars, dbVars, Booted, InBatch
  <2>3. CASE stored # -1
    <3>1. /\ node' = IdleNode /\ state' = snapshot /\ head' = stored
          /\ UNCHANGED <<worldVars, dbVars>>
      BY <2>1, <2>3 DEF Restart
    <3>2. node' \in NodeType /\ node'.at = "idle"
      BY <3>1, IdleShape
    <3> QED
      BY <1>0, <2>1, <2>3, <3>1, <3>2, Globalise
      DEF LocalInv, worldVars, dbVars, Booted, InBatch
  <2> QED
    BY <2>2, <2>3
<1> QED
  BY <1>1, <1>2, <1>3 DEF Fault

LEMMA NodeInvNext == NodeInv /\ [Next]_vars => NodeInv'
<1> SUFFICES ASSUME NodeInv, [Next]_vars PROVE NodeInv'
  OBVIOUS
<1>1. CASE World
  BY <1>1, WorldKeeps
<1>2. CASE NodeStep
  BY <1>2, TickKeeps, BatchKeeps DEF NodeStep
<1>3. CASE Fault
  BY <1>3, FaultKeeps
<1>4. CASE UNCHANGED vars
  BY <1>4 DEF vars, worldVars, memVars, dbVars, counters, NodeInv, TypeOK,
     PathProduced, Booted, InBatch, AttHeight, SpentAnchor
<1> QED
  BY <1>1, <1>2, <1>3, <1>4 DEF Next

LEMMA NodeInvHolds == Spec => []NodeInv
<1>1. Init => NodeInv
  BY NodeInvInit
<1>2. NodeInv /\ [Next]_vars => NodeInv'
  BY NodeInvNext
<1> QED
  BY <1>1, <1>2, PTL DEF Spec

\* Every variable keeps its type, and no batch runs towards a block the
\* sequencer does not have (follower.rs:100-131).
THEOREM TypeCorrect == Spec => []TypeOK
<1>1. NodeInv => TypeOK
  BY DEF NodeInv
<1> QED
  BY <1>1, NodeInvHolds, PTL

-----------------------------------------------------------------------------
(* What is stored.                                                         *)

\* The last element of a started batch's anchor, and those before it.
LEMMA AdvFacts ==
    ASSUME NodeInv, node.at \in {"advance", "block", "store", "anchor", "record"}
    PROVE  /\ node.adv \in Anchors /\ Len(node.adv) \in Nat /\ Len(node.adv) >= 1
           /\ SpentAnchor \in Anchors /\ Len(SpentAnchor) = Len(node.adv) - 1
           /\ AttHeight \in Nat /\ node.adv[Len(node.adv)] = AttHeight
           /\ \A i \in 1..(Len(node.adv) - 1) : SpentAnchor[i] = node.adv[i]
           /\ \A k \in 0..(Len(node.adv) - 1) :
                 SubSeq(SpentAnchor, 1, k) = SubSeq(node.adv, 1, k)
<1>1. node.adv \in Anchors /\ node.adv # <<>>
  BY DEF NodeInv, TypeOK
<1>2. Len(node.adv) \in Nat /\ Len(node.adv) >= 1
  BY <1>1, EmptySeq, LenProperties DEF Anchors
<1>3. AttHeight \in Nat
  BY <1>1, <1>2, ElementOfSeq DEF Anchors, AttHeight
<1> QED
  BY <1>1, <1>2, <1>3, Prefixes DEF SpentAnchor, AttHeight

LEMMA AppliedNext ==
    ASSUME NodeInv, AnchorIsApplied, [Next]_vars
    PROVE  AnchorIsApplied'
<1>0. /\ stored \in {-1} \cup Nat /\ head \in Nat
      /\ node.at # "genesis" => stored = head
      /\ stored = -1 => anchor = Nothing
      /\ anchor \in Anchors \cup {Nothing}
  BY TypeFacts DEF NodeInv, TypeOK, Booted
<1>1. CASE StoreGenesis
  BY <1>0, <1>1 DEF StoreGenesis, NodeInv, Booted, AnchorIsApplied
<1>2. CASE AdoptAnchor0
  <2>1. anchor' = <<>> /\ Len(<<>>) = 0
    BY <1>2 DEF AdoptAnchor0
  <2> QED
    BY <2>1 DEF AnchorIsApplied
<1>3. CASE StoreBlock
  <2>1. stored' = stored + 1 /\ anchor' = anchor /\ stored \in Nat
    BY <1>0, <1>3 DEF StoreBlock
  <2>2. anchor # Nothing => \A i \in 1..Len(anchor) : anchor[i] \in Nat
    BY <1>0, ElementOfSeq DEF Anchors
  <2> QED
    BY <2>1, <2>2 DEF AnchorIsApplied
<1>4. CASE SetAnchor
  <2>1. /\ anchor' = node.adv /\ stored' = stored /\ anchor = SpentAnchor
        /\ stored = AttHeight
    BY <1>0, <1>4 DEF SetAnchor, NodeInv, InBatch
  <2>2. /\ Len(node.adv) \in Nat /\ Len(node.adv) >= 1
        /\ SpentAnchor \in Anchors /\ Len(SpentAnchor) = Len(node.adv) - 1
        /\ AttHeight \in Nat /\ node.adv[Len(node.adv)] = AttHeight
        /\ \A i \in 1..(Len(node.adv) - 1) : SpentAnchor[i] = node.adv[i]
    BY <1>4, AdvFacts DEF SetAnchor
  <2>3. \A i \in 1..(Len(node.adv) - 1) : node.adv[i] <= stored
    <3>1. CASE anchor = Nothing
      <4>1. Nothing = <<-1>> /\ Len(<<-1>>) = 1 /\ <<-1>>[1] = -1
        BY DEF Nothing
      <4>2. SpentAnchor[1] \in Nat
        BY <2>1, <2>2, <3>1, <4>1, ElementOfSeq DEF Anchors
      <4> QED
        BY <2>1, <3>1, <4>1, <4>2
    <3>2. CASE anchor # Nothing
      BY <2>1, <2>2, <3>2 DEF AnchorIsApplied
    <3> QED
      BY <3>1, <3>2
  <2> QED
    BY <2>1, <2>2, <2>3 DEF AnchorIsApplied
<1>5. CASE UNCHANGED <<anchor, stored>>
  BY <1>5 DEF AnchorIsApplied
<1>6. \/ StoreGenesis \/ AdoptAnchor0 \/ StoreBlock \/ SetAnchor
      \/ UNCHANGED <<anchor, stored>>
  BY DEF Next, World, NodeStep, Fault, NewL1Block, ReclaimLock, ProduceBlock, Tick,
     ScanFindsAdvance, ScanFindsNone, ScanFails, SetL1Cursor, SkipKnown,
     StartBatch, ApplyBlock, RejectBlock, RecordSpend, CallFails, WriteFails,
     CrashBetweenWrites, CrashElsewhere, Restart, vars, dbVars
<1> QED
  BY <1>1, <1>2, <1>3, <1>4, <1>5, <1>6

\* A batch is stored to its end before the anchor moves (follower.rs:117-132):
\* wherever the node dies or a write fails, its anchor is not ahead of it.
THEOREM AnchorNotAhead == Spec => []AnchorIsApplied
<1>1. Init => AnchorIsApplied
  BY DEF Init, AnchorIsApplied
<1>2. NodeInv /\ AnchorIsApplied /\ [Next]_vars => AnchorIsApplied'
  BY AppliedNext
<1> QED
  BY <1>1, <1>2, NodeInvHolds, PTL DEF Spec

\* The ledgers of blocks that are already there do not change.
ExecutedBy(list, h) == UNION {list[i] : i \in 1..h}

LEMMA ExecutedKeeps ==
    ASSUME NodeInv, [Next]_vars
    PROVE  \A h \in Int : h <= Len(blocks)
                          => ExecutedBy(blocks', h) = ExecutedBy(blocks, h)
<1> SUFFICES ASSUME NEW h \in Int, h <= Len(blocks)
             PROVE  ExecutedBy(blocks', h) = ExecutedBy(blocks, h)
  OBVIOUS
<1>0. blocks \in Seq(SUBSET Txs) /\ Len(blocks) \in Nat
  BY TypeFacts DEF NodeInv
<1>1. CASE ProduceBlock
  <2>1. PICK txs \in SUBSET Txs : blocks' = Append(blocks, txs)
    BY <1>1 DEF ProduceBlock
  <2>2. \A i \in 1..h : blocks'[i] = blocks[i]
    BY <1>0, <2>1, AppendProperties
  <2> QED
    BY <2>2 DEF ExecutedBy
<1>2. CASE UNCHANGED blocks
  BY <1>2 DEF ExecutedBy
<1>3. ProduceBlock \/ UNCHANGED blocks
  BY DEF Next, World, NodeStep, Fault, NewL1Block, ReclaimLock, StoreGenesis,
     AdoptAnchor0, Tick, ScanFindsAdvance, ScanFindsNone, ScanFails, SetL1Cursor,
     SkipKnown, StartBatch, ApplyBlock, RejectBlock, StoreBlock, SetAnchor,
     RecordSpend, CallFails, WriteFails, CrashBetweenWrites, CrashElsewhere,
     Restart, vars, worldVars
<1> QED
  BY <1>1, <1>2, <1>3

\* A ledger that is about to be stored is that of the block it is stored with.
ReplayInv ==
    /\ stored # -1 => snapshot = ExecutedBy(blocks, stored)
    /\ node.at = "store" => state = ExecutedBy(blocks, head + 1)

LEMMA ReplayNext ==
    ASSUME NodeInv, ReplayInv, [Next]_vars
    PROVE  ReplayInv'
<1>0. /\ stored \in {-1} \cup 0..Len(blocks) /\ head \in 0..Len(blocks)
      /\ Len(blocks) \in Nat
      /\ node.at \in {"block", "store"} => head + 1 <= Len(blocks)
  <2>1. node.at \in {"block", "store"} => head < AttHeight /\ AttHeight <= Len(blocks)
    BY DEF NodeInv, InBatch, TypeOK
  <2>2. node.at \in {"block", "store"} => AttHeight \in Nat
    BY AdvFacts
  <2> QED
    BY <2>1, <2>2, TypeFacts DEF NodeInv, TypeOK
<1>1. \A h \in Int : h <= Len(blocks)
                    => ExecutedBy(blocks', h) = ExecutedBy(blocks, h)
  BY ExecutedKeeps
<1>2. CASE StoreGenesis
  <2>1. stored' = 0 /\ snapshot' = {}
    BY <1>2 DEF StoreGenesis
  <2>3. node'.at # "store"
    BY <1>2, GotoShape DEF StoreGenesis, NodeInv, TypeOK, NodeType, Places, Writes
  <2>2. ExecutedBy(blocks', 0) = {}
    BY DEF ExecutedBy
  <2> QED
    BY <2>1, <2>2, <2>3 DEF ReplayInv
<1>3. CASE ApplyBlock
  <2>1. /\ state' = ExecutedBy(blocks, head + 1)
        /\ UNCHANGED <<head, stored, snapshot>>
        /\ node.at = "block"
    BY <1>3 DEF ApplyBlock, RootAgrees, dbVars, Executed, ExecutedBy
  <2>2. ExecutedBy(blocks', head + 1) = ExecutedBy(blocks, head + 1)
    BY <1>0, <1>1, <2>1
  <2>3. stored # -1 => ExecutedBy(blocks', stored) = ExecutedBy(blocks, stored)
    BY <1>0, <1>1
  <2> QED
    BY <2>1, <2>2, <2>3 DEF ReplayInv
<1>4. CASE StoreBlock
  <2>1. /\ stored' = head + 1 /\ snapshot' = state /\ node.at = "store"
    BY <1>4 DEF StoreBlock
  <2>2. node'.at # "store"
    BY <1>4, GotoShape DEF StoreBlock, NodeInv, TypeOK, NodeType, Places, Writes
  <2>3. ExecutedBy(blocks', head + 1) = ExecutedBy(blocks, head + 1)
    BY <1>0, <1>1, <2>1
  <2> QED
    BY <2>1, <2>2, <2>3 DEF ReplayInv
<1>5. ASSUME UNCHANGED <<stored, snapshot>>,
             node'.at = "store" => node.at = "store" /\ UNCHANGED <<state, head>>
      PROVE  ReplayInv'
  <2>1. stored # -1 => ExecutedBy(blocks', stored) = ExecutedBy(blocks, stored)
    BY <1>0, <1>1
  <2>2. node.at = "store" => ExecutedBy(blocks', head + 1) = ExecutedBy(blocks, head + 1)
    BY <1>0, <1>1
  <2> QED
    BY <1>5, <2>1, <2>2 DEF ReplayInv
<1>6. CASE World \/ UNCHANGED vars
  BY <1>5, <1>6 DEF World, NewL1Block, ReclaimLock, ProduceBlock, vars, memVars,
     dbVars
<1>7. CASE Fault
  <2>1. UNCHANGED <<stored, snapshot>>
    BY <1>7 DEF Fault, CallFails, WriteFails, CrashBetweenWrites, CrashElsewhere,
       Restart, dbVars
  <2>2. node'.at # "store"
    BY <1>7, GotoShape, IdleShape DEF Fault, CallFails, WriteFails,
       CrashBetweenWrites, CrashElsewhere, Restart, NodeInv, TypeOK, NodeType,
       Places
  <2> QED
    BY <1>5, <2>1, <2>2
<1>8. CASE NodeStep /\ ~StoreGenesis /\ ~ApplyBlock /\ ~StoreBlock
  <2>1. UNCHANGED <<stored, snapshot>>
    BY <1>8 DEF NodeStep, AdoptAnchor0, Tick, ScanFindsAdvance, ScanFindsNone,
       ScanFails, SetL1Cursor, SkipKnown, StartBatch, RejectBlock, SetAnchor,
       RecordSpend, dbVars
  <2>2. node'.at # "store"
    <3>1. node \in NodeType
      BY DEF NodeInv, TypeOK, NodeType
    <3>2. CASE RejectBlock \/ ScanFails
      BY <3>2, IdleShape DEF RejectBlock, ScanFails
    <3>3. CASE AdoptAnchor0 \/ ScanFindsNone \/ SkipKnown \/ StartBatch
               \/ SetAnchor \/ RecordSpend
      BY <3>1, <3>3, GotoShape DEF AdoptAnchor0, ScanFindsNone, SkipKnown,
         StartBatch, SetAnchor, RecordSpend, Places, Writes
    <3>4. CASE ScanFindsAdvance
      BY <3>1, <3>4 DEF ScanFindsAdvance, NodeType
    <3>5. CASE Tick
      BY <3>5, IdleShape DEF Tick, NodeType
    <3>6. CASE SetL1Cursor
      BY <3>1, <3>6, IdleShape DEF SetL1Cursor, NodeType
    <3> QED
      BY <1>8, <3>2, <3>3, <3>4, <3>5, <3>6 DEF NodeStep
  <2> QED
    BY <1>5, <2>1, <2>2
<1> QED
  BY <1>2, <1>3, <1>4, <1>6, <1>7, <1>8 DEF Next

\* The ledger in the file is that of the block next to it (follower.rs:214-229):
\* a restart resumes from a ledger every replay of the chain arrives at.
THEOREM StoreIsReplayable == Spec => []StoredReplays
<1>1. Init => ReplayInv
  BY DEF Init, ReplayInv, IdleNode
<1>2. NodeInv /\ ReplayInv /\ [Next]_vars => ReplayInv'
  BY ReplayNext
<1>3. ReplayInv => StoredReplays
  BY DEF ReplayInv, StoredReplays, Executed, ExecutedBy
<1> QED
  BY <1>1, <1>2, <1>3, NodeInvHolds, PTL DEF Spec

-----------------------------------------------------------------------------
(* What is served.                                                         *)

LEMMA NoTraceNext ==
    ASSUME NodeInv, RejectedLeavesNoTrace, [Next]_vars
    PROVE  RejectedLeavesNoTrace'
<1>0. torn \in Nat /\ node \in NodeType
  BY DEF NodeInv, TypeOK, NodeType
<1>1. CASE ApplyBlock
  <2>1. node'.at = "store"
    BY <1>0, <1>1, GotoShape DEF ApplyBlock, Places, Writes
  <2> QED
    BY <2>1 DEF RejectedLeavesNoTrace
<1>2. CASE StoreGenesis \/ StoreBlock
  BY <1>2 DEF StoreGenesis, StoreBlock, RejectedLeavesNoTrace
<1>3. CASE Fault
  <2>1. CASE CallFails
    BY <2>1 DEF CallFails, dbVars, RejectedLeavesNoTrace
  <2>2. CASE WriteFails \/ CrashBetweenWrites
    BY <1>0, <2>2 DEF WriteFails, CrashBetweenWrites, RejectedLeavesNoTrace
  <2>3. CASE CrashElsewhere
    BY <2>3 DEF CrashElsewhere, Restart, dbVars, RejectedLeavesNoTrace
  <2> QED
    BY <1>3, <2>1, <2>2, <2>3 DEF Fault
<1>4. CASE World \/ UNCHANGED vars
  BY <1>4 DEF World, NewL1Block, ReclaimLock, ProduceBlock, vars, memVars, dbVars,
     counters, RejectedLeavesNoTrace
<1>5. CASE NodeStep /\ ~StoreGenesis /\ ~ApplyBlock /\ ~StoreBlock
  <2>1. UNCHANGED <<state, head, stored, snapshot, torn>> /\ node.at # "store"
    BY <1>5 DEF NodeStep, AdoptAnchor0, Tick, ScanFindsAdvance, ScanFindsNone,
       ScanFails, SetL1Cursor, SkipKnown, StartBatch, RejectBlock, SetAnchor,
       RecordSpend, dbVars, counters
  <2> QED
    BY <2>1 DEF RejectedLeavesNoTrace
<1> QED
  BY <1>1, <1>2, <1>3, <1>4, <1>5 DEF Next

\* Between two blocks memory is what the file holds (follower.rs:164-229): a
\* block that failed a check, or was never fetched, is not half applied.
THEOREM MemoryIsStore == Spec => []RejectedLeavesNoTrace
<1>1. Init => RejectedLeavesNoTrace
  BY DEF Init, RejectedLeavesNoTrace
<1>2. NodeInv /\ RejectedLeavesNoTrace /\ [Next]_vars => RejectedLeavesNoTrace'
  BY NoTraceNext
<1> QED
  BY <1>1, <1>2, NodeInvHolds, PTL DEF Spec

\* A wallet gets from anchor_0 to `a` over the links.
Walked(list, a) ==
    \A n \in 1..Len(a) : /\ SubSeq(a, 1, n - 1) \in DOMAIN list
                        /\ list[SubSeq(a, 1, n - 1)] = SubSeq(a, 1, n)

\* Between its two writes the anchor is one link ahead.
WalkInv ==
    torn = 0 =>
    /\ (anchor # Nothing /\ node.at # "record") => Walked(spends, anchor)
    /\ node.at = "record" => Walked(spends, SpentAnchor)

LEMMA WalkNext ==
    ASSUME NodeInv, WalkInv, [Next]_vars
    PROVE  WalkInv'
<1>0. /\ torn \in Nat /\ node \in NodeType
      /\ \A place \in Places : Goto(place)
            => node'.at = place /\ node'.adv = node.adv
  BY GotoShape DEF NodeInv, TypeOK, NodeType
<1>1. CASE StoreGenesis
  <2>1. anchor' = Nothing /\ node'.at = "bootAnchor"
    BY <1>0, <1>1 DEF StoreGenesis, Places, Writes, NodeInv, Booted
  <2> QED
    BY <2>1 DEF WalkInv
<1>2. CASE AdoptAnchor0
  <2>1. anchor' = <<>> /\ node'.at = "idle" /\ Len(<<>>) = 0
    BY <1>0, <1>2 DEF AdoptAnchor0, Places, Writes
  <2> QED
    BY <2>1 DEF WalkInv, Walked
<1>3. CASE SetAnchor
  <2>1. /\ node'.at = "record" /\ node'.adv = node.adv /\ UNCHANGED <<spends, torn>>
        /\ node.at = "anchor" /\ anchor = SpentAnchor
    BY <1>0, <1>3 DEF SetAnchor, Places, Writes, NodeInv, InBatch, counters
  <2>2. SpentAnchor' = SpentAnchor
    BY <2>1 DEF SpentAnchor
  <2>3. anchor # Nothing
    <3>1. SpentAnchor \in Anchors
      BY <2>1, AdvFacts
    <3>2. Nothing = <<-1>> /\ Len(<<-1>>) = 1 /\ <<-1>>[1] = -1
      BY DEF Nothing
    <3>3. \A a \in Anchors : Len(a) = 1 => a[1] \in Nat
      BY ElementOfSeq DEF Anchors
    <3> QED
      BY <2>1, <3>1, <3>2, <3>3
  <2> QED
    BY <2>1, <2>2, <2>3 DEF WalkInv
<1>4. CASE RecordSpend
  <2>1. /\ node'.at = "scan" /\ node.at = "record"
        /\ anchor' = node.adv /\ torn' = torn
        /\ DOMAIN spends' = DOMAIN spends \cup {SpentAnchor}
        /\ \A a \in DOMAIN spends' :
              spends'[a] = IF a = SpentAnchor THEN node.adv ELSE spends[a]
    BY <1>0, <1>4 DEF RecordSpend, Places, NodeInv, InBatch, counters
  <2>2. /\ node.adv \in Anchors /\ Len(node.adv) \in Nat /\ Len(node.adv) >= 1
        /\ Len(SpentAnchor) = Len(node.adv) - 1
        /\ \A k \in 0..(Len(node.adv) - 1) :
              SubSeq(SpentAnchor, 1, k) = SubSeq(node.adv, 1, k)
    BY <2>1, AdvFacts
  <2>3. ASSUME torn = 0, NEW n \in 1..Len(node.adv)
        PROVE  /\ SubSeq(node.adv, 1, n - 1) \in DOMAIN spends'
               /\ spends'[SubSeq(node.adv, 1, n - 1)] = SubSeq(node.adv, 1, n)
    <3>1. CASE n = Len(node.adv)
      <4>1. SubSeq(node.adv, 1, n) = node.adv
        BY <2>2, <3>1, SubSeqFull DEF Anchors
      <4>2. SubSeq(node.adv, 1, n - 1) = SpentAnchor
        BY <3>1 DEF SpentAnchor
      <4> QED
        BY <2>1, <4>1, <4>2
    <3>2. CASE n # Len(node.adv)
      <4>1. n \in 1..Len(SpentAnchor) /\ n - 1 \in 0..Len(node.adv)
        BY <2>2, <2>3, <3>2
      <4>2. /\ SubSeq(SpentAnchor, 1, n - 1) \in DOMAIN spends
            /\ spends[SubSeq(SpentAnchor, 1, n - 1)] = SubSeq(SpentAnchor, 1, n)
        BY <2>1, <2>3, <4>1 DEF WalkInv, Walked
      <4>3. /\ SubSeq(SpentAnchor, 1, n - 1) = SubSeq(node.adv, 1, n - 1)
            /\ SubSeq(SpentAnchor, 1, n) = SubSeq(node.adv, 1, n)
        BY <2>2, <2>3, <3>2
      <4>4. Len(SubSeq(node.adv, 1, n - 1)) = n - 1
        BY <2>2, <4>1, Prefixes
      <4>5. SubSeq(node.adv, 1, n - 1) # SpentAnchor
        BY <2>2, <2>3, <3>2, <4>4
      <4> QED
        BY <2>1, <4>2, <4>3, <4>5
    <3> QED
      BY <3>1, <3>2
  <2> QED
    BY <2>1, <2>3 DEF WalkInv, Walked
<1>5. ASSUME UNCHANGED <<anchor, spends>>, node.at # "record", node'.at # "record",
             torn' = 0 => torn = 0
      PROVE  WalkInv'
  BY <1>5 DEF WalkInv
<1>6. CASE World \/ UNCHANGED vars
  BY <1>6 DEF World, NewL1Block, ReclaimLock, ProduceBlock, vars, memVars, dbVars,
     counters, WalkInv, SpentAnchor
<1>7. CASE Fault
  <2>1. CASE CallFails
    <3>1. node.at # "record" /\ node'.at # "record"
      BY <2>1, IdleShape DEF CallFails
    <3> QED
      BY <1>5, <2>1, <3>1 DEF CallFails, dbVars
  <2>2. CASE WriteFails \/ CrashBetweenWrites
    BY <1>0, <2>2 DEF WriteFails, CrashBetweenWrites, WalkInv
  <2>3. CASE CrashElsewhere
    <3>1. node.at # "record" /\ node'.at # "record"
      BY <1>0, <2>3, IdleShape DEF CrashElsewhere, Restart, Places
    <3> QED
      BY <1>5, <2>3, <3>1 DEF CrashElsewhere, Restart, dbVars
  <2> QED
    BY <1>7, <2>1, <2>2, <2>3 DEF Fault
<1>8. CASE NodeStep /\ ~StoreGenesis /\ ~AdoptAnchor0 /\ ~SetAnchor /\ ~RecordSpend
  <2>1. UNCHANGED <<anchor, spends, torn>> /\ node.at # "record"
    BY <1>8 DEF NodeStep, Tick, ScanFindsAdvance, ScanFindsNone, ScanFails,
       SetL1Cursor, SkipKnown, StartBatch, ApplyBlock, RejectBlock, StoreBlock,
       dbVars, counters
  <2>2. node'.at # "record"
    <3>2. CASE RejectBlock \/ ScanFails
      BY <3>2, IdleShape DEF RejectBlock, ScanFails
    <3>3. CASE ScanFindsNone \/ SkipKnown \/ StartBatch \/ ApplyBlock
      BY <1>0, <3>3 DEF ScanFindsNone, SkipKnown, StartBatch, ApplyBlock, Places,
         Writes
    <3>4. CASE ScanFindsAdvance
      BY <1>0, <3>4 DEF ScanFindsAdvance, NodeType
    <3>5. CASE Tick
      BY <3>5, IdleShape DEF Tick, NodeType
    <3>6. CASE SetL1Cursor
      BY <1>0, <3>6, IdleShape DEF SetL1Cursor, NodeType
    <3>7. CASE StoreBlock
      BY <1>0, <3>7 DEF StoreBlock, Places, Writes
    <3> QED
      BY <1>8, <3>2, <3>3, <3>4, <3>5, <3>6, <3>7 DEF NodeStep
  <2> QED
    BY <1>5, <2>1, <2>2
<1> QED
  BY <1>1, <1>2, <1>3, <1>4, <1>6, <1>7, <1>8 DEF Next

\* Unless a crash or a failed write has fallen between set_anchor and
\* record_anchor_spend (torn = 0), a wallet that asks for the spender of every
\* anchor from anchor_0 on arrives at the anchor the node follows
\* (follower.rs:130-131, api.rs:386-406).  After one the link is lost for good.
THEOREM WalletReachesAnchor == Spec => []WalkReachesAnchor
<1>1. Init => WalkInv
  BY DEF Init, WalkInv, IdleNode
<1>2. NodeInv /\ WalkInv /\ [Next]_vars => WalkInv'
  BY WalkNext
<1>3. WalkInv => WalkReachesAnchor
  BY DEF WalkInv, WalkReachesAnchor, Walked
<1> QED
  BY <1>1, <1>2, <1>3, NodeInvHolds, PTL DEF Spec
-----------------------------------------------------------------------------
(* Nothing is skipped while L1 does not reorg.  The stored anchor is on L1, *)
(* it holds every attestation the cursor has passed, and the L1 block that  *)
(* is being scanned is the one after the cursor: when it yields no more     *)
(* advances, every attestation in it is in the anchor.                      *)

\* `a` names the first attestations of `list`; those up to L1 height `h` are
\* among them; the attestations are in the order of their L1 blocks.
OnL1(list, a) == Len(a) <= Len(list) /\ \A i \in 1..Len(a) : a[i] = list[i].l2
Covers(list, a, h) == \A i \in 1..Len(list) : list[i].at <= h => i <= Len(a)
InOrder(list, tip) ==
    \A i \in 1..Len(list) :
       /\ 1 <= list[i].at /\ list[i].at <= tip
       /\ \A j \in 1..Len(list) : i <= j => list[i].at <= list[j].at

\* The L1 block in hand is the next one, and L1 has it.
InHand ==
    node.at \in {"scan", "advance", "cursor", "block", "store", "anchor", "record"}
    => node.scan = cursor + 1 /\ node.scan <= node.tip /\ node.tip <= l1Tip

SkipInv ==
    reorgs = 0 =>
    /\ InOrder(path, l1Tip)
    /\ cursor <= l1Tip
    /\ anchor = Nothing => cursor = 0
    /\ node.at \in {"genesis", "bootAnchor"} => anchor = Nothing
    /\ InHand
    /\ anchor # Nothing => OnL1(path, anchor) /\ Covers(path, anchor, cursor)
    /\ node.at \in {"advance", "block", "store", "anchor"} => OnL1(path, node.adv)
    /\ node.at = "cursor" => anchor # Nothing /\ Covers(path, anchor, node.scan)

LEMMA NothingIsNoAnchor == Nothing \notin Anchors
<1>1. Nothing = <<-1>> /\ Len(<<-1>>) = 1 /\ <<-1>>[1] = -1
  BY DEF Nothing
<1>2. \A a \in Anchors : Len(a) = 1 => a[1] \in Nat
  BY ElementOfSeq DEF Anchors
<1> QED
  BY <1>1, <1>2

\* The anchors of L1 by their elements, and two with the same are the same.
LEMMA AnchorElements ==
    ASSUME TypeOK, NEW n \in 0..Len(path)
    PROVE  /\ AnchorAt(n) \in Anchors /\ Len(AnchorAt(n)) = n
           /\ OnL1(path, AnchorAt(n))
<1>1. Heights \in [1..Len(path) -> Nat \ {0}] /\ Len(path) \in Nat
  BY TypeFacts DEF Heights, AttType
<1>2. Heights \in Seq(Nat \ {0})
  BY <1>1, SeqDef
<1>3. Heights \in Anchors /\ Len(Heights) = Len(path)
  BY <1>1, <1>2, LenProperties DEF Anchors
<1>4. /\ AnchorAt(n) \in Anchors /\ Len(AnchorAt(n)) = n
      /\ \A i \in 1..n : AnchorAt(n)[i] = Heights[i]
  BY <1>1, <1>3, Prefixes DEF AnchorAt
<1>5. \A i \in 1..n : Heights[i] = path[i].l2
  BY <1>1 DEF Heights
<1> QED
  BY <1>1, <1>4, <1>5 DEF OnL1

LEMMA SameElements ==
    ASSUME NEW a \in Anchors, NEW b \in Anchors, Len(a) = Len(b),
           \A i \in 1..Len(a) : a[i] = b[i]
    PROVE  a = b
<1>1. /\ a \in [1..Len(a) -> Nat \ {0}]
      /\ b \in [1..Len(b) -> Nat \ {0}]
  BY LenProperties DEF Anchors
<1> QED
  BY <1>1

\* An anchor on L1 is the one L1 has at its length, and its prefixes are too.
LEMMA OnL1Is ==
    ASSUME TypeOK, NEW a \in Anchors, OnL1(path, a), NEW n \in 0..Len(a)
    PROVE  AnchorAt(n) = SubSeq(a, 1, n) /\ n \in 0..Len(path)
<1>1. Len(a) \in Nat /\ Len(path) \in Nat /\ Len(a) <= Len(path)
  BY TypeFacts, LenProperties DEF OnL1, Anchors
<1>2. n \in 0..Len(path)
  BY <1>1
<1>3. /\ AnchorAt(n) \in Anchors /\ Len(AnchorAt(n)) = n
      /\ OnL1(path, AnchorAt(n))
  BY <1>2, AnchorElements
<1>4. /\ SubSeq(a, 1, n) \in Anchors /\ Len(SubSeq(a, 1, n)) = n
      /\ \A i \in 1..n : SubSeq(a, 1, n)[i] = a[i]
  BY Prefixes
<1>5. \A i \in 1..n : AnchorAt(n)[i] = SubSeq(a, 1, n)[i]
  BY <1>1, <1>3, <1>4 DEF OnL1
<1> QED
  BY <1>2, <1>3, <1>4, <1>5, SameElements

LEMMA WholeAnchor ==
    ASSUME TypeOK, NEW a \in Anchors, OnL1(path, a)
    PROVE  AnchorAt(Len(a)) = a /\ Len(a) \in 0..Len(path)
<1>1. Len(a) \in Nat /\ a \in Seq(Nat \ {0})
  BY LenProperties DEF Anchors
<1>2. SubSeq(a, 1, Len(a)) = a
  BY <1>1, SubSeqFull
<1> QED
  BY <1>1, <1>2, OnL1Is

\* Without a reorg L1 only grows, by attestations in its new block.
LEMMA OnlyGrows ==
    ASSUME TypeOK, PathProduced, NEW depth \in 0..(FinalityDepth - 1),
           NewL1Block(depth), reorgs' = 0, InOrder(path, l1Tip)
    PROVE  /\ reorgs = 0 /\ l1Tip' = l1Tip + 1
           /\ Len(path) <= Len(path')
           /\ \A i \in 1..Len(path) : path'[i] = path[i]
           /\ \A i \in 1..Len(path') : i > Len(path) => path'[i].at = l1Tip + 1
<1>0. /\ path \in Seq(AttType) /\ Len(path) \in Nat /\ l1Tip \in Nat
      /\ reorgs \in Nat /\ depth \in Nat
      /\ \A i \in 1..Len(path) : path[i] \in AttType
  BY TypeFacts, FollowerAssumption DEF TypeOK
<1>1. depth = 0 /\ reorgs = 0 /\ l1Tip' = l1Tip + 1
  BY <1>0 DEF NewL1Block
<1>2. Cardinality(Included(0)) = Len(path)
  <2>1. Included(0) = 1..Len(path)
    BY <1>0 DEF Included, InOrder, AttType
  <2>2. 1 \in Int /\ Len(path) \in Int
    BY <1>0
  <2>3. Cardinality(1..Len(path))
        = IF 1 > Len(path) THEN 0 ELSE Len(path) - 1 + 1
    BY <2>2, FS_Interval
  <2> QED
    BY <1>0, <2>1, <2>3
<1>3. PICK tail \in Tails(0) : path' = SubSeq(path, 1, Len(path)) \o tail
  BY <1>1, <1>2 DEF NewL1Block
<1>4. path' = path \o tail
  BY <1>0, <1>3, SubSeqFull
<1> DEFINE New == {a \in AttType : a.at = l1Tip + 1}
<1>5. tail \in Seq(New)
  <2>1. Attestation(0) \subseteq New
    <3>1. Len(blocks) \in Nat
      BY TypeFacts
    <3> QED
      BY <1>0, <3>1 DEF Attestation, AttType
  <2> HIDE DEF New
  <2>2. ASSUME NEW a \in New, NEW b \in New
        PROVE  <<a>> \in Seq(New) /\ <<a, b>> \in Seq(New)
    OBVIOUS
  <2>3. CASE tail = <<>>
    BY <2>3, EmptySeq
  <2>4. ASSUME NEW a \in Attestation(0), tail = <<a>>
        PROVE  tail \in Seq(New)
    BY <2>1, <2>2, <2>4
  <2>5. ASSUME NEW a \in Attestation(0), NEW b \in Attestation(0),
               tail = <<a, b>>
        PROVE  tail \in Seq(New)
    BY <2>1, <2>2, <2>5
  <2>6. \/ tail = <<>>
        \/ \E a \in Attestation(0) : tail = <<a>>
        \/ \E a, b \in Attestation(0) : tail = <<a, b>>
    BY <1>3 DEF Tails
  <2> QED
    BY <2>3, <2>4, <2>5, <2>6
<1>6. Len(tail) \in Nat /\ \A i \in 1..Len(tail) : tail[i] \in New
  <2> HIDE DEF New
  <2> QED
    BY <1>5, ElementOfSeq, LenProperties
<1>7. tail \in Seq(AttType)
  <2>1. New \subseteq AttType
    OBVIOUS
  <2> HIDE DEF New
  <2> QED
    BY <1>5, <2>1, SeqMonotonic
<1>8. /\ Len(path') = Len(path) + Len(tail)
      /\ \A i \in 1..(Len(path) + Len(tail)) :
            path'[i] = IF i <= Len(path) THEN path[i] ELSE tail[i - Len(path)]
  BY <1>0, <1>4, <1>7, ConcatProperties
<1>9. \A i \in 1..Len(path') : i > Len(path) => path'[i] \in New
  <2> HIDE DEF New
  <2> QED
    BY <1>0, <1>6, <1>8
<1> QED
  BY <1>0, <1>1, <1>6, <1>8, <1>9
\* L1 grows by a block.
LEMMA SkipL1 ==
    ASSUME NodeInv, SkipInv, NEW depth \in 0..(FinalityDepth - 1),
           NewL1Block(depth)
    PROVE  SkipInv'
<1> SUFFICES ASSUME reorgs' = 0 PROVE SkipInv'
  BY DEF SkipInv
<1>0. /\ TypeOK /\ PathProduced /\ reorgs \in Nat /\ depth \in Nat
      /\ Len(path) \in Nat /\ l1Tip \in Nat /\ cursor \in Nat /\ node \in NodeType
      /\ \A i \in 1..Len(path) : path[i] \in AttType
  BY SMTT(30), TypeFacts, FollowerAssumption DEF NodeInv, TypeOK
<1>1. reorgs = 0
  BY <1>0 DEF NewL1Block
<1>2. InOrder(path, l1Tip)
  BY <1>1 DEF SkipInv
<1>3. /\ l1Tip' = l1Tip + 1
      /\ Len(path) <= Len(path')
      /\ \A i \in 1..Len(path) : path'[i] = path[i]
      /\ \A i \in 1..Len(path') : i > Len(path) => path'[i].at = l1Tip + 1
  BY <1>0, <1>2, OnlyGrows
<1>4. path' \in Seq(AttType) /\ Len(path') \in Nat
      /\ UNCHANGED <<node, cursor, anchor>>
  BY <1>0, NewL1BlockShape, LenProperties DEF memVars, dbVars
<1>5. InOrder(path', l1Tip')
  <2>1. \A i \in 1..Len(path') : i <= Len(path) => i \in 1..Len(path)
    OBVIOUS
  <2>2. ASSUME NEW i \in 1..Len(path')
        PROVE  1 <= path'[i].at /\ path'[i].at <= l1Tip + 1
    BY SMTT(30), <1>0, <1>2, <1>3, <2>1 DEF InOrder, AttType
  <2>3. ASSUME NEW i \in 1..Len(path'), NEW j \in 1..Len(path'), i <= j
        PROVE  path'[i].at <= path'[j].at
    <3>1. CASE j <= Len(path)
      <4>1. i \in 1..Len(path) /\ j \in 1..Len(path)
        BY <1>0, <2>3, <3>1
      <4> QED
        BY <1>2, <1>3, <2>3, <4>1 DEF InOrder
    <3>2. CASE ~(j <= Len(path))
      <4>1. path'[j].at = l1Tip + 1
        BY <1>0, <1>3, <3>2
      <4> QED
        BY <2>2, <2>3, <4>1
    <3> QED
      BY <3>1, <3>2
  <2> QED
    BY <1>3, <2>2, <2>3 DEF InOrder
<1>6. ASSUME NEW a, OnL1(path, a) PROVE OnL1(path', a)
  <2>1. \A i \in 1..Len(a) : i <= Len(path)
    BY <1>0, <1>6 DEF OnL1
  <2> QED
    BY <1>0, <1>3, <1>4, <1>6, <2>1 DEF OnL1
<1>7. ASSUME NEW a, NEW h \in Nat, h <= l1Tip, Covers(path, a, h)
      PROVE  Covers(path', a, h)
  <2> SUFFICES ASSUME NEW i \in 1..Len(path'), path'[i].at <= h
               PROVE  i <= Len(a)
    BY DEF Covers
  <2>1. i <= Len(path)
    BY <1>0, <1>3, <1>7
  <2>2. i \in 1..Len(path) /\ path'[i] = path[i]
    BY <1>0, <1>3, <2>1
  <2> QED
    BY <1>7, <2>2 DEF Covers
<1>8. node.at \in {"scan", "advance", "cursor", "block", "store", "anchor", "record"}
      => node.scan \in Nat /\ node.scan <= l1Tip
  BY <1>0, <1>1 DEF SkipInv, InHand, NodeType
<1>9. InHand'
  BY <1>0, <1>1, <1>3, <1>4 DEF SkipInv, InHand, NodeType
<1>10. cursor <= l1Tip
  BY <1>1 DEF SkipInv
<1>11. anchor' # Nothing => OnL1(path', anchor') /\ Covers(path', anchor', cursor')
  BY <1>0, <1>1, <1>4, <1>6, <1>7, <1>10 DEF SkipInv
<1>12. node'.at = "cursor" => anchor' # Nothing /\ Covers(path', anchor', node'.scan)
  BY <1>1, <1>4, <1>7, <1>8 DEF SkipInv
<1> QED
  BY <1>0, <1>1, <1>3, <1>4, <1>5, <1>6, <1>9, <1>10, <1>11, <1>12 DEF SkipInv

\* The node goes on with what it has.
LEMMA SkipStays ==
    ASSUME SkipInv, UNCHANGED <<reorgs, path, l1Tip, cursor, anchor>>,
           node'.at # "cursor", node'.at # "bootAnchor",
           node'.at = "genesis" => anchor = Nothing,
           node'.at \in {"scan", "advance", "block", "store", "anchor", "record"}
           => /\ node.at \in {"scan", "advance", "block", "store", "anchor", "record"}
              /\ node'.scan = node.scan /\ node'.tip = node.tip
              /\ node'.adv = node.adv,
           node'.at \in {"advance", "block", "store", "anchor"}
           => node.at \in {"advance", "block", "store", "anchor"}
    PROVE  SkipInv'
BY DEF SkipInv, InHand

\* One step of the node.
LEMMA SkipTick ==
    ASSUME NodeInv, SkipInv,
           \/ StoreGenesis \/ AdoptAnchor0
           \/ Tick \/ ScanFindsAdvance \/ ScanFindsNone \/ ScanFails \/ SetL1Cursor
    PROVE  SkipInv'
<1>0. /\ TypeOK /\ node \in NodeType /\ l1Tip \in Nat /\ cursor \in Nat
      /\ anchor \in Anchors \cup {Nothing} /\ Len(path) \in Nat
      /\ \A i \in 1..Len(path) : path[i] \in AttType
      /\ UNCHANGED <<reorgs, path, l1Tip>>
  BY TypeFacts DEF NodeInv, TypeOK, StoreGenesis, AdoptAnchor0, Tick,
     ScanFindsAdvance, ScanFindsNone, ScanFails, SetL1Cursor, worldVars, counters
<1> SUFFICES ASSUME reorgs = 0, reorgs' = 0 PROVE SkipInv'
  BY <1>0 DEF SkipInv
<1>1. CASE StoreGenesis
  <2>1. /\ node'.at = "bootAnchor" /\ cursor' = 0 /\ anchor' = anchor
        /\ anchor = Nothing
    BY <1>0, <1>1, GotoShape DEF StoreGenesis, Places, Writes, SkipInv
  <2> QED
    BY <1>0, <2>1 DEF SkipInv, InHand
<1>2. CASE AdoptAnchor0
  <2>1. /\ node'.at = "idle" /\ anchor' = <<>> /\ cursor' = cursor /\ cursor = 0
    BY <1>0, <1>2, GotoShape DEF AdoptAnchor0, Places, Writes, SkipInv
  <2>2. Len(<<>>) = 0 /\ <<>> \in Anchors
    BY EmptySeq DEF Anchors
  <2>3. OnL1(path, <<>>)
    BY <1>0, <2>2 DEF OnL1
  <2>4. Covers(path, <<>>, 0)
    BY <1>0 DEF Covers, SkipInv, InOrder, AttType
  <2>5. <<>> # Nothing
    BY <2>2, NothingIsNoAnchor
  <2> QED
    BY <1>0, <2>1, <2>3, <2>4, <2>5 DEF SkipInv, InHand
<1>3. CASE Tick
  <2>1. /\ node'.at = "scan" /\ node'.tip = l1Tip /\ node'.scan = cursor + 1
        /\ cursor' = cursor /\ anchor' = anchor /\ l1Tip > cursor
    BY <1>3, IdleShape DEF Tick, NodeType, dbVars
  <2> QED
    BY <1>0, <2>1 DEF SkipInv, InHand
<1>4. CASE ScanFindsAdvance
  <2>1. PICK n \in 1..Len(path) :
            /\ Advances(n)
            /\ node' = [node EXCEPT !.at = "advance", !.adv = AnchorAt(n)]
    BY <1>4 DEF ScanFindsAdvance
  <2>2. OnL1(path, AnchorAt(n))
    BY <1>0, AnchorElements
  <2>3. /\ node'.at = "advance" /\ node'.adv = AnchorAt(n) /\ node.at = "scan"
        /\ node'.scan = node.scan /\ node'.tip = node.tip
        /\ cursor' = cursor /\ anchor' = anchor
    BY <1>0, <1>4, <2>1 DEF ScanFindsAdvance, NodeType, dbVars
  <2> QED
    BY <1>0, <2>2, <2>3 DEF SkipInv, InHand
<1>5. CASE ScanFindsNone
  <2>1. /\ node'.at = "cursor" /\ node.at = "scan"
        /\ node'.scan = node.scan /\ node'.tip = node.tip
        /\ cursor' = cursor /\ anchor' = anchor /\ anchor # Nothing
    BY <1>0, <1>5, GotoShape DEF ScanFindsNone, Places, dbVars
  <2>2. /\ node.scan = cursor + 1 /\ OnL1(path, anchor) /\ InOrder(path, l1Tip)
        /\ Covers(path, anchor, cursor)
    BY <2>1 DEF SkipInv, InHand
  <2>3. /\ anchor \in Anchors /\ AnchorAt(Len(anchor)) = anchor
        /\ Len(anchor) \in 0..Len(path) /\ Len(anchor) \in Nat
    BY <1>0, <2>1, <2>2, WholeAnchor
  <2>4. Covers(path, anchor, node.scan)
    <3> SUFFICES ASSUME NEW i \in 1..Len(path), path[i].at <= cursor + 1,
                        ~(i <= Len(anchor))
                 PROVE  FALSE
      BY <2>2 DEF Covers
    <3> DEFINE n == Len(anchor) + 1
    <3>1. n \in 1..Len(path) /\ n <= i
      BY <1>0, <2>3
    <3>2. path[n].at <= path[i].at
      BY <2>2, <3>1 DEF InOrder
    <3>3. ~(path[n].at <= cursor)
      BY <2>2, <2>3, <3>1 DEF Covers
    <3>4. path[n].at = node.scan
      BY <1>0, <2>2, <3>1, <3>2, <3>3 DEF AttType
    <3>5. AnchorAt(n - 1) = anchor
      BY <2>3
    <3>6. Advances(n)
      BY <3>1, <3>4, <3>5 DEF Advances
    <3> QED
      BY <1>5, <3>1, <3>6 DEF ScanFindsNone
  <2> QED
    BY <1>0, <2>1, <2>4 DEF SkipInv, InHand
<1>6. CASE ScanFails
  BY <1>0, <1>6, SkipStays, IdleShape DEF ScanFails, dbVars
<1>7. CASE SetL1Cursor
  <2>1. /\ node.at = "cursor" /\ cursor' = node.scan /\ anchor' = anchor
        /\ node' = IF node.scan < node.tip
                   THEN [node EXCEPT !.at = "scan", !.scan = @ + 1]
                   ELSE IdleNode
    BY <1>7 DEF SetL1Cursor
  <2>2. /\ anchor # Nothing /\ Covers(path, anchor, node.scan)
        /\ OnL1(path, anchor)
        /\ node.scan <= node.tip /\ node.tip <= l1Tip
        /\ node.scan \in Nat /\ node.tip \in Nat
    BY <1>0, <2>1 DEF SkipInv, InHand, NodeType
  <2>3. CASE node.scan < node.tip
    <3>1. /\ node'.at = "scan" /\ node'.scan = node.scan + 1
          /\ node'.tip = node.tip
      BY <1>0, <2>1, <2>3 DEF NodeType
    <3> QED
      BY <1>0, <2>1, <2>2, <2>3, <3>1 DEF SkipInv, InHand
  <2>4. CASE ~(node.scan < node.tip)
    <3>1. node'.at = "idle"
      BY <2>1, <2>4, IdleShape
    <3> QED
      BY <1>0, <2>1, <2>2, <3>1 DEF SkipInv, InHand
  <2> QED
    BY <2>3, <2>4
<1> QED
  BY <1>1, <1>2, <1>3, <1>4, <1>5, <1>6, <1>7

LEMMA SkipBatch ==
    ASSUME NodeInv, SkipInv,
           \/ SkipKnown \/ StartBatch \/ ApplyBlock \/ RejectBlock \/ StoreBlock
           \/ SetAnchor \/ RecordSpend
    PROVE  SkipInv'
<1>0. /\ TypeOK /\ node \in NodeType /\ UNCHANGED <<reorgs, path, l1Tip, cursor>>
      /\ anchor \in Anchors \cup {Nothing} /\ Len(path) \in Nat
  BY TypeFacts DEF NodeInv, TypeOK, SkipKnown, StartBatch, ApplyBlock, RejectBlock,
     StoreBlock, SetAnchor, RecordSpend, worldVars, dbVars, counters
<1>1. CASE RejectBlock
  BY <1>0, <1>1, SkipStays, IdleShape DEF RejectBlock, dbVars
<1>2. CASE SkipKnown \/ StartBatch \/ ApplyBlock \/ StoreBlock \/ RecordSpend
  <2>1. \E place \in {"scan", "block", "store", "anchor"} : Goto(place)
    BY <1>2 DEF SkipKnown, StartBatch, ApplyBlock, StoreBlock, RecordSpend
  <2>2. /\ node'.at \in {"scan", "block", "store", "anchor"}
        /\ node'.adv = node.adv /\ node'.tip = node.tip /\ node'.scan = node.scan
    BY <1>0, <2>1, GotoShape DEF Places, Writes
  <2>3. /\ anchor' = anchor
        /\ node.at \in {"advance", "block", "store", "record"}
    BY <1>2 DEF SkipKnown, StartBatch, ApplyBlock, StoreBlock, RecordSpend, dbVars
  <2>4. node.at = "record" => node'.at = "scan"
    BY <1>0, <1>2, GotoShape DEF SkipKnown, StartBatch, ApplyBlock, StoreBlock,
       RecordSpend, Places, Writes
  <2> QED
    BY <1>0, <2>2, <2>3, <2>4, SkipStays
<1>3. CASE SetAnchor
  <2>1. /\ node'.at = "record" /\ node'.tip = node.tip /\ node'.scan = node.scan
        /\ anchor' = node.adv /\ node.at = "anchor" /\ anchor = SpentAnchor
    BY <1>0, <1>3, GotoShape DEF SetAnchor, Places, Writes, NodeInv, InBatch
  <2>2. /\ node.adv \in Anchors /\ Len(node.adv) \in Nat
        /\ SpentAnchor \in Anchors /\ Len(SpentAnchor) = Len(node.adv) - 1
    BY <2>1, AdvFacts
  <2>3. anchor # Nothing /\ node.adv # Nothing
    BY <2>1, <2>2, NothingIsNoAnchor
  <2>4. ASSUME NEW h, Covers(path, anchor, h) PROVE Covers(path, node.adv, h)
    BY <1>0, <2>1, <2>2, <2>4 DEF Covers
  <2> QED
    BY <1>0, <2>1, <2>3, <2>4 DEF SkipInv, InHand
<1> QED
  BY <1>1, <1>2, <1>3

LEMMA SkipNext ==
    ASSUME NodeInv, SkipInv, [Next]_vars
    PROVE  SkipInv'
<1>0. node \in NodeType
  BY DEF NodeInv, TypeOK, NodeType
<1>1. CASE \E depth \in 0..(FinalityDepth - 1) : NewL1Block(depth)
  BY <1>1, SkipL1
<1>2. CASE (\E m \in Mints : ReclaimLock(m)) \/ ProduceBlock \/ UNCHANGED vars
  <2>1. UNCHANGED <<reorgs, path, l1Tip, cursor, anchor, node>>
    BY <1>2 DEF ReclaimLock, ProduceBlock, vars, worldVars, memVars, dbVars, counters
  <2> QED
    BY <2>1 DEF SkipInv, InHand
<1>3. CASE NodeStep
  BY <1>3, SkipTick, SkipBatch DEF NodeStep
<1>4. CASE Fault
  <2>1. UNCHANGED <<reorgs, path, l1Tip, cursor, anchor>>
    BY <1>4 DEF Fault, CallFails, WriteFails, CrashBetweenWrites, CrashElsewhere,
       Restart, worldVars, dbVars
  <2>2. \/ node' = IdleNode
        \/ Goto("genesis") /\ stored = -1
    BY <1>4 DEF Fault, CallFails, WriteFails, CrashBetweenWrites, CrashElsewhere,
       Restart
  <2>3. node'.at \in {"idle", "genesis"}
    BY <1>0, <2>2, GotoShape, IdleShape DEF Places
  <2>4. node'.at = "genesis" => anchor = Nothing
    BY <2>2, IdleShape DEF NodeInv, Booted
  <2> QED
    BY <2>1, <2>3, <2>4, SkipStays
<1> QED
  BY <1>1, <1>2, <1>3, <1>4 DEF Next, World

\* While L1 does not reorg, every attestation up to the cursor is in the stored
\* anchor (follower.rs:64-90): the loop over an L1 block ends only when it yields
\* no advance, and the cursor moves only past the block it ended on.
THEOREM NoneIsSkipped == Spec => []NothingSkipped
<1>1. Init => SkipInv
  <2> SUFFICES ASSUME Init PROVE SkipInv
    OBVIOUS
  <2>1. path = <<>> /\ Len(path) = 0 /\ node.at = "genesis"
    BY IdleShape DEF Init, NodeType
  <2> QED
    BY <2>1 DEF Init, SkipInv, InOrder, InHand
<1>2. NodeInv /\ SkipInv /\ [Next]_vars => SkipInv'
  BY SkipNext
<1>3. NodeInv /\ SkipInv => NothingSkipped
  <2> SUFFICES ASSUME NodeInv, SkipInv, reorgs = 0, anchor # Nothing
               PROVE  IsPrefix(AnchorAt(Cardinality(Scanned)), anchor)
    BY DEF NothingSkipped
  <2>1. /\ TypeOK /\ anchor \in Anchors /\ OnL1(path, anchor)
        /\ Covers(path, anchor, cursor)
    BY DEF NodeInv, TypeOK, SkipInv
  <2>2. Len(anchor) \in Nat
    BY <2>1, LenProperties DEF Anchors
  <2> DEFINE c == Cardinality(Scanned)
  <2>3. c \in 0..Len(anchor)
    <3>1. /\ IsFiniteSet(1..Len(anchor))
          /\ Cardinality(1..Len(anchor))
             = IF 1 > Len(anchor) THEN 0 ELSE Len(anchor) - 1 + 1
      <4>1. 1 \in Int /\ Len(anchor) \in Int
        BY <2>2
      <4> QED
        BY <4>1, FS_Interval
    <3>2. Scanned \in SUBSET (1..Len(anchor))
      BY <2>1, <2>2 DEF Scanned, Covers
    <3>3. IsFiniteSet(Scanned) /\ c <= Cardinality(1..Len(anchor))
      BY <3>1, <3>2, FS_Subset
    <3>4. c \in Nat
      BY <3>3, FS_CardinalityType
    <3> QED
      BY <2>2, <3>1, <3>3, <3>4
  <2>4. AnchorAt(c) = SubSeq(anchor, 1, c) /\ Len(SubSeq(anchor, 1, c)) = c
    <3> HIDE DEF c
    <3> QED
      BY <2>1, <2>3, OnL1Is, Prefixes
  <2> QED
    BY <2>2, <2>3, <2>4 DEF IsPrefix
<1> QED
  BY <1>1, <1>2, <1>3, NodeInvHolds, PTL DEF Spec
=============================================================================
