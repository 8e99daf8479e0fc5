--------------------------------- MODULE Smt ---------------------------------
(***************************************************************************)
(* The sparse Merkle tree over the accounts of a ledger (hodl-core         *)
(* smt.rs) and the witness of a block (witness.rs): roots, inclusion       *)
(* proofs, and the two sparse operations a light wallet runs instead of    *)
(* keeping the ledger, apply_updates and refresh_observer.                 *)
(*                                                                         *)
(* A hash is the term it is computed from, so that hashes are collision    *)
(* free and their domain tags tell them apart.                             *)
(***************************************************************************)
EXTENDS Ledger, Sequences, FiniteSets

CONSTANTS
    TreeDepth,      \* TREE_DEPTH
    Bits            \* of each address, its bits from the root down

ASSUME SmtAssumption ==
    /\ TreeDepth \in Nat \ {0}
    /\ Bits \in [Addrs -> [1..TreeDepth -> {0, 1}]]
    /\ \A a, b \in Addrs : Bits[a] = Bits[b] => a = b
    /\ MinFee > 0

-----------------------------------------------------------------------------
(* Leaves.  An account is in the BTreeMap once it was credited, with an    *)
(* amount or a fee, both positive: never with balance and nonce both 0.    *)

EmptyLeaf == [kind |-> "empty", balance |-> 0, nonce |-> 0]
AccountLeaf(b, n) == [kind |-> "account", balance |-> b, nonce |-> n]

LeafOf(l, a) ==
    IF l.balance[a] = 0 /\ l.nonce[a] = 0 THEN EmptyLeaf
    ELSE AccountLeaf(l.balance[a], l.nonce[a])

BranchHash(left, right) == <<"branch", left, right>>
LeafHash(a, leaf) ==
    IF leaf = EmptyLeaf THEN <<"empty">>
    ELSE <<"leaf", a, leaf.balance, leaf.nonce>>

\* empty_subtree_hashes, by height.
EmptySubtree ==
    LET empty[d \in 0..TreeDepth] ==
            IF d = 0 THEN <<"empty">> ELSE BranchHash(empty[d - 1], empty[d - 1])
    IN  empty

-----------------------------------------------------------------------------
(* The tree below depth d that holds the addresses of S, all of which      *)
(* share their first d bits.                                               *)

Side(S, d, bit) == {a \in S : Bits[a][d + 1] = bit}

\* root_recursive, by the height of the subtree, over the accounts in it.
Roots(l) ==
    LET root[h \in 0..TreeDepth] ==
            [T \in SUBSET Addrs |->
                IF T = {} THEN EmptySubtree[h]
                ELSE IF h = 0
                     THEN LET a == CHOOSE a \in T : TRUE IN LeafHash(a, LeafOf(l, a))
                ELSE BranchHash(root[h - 1][Side(T, TreeDepth - h, 0)],
                                root[h - 1][Side(T, TreeDepth - h, 1)])]
    IN  root
SubtreeRoot(l, S, depth) == Roots(l)[TreeDepth - depth][S]

Populated(l) == {a \in Addrs : LeafOf(l, a) # EmptyLeaf}
ComputeRoot(l) == SubtreeRoot(l, Populated(l), 0)

SamePrefix(a, b, d) == \A i \in 1..d : Bits[a][i] = Bits[b][i]
OnPath(S, a, d) == {b \in S : SamePrefix(a, b, d)}

\* A proof is in leaf-to-root order: siblings[1] is the deepest one.
SiblingAt(d) == TreeDepth - d
ComputeProof(l, a) ==
    [address  |-> a,
     leaf     |-> LeafOf(l, a),
     siblings |->
        [i \in 1..TreeDepth |->
            LET d == TreeDepth - i
            IN  SubtreeRoot(l, Side(OnPath(Populated(l), a, d), d,
                                    1 - Bits[a][d + 1]), d + 1)]]

\* InclusionProof::verify.
ProofHashes(p) ==
    LET hash[i \in 0..TreeDepth] ==
            IF i = 0 THEN LeafHash(p.address, p.leaf)
            ELSE IF Bits[p.address][TreeDepth - i + 1] = 0
                 THEN BranchHash(hash[i - 1], p.siblings[i])
                 ELSE BranchHash(p.siblings[i], hash[i - 1])
    IN  hash
ProofRoot(p) == ProofHashes(p)[TreeDepth]
ProofVerifies(p, root) == Len(p.siblings) = TreeDepth /\ ProofRoot(p) = root

-----------------------------------------------------------------------------
(* Sparse updates.  An update is [proof, post]: the proof of a touched     *)
(* account before the block, its leaf after it; `us` is a sequence.        *)

Touched(us) == {us[i].proof.address : i \in DOMAIN us}
UpdateOf(us, a) == us[CHOOSE i \in DOMAIN us : us[i].proof.address = a]

UpdatesValid(us, prior) ==
    /\ \A i, j \in DOMAIN us : us[i].proof.address = us[j].proof.address => i = j
    /\ \A i \in DOMAIN us : ProofVerifies(us[i].proof, prior)

\* The side without a touched key is a sibling in the proofs of the other side.
UntouchedSide(us, other, d) ==
    UpdateOf(us, CHOOSE a \in other : TRUE).proof.siblings[SiblingAt(d)]

\* post_root_recursive, by the height of the subtree, for the touched addresses
\* in it.
PostRoots(us) ==
    LET root[h \in 0..TreeDepth] ==
            [T \in (SUBSET Addrs) \ {{}} |->
                IF h = 0
                THEN LET a == CHOOSE a \in T : TRUE IN LeafHash(a, UpdateOf(us, a).post)
                ELSE LET d     == TreeDepth - h
                         zeros == Side(T, d, 0)
                         ones  == Side(T, d, 1)
                     IN  BranchHash(
                            IF zeros # {} THEN root[h - 1][zeros]
                                          ELSE UntouchedSide(us, ones, d),
                            IF ones # {} THEN root[h - 1][ones]
                                         ELSE UntouchedSide(us, zeros, d))]
    IN  root
PostRoot(us, S, depth) == PostRoots(us)[TreeDepth - depth][S]

\* apply_updates; the caller leaves the root as it is when nothing is touched.
ApplyUpdates(us, prior) == IF us = <<>> THEN prior ELSE PostRoot(us, Touched(us), 0)

\* The touched keys beside the observer's path at depth d.
Opposite(us, o, d) ==
    Side(OnPath(Touched(us), o, d), d, 1 - Bits[o][d + 1])

\* Mutant: the observer keeps its path when it is not touched itself.
RefreshObserver_OwnOnly(us, observer) ==
    IF observer.address \notin Touched(us) THEN observer
    ELSE [observer EXCEPT !.leaf = UpdateOf(us, observer.address).post]

\* refresh_observer: the observer's leaf and path after the updates.
RefreshObserver(us, observer) ==
    LET o == observer.address
    IN  [address  |-> o,
         leaf     |-> IF o \in Touched(us) THEN UpdateOf(us, o).post
                      ELSE observer.leaf,
         siblings |->
            [i \in 1..TreeDepth |->
                LET d == TreeDepth - i
                IN  IF Opposite(us, o, d) = {} THEN observer.siblings[i]
                    ELSE PostRoot(us, Opposite(us, o, d), d + 1)]]

-----------------------------------------------------------------------------
(* The witness of a block.                                                 *)

Party(tx) == IF tx.type = "mint" THEN {tx.dest} ELSE {tx.from, tx.to}

\* touched_addresses: the fee account is touched by transfers alone.
TouchedAddresses(txs) ==
    (UNION {Party(txs[i]) : i \in DOMAIN txs})
    \cup (IF \E i \in DOMAIN txs : txs[i].type = "transfer"
          THEN {FeeAddr} \ {NoFeeAddr} ELSE {})

\* Some order of a set, as a sequence; which one is not significant.
InSomeOrder(S) ==
    CHOOSE s \in [1..Cardinality(S) -> S] : \A i, j \in DOMAIN s : s[i] = s[j] => i = j

\* BlockWitness::build.
BuildWitness(prior, txs, height) ==
    LET touched == InSomeOrder(TouchedAddresses(txs))
    IN  [height |-> height,
         prior  |-> ComputeRoot(prior),
         proofs |-> [i \in DOMAIN touched |-> ComputeProof(prior, touched[i])]]

\* state_root, over what it commits to.
StateRoot(accountsRoot, consumed) ==
    [accounts |-> accountsRoot, nullifiers |-> consumed, fee |-> FeeAddr]
=============================================================================
