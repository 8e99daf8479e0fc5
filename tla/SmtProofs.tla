----------------------------- MODULE SmtProofs ------------------------------
(***************************************************************************)
(* The sparse Merkle tree is sound and complete, for every depth, every    *)
(* set of addresses and every ledger: an inclusion proof verifies against  *)
(* the root of one leaf only, two ledgers with one root hold the same      *)
(* accounts, and the sparse updates a light wallet makes arrive at the     *)
(* root and the path that the whole new ledger has.                        *)
(***************************************************************************)
EXTENDS Smt, Induction

\* The sequence of values f(0), f(1), ..., f(n) with one more at its end.
Extended(f, n, v) == [h \in 0..(n + 1) |-> IF h = n + 1 THEN v ELSE f[h]]

LEMMA DepthType == TreeDepth \in Nat /\ TreeDepth > 0
BY SmtAssumption

-----------------------------------------------------------------------------
(* The recursive definitions are solutions of their equations.             *)

EmptyUpto(f, n) ==
    f = [d \in 0..n |->
           IF d = 0 THEN <<"empty">> ELSE BranchHash(f[d - 1], f[d - 1])]

LEMMA EmptySubtreeIs ==
    /\ EmptySubtree[0] = <<"empty">>
    /\ \A h \in 1..TreeDepth :
          EmptySubtree[h] = BranchHash(EmptySubtree[h - 1], EmptySubtree[h - 1])
<1> DEFINE S == {n \in Nat : \E f : EmptyUpto(f, n)}
<1>1. 0 \in S
  <2> DEFINE f == [d \in 0..0 |-> <<"empty">>]
  <2>1. EmptyUpto(f, 0)
    BY DEF EmptyUpto
  <2> QED
    BY <2>1
<1>2. ASSUME NEW n \in Nat, n \in S
      PROVE  n + 1 \in S
  <2>1. PICK f : EmptyUpto(f, n)
    BY <1>2
  <2> DEFINE g == Extended(f, n, BranchHash(f[n], f[n]))
  <2>2. DOMAIN g = 0..(n + 1) /\ \A h \in 0..n : g[h] = f[h]
    BY DEF Extended
  <2>3. g[n + 1] = BranchHash(f[n], f[n])
    BY DEF Extended
  <2>4. \A h \in 0..n : f[h] = IF h = 0 THEN <<"empty">> ELSE BranchHash(f[h - 1], f[h - 1])
    BY <2>1 DEF EmptyUpto
  <2>5. g = [h \in 0..(n + 1) |-> g[h]]
    BY DEF Extended
  <2> HIDE DEF g
  <2>6. EmptyUpto(g, n + 1)
    <3>1. ASSUME NEW h \in 0..(n + 1)
          PROVE  g[h] = IF h = 0 THEN <<"empty">> ELSE BranchHash(g[h - 1], g[h - 1])
      <4>1. CASE h = n + 1
        <5>1. h # 0 /\ h - 1 = n /\ g[h - 1] = f[n]
          BY <2>2, <4>1
        <5> QED
          BY <2>3, <4>1, <5>1
      <4>2. CASE h # n + 1
        <5>1. h \in 0..n /\ (h # 0 => h - 1 \in 0..n)
          BY <4>2
        <5> QED
          BY <2>2, <2>4, <5>1
      <4> QED
        BY <4>1, <4>2
    <3> QED
      BY <2>5, <3>1 DEF EmptyUpto
  <2> QED
    BY <2>6
<1>3. \E f : EmptyUpto(f, TreeDepth)
  <2> HIDE DEF S
  <2>1. \A n \in Nat : n \in S
    BY <1>1, <1>2, SetInduction
  <2> QED
    BY <2>1, DepthType DEF S
<1>4. EmptySubtree = CHOOSE f : EmptyUpto(f, TreeDepth)
  BY DEF EmptySubtree, EmptyUpto
<1>5. EmptyUpto(EmptySubtree, TreeDepth)
  BY <1>3, <1>4
<1> QED
  <2> DEFINE e == EmptySubtree
  <2>1. e = [d \in 0..TreeDepth |->
               IF d = 0 THEN <<"empty">> ELSE BranchHash(e[d - 1], e[d - 1])]
    BY <1>5 DEF EmptyUpto
  <2> HIDE DEF e
  <2>2. /\ e[0] = <<"empty">>
        /\ \A h \in 1..TreeDepth : e[h] = BranchHash(e[h - 1], e[h - 1])
    BY <2>1, DepthType
  <2> QED
    BY <2>2 DEF e
\* The roots of the subtrees of height h, from those below.
RootLevel(l, h, below) ==
    [T \in SUBSET Addrs |->
        IF T = {} THEN EmptySubtree[h]
        ELSE IF h = 0
             THEN LET a == CHOOSE a \in T : TRUE IN LeafHash(a, LeafOf(l, a))
        ELSE BranchHash(below[Side(T, TreeDepth - h, 0)],
                        below[Side(T, TreeDepth - h, 1)])]
RootsUpto(f, l, n) == f = [h \in 0..n |-> RootLevel(l, h, f[h - 1])]

LEMMA RootsAre ==
    ASSUME NEW l
    PROVE  \A h \in 0..TreeDepth : Roots(l)[h] = RootLevel(l, h, Roots(l)[h - 1])
<1> DEFINE S == {n \in Nat : \E f : RootsUpto(f, l, n)}
<1>0. \A x, y : RootLevel(l, 0, x) = RootLevel(l, 0, y)
  BY DEF RootLevel
<1>1. 0 \in S
  <2> DEFINE f == [h \in 0..0 |-> RootLevel(l, 0, {})]
  <2>1. f = [h \in 0..0 |-> RootLevel(l, h, f[h - 1])]
    <3>1. \A h \in 0..0 : RootLevel(l, 0, {}) = RootLevel(l, h, f[h - 1])
      BY <1>0
    <3> QED
      BY <3>1
  <2> QED
    BY <2>1 DEF RootsUpto
<1>2. ASSUME NEW n \in Nat, n \in S
      PROVE  n + 1 \in S
  <2>1. PICK f : RootsUpto(f, l, n)
    BY <1>2
  <2> DEFINE g == Extended(f, n, RootLevel(l, n + 1, f[n]))
  <2>2. /\ \A h \in 0..n : g[h] = f[h]
        /\ g[n + 1] = RootLevel(l, n + 1, f[n])
        /\ g = [h \in 0..(n + 1) |-> g[h]]
    BY DEF Extended
  <2>3. \A h \in 0..n : f[h] = RootLevel(l, h, f[h - 1])
    BY <2>1 DEF RootsUpto
  <2> HIDE DEF g
  <2>4. ASSUME NEW h \in 0..(n + 1)
        PROVE  g[h] = RootLevel(l, h, g[h - 1])
    <3>1. CASE h = n + 1
      <4>1. h - 1 = n /\ g[h - 1] = f[n]
        BY <2>2, <3>1
      <4> QED
        BY <2>2, <3>1, <4>1
    <3>2. CASE h = 0
      BY <1>0, <2>2, <2>3, <3>2
    <3>3. CASE h # n + 1 /\ h # 0
      <4>1. h \in 0..n /\ h - 1 \in 0..n
        BY <3>3
      <4> QED
        BY <2>2, <2>3, <4>1
    <3> QED
      BY <3>1, <3>2, <3>3
  <2>5. RootsUpto(g, l, n + 1)
    BY <2>2, <2>4 DEF RootsUpto
  <2> QED
    BY <2>5
<1>3. \E f : RootsUpto(f, l, TreeDepth)
  <2> HIDE DEF S
  <2>1. \A n \in Nat : n \in S
    BY <1>1, <1>2, SetInduction
  <2> QED
    BY <2>1, DepthType DEF S
<1>4. Roots(l) = CHOOSE f : RootsUpto(f, l, TreeDepth)
  BY DEF Roots, RootsUpto, RootLevel
<1>5. RootsUpto(Roots(l), l, TreeDepth)
  BY <1>3, <1>4
<1> QED
  BY <1>5 DEF RootsUpto
\* The hashes on the path of a proof.
HashLevel(p, i, below) ==
    IF i = 0 THEN LeafHash(p.address, p.leaf)
    ELSE IF Bits[p.address][TreeDepth - i + 1] = 0
         THEN BranchHash(below, p.siblings[i])
         ELSE BranchHash(p.siblings[i], below)
HashesUpto(f, p, n) == f = [h \in 0..n |-> HashLevel(p, h, f[h - 1])]

LEMMA HashesAre ==
    ASSUME NEW p
    PROVE  \A h \in 0..TreeDepth : ProofHashes(p)[h] = HashLevel(p, h, ProofHashes(p)[h - 1])
<1> DEFINE S == {n \in Nat : \E f : HashesUpto(f, p, n)}
<1>0. \A x, y : HashLevel(p, 0, x) = HashLevel(p, 0, y)
  BY DEF HashLevel
<1>1. 0 \in S
  <2> DEFINE f == [h \in 0..0 |-> HashLevel(p, 0, {})]
  <2>1. f = [h \in 0..0 |-> HashLevel(p, h, f[h - 1])]
    <3>1. \A h \in 0..0 : HashLevel(p, 0, {}) = HashLevel(p, h, f[h - 1])
      BY <1>0
    <3> QED
      BY <3>1
  <2> QED
    BY <2>1 DEF HashesUpto
<1>2. ASSUME NEW n \in Nat, n \in S
      PROVE  n + 1 \in S
  <2>1. PICK f : HashesUpto(f, p, n)
    BY <1>2
  <2> DEFINE g == Extended(f, n, HashLevel(p, n + 1, f[n]))
  <2>2. /\ \A h \in 0..n : g[h] = f[h]
        /\ g[n + 1] = HashLevel(p, n + 1, f[n])
        /\ g = [h \in 0..(n + 1) |-> g[h]]
    BY DEF Extended
  <2>3. \A h \in 0..n : f[h] = HashLevel(p, h, f[h - 1])
    BY <2>1 DEF HashesUpto
  <2> HIDE DEF g
  <2>4. ASSUME NEW h \in 0..(n + 1)
        PROVE  g[h] = HashLevel(p, h, g[h - 1])
    <3>1. CASE h = n + 1
      <4>1. h - 1 = n /\ g[h - 1] = f[n]
        BY <2>2, <3>1
      <4> QED
        BY <2>2, <3>1, <4>1
    <3>2. CASE h = 0
      BY <1>0, <2>2, <2>3, <3>2
    <3>3. CASE h # n + 1 /\ h # 0
      <4>1. h \in 0..n /\ h - 1 \in 0..n
        BY <3>3
      <4> QED
        BY <2>2, <2>3, <4>1
    <3> QED
      BY <3>1, <3>2, <3>3
  <2>5. HashesUpto(g, p, n + 1)
    BY <2>2, <2>4 DEF HashesUpto
  <2> QED
    BY <2>5
<1>3. \E f : HashesUpto(f, p, TreeDepth)
  <2> HIDE DEF S
  <2>1. \A n \in Nat : n \in S
    BY <1>1, <1>2, SetInduction
  <2> QED
    BY <2>1, DepthType DEF S
<1>4. ProofHashes(p) = CHOOSE f : HashesUpto(f, p, TreeDepth)
  BY DEF ProofHashes, HashesUpto, HashLevel
<1>5. HashesUpto(ProofHashes(p), p, TreeDepth)
  BY <1>3, <1>4
<1> QED
  BY <1>5 DEF HashesUpto

\* The roots of the subtrees of height h after the updates, from those below.
PostLevel(us, h, below) ==
    [T \in (SUBSET Addrs) \ {{}} |->
        IF h = 0
        THEN LET a == CHOOSE a \in T : TRUE IN LeafHash(a, UpdateOf(us, a).post)
        ELSE LET d     == TreeDepth - h
                 zeros == Side(T, d, 0)
                 ones  == Side(T, d, 1)
             IN  BranchHash(
                    IF zeros # {} THEN below[zeros]
                                  ELSE UntouchedSide(us, ones, d),
                    IF ones # {} THEN below[ones]
                                 ELSE UntouchedSide(us, zeros, d))]
PostUpto(f, us, n) == f = [h \in 0..n |-> PostLevel(us, h, f[h - 1])]

LEMMA PostRootsAre ==
    ASSUME NEW us
    PROVE  \A h \in 0..TreeDepth : PostRoots(us)[h] = PostLevel(us, h, PostRoots(us)[h - 1])
<1> DEFINE S == {n \in Nat : \E f : PostUpto(f, us, n)}
<1>0. \A x, y : PostLevel(us, 0, x) = PostLevel(us, 0, y)
  BY DEF PostLevel
<1>1. 0 \in S
  <2> DEFINE f == [h \in 0..0 |-> PostLevel(us, 0, {})]
  <2>1. f = [h \in 0..0 |-> PostLevel(us, h, f[h - 1])]
    <3>1. \A h \in 0..0 : PostLevel(us, 0, {}) = PostLevel(us, h, f[h - 1])
      BY <1>0
    <3> QED
      BY <3>1
  <2> QED
    BY <2>1 DEF PostUpto
<1>2. ASSUME NEW n \in Nat, n \in S
      PROVE  n + 1 \in S
  <2>1. PICK f : PostUpto(f, us, n)
    BY <1>2
  <2> DEFINE g == Extended(f, n, PostLevel(us, n + 1, f[n]))
  <2>2. /\ \A h \in 0..n : g[h] = f[h]
        /\ g[n + 1] = PostLevel(us, n + 1, f[n])
        /\ g = [h \in 0..(n + 1) |-> g[h]]
    BY DEF Extended
  <2>3. \A h \in 0..n : f[h] = PostLevel(us, h, f[h - 1])
    BY <2>1 DEF PostUpto
  <2> HIDE DEF g
  <2>4. ASSUME NEW h \in 0..(n + 1)
        PROVE  g[h] = PostLevel(us, h, g[h - 1])
    <3>1. CASE h = n + 1
      <4>1. h - 1 = n /\ g[h - 1] = f[n]
        BY <2>2, <3>1
      <4> QED
        BY <2>2, <3>1, <4>1
    <3>2. CASE h = 0
      BY <1>0, <2>2, <2>3, <3>2
    <3>3. CASE h # n + 1 /\ h # 0
      <4>1. h \in 0..n /\ h - 1 \in 0..n
        BY <3>3
      <4> QED
        BY <2>2, <2>3, <4>1
    <3> QED
      BY <3>1, <3>2, <3>3
  <2>5. PostUpto(g, us, n + 1)
    BY <2>2, <2>4 DEF PostUpto
  <2> QED
    BY <2>5
<1>3. \E f : PostUpto(f, us, TreeDepth)
  <2> HIDE DEF S
  <2>1. \A n \in Nat : n \in S
    BY <1>1, <1>2, SetInduction
  <2> QED
    BY <2>1, DepthType DEF S
<1>4. PostRoots(us) = CHOOSE f : PostUpto(f, us, TreeDepth)
  BY DEF PostRoots, PostUpto, PostLevel
<1>5. PostUpto(PostRoots(us), us, TreeDepth)
  BY <1>3, <1>4
<1> QED
  BY <1>5 DEF PostUpto
-----------------------------------------------------------------------------
(* The tree of a ledger.                                                   *)

LEMMA BitsType ==
    /\ \A a \in Addrs : Bits[a] \in [1..TreeDepth -> {0, 1}]
    /\ \A a \in Addrs : \A d \in 0..(TreeDepth - 1) :
          /\ d + 1 \in 1..TreeDepth /\ Bits[a][d + 1] \in {0, 1}
    /\ \A a, b \in Addrs : Bits[a] = Bits[b] => a = b
<1>1. Bits \in [Addrs -> [1..TreeDepth -> {0, 1}]]
  BY SmtAssumption
<1>2. \A a \in Addrs : Bits[a] \in [1..TreeDepth -> {0, 1}]
  BY <1>1
<1>3. \A d \in 0..(TreeDepth - 1) : d + 1 \in 1..TreeDepth
  BY DepthType
<1> QED
  BY <1>2, <1>3, SmtAssumption

\* The addresses below the node where the path of `a` is at depth d: all of them
\* at the root, `a` alone at the leaf, and one side of them in between.
LEMMA PathSets ==
    ASSUME NEW S \in SUBSET Addrs, NEW a \in Addrs
    PROVE  /\ OnPath(S, a, 0) = S
           /\ OnPath(S, a, TreeDepth) = S \cap {a}
           /\ \A d \in 0..(TreeDepth - 1) :
                 OnPath(S, a, d + 1) = Side(OnPath(S, a, d), d, Bits[a][d + 1])
<1>1. OnPath(S, a, 0) = S
  BY DEF OnPath, SamePrefix
<1>2. OnPath(S, a, TreeDepth) = S \cap {a}
  <2>1. ASSUME NEW b \in S, SamePrefix(a, b, TreeDepth)
        PROVE  b = a
    <3>1. \A i \in 1..TreeDepth : Bits[a][i] = Bits[b][i]
      BY <2>1 DEF SamePrefix
    <3>2. Bits[a] \in [1..TreeDepth -> {0, 1}] /\ Bits[b] \in [1..TreeDepth -> {0, 1}]
      BY BitsType
    <3>3. Bits[a] = [i \in 1..TreeDepth |-> Bits[a][i]]
      BY <3>2
    <3>4. Bits[b] = [i \in 1..TreeDepth |-> Bits[b][i]]
      BY <3>2
    <3>5. Bits[a] = Bits[b]
      BY <3>1, <3>3, <3>4, Zenon
    <3> QED
      BY <3>5, BitsType
  <2>2. SamePrefix(a, a, TreeDepth)
    BY DEF SamePrefix
  <2> QED
    BY <2>1, <2>2 DEF OnPath
<1>3. ASSUME NEW d \in 0..(TreeDepth - 1)
      PROVE  OnPath(S, a, d + 1) = Side(OnPath(S, a, d), d, Bits[a][d + 1])
  <2>1. 1..(d + 1) = (1..d) \cup {d + 1}
    BY DepthType
  <2>2. \A b \in S : SamePrefix(a, b, d + 1)
                     <=> SamePrefix(a, b, d) /\ Bits[b][d + 1] = Bits[a][d + 1]
    BY <2>1 DEF SamePrefix
  <2> QED
    BY <2>2 DEF OnPath, Side
<1> QED
  BY <1>1, <1>2, <1>3

\* The two sides of a set of addresses.
LEMMA Sides ==
    ASSUME NEW S \in SUBSET Addrs, NEW d \in 0..(TreeDepth - 1)
    PROVE  /\ Side(S, d, 0) \in SUBSET Addrs /\ Side(S, d, 1) \in SUBSET Addrs
           /\ S = Side(S, d, 0) \cup Side(S, d, 1)
           /\ Side(S, d, 0) \cap Side(S, d, 1) = {}
<1>1. \A b \in S : Bits[b][d + 1] \in {0, 1}
  BY BitsType
<1> QED
  BY <1>1 DEF Side

\* A node is the hash of the two below it, also where no account is.
LEMMA Branches ==
    ASSUME NEW l, NEW S \in SUBSET Addrs, NEW d \in 0..(TreeDepth - 1)
    PROVE  SubtreeRoot(l, S, d) = BranchHash(SubtreeRoot(l, Side(S, d, 0), d + 1),
                                             SubtreeRoot(l, Side(S, d, 1), d + 1))
<1> DEFINE h == TreeDepth - d
<1>1. /\ h \in 1..TreeDepth /\ h - 1 \in 0..TreeDepth /\ h \in 0..TreeDepth
      /\ h # 0 /\ TreeDepth - h = d /\ TreeDepth - (d + 1) = h - 1
  BY DepthType
<1>2. Roots(l)[h] = RootLevel(l, h, Roots(l)[h - 1])
  BY <1>1, RootsAre
<1>3. Side(S, d, 0) \in SUBSET Addrs /\ Side(S, d, 1) \in SUBSET Addrs
  BY Sides
<1>4. CASE S = {}
  <2>1. Side(S, d, 0) = {} /\ Side(S, d, 1) = {}
    BY <1>4 DEF Side
  <2>2. Roots(l)[h][{}] = EmptySubtree[h]
    BY <1>2 DEF RootLevel
  <2>3. Roots(l)[h - 1][{}] = EmptySubtree[h - 1]
    <3>1. Roots(l)[h - 1] = RootLevel(l, h - 1, Roots(l)[(h - 1) - 1])
      BY <1>1, RootsAre
    <3> QED
      BY <3>1 DEF RootLevel
  <2>4. EmptySubtree[h] = BranchHash(EmptySubtree[h - 1], EmptySubtree[h - 1])
    BY <1>1, EmptySubtreeIs
  <2> HIDE DEF h
  <2> QED
    BY <1>1, <1>4, <2>1, <2>2, <2>3, <2>4 DEF SubtreeRoot, h
<1>5. CASE S # {}
  <2>1. Roots(l)[h][S] = BranchHash(Roots(l)[h - 1][Side(S, TreeDepth - h, 0)],
                                    Roots(l)[h - 1][Side(S, TreeDepth - h, 1)])
    <3> HIDE DEF h
    <3> QED
      BY <1>1, <1>2, <1>5 DEF RootLevel
  <2> QED
    BY <1>1, <2>1 DEF SubtreeRoot
<1> QED
  BY <1>4, <1>5

\* The tree at a leaf.
LEMMA Leaves ==
    ASSUME NEW l, NEW a \in Addrs
    PROVE  /\ SubtreeRoot(l, {a}, TreeDepth) = LeafHash(a, LeafOf(l, a))
           /\ SubtreeRoot(l, {}, TreeDepth) = <<"empty">>
<1>1. Roots(l)[0] = RootLevel(l, 0, Roots(l)[0 - 1]) /\ TreeDepth - TreeDepth = 0
  BY DepthType, RootsAre
<1>2. Roots(l)[0][{}] = EmptySubtree[0]
  BY <1>1 DEF RootLevel
<1>3. Roots(l)[0][{a}] = LET b == CHOOSE b \in {a} : TRUE IN LeafHash(b, LeafOf(l, b))
  BY <1>1 DEF RootLevel
<1>4. (CHOOSE b \in {a} : TRUE) = a
  OBVIOUS
<1> QED
  BY <1>1, <1>2, <1>3, <1>4, EmptySubtreeIs DEF SubtreeRoot
\* The node on the path of `a` at depth d, and the one beside the path below it.
NodeOn(l, a, d) == SubtreeRoot(l, OnPath(Populated(l), a, d), d)
Beside(l, a, d) ==
    SubtreeRoot(l, Side(OnPath(Populated(l), a, d), d, 1 - Bits[a][d + 1]), d + 1)

\* A node on the path from the two below it; the leaf at its end.
LEMMA NodesOnPath ==
    ASSUME NEW l, NEW a \in Addrs
    PROVE  /\ NodeOn(l, a, 0) = ComputeRoot(l)
           /\ NodeOn(l, a, TreeDepth) = LeafHash(a, LeafOf(l, a))
           /\ \A d \in 0..(TreeDepth - 1) :
                 NodeOn(l, a, d) = IF Bits[a][d + 1] = 0
                                   THEN BranchHash(NodeOn(l, a, d + 1), Beside(l, a, d))
                                   ELSE BranchHash(Beside(l, a, d), NodeOn(l, a, d + 1))
<1>0. Populated(l) \in SUBSET Addrs
  BY DEF Populated
<1>1. NodeOn(l, a, 0) = ComputeRoot(l)
  BY <1>0, PathSets DEF NodeOn, ComputeRoot
<1>2. NodeOn(l, a, TreeDepth) = LeafHash(a, LeafOf(l, a))
  <2>1. OnPath(Populated(l), a, TreeDepth) = Populated(l) \cap {a}
    BY <1>0, PathSets
  <2>2. CASE LeafOf(l, a) = EmptyLeaf
    <3>1. Populated(l) \cap {a} = {}
      BY <2>2 DEF Populated
    <3> QED
      BY <2>1, <2>2, <3>1, Leaves DEF NodeOn, LeafHash
  <2>3. CASE LeafOf(l, a) # EmptyLeaf
    <3>1. Populated(l) \cap {a} = {a}
      BY <2>3 DEF Populated
    <3> QED
      BY <2>1, <3>1, Leaves DEF NodeOn
  <2> QED
    BY <2>2, <2>3
<1>3. ASSUME NEW d \in 0..(TreeDepth - 1)
      PROVE  NodeOn(l, a, d) = IF Bits[a][d + 1] = 0
                               THEN BranchHash(NodeOn(l, a, d + 1), Beside(l, a, d))
                               ELSE BranchHash(Beside(l, a, d), NodeOn(l, a, d + 1))
  <2> DEFINE S == OnPath(Populated(l), a, d)
  <2>1. S \in SUBSET Addrs /\ Bits[a][d + 1] \in {0, 1}
    BY <1>0, BitsType DEF OnPath
  <2>2. OnPath(Populated(l), a, d + 1) = Side(S, d, Bits[a][d + 1])
    BY <1>0, PathSets
  <2>3. SubtreeRoot(l, S, d) = BranchHash(SubtreeRoot(l, Side(S, d, 0), d + 1),
                                          SubtreeRoot(l, Side(S, d, 1), d + 1))
    BY <2>1, Branches
  <2>4. /\ NodeOn(l, a, d) = SubtreeRoot(l, S, d)
        /\ NodeOn(l, a, d + 1) = SubtreeRoot(l, Side(S, d, Bits[a][d + 1]), d + 1)
        /\ Beside(l, a, d) = SubtreeRoot(l, Side(S, d, 1 - Bits[a][d + 1]), d + 1)
    BY <2>2 DEF NodeOn, Beside
  <2> HIDE DEF S
  <2>5. CASE Bits[a][d + 1] = 0
    <3>1. 1 - Bits[a][d + 1] = 1
      BY <2>5
    <3> QED
      BY <2>3, <2>4, <2>5, <3>1
  <2>6. CASE Bits[a][d + 1] = 1
    <3>1. 1 - Bits[a][d + 1] = 0
      BY <2>6
    <3> QED
      BY <2>3, <2>4, <2>6, <3>1
  <2> QED
    BY <2>1, <2>5, <2>6
<1> QED
  BY <1>1, <1>2, <1>3

\* A proof as it arrives: some leaf and as many siblings as the tree is deep.
IsProof(p) ==
    /\ p.address \in Addrs
    /\ \E b, n : p.leaf = EmptyLeaf \/ p.leaf = AccountLeaf(b, n)
    /\ p.siblings = [i \in 1..TreeDepth |-> p.siblings[i]]

\* Hashes are collision free, and their tags tell empty, leaf and branch apart.
LEMMA HashesDiffer ==
    /\ \A a, b, c, d : BranchHash(a, b) = BranchHash(c, d) => a = c /\ b = d
    /\ \A a, b, n, c, m :
          LeafHash(a, AccountLeaf(b, n)) = LeafHash(a, AccountLeaf(c, m))
          => b = c /\ n = m
    /\ \A a, b, n : LeafHash(a, AccountLeaf(b, n)) # LeafHash(a, EmptyLeaf)
<1>1. \A a, b, c, d : BranchHash(a, b) = BranchHash(c, d) => a = c /\ b = d
  BY DEF BranchHash
<1>2. \A b, n : AccountLeaf(b, n) # EmptyLeaf
  <2>1. \A b, n : AccountLeaf(b, n).kind = "account"
    BY DEF AccountLeaf
  <2>2. EmptyLeaf.kind = "empty"
    BY DEF EmptyLeaf
  <2> QED
    BY <2>1, <2>2
<1>3. \A a, b, n : LeafHash(a, AccountLeaf(b, n)) = <<"leaf", a, b, n>>
  <2>1. \A b, n : AccountLeaf(b, n).balance = b /\ AccountLeaf(b, n).nonce = n
    BY DEF AccountLeaf
  <2> QED
    BY <1>2, <2>1 DEF LeafHash
<1>4. \A a : LeafHash(a, EmptyLeaf) = <<"empty">>
  BY DEF LeafHash
<1> QED
  BY <1>1, <1>3, <1>4
\* The path hashes of a proof: at the height i, from the one below.
LEMMA PathHashes ==
    ASSUME NEW p
    PROVE  /\ ProofHashes(p)[0] = LeafHash(p.address, p.leaf)
           /\ \A d \in 0..(TreeDepth - 1) :
                 ProofHashes(p)[TreeDepth - d]
                 = IF Bits[p.address][d + 1] = 0
                   THEN BranchHash(ProofHashes(p)[TreeDepth - (d + 1)],
                                   p.siblings[TreeDepth - d])
                   ELSE BranchHash(p.siblings[TreeDepth - d],
                                   ProofHashes(p)[TreeDepth - (d + 1)])
<1>1. \A h \in 0..TreeDepth :
         ProofHashes(p)[h] = HashLevel(p, h, ProofHashes(p)[h - 1])
  BY HashesAre
<1>2. ProofHashes(p)[0] = LeafHash(p.address, p.leaf)
  <2>1. 0 \in 0..TreeDepth
    BY DepthType
  <2>2. ProofHashes(p)[0] = HashLevel(p, 0, ProofHashes(p)[0 - 1])
    BY <1>1, <2>1
  <2> QED
    BY <2>2 DEF HashLevel
<1>3. ASSUME NEW d \in 0..(TreeDepth - 1)
      PROVE  ProofHashes(p)[TreeDepth - d]
             = IF Bits[p.address][d + 1] = 0
               THEN BranchHash(ProofHashes(p)[TreeDepth - (d + 1)],
                               p.siblings[TreeDepth - d])
               ELSE BranchHash(p.siblings[TreeDepth - d],
                               ProofHashes(p)[TreeDepth - (d + 1)])
  <2> DEFINE h == TreeDepth - d
  <2>1. /\ h \in 0..TreeDepth /\ h # 0 /\ h - 1 = TreeDepth - (d + 1)
        /\ TreeDepth - h + 1 = d + 1
    BY DepthType
  <2>2. ProofHashes(p)[h] = HashLevel(p, h, ProofHashes(p)[h - 1])
    BY <1>1, <2>1
  <2> HIDE DEF h
  <2>3. ProofHashes(p)[h] = IF Bits[p.address][d + 1] = 0
                            THEN BranchHash(ProofHashes(p)[h - 1], p.siblings[h])
                            ELSE BranchHash(p.siblings[h], ProofHashes(p)[h - 1])
    BY <2>1, <2>2 DEF HashLevel
  <2> QED
    BY <2>1, <2>3 DEF h
<1> QED
  BY <1>2, <1>3

LEMMA LeafForms == \A l, a : \E b, n : \/ LeafOf(l, a) = EmptyLeaf
                                       \/ LeafOf(l, a) = AccountLeaf(b, n)
BY DEF LeafOf

\* The proof that is made of a ledger: what is beside the path.
LEMMA MadeProof ==
    ASSUME NEW l, NEW a \in Addrs
    PROVE  /\ IsProof(ComputeProof(l, a))
           /\ ComputeProof(l, a).address = a
           /\ ComputeProof(l, a).leaf = LeafOf(l, a)
           /\ \A i \in 1..TreeDepth :
                 ComputeProof(l, a).siblings[i] = Beside(l, a, TreeDepth - i)
<1> DEFINE p == ComputeProof(l, a)
<1>1. /\ p.address = a /\ p.leaf = LeafOf(l, a)
      /\ p.siblings = [i \in 1..TreeDepth |-> Beside(l, a, TreeDepth - i)]
  BY DEF ComputeProof, Beside
<1> HIDE DEF p
<1>2. \A i \in 1..TreeDepth : p.siblings[i] = Beside(l, a, TreeDepth - i)
  BY <1>1
<1>3. p.siblings = [i \in 1..TreeDepth |-> p.siblings[i]]
  BY <1>1
<1>4. IsProof(p)
  BY <1>1, <1>3, LeafForms DEF IsProof
<1> QED
  BY <1>1, <1>2, <1>4 DEF p

\* compute_proof is complete: what it makes verifies against the root of the
\* ledger it was made of (smt.rs:130-146, 179-228).
THEOREM MadeProofVerifies ==
    ASSUME NEW l, NEW a \in Addrs
    PROVE  ProofVerifies(ComputeProof(l, a), ComputeRoot(l))
<1> DEFINE p == ComputeProof(l, a)
           S == {n \in Nat : n <= TreeDepth
                             => ProofHashes(p)[n] = NodeOn(l, a, TreeDepth - n)}
<1>1. /\ IsProof(p) /\ p.address = a /\ p.leaf = LeafOf(l, a)
      /\ \A i \in 1..TreeDepth : p.siblings[i] = Beside(l, a, TreeDepth - i)
  BY MadeProof
<1> HIDE DEF p
<1>2. 0 \in S
  <2>1. TreeDepth - 0 = TreeDepth
    BY DepthType
  <2> QED
    BY <1>1, <2>1, PathHashes, NodesOnPath
<1>3. ASSUME NEW n \in Nat, n \in S
      PROVE  n + 1 \in S
  <2> SUFFICES ASSUME n + 1 <= TreeDepth
               PROVE  ProofHashes(p)[n + 1] = NodeOn(l, a, TreeDepth - (n + 1))
    OBVIOUS
  <2> DEFINE d == TreeDepth - (n + 1)
  <2>1. /\ d \in 0..(TreeDepth - 1) /\ TreeDepth - d = n + 1
        /\ TreeDepth - (d + 1) = n /\ d + 1 = TreeDepth - n
        /\ n + 1 \in 1..TreeDepth /\ TreeDepth - (n + 1) = d
    BY DepthType
  <2> HIDE DEF d
  <2>2. ProofHashes(p)[n] = NodeOn(l, a, d + 1)
    BY <1>3, <2>1, DepthType
  <2>3. p.siblings[n + 1] = Beside(l, a, d)
    BY <1>1, <2>1
  <2>4. ProofHashes(p)[TreeDepth - d]
        = IF Bits[a][d + 1] = 0
          THEN BranchHash(ProofHashes(p)[TreeDepth - (d + 1)], p.siblings[TreeDepth - d])
          ELSE BranchHash(p.siblings[TreeDepth - d], ProofHashes(p)[TreeDepth - (d + 1)])
    BY <1>1, <2>1, PathHashes
  <2>5. NodeOn(l, a, d) = IF Bits[a][d + 1] = 0
                          THEN BranchHash(NodeOn(l, a, d + 1), Beside(l, a, d))
                          ELSE BranchHash(Beside(l, a, d), NodeOn(l, a, d + 1))
    BY <2>1, NodesOnPath
  <2> QED
    BY <2>1, <2>2, <2>3, <2>4, <2>5
<1>4. ProofHashes(p)[TreeDepth] = NodeOn(l, a, 0)
  <2> HIDE DEF S
  <2>1. TreeDepth \in S
    BY <1>2, <1>3, SetInduction, DepthType
  <2> QED
    BY <2>1, DepthType DEF S
<1>5. Len(p.siblings) = TreeDepth
  BY <1>1, DepthType DEF IsProof
<1> QED
  BY <1>4, <1>5, NodesOnPath DEF ProofVerifies, ProofRoot, p

\* A proof that verifies against the root of a ledger is the one made of it: no
\* other leaf, absent or present, and no other path does (smt.rs:130-146).
THEOREM ProofBinds ==
    ASSUME NEW l, NEW p, IsProof(p), ProofVerifies(p, ComputeRoot(l))
    PROVE  /\ p.leaf = LeafOf(l, p.address)
           /\ p.siblings = ComputeProof(l, p.address).siblings
<1> DEFINE a == p.address
           S == {d \in Nat : d <= TreeDepth
                    => /\ ProofHashes(p)[TreeDepth - d] = NodeOn(l, a, d)
                       /\ \A e \in 0..(d - 1) :
                             p.siblings[TreeDepth - e] = Beside(l, a, e)}
<1>0. a \in Addrs
  BY DEF IsProof
<1> HIDE DEF a
<1>1. 0 \in S
  <2>1. TreeDepth - 0 = TreeDepth /\ 0..(0 - 1) = {}
    BY DepthType
  <2>2. ProofHashes(p)[TreeDepth] = NodeOn(l, a, 0)
    BY <1>0, NodesOnPath DEF ProofVerifies, ProofRoot
  <2> QED
    BY <2>1, <2>2
<1>2. ASSUME NEW d \in Nat, d \in S
      PROVE  d + 1 \in S
  <2> SUFFICES ASSUME d + 1 <= TreeDepth
               PROVE  /\ ProofHashes(p)[TreeDepth - (d + 1)] = NodeOn(l, a, d + 1)
                      /\ \A e \in 0..((d + 1) - 1) :
                            p.siblings[TreeDepth - e] = Beside(l, a, e)
    OBVIOUS
  <2>1. d \in 0..(TreeDepth - 1) /\ d <= TreeDepth
    BY DepthType
  <2>2. /\ ProofHashes(p)[TreeDepth - d] = NodeOn(l, a, d)
        /\ \A e \in 0..(d - 1) : p.siblings[TreeDepth - e] = Beside(l, a, e)
    BY <1>2, <2>1
  <2>3. ProofHashes(p)[TreeDepth - d]
        = IF Bits[a][d + 1] = 0
          THEN BranchHash(ProofHashes(p)[TreeDepth - (d + 1)], p.siblings[TreeDepth - d])
          ELSE BranchHash(p.siblings[TreeDepth - d], ProofHashes(p)[TreeDepth - (d + 1)])
    BY <2>1, PathHashes DEF a
  <2>4. NodeOn(l, a, d) = IF Bits[a][d + 1] = 0
                          THEN BranchHash(NodeOn(l, a, d + 1), Beside(l, a, d))
                          ELSE BranchHash(Beside(l, a, d), NodeOn(l, a, d + 1))
    BY <1>0, <2>1, NodesOnPath
  <2>5. /\ ProofHashes(p)[TreeDepth - (d + 1)] = NodeOn(l, a, d + 1)
        /\ p.siblings[TreeDepth - d] = Beside(l, a, d)
    <3>1. CASE Bits[a][d + 1] = 0
      <4>1. BranchHash(ProofHashes(p)[TreeDepth - (d + 1)], p.siblings[TreeDepth - d])
            = BranchHash(NodeOn(l, a, d + 1), Beside(l, a, d))
        BY <2>2, <2>3, <2>4, <3>1
      <4> QED
        BY <4>1, HashesDiffer
    <3>2. CASE Bits[a][d + 1] # 0
      <4>1. BranchHash(p.siblings[TreeDepth - d], ProofHashes(p)[TreeDepth - (d + 1)])
            = BranchHash(Beside(l, a, d), NodeOn(l, a, d + 1))
        BY <2>2, <2>3, <2>4, <3>2
      <4> QED
        BY <4>1, HashesDiffer
    <3> QED
      BY <3>1, <3>2
  <2>6. \A e \in 0..((d + 1) - 1) : e \in 0..(d - 1) \/ e = d
    OBVIOUS
  <2> QED
    BY <2>2, <2>5, <2>6
<1>3. /\ ProofHashes(p)[TreeDepth - TreeDepth] = NodeOn(l, a, TreeDepth)
      /\ \A e \in 0..(TreeDepth - 1) : p.siblings[TreeDepth - e] = Beside(l, a, e)
  <2> HIDE DEF S
  <2>1. TreeDepth \in S
    BY <1>1, <1>2, SetInduction, DepthType
  <2> QED
    BY <2>1, DepthType DEF S
<1>4. LeafHash(a, p.leaf) = LeafHash(a, LeafOf(l, a))
  <2>1. TreeDepth - TreeDepth = 0
    BY DepthType
  <2> QED
    BY <1>0, <1>3, <2>1, PathHashes, NodesOnPath DEF a
<1>5. p.leaf = LeafOf(l, a)
  <2>1. PICK b, n : p.leaf = EmptyLeaf \/ p.leaf = AccountLeaf(b, n)
    BY DEF IsProof
  <2>2. PICK c, m : LeafOf(l, a) = EmptyLeaf \/ LeafOf(l, a) = AccountLeaf(c, m)
    BY LeafForms
  <2> QED
    BY <1>4, <2>1, <2>2, HashesDiffer
<1>6. p.siblings = ComputeProof(l, a).siblings
  <2> DEFINE q == ComputeProof(l, a)
  <2>1. /\ q.siblings = [i \in 1..TreeDepth |-> q.siblings[i]]
        /\ \A i \in 1..TreeDepth : q.siblings[i] = Beside(l, a, TreeDepth - i)
    BY <1>0, MadeProof DEF IsProof
  <2> HIDE DEF q
  <2>2. p.siblings = [i \in 1..TreeDepth |-> p.siblings[i]]
    BY DEF IsProof
  <2>3. \A i \in 1..TreeDepth : p.siblings[i] = Beside(l, a, TreeDepth - i)
    <3>1. ASSUME NEW i \in 1..TreeDepth
          PROVE  p.siblings[i] = Beside(l, a, TreeDepth - i)
      <4>1. TreeDepth - i \in 0..(TreeDepth - 1) /\ TreeDepth - (TreeDepth - i) = i
        BY DepthType
      <4> QED
        BY <1>3, <4>1
    <3> QED
      BY <3>1
  <2>4. \A i \in 1..TreeDepth : p.siblings[i] = q.siblings[i]
    BY <2>1, <2>3
  <2> QED
    BY <2>1, <2>2, <2>4 DEF q
<1> QED
  BY <1>5, <1>6 DEF a

\* Two ledgers with one root hold the same accounts.
THEOREM RootBinds ==
    ASSUME NEW l, NEW m, ComputeRoot(l) = ComputeRoot(m), NEW a \in Addrs
    PROVE  LeafOf(l, a) = LeafOf(m, a)
<1>1. /\ IsProof(ComputeProof(l, a)) /\ ComputeProof(l, a).address = a
      /\ ComputeProof(l, a).leaf = LeafOf(l, a)
  BY MadeProof
<1>2. ProofVerifies(ComputeProof(l, a), ComputeRoot(m))
  BY MadeProofVerifies
<1> QED
  BY <1>1, <1>2, ProofBinds
-----------------------------------------------------------------------------
(* Sparse updates.                                                         *)

\* The node below depth d, on the path of `a` that far, on the side of `bit`.
Below(l, a, d, bit) ==
    SubtreeRoot(l, Side(OnPath(Populated(l), a, d), d, bit), d + 1)

LEMMA BelowNodes ==
    ASSUME NEW l, NEW a \in Addrs, NEW d \in 0..(TreeDepth - 1)
    PROVE  /\ NodeOn(l, a, d) = BranchHash(Below(l, a, d, 0), Below(l, a, d, 1))
           /\ NodeOn(l, a, d + 1) = Below(l, a, d, Bits[a][d + 1])
           /\ Beside(l, a, d) = Below(l, a, d, 1 - Bits[a][d + 1])
<1>1. Populated(l) \in SUBSET Addrs
  BY DEF Populated
<1>2. OnPath(Populated(l), a, d) \in SUBSET Addrs
  BY <1>1 DEF OnPath
<1>3. OnPath(Populated(l), a, d + 1)
      = Side(OnPath(Populated(l), a, d), d, Bits[a][d + 1])
  BY <1>1, PathSets
<1> QED
  BY <1>2, <1>3, Branches DEF NodeOn, Beside, Below

\* Addresses that share a prefix are on one path so far.
LEMMA SharedPath ==
    ASSUME NEW a \in Addrs, NEW b \in Addrs, NEW d, SamePrefix(a, b, d)
    PROVE  /\ \A S : OnPath(S, a, d) = OnPath(S, b, d)
           /\ \A l, bit : Below(l, a, d, bit) = Below(l, b, d, bit)
<1>1. \A S : OnPath(S, a, d) = OnPath(S, b, d)
  BY DEF OnPath, SamePrefix
<1> QED
  BY <1>1 DEF Below

\* Subtrees with the same leaves are the same.
LEMMA SameLeaves ==
    ASSUME NEW l, NEW m
    PROVE  \A h \in 0..TreeDepth : \A T \in SUBSET Addrs :
              (\A a \in T : LeafOf(l, a) = LeafOf(m, a))
              => Roots(l)[h][T] = Roots(m)[h][T]
<1> DEFINE S == {h \in Nat : h <= TreeDepth =>
                    \A T \in SUBSET Addrs :
                       (\A a \in T : LeafOf(l, a) = LeafOf(m, a))
                       => Roots(l)[h][T] = Roots(m)[h][T]}
<1>1. 0 \in S
  <2> SUFFICES ASSUME NEW T \in SUBSET Addrs,
                      \A a \in T : LeafOf(l, a) = LeafOf(m, a)
               PROVE  Roots(l)[0][T] = Roots(m)[0][T]
    OBVIOUS
  <2>1. /\ Roots(l)[0] = RootLevel(l, 0, Roots(l)[0 - 1])
        /\ Roots(m)[0] = RootLevel(m, 0, Roots(m)[0 - 1])
    BY DepthType, RootsAre
  <2>2. CASE T = {}
    BY <2>1, <2>2 DEF RootLevel
  <2>3. CASE T # {}
    <3> DEFINE a == CHOOSE a \in T : TRUE
    <3>1. LeafOf(l, a) = LeafOf(m, a)
      BY <2>3
    <3>2. Roots(l)[0][T] = LeafHash(a, LeafOf(l, a))
      BY <2>1, <2>3 DEF RootLevel
    <3>3. Roots(m)[0][T] = LeafHash(a, LeafOf(m, a))
      BY <2>1, <2>3 DEF RootLevel
    <3> QED
      BY <3>1, <3>2, <3>3
  <2> QED
    BY <2>2, <2>3
<1>2. ASSUME NEW h \in Nat, h \in S
      PROVE  h + 1 \in S
  <2> SUFFICES ASSUME h + 1 <= TreeDepth, NEW T \in SUBSET Addrs,
                      \A a \in T : LeafOf(l, a) = LeafOf(m, a)
               PROVE  Roots(l)[h + 1][T] = Roots(m)[h + 1][T]
    OBVIOUS
  <2>0. /\ h + 1 \in 0..TreeDepth /\ h + 1 # 0 /\ (h + 1) - 1 = h
        /\ TreeDepth - (h + 1) \in 0..(TreeDepth - 1) /\ h <= TreeDepth
    BY DepthType
  <2>1. /\ Roots(l)[h + 1] = RootLevel(l, h + 1, Roots(l)[h])
        /\ Roots(m)[h + 1] = RootLevel(m, h + 1, Roots(m)[h])
    BY <2>0, RootsAre
  <2>2. CASE T = {}
    BY <2>1, <2>2 DEF RootLevel
  <2>3. CASE T # {}
    <3> DEFINE zeros == Side(T, TreeDepth - (h + 1), 0)
               ones  == Side(T, TreeDepth - (h + 1), 1)
    <3>1. zeros \in SUBSET T /\ ones \in SUBSET T
      BY DEF Side
    <3>2. /\ Roots(l)[h][zeros] = Roots(m)[h][zeros]
          /\ Roots(l)[h][ones] = Roots(m)[h][ones]
      <4> HIDE DEF zeros, ones
      <4> QED
        BY <1>2, <2>0, <3>1
    <3>3. Roots(l)[h + 1][T] = BranchHash(Roots(l)[h][zeros], Roots(l)[h][ones])
      BY <2>0, <2>1, <2>3 DEF RootLevel
    <3>4. Roots(m)[h + 1][T] = BranchHash(Roots(m)[h][zeros], Roots(m)[h][ones])
      BY <2>0, <2>1, <2>3 DEF RootLevel
    <3> QED
      BY <3>2, <3>3, <3>4
  <2> QED
    BY <2>2, <2>3
<1> HIDE DEF S
<1>3. \A h \in Nat : h \in S
  BY <1>1, <1>2, SetInduction
<1> QED
  BY <1>3, DepthType DEF S

LEMMA SameBelow ==
    ASSUME NEW l, NEW m, NEW a \in Addrs, NEW d \in 0..(TreeDepth - 1), NEW bit,
           \A b \in Addrs : SamePrefix(a, b, d) /\ Bits[b][d + 1] = bit
                            => LeafOf(l, b) = LeafOf(m, b)
    PROVE  Below(l, a, d, bit) = Below(m, a, d, bit)
<1> DEFINE S == Side(OnPath(Populated(l), a, d), d, bit)
           T == Side(OnPath(Populated(m), a, d), d, bit)
<1>1. S = T /\ S \in SUBSET Addrs /\ \A b \in S : LeafOf(l, b) = LeafOf(m, b)
  BY DEF Side, OnPath, Populated
<1>2. TreeDepth - (d + 1) \in 0..TreeDepth
  BY DepthType
<1> HIDE DEF S, T
<1>3. Roots(l)[TreeDepth - (d + 1)][S] = Roots(m)[TreeDepth - (d + 1)][S]
  BY <1>1, <1>2, SameLeaves
<1> QED
  BY <1>1, <1>3 DEF Below, SubtreeRoot, S, T

LEMMA SameRoot ==
    ASSUME NEW l, NEW m, \A a \in Addrs : LeafOf(l, a) = LeafOf(m, a)
    PROVE  ComputeRoot(l) = ComputeRoot(m)
<1>1. Populated(l) = Populated(m) /\ Populated(l) \in SUBSET Addrs
  BY DEF Populated
<1>2. TreeDepth - 0 \in 0..TreeDepth
  BY DepthType
<1>3. Roots(l)[TreeDepth - 0][Populated(l)] = Roots(m)[TreeDepth - 0][Populated(l)]
  BY <1>1, <1>2, SameLeaves
<1> QED
  BY <1>1, <1>3 DEF ComputeRoot, SubtreeRoot
\* Updates that take the ledger l to m: each carries the proof that l gives of
\* its account and the leaf it has in m, and no other account differs.
Update(us, l, m) ==
    /\ \A i \in DOMAIN us :
          LET a == us[i].proof.address
          IN  /\ a \in Addrs
              /\ us[i].proof.siblings = ComputeProof(l, a).siblings
              /\ us[i].post = LeafOf(m, a)
    /\ \A a \in Addrs \ Touched(us) : LeafOf(m, a) = LeafOf(l, a)

LEMMA UpdateFacts ==
    ASSUME NEW us, NEW l, NEW m, Update(us, l, m)
    PROVE  /\ Touched(us) \in SUBSET Addrs
           /\ \A a \in Touched(us) :
                 /\ UpdateOf(us, a).proof.siblings = ComputeProof(l, a).siblings
                 /\ UpdateOf(us, a).post = LeafOf(m, a)
<1>1. Touched(us) \in SUBSET Addrs
  BY DEF Touched, Update
<1>2. ASSUME NEW a \in Touched(us)
      PROVE  /\ UpdateOf(us, a).proof.siblings = ComputeProof(l, a).siblings
             /\ UpdateOf(us, a).post = LeafOf(m, a)
  <2> DEFINE i == CHOOSE i \in DOMAIN us : us[i].proof.address = a
  <2>1. \E j \in DOMAIN us : us[j].proof.address = a
    BY DEF Touched
  <2>2. i \in DOMAIN us /\ us[i].proof.address = a
    BY <2>1
  <2>3. UpdateOf(us, a) = us[i]
    BY DEF UpdateOf
  <2> HIDE DEF i
  <2> QED
    BY <2>2, <2>3 DEF Update
<1> QED
  BY <1>1, <1>2

\* One side of a node with a touched account below it: by the recursion where
\* that side has one, too, and otherwise as it was.
SideAfter(us, T, d, bit) ==
    IF Side(T, d, bit) # {} THEN PostRoot(us, Side(T, d, bit), d + 1)
    ELSE UntouchedSide(us, Side(T, d, 1 - bit), d)

LEMMA PostBranches ==
    ASSUME NEW us, NEW T \in SUBSET Addrs, T # {}, NEW d \in 0..(TreeDepth - 1)
    PROVE  PostRoot(us, T, d)
           = BranchHash(SideAfter(us, T, d, 0), SideAfter(us, T, d, 1))
<1> DEFINE h == TreeDepth - d
<1>1. /\ h \in 0..TreeDepth /\ h # 0 /\ TreeDepth - h = d
      /\ TreeDepth - (d + 1) = h - 1
  BY DepthType
<1>2. PostRoots(us)[h] = PostLevel(us, h, PostRoots(us)[h - 1])
  BY <1>1, PostRootsAre
<1> HIDE DEF h
<1>3. T \in (SUBSET Addrs) \ {{}}
  OBVIOUS
<1>4. PostRoots(us)[h][T]
      = BranchHash(
           IF Side(T, d, 0) # {} THEN PostRoots(us)[h - 1][Side(T, d, 0)]
                                 ELSE UntouchedSide(us, Side(T, d, 1), d),
           IF Side(T, d, 1) # {} THEN PostRoots(us)[h - 1][Side(T, d, 1)]
                                 ELSE UntouchedSide(us, Side(T, d, 0), d))
  BY <1>1, <1>2, <1>3 DEF PostLevel
<1>5. 1 - 0 = 1 /\ 1 - 1 = 0
  OBVIOUS
<1>6. SideAfter(us, T, d, 0)
      = IF Side(T, d, 0) # {} THEN PostRoots(us)[h - 1][Side(T, d, 0)]
                              ELSE UntouchedSide(us, Side(T, d, 1), d)
  BY <1>1, <1>5 DEF SideAfter, PostRoot
<1>7. SideAfter(us, T, d, 1)
      = IF Side(T, d, 1) # {} THEN PostRoots(us)[h - 1][Side(T, d, 1)]
                              ELSE UntouchedSide(us, Side(T, d, 0), d)
  BY <1>1, <1>5 DEF SideAfter, PostRoot
<1> QED
  BY <1>4, <1>6, <1>7 DEF PostRoot, h

\* That side is the new ledger's, if the nodes below are.
LEMMA SideAfterIs ==
    ASSUME NEW us, NEW l, NEW m, Update(us, l, m), NEW d \in 0..(TreeDepth - 1),
           \A b \in Touched(us) :
              PostRoot(us, OnPath(Touched(us), b, d + 1), d + 1) = NodeOn(m, b, d + 1),
           NEW a \in Addrs, NEW bit \in {0, 1},
           OnPath(Touched(us), a, d) # {}
    PROVE  SideAfter(us, OnPath(Touched(us), a, d), d, bit) = Below(m, a, d, bit)
<1> DEFINE T == OnPath(Touched(us), a, d)
           X == Side(T, d, bit)
           Y == Side(T, d, 1 - bit)
<1>0. Touched(us) \in SUBSET Addrs /\ d \in Nat
  BY UpdateFacts, DepthType
<1>1. CASE X # {}
  <2>1. PICK b \in X : TRUE
    BY <1>1
  <2>2. b \in Touched(us) /\ b \in Addrs /\ SamePrefix(a, b, d) /\ Bits[b][d + 1] = bit
    BY <1>0, <2>1 DEF Side, OnPath
  <2>3. OnPath(Touched(us), b, d + 1) = X
    <3>1. OnPath(Touched(us), b, d + 1) = Side(OnPath(Touched(us), b, d), d, bit)
      <4>1. \A e \in 0..(TreeDepth - 1) :
               OnPath(Touched(us), b, e + 1)
               = Side(OnPath(Touched(us), b, e), e, Bits[b][e + 1])
        BY <1>0, <2>2, PathSets
      <4> QED
        BY <2>2, <4>1
    <3>2. OnPath(Touched(us), b, d) = T
      BY <2>2, SharedPath
    <3> QED
      BY <3>1, <3>2
  <2>4. NodeOn(m, b, d + 1) = Below(m, b, d, bit)
    BY <2>2, BelowNodes
  <2>5. Below(m, b, d, bit) = Below(m, a, d, bit)
    BY <2>2, SharedPath
  <2>6. PostRoot(us, X, d + 1) = NodeOn(m, b, d + 1)
    BY <2>2, <2>3
  <2> QED
    BY <1>1, <2>4, <2>5, <2>6 DEF SideAfter
<1>2. CASE X = {}
  <2> DEFINE c == CHOOSE c \in Y : TRUE
  <2>1. Y # {}
    <3>1. T \in SUBSET Addrs
      BY <1>0 DEF OnPath
    <3>2. \A b \in T : Bits[b][d + 1] \in {0, 1}
      BY <3>1, BitsType
    <3> HIDE DEF T
    <3>3. PICK b \in T : TRUE
      BY DEF T
    <3>4. Bits[b][d + 1] = bit \/ Bits[b][d + 1] = 1 - bit
      BY <3>2, <3>3
    <3> QED
      BY <1>2, <3>3, <3>4 DEF Side
  <2>2. c \in Y
    BY <2>1
  <2> HIDE DEF c
  <2>3. /\ c \in Touched(us) /\ c \in Addrs /\ SamePrefix(a, c, d)
        /\ Bits[c][d + 1] = 1 - bit
    BY <1>0, <2>2 DEF Side, OnPath
  <2>4. UntouchedSide(us, Y, d) = ComputeProof(l, c).siblings[TreeDepth - d]
    BY <2>3, UpdateFacts DEF UntouchedSide, SiblingAt, c
  <2>5. ComputeProof(l, c).siblings[TreeDepth - d] = Beside(l, c, d)
    <3>1. TreeDepth - d \in 1..TreeDepth /\ TreeDepth - (TreeDepth - d) = d
      BY DepthType
    <3> QED
      BY <2>3, <3>1, MadeProof
  <2>6. Beside(l, c, d) = Below(l, c, d, bit)
    <3>1. 1 - (1 - bit) = bit
      OBVIOUS
    <3> QED
      BY <2>3, <3>1, BelowNodes
  <2>7. Below(l, c, d, bit) = Below(l, a, d, bit)
    BY <2>3, SharedPath
  <2>8. Below(l, a, d, bit) = Below(m, a, d, bit)
    <3>1. ASSUME NEW b \in Addrs, SamePrefix(a, b, d), Bits[b][d + 1] = bit
          PROVE  LeafOf(l, b) = LeafOf(m, b)
      <4>1. b \notin Touched(us)
        BY <1>2, <3>1 DEF Side, OnPath
      <4> QED
        BY <4>1 DEF Update
    <3> QED
      BY <3>1, SameBelow
  <2> QED
    BY <1>2, <2>4, <2>5, <2>6, <2>7, <2>8 DEF SideAfter
<1> QED
  BY <1>1, <1>2
\* post_root_recursive arrives at every node of the new tree that has a touched
\* account below it.
LEMMA PostNodes ==
    ASSUME NEW us, NEW l, NEW m, Update(us, l, m)
    PROVE  \A d \in 0..TreeDepth : \A a \in Touched(us) :
              PostRoot(us, OnPath(Touched(us), a, d), d) = NodeOn(m, a, d)
<1> DEFINE P(d) == \A a \in Touched(us) :
                      PostRoot(us, OnPath(Touched(us), a, d), d) = NodeOn(m, a, d)
           S == {h \in Nat : h <= TreeDepth => P(TreeDepth - h)}
<1>0. Touched(us) \in SUBSET Addrs
  BY UpdateFacts
<1>1. 0 \in S
  <2>1. ASSUME NEW a \in Touched(us)
        PROVE  PostRoot(us, OnPath(Touched(us), a, TreeDepth), TreeDepth)
               = NodeOn(m, a, TreeDepth)
    <3>1. OnPath(Touched(us), a, TreeDepth) = {a} /\ a \in Addrs
      <4>1. a \in Addrs
        BY <1>0
      <4>2. OnPath(Touched(us), a, TreeDepth) = Touched(us) \cap {a}
        BY <1>0, <4>1, PathSets
      <4> QED
        BY <4>1, <4>2
    <3>2. TreeDepth - TreeDepth = 0 /\ 0 \in 0..TreeDepth
      BY DepthType
    <3>3. PostRoots(us)[0] = PostLevel(us, 0, PostRoots(us)[0 - 1])
      BY <3>2, PostRootsAre
    <3>4. PostRoots(us)[0][{a}]
          = LET b == CHOOSE b \in {a} : TRUE IN LeafHash(b, UpdateOf(us, b).post)
      BY <3>1, <3>3 DEF PostLevel
    <3>5. (CHOOSE b \in {a} : TRUE) = a
      OBVIOUS
    <3>6. PostRoots(us)[0][{a}] = LeafHash(a, LeafOf(m, a))
      BY <3>4, <3>5, UpdateFacts
    <3> QED
      BY <3>1, <3>2, <3>6, NodesOnPath DEF PostRoot
  <2>2. TreeDepth - 0 = TreeDepth
    BY DepthType
  <2> QED
    BY <2>1, <2>2
<1>2. ASSUME NEW h \in Nat, h \in S
      PROVE  h + 1 \in S
  <2> SUFFICES ASSUME h + 1 <= TreeDepth
               PROVE  P(TreeDepth - (h + 1))
    OBVIOUS
  <2> DEFINE d == TreeDepth - (h + 1)
  <2>1. d \in 0..(TreeDepth - 1) /\ d + 1 = TreeDepth - h /\ h <= TreeDepth
    BY DepthType
  <2>2. P(d + 1)
    BY <1>2, <2>1
  <2> HIDE DEF d
  <2>3. ASSUME NEW a \in Touched(us)
        PROVE  PostRoot(us, OnPath(Touched(us), a, d), d) = NodeOn(m, a, d)
    <3> DEFINE T == OnPath(Touched(us), a, d)
    <3>1. T \in SUBSET Addrs /\ a \in T /\ a \in Addrs
      BY <1>0 DEF OnPath, SamePrefix
    <3>2. T # {}
      BY <3>1
    <3>3. /\ SideAfter(us, T, d, 0) = Below(m, a, d, 0)
          /\ SideAfter(us, T, d, 1) = Below(m, a, d, 1)
      BY <2>1, <2>2, <3>1, <3>2, SideAfterIs
    <3>4. NodeOn(m, a, d) = BranchHash(Below(m, a, d, 0), Below(m, a, d, 1))
      BY <2>1, <3>1, BelowNodes
    <3> HIDE DEF T
    <3>5. PostRoot(us, T, d)
          = BranchHash(SideAfter(us, T, d, 0), SideAfter(us, T, d, 1))
      BY <2>1, <3>1, <3>2, PostBranches
    <3> QED
      BY <3>3, <3>4, <3>5 DEF T
  <2> QED
    BY <2>3 DEF d
<1> HIDE DEF S, P
<1>3. \A h \in Nat : h \in S
  BY <1>1, <1>2, SetInduction
<1>4. \A d \in 0..TreeDepth : P(d)
  <2>1. ASSUME NEW d \in 0..TreeDepth
        PROVE  P(d)
    <3>1. TreeDepth - d \in Nat /\ TreeDepth - d <= TreeDepth
          /\ TreeDepth - (TreeDepth - d) = d
      BY DepthType
    <3>2. TreeDepth - d \in S
      BY <1>3, <3>1
    <3>3. P(TreeDepth - (TreeDepth - d))
      BY <3>1, <3>2 DEF S
    <3> QED
      BY <3>1, <3>3
  <2> QED
    BY <2>1
<1> QED
  BY <1>4 DEF P

\* apply_updates: from the old root and the proofs of the touched accounts alone,
\* the root of the whole new ledger (smt.rs:244-315).
THEOREM UpdatesReachRoot ==
    ASSUME NEW us, NEW l, NEW m, Update(us, l, m),
           us = <<>> \/ \E i \in DOMAIN us : TRUE
    PROVE  ApplyUpdates(us, ComputeRoot(l)) = ComputeRoot(m)
<1>1. CASE us = <<>>
  <2>1. Touched(us) = {}
    BY <1>1 DEF Touched
  <2>2. \A a \in Addrs : LeafOf(l, a) = LeafOf(m, a)
    BY <2>1 DEF Update
  <2> QED
    BY <1>1, <2>2, SameRoot DEF ApplyUpdates
<1>2. CASE us # <<>>
  <2>1. PICK a \in Touched(us) : TRUE
    BY <1>2 DEF Touched
  <2>2. Touched(us) \in SUBSET Addrs /\ a \in Addrs
    BY <2>1, UpdateFacts
  <2>3. OnPath(Touched(us), a, 0) = Touched(us)
    BY <2>2, PathSets
  <2>4. PostRoot(us, Touched(us), 0) = NodeOn(m, a, 0)
    <3>1. 0 \in 0..TreeDepth
      BY DepthType
    <3> QED
      BY <2>1, <2>3, <3>1, PostNodes
  <2>5. NodeOn(m, a, 0) = ComputeRoot(m)
    BY <2>2, NodesOnPath
  <2> QED
    BY <1>2, <2>4, <2>5 DEF ApplyUpdates
<1> QED
  BY <1>1, <1>2

\* refresh_observer: from the old proof of an account that is not touched, or is,
\* its proof in the new ledger (smt.rs:317-412).
THEOREM ObserverIsRefreshed ==
    ASSUME NEW us, NEW l, NEW m, Update(us, l, m), NEW o \in Addrs
    PROVE  LET new == RefreshObserver(us, ComputeProof(l, o))
           IN  /\ new.address = o
               /\ new.leaf = LeafOf(m, o)
               /\ new.siblings = ComputeProof(m, o).siblings
<1> DEFINE p == ComputeProof(l, o)
           new == RefreshObserver(us, p)
<1>0. /\ Touched(us) \in SUBSET Addrs
      /\ p.address = o /\ p.leaf = LeafOf(l, o)
      /\ \A i \in 1..TreeDepth : p.siblings[i] = Beside(l, o, TreeDepth - i)
  BY UpdateFacts, MadeProof
<1> HIDE DEF p
<1>1. /\ new.address = o
      /\ new.leaf = IF o \in Touched(us) THEN UpdateOf(us, o).post ELSE p.leaf
      /\ new.siblings
         = [i \in 1..TreeDepth |->
              LET d == TreeDepth - i
              IN  IF Opposite(us, o, d) = {} THEN p.siblings[i]
                  ELSE PostRoot(us, Opposite(us, o, d), d + 1)]
  BY <1>0 DEF RefreshObserver
<1> HIDE DEF new
<1>2. new.leaf = LeafOf(m, o)
  <2>1. CASE o \in Touched(us)
    BY <1>1, <2>1, UpdateFacts
  <2>2. CASE o \notin Touched(us)
    BY <1>0, <1>1, <2>2 DEF Update
  <2> QED
    BY <2>1, <2>2
<1>3. ASSUME NEW i \in 1..TreeDepth
      PROVE  new.siblings[i] = Beside(m, o, TreeDepth - i)
  <2> DEFINE d == TreeDepth - i
             X == Opposite(us, o, d)
  <2>1. d \in 0..(TreeDepth - 1)
    BY DepthType
  <2>2. new.siblings[i] = IF X = {} THEN p.siblings[i] ELSE PostRoot(us, X, d + 1)
    BY <1>1
  <2>3. /\ Bits[o][d + 1] \in {0, 1}
        /\ \A k : Beside(k, o, d) = Below(k, o, d, 1 - Bits[o][d + 1])
    BY <2>1, BitsType, BelowNodes
  <2>4. CASE X = {}
    <3>1. ASSUME NEW b \in Addrs, SamePrefix(o, b, d),
                 Bits[b][d + 1] = 1 - Bits[o][d + 1]
          PROVE  LeafOf(l, b) = LeafOf(m, b)
      <4>1. b \notin Touched(us)
        BY <2>4, <3>1 DEF Opposite, Side, OnPath
      <4> QED
        BY <4>1 DEF Update
    <3>2. Below(l, o, d, 1 - Bits[o][d + 1]) = Below(m, o, d, 1 - Bits[o][d + 1])
      BY <2>1, <3>1, SameBelow
    <3> QED
      BY <1>0, <2>2, <2>3, <2>4, <3>2
  <2>5. CASE X # {}
    <3>1. PICK b \in X : TRUE
      BY <2>5
    <3>2. /\ b \in Touched(us) /\ b \in Addrs /\ SamePrefix(o, b, d)
          /\ Bits[b][d + 1] = 1 - Bits[o][d + 1]
      BY <1>0, <3>1 DEF Opposite, Side, OnPath
    <3>3. OnPath(Touched(us), b, d + 1) = X
      <4>1. OnPath(Touched(us), b, d + 1)
            = Side(OnPath(Touched(us), b, d), d, Bits[b][d + 1])
        BY ZenonT(30), <1>0, <2>1, <3>2, PathSets
      <4>2. OnPath(Touched(us), b, d) = OnPath(Touched(us), o, d)
        BY <3>2, SharedPath
      <4> QED
        BY <3>2, <4>1, <4>2 DEF Opposite
    <3>4. PostRoot(us, X, d + 1) = NodeOn(m, b, d + 1)
      <4>1. d + 1 \in 0..TreeDepth
        BY <2>1, DepthType
      <4> HIDE DEF d, X
      <4> QED
        BY <3>2, <3>3, <4>1, PostNodes
    <3>5. NodeOn(m, b, d + 1) = Below(m, b, d, 1 - Bits[o][d + 1])
      BY <2>1, <3>2, BelowNodes
    <3>6. Below(m, b, d, 1 - Bits[o][d + 1]) = Below(m, o, d, 1 - Bits[o][d + 1])
      BY <3>2, SharedPath
    <3> QED
      BY <2>2, <2>3, <2>5, <3>4, <3>5, <3>6
  <2> QED
    BY <2>4, <2>5
<1>4. new.siblings = ComputeProof(m, o).siblings
  <2> DEFINE q == ComputeProof(m, o)
  <2>1. /\ q.siblings = [i \in 1..TreeDepth |-> q.siblings[i]]
        /\ \A i \in 1..TreeDepth : q.siblings[i] = Beside(m, o, TreeDepth - i)
    BY MadeProof DEF IsProof
  <2> HIDE DEF q
  <2>2. new.siblings = [i \in 1..TreeDepth |-> new.siblings[i]]
    BY <1>1
  <2>3. \A i \in 1..TreeDepth : new.siblings[i] = q.siblings[i]
    BY <1>3, <2>1
  <2> QED
    BY <2>1, <2>2, <2>3 DEF q
<1> QED
  BY <1>1, <1>2, <1>4 DEF new, p
=============================================================================
