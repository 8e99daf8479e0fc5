----------------------------- MODULE Induction ------------------------------
(***************************************************************************)
(* Induction and recursion stated with sets and functions instead of       *)
(* operators, so that a proof can cite them for a predicate of its own:    *)
(* induction over the naturals and over the subsets of a finite set, and   *)
(* the existence of what the folds of the community modules define.        *)
(***************************************************************************)
EXTENDS Integers, SequencesExt, FiniteSetTheorems, WellFoundedInduction, TLAPS

NatLess == {p \in Nat \X Nat : p[1] < p[2]}

LEMMA NatLessWF == IsWellFoundedOn(NatLess, Nat)
<1>1. NatLess = OpToRel(<, Nat)
  BY DEF OpToRel, NatLess
<1> QED
  BY <1>1, NatLessThanWellFounded DEF OpToRel

\* A set of numbers that holds 0 and the successor of each of its numbers
\* holds them all.
LEMMA SetInduction ==
    ASSUME NEW S, 0 \in S, \A n \in Nat : n \in S => n + 1 \in S
    PROVE  \A n \in Nat : n \in S
<1> DEFINE T == Nat \ S
<1> SUFFICES ASSUME T # {} PROVE FALSE
  OBVIOUS
<1>1. PICK x \in T : \A y \in T : <<y, x>> \notin NatLess
  <2>1. T \subseteq Nat
    OBVIOUS
  <2> HIDE DEF T
  <2> QED
    BY <2>1, NatLessWF, WFMin
<1>2. x # 0 /\ x - 1 \in Nat /\ <<x - 1, x>> \in NatLess
  BY DEF NatLess
<1> QED
  BY <1>1, <1>2

\* A collection of sets that holds the empty set, and every subset of S some
\* element of which can be taken out without leaving the collection, holds all
\* subsets of the finite set S.
LEMMA SubsetInduction ==
    ASSUME NEW S, IsFiniteSet(S), NEW G, {} \in G,
           \A s \in SUBSET S :
               s # {} => \E x \in s : s \ {x} \in G => s \in G
    PROVE  \A s \in SUBSET S : s \in G
<1> DEFINE N == {n \in Nat : \A s \in SUBSET S : Cardinality(s) = n => s \in G}
<1>1. \A s \in SUBSET S : IsFiniteSet(s) /\ Cardinality(s) \in Nat
  BY FS_Subset, FS_CardinalityType
<1>2. 0 \in N
  BY <1>1, FS_EmptySet
<1>3. ASSUME NEW n \in Nat, n \in N
      PROVE  n + 1 \in N
  <2> SUFFICES ASSUME NEW s \in SUBSET S, Cardinality(s) = n + 1
               PROVE  s \in G
    OBVIOUS
  <2>1. s # {}
    BY <1>1, FS_EmptySet
  <2>2. PICK x \in s : s \ {x} \in G => s \in G
    BY <2>1
  <2>3. s \ {x} \in SUBSET S /\ Cardinality(s \ {x}) = n
    <3>1. IsFiniteSet(s) /\ s \ {x} \in SUBSET S
      BY <1>1
    <3>2. Cardinality(s \ {x}) = Cardinality(s) - 1
      BY <3>1, FS_RemoveElement
    <3> QED
      BY <3>1, <3>2
  <2> QED
    BY <1>3, <2>2, <2>3
<1>4. \A n \in Nat : n \in N
  <2> HIDE DEF N
  <2> QED
    BY <1>2, <1>3, SetInduction
<1> QED
  BY <1>1, <1>4

\* c takes an element out of every nonempty subset of S, and g combines it with
\* what g makes of the rest: the function that MapThenFoldSet defines.
Chooses(c, S) == \A s \in SUBSET S : s # {} => c[s] \in s

IsFold(g, S, X, b, F, c) ==
    /\ g \in [SUBSET S -> X] /\ g[{}] = b
    /\ \A s \in SUBSET S : s # {} => g[s] = F[<<c[s], g[s \ {c[s]}]>>]

\* There is such a function.
LEMMA FoldExists ==
    ASSUME NEW S, IsFiniteSet(S), NEW X, NEW b \in X, NEW F \in [S \X X -> X],
           NEW c, Chooses(c, S)
    PROVE  \E g : IsFold(g, S, X, b, F, c)
<1> DEFINE Sub(n) == {s \in SUBSET S : Cardinality(s) <= n}
           Step(g, s) == IF s = {} THEN b ELSE F[<<c[s], g[s \ {c[s]}]>>]
           Solves(g, n) == g \in [Sub(n) -> X] /\ \A s \in Sub(n) : g[s] = Step(g, s)
           N == {n \in Nat : \E g : Solves(g, n)}
<1>1. \A s \in SUBSET S : IsFiniteSet(s) /\ Cardinality(s) \in Nat
  BY FS_Subset, FS_CardinalityType
<1>2. \A s \in SUBSET S : s # {} =>
        /\ c[s] \in s /\ c[s] \in S /\ s \ {c[s]} \in SUBSET S
        /\ Cardinality(s \ {c[s]}) = Cardinality(s) - 1
  BY <1>1, FS_RemoveElement DEF Chooses
<1>3. 0 \in N
  <2> DEFINE g == [s \in Sub(0) |-> b]
  <2>1. \A s \in Sub(0) : s = {}
    BY <1>1, FS_EmptySet
  <2>2. Solves(g, 0)
    BY <2>1
  <2> QED
    BY <2>2
<1>4. ASSUME NEW n \in Nat, n \in N
      PROVE  n + 1 \in N
  <2>1. PICK g : Solves(g, n)
    BY <1>4
  <2> DEFINE h == [s \in Sub(n + 1) |-> Step(g, s)]
  <2>2. \A s \in Sub(n + 1) : s # {} => s \ {c[s]} \in Sub(n)
    BY <1>1, <1>2
  <2>3. Sub(n) \subseteq Sub(n + 1)
    BY <1>1
  <2>4. \A s \in Sub(n) : h[s] = g[s]
    BY <2>1, <2>3
  <2>5. \A s \in Sub(n + 1) : h[s] = Step(h, s)
    BY <2>2, <2>4
  <2>6. \A s \in Sub(n + 1) : Step(g, s) \in X
    <3> SUFFICES ASSUME NEW s \in Sub(n + 1), s # {} PROVE Step(g, s) \in X
      OBVIOUS
    <3>1. s \ {c[s]} \in Sub(n) /\ c[s] \in S
      BY <1>2, <2>2
    <3>2. g[s \ {c[s]}] \in X
      BY <2>1, <3>1
    <3> QED
      BY <3>1, <3>2
  <2>7. h \in [Sub(n + 1) -> X]
    BY <2>6
  <2>8. Solves(h, n + 1)
    <3> HIDE DEF h, Sub, Step
    <3> QED
      BY <2>5, <2>7
  <2>9. n + 1 \in Nat /\ \E f : Solves(f, n + 1)
    <3> HIDE DEF Solves, h
    <3> QED
      BY <2>8
  <2> QED
    <3> HIDE DEF Solves
    <3> QED
      BY <2>9
<1>5. \A n \in Nat : n \in N
  <2> HIDE DEF N
  <2> QED
    BY <1>3, <1>4, SetInduction
<1>6. Cardinality(S) \in N
  BY <1>1, <1>5
<1>7. PICK g : Solves(g, Cardinality(S))
  BY <1>6
<1>8. Sub(Cardinality(S)) = SUBSET S
  BY FS_Subset
<1>9. g \in [SUBSET S -> X] /\ \A s \in SUBSET S : g[s] = Step(g, s)
  <2> HIDE DEF Sub, Step
  <2> QED
    BY <1>7, <1>8
<1> QED
  BY <1>9 DEF IsFold
-----------------------------------------------------------------------------
(* Sums over a finite set of addresses, as SumFunction computes them.      *)

\* The element that SumFunction takes next.
Picked(s) == CHOOSE x \in s : TRUE

\* g sums f over the subsets of S.
Adds(g, f, S) ==
    /\ g \in [SUBSET S -> Nat] /\ g[{}] = 0
    /\ \A s \in SUBSET S : s # {} => g[s] = f[Picked(s)] + g[s \ {Picked(s)}]

\* SumFunction(f) is the value on the whole set of a function on its subsets.
LEMMA SumSolves ==
    ASSUME NEW S, IsFiniteSet(S), NEW f \in [S -> Nat]
    PROVE  \E g : Adds(g, f, S) /\ SumFunction(f) = g[S]
<1> DEFINE c == [s \in SUBSET S |-> Picked(s)]
           F == [p \in S \X Nat |-> f[p[1]] + p[2]]
           Eq(g) == g = [s \in SUBSET S |->
                           IF s = {} THEN 0
                           ELSE f[Picked(s)] + g[s \ {Picked(s)}]]
<1>1. \A s \in SUBSET S : s # {} => c[s] \in s /\ c[s] = Picked(s)
  BY DEF Picked
<1>2. F \in [S \X Nat -> Nat]
  OBVIOUS
<1>3. PICK g : IsFold(g, S, Nat, 0, F, c)
  <2>1. Chooses(c, S)
    BY <1>1 DEF Chooses
  <2> HIDE DEF F, c
  <2> QED
    BY <1>2, <2>1, FoldExists
<1>f. g \in [SUBSET S -> Nat]
  BY <1>3 DEF IsFold
<1>4. Eq(g)
  <2>1. \A s \in SUBSET S : s # {} =>
           F[<<c[s], g[s \ {c[s]}]>>] = f[Picked(s)] + g[s \ {Picked(s)}]
    BY <1>1, <1>f
  <2> QED
    BY <1>3, <2>1 DEF IsFold
<1>5. SumFunction(f) = (CHOOSE h : Eq(h))[S]
  BY DEF SumFunction, SumFunctionOnSet, FoldFunctionOnSet, MapThenFoldSet, Picked
<1> DEFINE h == CHOOSE h : Eq(h)
<1>6. Eq(h)
  <2> HIDE DEF Eq
  <2> QED
    BY <1>4
<1>7. S \in SUBSET S /\ \A s \in SUBSET S : h[s] = g[s]
  <2> DEFINE G == {t \in SUBSET S : h[t] = g[t]}
  <2>1. {} \in G
    <3> HIDE DEF h
    <3> QED
      BY <1>4, <1>6
  <2>2. \A s \in SUBSET S : s # {} => \E x \in s : s \ {x} \in G => s \in G
    <3> SUFFICES ASSUME NEW s \in SUBSET S, s # {}, s \ {Picked(s)} \in G
                 PROVE  s \in G
      BY <1>1
    <3> HIDE DEF h
    <3> QED
      BY <1>4, <1>6
  <2>3. \A s \in SUBSET S : s \in G
    <3> HIDE DEF G
    <3> QED
      BY <2>1, <2>2, SubsetInduction
  <2> QED
    BY <2>3
<1>8. h[S] = g[S]
  BY <1>7
<1>9. g[{}] = 0 /\ \A s \in SUBSET S : s # {} => g[s] = f[Picked(s)] + g[s \ {Picked(s)}]
  BY <1>4
<1> QED
  <2> HIDE DEF h
  <2> QED
    BY <1>5, <1>8, <1>9, <1>f DEF h, Adds
\* A sum of natural numbers is one, and is at least each of them.
LEMMA SumBounds ==
    ASSUME NEW S, IsFiniteSet(S), NEW f \in [S -> Nat]
    PROVE  SumFunction(f) \in Nat /\ \A a \in S : f[a] <= SumFunction(f)
<1>1. PICK g : Adds(g, f, S) /\ SumFunction(f) = g[S]
  BY SumSolves
<1>2. \A s \in SUBSET S : s # {} => Picked(s) \in s
  BY DEF Picked
<1> USE DEF Adds
<1> DEFINE G == {s \in SUBSET S : \A a \in s : f[a] <= g[s]}
<1>3. {} \in G
  OBVIOUS
<1>4. \A s \in SUBSET S : s # {} => \E x \in s : s \ {x} \in G => s \in G
  <2> SUFFICES ASSUME NEW s \in SUBSET S, s # {}, s \ {Picked(s)} \in G
               PROVE  s \in G
    BY <1>2
  <2>1. Picked(s) \in s /\ g[s] = f[Picked(s)] + g[s \ {Picked(s)}]
    BY <1>1, <1>2
  <2>2. g[s \ {Picked(s)}] \in Nat /\ f[Picked(s)] \in Nat
    BY <1>1, <2>1
  <2>3. \A a \in s : a = Picked(s) \/ a \in s \ {Picked(s)}
    OBVIOUS
  <2>4. ASSUME NEW a \in s
        PROVE  f[a] <= g[s]
    <3>1. CASE a = Picked(s)
      BY <2>1, <2>2, <3>1
    <3>2. CASE a # Picked(s)
      <4>1. f[a] <= g[s \ {Picked(s)}] /\ f[a] \in Nat
        BY <2>3, <3>2
      <4> QED
        BY <2>1, <2>2, <4>1
    <3> QED
      BY <3>1, <3>2
  <2> QED
    BY <2>4
<1>5. \A s \in SUBSET S : s \in G
  <2> HIDE DEF G
  <2> QED
    BY <1>3, <1>4, SubsetInduction
<1> QED
  BY <1>1, <1>5

\* Nothing adds up to nothing.
LEMMA SumOfZeros ==
    ASSUME NEW S, IsFiniteSet(S)
    PROVE  SumFunction([a \in S |-> 0]) = 0
<1> DEFINE f == [a \in S |-> 0]
<1>0. f \in [S -> Nat]
  OBVIOUS
<1>1. PICK g : Adds(g, f, S) /\ SumFunction(f) = g[S]
  <2> HIDE DEF f
  <2> QED
    BY <1>0, SumSolves
<1>2. \A s \in SUBSET S : s # {} => Picked(s) \in s
  BY DEF Picked
<1> USE DEF Adds
<1> DEFINE G == {s \in SUBSET S : g[s] = 0}
<1>3. {} \in G
  BY <1>1
<1>4. \A s \in SUBSET S : s # {} => \E x \in s : s \ {x} \in G => s \in G
  BY <1>1, <1>2
<1>5. \A s \in SUBSET S : s \in G
  <2> HIDE DEF G
  <2> QED
    BY <1>3, <1>4, SubsetInduction
<1> QED
  BY <1>1, <1>5

\* Two functions that differ at most at a.
DifferAt(e, f, a, S) == \A b \in S \ {a} : e[b] = f[b]

\* Changing one of the numbers changes the sum by as much.
LEMMA SumChanges ==
    ASSUME NEW S, IsFiniteSet(S), NEW f \in [S -> Nat], NEW e \in [S -> Nat],
           NEW a \in S, DifferAt(e, f, a, S)
    PROVE  SumFunction(e) + f[a] = SumFunction(f) + e[a]
<1>1. PICK g : Adds(g, f, S) /\ SumFunction(f) = g[S]
  BY SumSolves
<1>2. PICK h : Adds(h, e, S) /\ SumFunction(e) = h[S]
  BY SumSolves
<1>3. \A s \in SUBSET S : s # {} => Picked(s) \in s
  BY DEF Picked
<1> USE DEF Adds
<1> DEFINE G == {s \in SUBSET S : IF a \in s THEN h[s] + f[a] = g[s] + e[a]
                                  ELSE h[s] = g[s]}
<1>4. {} \in G
  BY <1>1, <1>2
<1>5. \A s \in SUBSET S : s # {} => \E x \in s : s \ {x} \in G => s \in G
  <2> SUFFICES ASSUME NEW s \in SUBSET S, s # {}, s \ {Picked(s)} \in G
               PROVE  s \in G
    BY <1>3
  <2> DEFINE x == Picked(s)
             t == s \ {x}
  <2>1. /\ x \in s /\ x \in S /\ t \in SUBSET S
        /\ g[s] = f[x] + g[t] /\ h[s] = e[x] + h[t]
    BY <1>1, <1>2, <1>3
  <2>2. /\ g[t] \in Nat /\ h[t] \in Nat /\ f[x] \in Nat /\ e[x] \in Nat
        /\ f[a] \in Nat /\ e[a] \in Nat
    BY <1>1, <1>2, <2>1
  <2>3. CASE x = a
    <3>1. h[t] = g[t] /\ a \in s
      BY <2>1, <2>3
    <3> HIDE DEF x, t
    <3> QED
      BY <2>1, <2>2, <2>3, <3>1
  <2>4. CASE x # a
    <3>1. e[x] = f[x] /\ (a \in s <=> a \in t)
      BY <2>1, <2>4 DEF DifferAt
    <3>2. IF a \in t THEN h[t] + f[a] = g[t] + e[a] ELSE h[t] = g[t]
      OBVIOUS
    <3> HIDE DEF x, t
    <3> QED
      BY <2>1, <2>2, <3>1, <3>2
  <2> QED
    BY <2>3, <2>4
<1>6. \A s \in SUBSET S : s \in G
  <2> HIDE DEF G
  <2> QED
    BY <1>4, <1>5, SubsetInduction
<1>7. S \in G
  BY <1>6
<1> QED
  BY <1>1, <1>2, <1>7
-----------------------------------------------------------------------------
(* FoldLeft takes the last of a prefix 1..k away, which is its maximum.    *)

LEMMA MaxOfPrefix ==
    ASSUME NEW k \in Nat \ {0}
    PROVE  /\ Max(1..k) = k /\ (1..k) \ {Max(1..k)} = 1..(k - 1)
           /\ 1..k # {}
<1>1. Max(1..k) = k
  <2>1. /\ k \in 1..k /\ \A y \in 1..k : k >= y
        /\ \A x \in 1..k : (\A y \in 1..k : x >= y) => x = k
    OBVIOUS
  <2> QED
    BY <2>1 DEF Max
<1>2. (1..k) \ {k} = 1..(k - 1) /\ k \in 1..k
  OBVIOUS
<1> QED
  BY <1>1, <1>2

\* The maximum of a nonempty set of positions is one of them.
MaxIn(n) == [s \in SUBSET (1..n) |-> Max(s)]

LEMMA MaxChosen ==
    ASSUME NEW n \in Nat
    PROVE  Chooses(MaxIn(n), 1..n)
<1> DEFINE G == {s \in SUBSET (1..n) : s = {} \/ \E m \in s : \A y \in s : m >= y}
<1>1. IsFiniteSet(1..n)
  BY FS_Interval
<1>2. \A s \in SUBSET (1..n) : s # {} => \E x \in s : s \ {x} \in G => s \in G
  <2> SUFFICES ASSUME NEW s \in SUBSET (1..n), NEW x \in s, s \ {x} \in G
               PROVE  s \in G
    OBVIOUS
  <2>1. CASE s \ {x} = {}
    BY <2>1
  <2>2. CASE s \ {x} # {}
    <3>1. PICK m \in s \ {x} : \A y \in s \ {x} : m >= y
      BY <2>2
    <3>2. m \in Nat /\ x \in Nat /\ \A y \in s : y \in Nat
      OBVIOUS
    <3>3. CASE m >= x
      BY <3>1, <3>3
    <3>4. CASE ~(m >= x)
      <4>1. \A y \in s : x >= y
        BY <3>1, <3>2, <3>4
      <4> QED
        BY <4>1
    <3> QED
      BY <3>3, <3>4
  <2> QED
    BY <2>1, <2>2
<1>3. \A s \in SUBSET (1..n) : s \in G
  <2>1. {} \in G
    OBVIOUS
  <2> HIDE DEF G
  <2> QED
    BY <1>1, <1>2, <2>1, SubsetInduction
<1>4. \A s \in SUBSET (1..n) : s # {} => Max(s) \in s
  BY <1>3 DEF Max
<1> QED
  BY <1>4 DEF Chooses, MaxIn
=============================================================================
