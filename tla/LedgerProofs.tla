---------------------------- MODULE LedgerProofs ----------------------------
(***************************************************************************)
(* What apply_mint and apply_transfer preserve, for every ledger and every *)
(* transaction: the ledger stays well typed (no u64 underflows), nothing   *)
(* that was consumed is forgotten, and an applied transaction never        *)
(* applies again.                                                          *)
(***************************************************************************)
EXTENDS Ledger, Integers, TLAPS

\* A transaction whose effect the ledger already holds.
Known(l, tx) ==
    IF tx.type = "mint" THEN tx.nullifier \in l.consumed
    ELSE tx.nonce < l.nonce[tx.from]

\* Two transactions of which a ledger may execute one.
Same(s, t) ==
    \/ s.type = "mint" /\ t.type = "mint" /\ s.nullifier = t.nullifier
    \/ /\ s.type = "transfer" /\ t.type = "transfer"
       /\ s.from = t.from /\ s.nonce = t.nonce

\* Nothing consumed is forgotten and no nonce goes back.
Grows(k, l) ==
    /\ k.consumed \subseteq l.consumed
    /\ \A a \in Addrs : k.nonce[a] <= l.nonce[a]

-----------------------------------------------------------------------------

\* saturating_add stays within u64.
LEMMA SatAddType ==
    ASSUME NEW a \in Amount, NEW b \in Amount
    PROVE  SatAdd(a, b) \in Amount
BY LedgerAssumption DEF SatAdd, Amount

\* The fee fits a u64, whatever the amount.
LEMMA TransferFeeType ==
    ASSUME NEW a \in Amount
    PROVE  TransferFee(a) \in Amount
<1>1. /\ MaxAtoms \in Nat /\ MinFee \in Nat /\ MinFee <= MaxAtoms
      /\ FeeBps \in Nat /\ BpsDenominator \in Nat \ {0}
  BY LedgerAssumption
<1>2. a * FeeBps \in Nat
  BY <1>1 DEF Amount
<1>3. SatMul(a, FeeBps) \in 0..MaxAtoms
  BY <1>1, <1>2 DEF SatMul
<1>4. \A n \in 0..MaxAtoms, d \in Nat \ {0} : n \div d \in 0..MaxAtoms
  <2> SUFFICES ASSUME NEW n \in 0..MaxAtoms, NEW d \in Nat \ {0}
               PROVE  n \div d \in 0..MaxAtoms
    OBVIOUS
  <2>1. n = d * (n \div d) + (n % d) /\ n % d \in 0..(d - 1) /\ n \div d \in Int
    BY <1>1
  <2>2. n \div d >= 0
    BY <1>1
  <2>3. n \div d <= n
    BY <1>1, <2>1, <2>2
  <2> QED
    BY <1>1, <2>1, <2>2, <2>3
<1> QED
  BY <1>1, <1>3, <1>4 DEF TransferFee, Amount

\* What a transfer costs its sender fits a u64.
LEMMA TransferCostType ==
    ASSUME NEW tx, tx.amount \in Amount
    PROVE  TransferCost(tx) \in Amount
BY TransferFeeType, SatAddType DEF TransferCost

\* The ledger of genesis is well typed.
LEMMA EmptyLedgerType == EmptyLedger \in LedgerType
BY LedgerAssumption DEF EmptyLedger, LedgerType, Amount

\* An applied mint leaves a well-typed ledger.
LEMMA AfterMintType ==
    ASSUME NEW l \in LedgerType, NEW tx, tx.nullifier \in Nullifiers,
           tx.dest \in Addrs, tx.amount \in Amount
    PROVE  AfterMint(l, tx) \in LedgerType
<1>1. /\ tx.nullifier \in Nullifiers /\ tx.dest \in Addrs
      /\ tx.amount \in Amount
  OBVIOUS
<1>2. /\ l.balance[tx.dest] \in Amount /\ l.minted \in Amount
  BY <1>1 DEF LedgerType
<1>3. /\ SatAdd(l.balance[tx.dest], tx.amount) \in Amount
      /\ SatAdd(l.minted, tx.amount) \in Amount
  BY <1>1, <1>2, SatAddType
<1> QED
  BY <1>1, <1>3 DEF AfterMint, LedgerType

\* An applied transfer leaves a well-typed ledger: the balance check covers
\* the whole cost, so the debit does not underflow.
LEMMA AfterTransferType ==
    ASSUME NEW l \in LedgerType, NEW tx, tx.from \in Addrs, tx.to \in Addrs,
           tx.amount \in Amount, TransferApplies(l, tx)
    PROVE  AfterTransfer(l, tx) \in LedgerType
<1>1. /\ tx.from \in Addrs /\ tx.to \in Addrs /\ tx.amount \in Amount
  OBVIOUS
<1>2. TransferCost(tx) \in Amount /\ TransferFee(tx.amount) \in Amount
  BY <1>1, TransferCostType, TransferFeeType
<1>3. l.balance[tx.from] - TransferCost(tx) \in Amount
  BY <1>1, <1>2, LedgerAssumption DEF TransferApplies, LedgerType, Amount
<1>4. Debited(l, tx) \in [Addrs -> Amount]
  BY <1>1, <1>3 DEF Debited, LedgerType
<1>5. SatAdd(Debited(l, tx)[tx.to], tx.amount) \in Amount
  BY <1>1, <1>4, SatAddType
<1>6. Credited(l, tx) \in [Addrs -> Amount]
  BY <1>1, <1>4, <1>5 DEF Credited
<1>7. AfterFee(l, tx) \in [Addrs -> Amount]
  <2>1. CASE FeeAddr = NoFeeAddr
    BY <2>1, <1>6 DEF AfterFee
  <2>2. CASE FeeAddr # NoFeeAddr
    <3>1. FeeAddr \in Addrs
      BY <2>2, LedgerAssumption
    <3>2. SatAdd(Credited(l, tx)[FeeAddr], TransferFee(tx.amount)) \in Amount
      BY <3>1, <1>2, <1>6, SatAddType
    <3> QED
      BY <2>2, <3>1, <3>2, <1>6 DEF AfterFee
  <2> QED
    BY <2>1, <2>2
<1>8. [l.nonce EXCEPT ![tx.from] = @ + 1] \in [Addrs -> Nat]
  BY <1>1 DEF LedgerType
<1> QED
  BY <1>7, <1>8 DEF AfterTransfer, LedgerType

\* LedgerState::apply keeps the ledger well typed.
LEMMA ApplyType ==
    ASSUME NEW Ids, NEW l \in LedgerType,
           NEW tx \in MintTx(Ids) \cup TransferTx(Ids), Applies(l, tx)
    PROVE  Apply(l, tx) \in LedgerType
<1>1. CASE tx \in MintTx(Ids)
  BY <1>1, AfterMintType DEF Apply, MintTx
<1>2. CASE tx \in TransferTx(Ids)
  <2>1. tx.type = "transfer"
    BY <1>2 DEF TransferTx
  <2>2. TransferApplies(l, tx)
    BY <2>1 DEF Applies
  <2> QED
    BY <1>2, <2>1, <2>2, AfterTransferType DEF Apply, TransferTx
<1> QED
  BY <1>1, <1>2
-----------------------------------------------------------------------------

\* An applied transaction was new to the ledger and is known to it afterwards:
\* neither a nullifier nor a nonce can be used again.
LEMMA ApplyKnows ==
    ASSUME NEW Ids, NEW l \in LedgerType,
           NEW tx \in MintTx(Ids) \cup TransferTx(Ids), Applies(l, tx)
    PROVE  /\ ~Known(l, tx)
           /\ Known(Apply(l, tx), tx)
<1>1. CASE tx \in MintTx(Ids)
  BY <1>1 DEF MintTx, Known, Applies, MintApplies, Apply, AfterMint,
              LedgerType
<1>2. CASE tx \in TransferTx(Ids)
  <2>1. /\ tx.type = "transfer" /\ tx.from \in Addrs
        /\ l.nonce \in [Addrs -> Nat]
    BY <1>2 DEF TransferTx, LedgerType
  <2>2. tx.nonce = l.nonce[tx.from]
    BY <2>1 DEF Applies, TransferApplies
  <2>3. Apply(l, tx).nonce[tx.from] = l.nonce[tx.from] + 1
    BY <2>1 DEF Apply, AfterTransfer, LedgerType
  <2> QED
    BY <2>1, <2>2, <2>3 DEF Known
<1> QED
  BY <1>1, <1>2

\* Applying a transaction forgets nothing.
LEMMA ApplyGrows ==
    ASSUME NEW Ids, NEW l \in LedgerType,
           NEW tx \in MintTx(Ids) \cup TransferTx(Ids)
    PROVE  Grows(l, Apply(l, tx))
<1>0. l.nonce \in [Addrs -> Nat]
  BY DEF LedgerType
<1>1. CASE tx \in MintTx(Ids)
  BY <1>0, <1>1 DEF MintTx, Grows, Apply, AfterMint, LedgerType
<1>2. CASE tx \in TransferTx(Ids)
  <2>1. tx.type = "transfer" /\ tx.from \in Addrs
    BY <1>2 DEF TransferTx
  <2>2. /\ Apply(l, tx).consumed = l.consumed
        /\ Apply(l, tx).nonce = [l.nonce EXCEPT ![tx.from] = @ + 1]
    BY <2>1 DEF Apply, AfterTransfer, LedgerType
  <2>3. \A a \in Addrs : l.nonce[a] <= Apply(l, tx).nonce[a]
    BY <1>0, <2>1, <2>2
  <2> QED
    BY <2>2, <2>3 DEF Grows
<1> QED
  BY <1>1, <1>2

\* What a ledger knows, every later ledger knows.
LEMMA KnownGrows ==
    ASSUME NEW Ids, NEW k \in LedgerType, NEW l \in LedgerType, Grows(k, l),
           NEW tx \in MintTx(Ids) \cup TransferTx(Ids), Known(k, tx)
    PROVE  Known(l, tx)
<1>1. CASE tx \in MintTx(Ids)
  BY <1>1 DEF MintTx, Known, Grows
<1>2. CASE tx \in TransferTx(Ids)
  <2>1. /\ tx.type = "transfer" /\ tx.from \in Addrs /\ tx.nonce \in Nat
        /\ k.nonce \in [Addrs -> Nat] /\ l.nonce \in [Addrs -> Nat]
    BY <1>2 DEF TransferTx, LedgerType
  <2>2. k.nonce[tx.from] \in Nat /\ l.nonce[tx.from] \in Nat
    BY <2>1
  <2> QED
    BY <2>1, <2>2 DEF Known, Grows
<1> QED
  BY <1>1, <1>2

\* Ledgers grow reflexively and transitively.
LEMMA GrowsOrder ==
    ASSUME NEW j \in LedgerType, NEW k \in LedgerType, NEW l \in LedgerType
    PROVE  /\ Grows(j, j)
           /\ Grows(j, k) /\ Grows(k, l) => Grows(j, l)
<1>1. \A a \in Addrs : /\ j.nonce[a] \in Nat /\ k.nonce[a] \in Nat
                        /\ l.nonce[a] \in Nat
  BY DEF LedgerType
<1> QED
  BY <1>1 DEF Grows

\* A ledger that knows one of two conflicting transactions knows the other.
LEMMA SameKnown ==
    ASSUME NEW l, NEW s, NEW t, Same(s, t), Known(l, s)
    PROVE  Known(l, t)
BY DEF Same, Known
=============================================================================
