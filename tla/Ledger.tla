------------------------------- MODULE Ledger -------------------------------
(***************************************************************************)
(* The L2 ledger of hodl-core (src/crates/hodl-core/src/state.rs): account *)
(* balances and nonces, consumed nullifiers, the running total of minted   *)
(* atoms, and the two operations on it, apply_mint and apply_transfer.     *)
(* Every daemon and the light wallet run this same code, so this module    *)
(* has no variables: the other modules keep ledgers in theirs.             *)
(***************************************************************************)
EXTENDS Naturals

CONSTANTS
    Addrs,          \* L2 addresses (x-only public keys)
    Nullifiers,     \* one per L1 lock outpoint
    FeeAddr,        \* sequencer_fee_address: an address, or NoFeeAddr (burn)
    NoFeeAddr,
    MaxAtoms,       \* u64::MAX, the largest Amount
    MinFee,         \* consensus::MIN_FEE
    FeeBps,         \* consensus::FEE_BPS
    BpsDenominator  \* the literal 10_000 of apply_transfer

ASSUME LedgerAssumption ==
    /\ NoFeeAddr \notin Addrs
    /\ FeeAddr \in Addrs \cup {NoFeeAddr}
    /\ MaxAtoms \in Nat
    /\ MinFee \in 0..MaxAtoms
    /\ FeeBps \in Nat
    /\ BpsDenominator \in Nat \ {0}

Amount == 0..MaxAtoms

\* `LedgerState`.  An absent BTreeMap entry and a default one are the same to
\* balance_of and nonce_of, so accounts are total functions.
LedgerType ==
    [balance : [Addrs -> Amount], nonce : [Addrs -> Nat],
     consumed : SUBSET Nullifiers, minted : Amount]

EmptyLedger ==
    [balance |-> [a \in Addrs |-> 0], nonce |-> [a \in Addrs |-> 0],
     consumed |-> {}, minted |-> 0]

\* What state_root hashes: accounts_root and nullifiers_hash (the fee address
\* is a constant here).  Hashes are taken as collision free.
Root(l) == <<l.balance, l.nonce, l.consumed>>

-----------------------------------------------------------------------------
(* u64 arithmetic: saturating_add and saturating_mul.                      *)

SatAdd(a, b) == IF a + b > MaxAtoms THEN MaxAtoms ELSE a + b
SatMul(a, b) == IF a * b > MaxAtoms THEN MaxAtoms ELSE a * b

\* fee = max(MIN_FEE, amount * FEE_BPS / 10_000)
TransferFee(amount) ==
    LET pro == SatMul(amount, FeeBps) \div BpsDenominator
    IN  IF pro > MinFee THEN pro ELSE MinFee

-----------------------------------------------------------------------------
(* Transactions.  `by` names the submission that carried the transaction;  *)
(* no operation reads it.  A signature is reduced to whether it verifies.  *)

MintTx(Ids) ==
    [type : {"mint"}, nullifier : Nullifiers, dest : Addrs, amount : Amount,
     by : Ids]

TransferTx(Ids) ==
    [type : {"transfer"}, from : Addrs, to : Addrs, amount : Amount,
     nonce : Nat, signed : BOOLEAN, by : Ids]

\* Mutant: consumed nullifiers are not looked up.
MintApplies_AnyNullifier(l, tx) == tx.amount # 0

MintApplies(l, tx) ==
    /\ tx.amount # 0
    /\ tx.nullifier \notin l.consumed

AfterMint(l, tx) ==
    [l EXCEPT !.consumed = @ \cup {tx.nullifier},
              !.balance[tx.dest] = SatAdd(@, tx.amount),
              !.minted = SatAdd(@, tx.amount)]

TransferCost(tx) == SatAdd(tx.amount, TransferFee(tx.amount))

\* Mutants: the fee is left out of the balance check; old nonces are accepted.
TransferApplies_NoFee(l, tx) ==
    /\ tx.amount # 0 /\ tx.from # tx.to
    /\ tx.nonce = l.nonce[tx.from] /\ tx.signed
    /\ l.balance[tx.from] >= tx.amount
TransferApplies_OldNonce(l, tx) ==
    /\ tx.amount # 0 /\ tx.from # tx.to
    /\ tx.nonce <= l.nonce[tx.from] /\ tx.signed
    /\ l.balance[tx.from] >= TransferCost(tx)

TransferApplies(l, tx) ==
    /\ tx.amount # 0
    /\ tx.from # tx.to
    /\ tx.nonce = l.nonce[tx.from]
    /\ tx.signed
    /\ l.balance[tx.from] >= TransferCost(tx)

\* The three balance updates happen in this order: the fee recipient may be
\* the sender or the receiver.
Debited(l, tx)  == [l.balance EXCEPT ![tx.from] = @ - TransferCost(tx)]
\* Mutant: the receiver is credited in the ledger read before the debit.
Credited_Stale(l, tx) == [l.balance EXCEPT ![tx.to] = SatAdd(@, tx.amount)]
Credited(l, tx) == [Debited(l, tx) EXCEPT ![tx.to] = SatAdd(@, tx.amount)]
AfterFee(l, tx) ==
    IF FeeAddr = NoFeeAddr THEN Credited(l, tx)
    ELSE [Credited(l, tx) EXCEPT
             ![FeeAddr] = SatAdd(@, TransferFee(tx.amount))]

AfterTransfer(l, tx) ==
    [l EXCEPT !.balance = AfterFee(l, tx), !.nonce[tx.from] = @ + 1]

\* `LedgerState::apply`: a rejected transaction leaves the ledger as it was.
Applies(l, tx) ==
    IF tx.type = "mint" THEN MintApplies(l, tx) ELSE TransferApplies(l, tx)
Apply(l, tx) ==
    IF tx.type = "mint" THEN AfterMint(l, tx) ELSE AfterTransfer(l, tx)
=============================================================================
