------------------------------ MODULE MintProof ------------------------------
(***************************************************************************)
(* The witness of a mint (hodl-core proof.rs): what OutpointProof::verify  *)
(* and verify_mint_entry demand of a view of L1, for the sequencer, for    *)
(* nodes and for light wallets alike, over the script and the minting      *)
(* function (l1.rs, consensus.rs).                                         *)
(***************************************************************************)
EXTENDS Ledger

CONSTANTS
    MaxLockBlocks,      \* MAX_LOCK_BLOCKS
    MaxL1Height,        \* u32::MAX
    MintFn(_, _)        \* mint_fn: atoms for a value locked for some blocks

ASSUME MintProofAssumption ==
    /\ MaxLockBlocks \in Nat \ {0}
    /\ MaxL1Height \in Nat
    /\ \A lock \in 0..MaxLockBlocks : MintFn(0, lock) = 0

MintConfirmations == 1

\* A scriptPubKey commits to the key and the lock duration under NUMS H:
\* expected_p2tr_spk.
MintScript(pk, lock) == [pk |-> pk, lock |-> lock]

\* A signature is whose it is and what it signs.
Sighash(outpoint, claimed, dest) ==
    [outpoint |-> outpoint, claimed |-> claimed, dest |-> dest]
Signature(pk, sighash) == [by |-> pk, of |-> sighash]

\* create.saturating_add(lock_blocks)
Unlock(create, lock) ==
    IF create + lock > MaxL1Height THEN MaxL1Height ELSE create + lock

\* What an implementation of L1View hands out: the outputs it found, as
\* [value, script, height, confirmations] by outpoint, and its tip.

\* The claimed height lies in the lock period and is not in the future.
\* Mutant: the lock period is closed at its end and open to the future.
InLockPeriod_Future(p, out, tip) ==
    /\ p.claimed >= out.height
    /\ p.claimed <= Unlock(out.height, p.lock)

InLockPeriod(p, out, tip) ==
    /\ p.claimed >= out.height
    /\ p.claimed < Unlock(out.height, p.lock)
    /\ p.claimed <= tip

\* OutpointProof::verify, for the outpoint, key, lock, claimed height and
\* signature of `p`.
Authorises(p, view, dest) ==
    /\ p.outpoint \in DOMAIN view.outputs
    /\ LET out == view.outputs[p.outpoint]
       IN  /\ out.confirmations >= MintConfirmations
           /\ p.lock \in 1..MaxLockBlocks
           /\ InLockPeriod(p, out, view.tip)
           /\ MintScript(p.pk, p.lock) = out.script
           /\ p.sig = Signature(p.pk, Sighash(p.outpoint, p.claimed, dest))
           /\ MintFn(out.value, p.lock) # 0

\* The MintCredit of a proof that verifies: the event of the mint, with the
\* outpoint as its nullifier.
Credit(p, view, dest) ==
    LET out == view.outputs[p.outpoint]
    IN  [nullifier |-> p.outpoint,
         amount    |-> MintFn(out.value, p.lock),
         dest      |-> dest,
         create    |-> out.height,
         lock      |-> p.lock,
         value     |-> out.value]

\* A mint of a block is the event with the proof: an L2Tx::Mint.
MintEntry(event, p) ==
    [type |-> "mint", nullifier |-> event.nullifier, dest |-> event.dest,
     amount |-> event.amount, create |-> event.create, lock |-> event.lock,
     value |-> event.value, proof |-> p]
EventOf(entry) ==
    [nullifier |-> entry.nullifier, amount |-> entry.amount,
     dest |-> entry.dest, create |-> entry.create, lock |-> entry.lock,
     value |-> entry.value]

\* verify_mint_entry.
EntryVerifies(entry, view) ==
    /\ Authorises(entry.proof, view, entry.dest)
    /\ Credit(entry.proof, view, entry.dest) = EventOf(entry)
=============================================================================
