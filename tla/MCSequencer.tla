---------------------------- MODULE MCSequencer -----------------------------
(* Model-checking instance of Sequencer: the values of its constants.      *)
EXTENDS Sequencer

CONSTANTS alice, bob, seq, n1, n2, r1, r2, r3

MCAddrs == {alice, bob, seq}
MCNullifiers == {n1, n2}
MCMintAmount == [n \in MCNullifiers |-> IF n = n1 THEN 12 ELSE 10]

\* n1 pays for two transfers, n2 for one and a half; both saturate a balance.
MCMintInputs == [nullifier : {n1, n2}, dest : {alice}]
MCTransferInputs ==
    {[from |-> alice, to |-> bob, amount |-> 4, signed |-> TRUE]}

MCSymmetry == Permutations(Requests)
=============================================================================
