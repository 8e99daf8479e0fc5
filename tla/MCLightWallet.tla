--------------------------- MODULE MCLightWallet ---------------------------
(***************************************************************************)
(* Values for the constants of LightWallet: a wallet whose address shares  *)
(* a prefix with another, a fee account on the other side of the tree, one *)
(* lock for each of the two users.                                         *)
(***************************************************************************)
EXTENDS LightWallet

CONSTANTS alice, bob, seq, n1, n2

MCAddrs == {alice, bob, seq}
MCBits == [a \in MCAddrs |->
              CASE a = alice -> <<0, 0>> [] a = bob -> <<0, 1>> [] a = seq -> <<1, 1>>]

MCMintFn(value, lock) == IF lock = 0 THEN 0 ELSE value
MCLockOf ==
    [o \in {n1, n2} |->
        IF o = n1 THEN [pk |-> alice, lock |-> 3, value |-> 4, dest |-> alice]
                  ELSE [pk |-> bob, lock |-> 3, value |-> 3, dest |-> bob]]

Pay(from, to, nonce, signed) ==
    [type |-> "transfer", from |-> from, to |-> to, amount |-> 1, nonce |-> nonce,
     signed |-> signed]
MCTransfers ==
    {Pay(alice, bob, 0, TRUE), Pay(bob, alice, 0, TRUE), Pay(alice, seq, 0, FALSE)}
=============================================================================
