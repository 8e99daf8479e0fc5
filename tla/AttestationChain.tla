-------------------------- MODULE AttestationChain --------------------------
(***************************************************************************)
(* What Bitcoin promises to whoever follows the attestation chain from     *)
(* anchor_0 (nodes and light wallets): from every anchor at most one       *)
(* attestation continues, it carries a higher L2 height than the one it    *)
(* spends, and a reorg may take back the newest attestations but never the *)
(* settled ones; what takes their place carries a higher L2 height than    *)
(* anything that was in L1 before.                                         *)
(***************************************************************************)
EXTENDS Naturals

CONSTANT Anchor0    \* the name of anchor_0 among the names of anchors

VARIABLES
    links,      \* of each attestation in a block: the anchor it spends, and
                \* the L2 height it carries
    settled,    \* the ones too deep to be reorged
    attested    \* the L2 heights that ever were in an L1 block

chainVars == <<links, settled, attested>>

\* anchor_0 stands for genesis, whose height is 0.
HeightAt(list, a) == IF a = Anchor0 THEN 0 ELSE list[a].l2

Linked(list) ==
    \A i \in DOMAIN list :
        /\ list[i].spends \in {Anchor0} \cup DOMAIN list
        /\ HeightAt(list, list[i].spends) < list[i].l2
        /\ \A j \in DOMAIN list : list[i].spends = list[j].spends => i = j

NewHeights == {links'[i].l2 : i \in DOMAIN links'}

Init == links = [i \in {} |-> 0] /\ settled = {} /\ attested = {}

\* A new L1 block, which may replace others.
NewBlock ==
    /\ Linked(links')
    /\ settled \subseteq settled' /\ settled' \subseteq DOMAIN links'
    /\ \A i \in settled : links'[i] = links[i]
    /\ attested' = attested \cup NewHeights
    /\ \A new \in NewHeights \ attested : \A old \in attested : old < new

Spec == Init /\ [][NewBlock]_chainVars
=============================================================================
