--------------------------- MODULE LightWalletProofs ---------------------------
(***************************************************************************)
(* Theorems about LightWallet, for any chain, attestations, lies and       *)
(* faults: the head that is saved never moves back, is attested, and       *)
(* commits to the ledger of its block; the history is exact; what is shown *)
(* is of the attested ledger; no invalid block is accepted; and while      *)
(* nobody lies the wallet refuses none, and a node none but for a lock     *)
(* that was reclaimed.                                                     *)
(***************************************************************************)
EXTENDS LightWallet, LedgerProofs, SmtProofs, SequenceTheorems

HeadFields == {"l2", "hash", "accounts", "consumed", "anchor", "leaf", "path"}
WalkFields == {"at", "bal", "work", "anchor", "steps", "tip", "events", "ask", "boot"}

IsHead(x) == DOMAIN x = HeadFields /\ x.l2 \in Nat /\ x.anchor \in Nat
IsStep(s) == s.anchor \in Nat /\ s.att.height \in Nat

\* The walk past the bootstrap carries a head.
IsWalk(w) ==
    /\ DOMAIN w = WalkFields
    /\ w.anchor \in Nat
    /\ w.work = NoHead \/ IsHead(w.work)
    /\ \E S : w.steps \in Seq(S)
    /\ \A i \in 1..Len(w.steps) : IsStep(w.steps[i])
    /\ w.at \in {"balance", "nullifiers"} => w.work = NoHead
    /\ w.at \in {"tip", "blocks", "done"} => w.work # NoHead

\* A walk that is under way is nowhere behind the head x it started from, nor
\* are the attestations it still has to verify.
NotBehind(w, x) ==
    /\ w.work # NoHead
    /\ w.work.l2 >= x.l2 /\ w.work.anchor >= x.anchor
    /\ w.anchor >= x.anchor
    /\ \A i \in 1..Len(w.steps) : w.steps[i].anchor >= x.anchor

Attested ==
    /\ atts \in Seq(Nat)
    /\ DOMAIN node = {"ledger", "head", "spends"}
    /\ node.spends \in Nat /\ node.spends <= Len(atts)

IInv ==
    /\ Attested
    /\ head = NoHead \/ IsHead(head)
    /\ IsWalk(walk)
    /\ (head # NoHead /\ walk.at # "idle") => NotBehind(walk, head)

-----------------------------------------------------------------------------
LEMMA HeadIsSome ==
    ASSUME NEW x, IsHead(x)
    PROVE  x # NoHead
<1>1. DOMAIN NoHead = {"none"}
  BY DEF NoHead
<1> QED
  BY <1>1 DEF IsHead, HeadFields

\* The walk of a wallet that is not refreshing.
LEMMA IdleIsWalk == IsWalk(IdleWalk) /\ IdleWalk.at = "idle"
<1>1. /\ DOMAIN IdleWalk = WalkFields /\ IdleWalk.at = "idle" /\ IdleWalk.anchor = 0
      /\ IdleWalk.work = NoHead /\ IdleWalk.steps = <<>>
  BY DEF IdleWalk, WalkFields
<1>2. <<>> \in Seq({}) /\ Len(<<>>) = 0
  BY EmptySeq
<1> QED
  BY <1>1, <1>2 DEF IsWalk

\* A walk that gives up, or has not begun, leaves the head as it is.
LEMMA GivesUpKeeps ==
    ASSUME IInv, walk' = IdleWalk, UNCHANGED <<atts, node, head>>
    PROVE  IInv'
<1>1. IsWalk(walk') /\ walk'.at = "idle"
  BY IdleIsWalk
<1> QED
  BY <1>1 DEF IInv, Attested

\* A walk goes on: it is still a walk, and nowhere behind the head.
LEMMA GoesOn ==
    ASSUME IInv, UNCHANGED <<atts, node, head>>, IsWalk(walk'),
           head # NoHead => NotBehind(walk', head)
    PROVE  IInv'
BY DEF IInv, Attested

LEMMA RefreshKeeps ==
    ASSUME IInv, NEW ask, Refresh(ask)
    PROVE  IInv'
<1> DEFINE from == IF head = NoHead THEN 0 ELSE head.anchor
<1>1. /\ walk'.at = "walk" /\ walk'.work = head /\ walk'.anchor = from
      /\ walk'.steps = <<>> /\ DOMAIN walk' = WalkFields
  BY DEF Refresh, IdleWalk, WalkFields
<1>2. <<>> \in Seq({}) /\ Len(<<>>) = 0
  BY EmptySeq
<1>3. from \in Nat
  BY DEF IInv, IsHead
<1>4. IsWalk(walk')
  BY <1>1, <1>2, <1>3 DEF IsWalk, IInv
<1>5. head # NoHead => NotBehind(walk', head)
  BY <1>1, <1>2 DEF IInv, IsHead, NotBehind
<1>6. UNCHANGED <<atts, node, head>>
  BY DEF Refresh, worldVars
<1> QED
  BY <1>4, <1>5, <1>6, GoesOn

\* The next attestation is past the anchor.
LEMMA WalkStepKeeps ==
    ASSUME IInv, WalkStep
    PROVE  IInv'
<1> DEFINE n == walk.anchor + 1
           s == [anchor |-> n, att |-> Attestation(atts[n])]
<1>1. /\ walk.at = "walk" /\ walk.anchor < node.spends
      /\ walk' = [walk EXCEPT !.anchor = @ + 1, !.steps = Append(@, s)]
      /\ UNCHANGED <<atts, node, head>>
  BY DEF WalkStep, worldVars
<1>2. /\ DOMAIN walk = WalkFields /\ walk.anchor \in Nat
      /\ atts \in Seq(Nat) /\ node.spends \in Nat /\ node.spends <= Len(atts)
  BY DEF IInv, IsWalk, Attested
<1>3. n \in 1..Len(atts)
  <2>1. Len(atts) \in Nat
    BY <1>2, LenProperties
  <2> QED
    BY <1>1, <1>2, <2>1
<1>4. IsStep(s) /\ s.anchor = n
  <2>1. atts[n] \in Nat
    BY <1>2, <1>3, ElementOfSeq
  <2>2. s.att.height = atts[n]
    BY DEF Attestation
  <2> QED
    BY <1>3, <2>1, <2>2 DEF IsStep
<1> HIDE DEF s, n
<1>5. PICK S : walk.steps \in Seq(S)
  BY DEF IInv, IsWalk
<1> DEFINE T == S \cup {s}
           steps == Append(walk.steps, s)
<1>6. /\ steps \in Seq(T) /\ Len(walk.steps) \in Nat /\ Len(steps) = Len(walk.steps) + 1
      /\ \A i \in 1..Len(walk.steps) : steps[i] = walk.steps[i]
      /\ steps[Len(walk.steps) + 1] = s
  <2>1. walk.steps \in Seq(T) /\ s \in T
    BY <1>5, SeqMonotonic
  <2> HIDE DEF T
  <2> QED
    BY <2>1, AppendProperties, LenProperties
<1> HIDE DEF steps
<1>7. /\ walk'.at = "walk" /\ walk'.work = walk.work /\ walk'.anchor = n
      /\ walk'.steps = steps /\ DOMAIN walk' = WalkFields
  BY <1>1, <1>2 DEF WalkFields, steps, n
<1>8. \A i \in 1..Len(steps) : i \in 1..Len(walk.steps) \/ steps[i] = s
  BY <1>6
<1>9. IsWalk(walk')
  <2>1. \A i \in 1..Len(steps) : IsStep(steps[i])
    BY <1>4, <1>6, <1>8 DEF IInv, IsWalk
  <2>2. n \in Nat
    BY <1>3
  <2> QED
    BY <1>6, <1>7, <2>1, <2>2 DEF IInv, IsWalk
<1>10. head # NoHead => NotBehind(walk', head)
  <2> SUFFICES ASSUME head # NoHead
               PROVE  NotBehind(walk', head)
    OBVIOUS
  <2>1. NotBehind(walk, head) /\ head.anchor \in Nat
    BY <1>1 DEF IInv, IsHead
  <2>2. n >= head.anchor
    BY <1>2, <2>1 DEF NotBehind, n
  <2>3. \A i \in 1..Len(steps) : steps[i].anchor >= head.anchor
    BY <1>4, <1>6, <1>8, <2>1, <2>2 DEF NotBehind
  <2> QED
    BY <1>7, <2>1, <2>2, <2>3 DEF NotBehind
<1> QED
  BY <1>1, <1>9, <1>10, GoesOn

\* A walk that goes to another place with what it has.
LEMMA GotoKeeps ==
    ASSUME IInv, walk.at # "idle", UNCHANGED <<atts, node, head>>,
           DOMAIN walk' = WalkFields, walk'.work = walk.work,
           walk'.anchor = walk.anchor, walk'.steps = walk.steps,
           walk'.at \in {"balance", "nullifiers"} => walk.work = NoHead,
           walk'.at \in {"tip", "blocks", "done"} => walk.work # NoHead
    PROVE  IInv'
<1>1. IsWalk(walk')
  BY DEF IInv, IsWalk
<1>2. head # NoHead => NotBehind(walk', head)
  BY DEF IInv, NotBehind
<1> QED
  BY <1>1, <1>2, GoesOn

\* A head that is bootstrapped: there was none.
LEMMA BootKeeps ==
    ASSUME IInv, GetBalance \/ GetNullifiers
    PROVE  IInv'
<1>1. UNCHANGED <<atts, node, head>>
  BY DEF GetBalance, GetNullifiers, worldVars
<1>2. CASE GetBalance
  <2>1. walk.at = "balance" /\ walk.work = NoHead
    BY <1>2 DEF GetBalance, IInv, IsWalk
  <2>2. \/ walk' = IdleWalk
        \/ \E bal : walk' = [walk EXCEPT !.at = "nullifiers", !.bal = bal]
    BY <1>2 DEF GetBalance
  <2>3. ASSUME NEW bal, walk' = [walk EXCEPT !.at = "nullifiers", !.bal = bal]
        PROVE  IInv'
    <3>1. /\ walk'.at = "nullifiers" /\ walk'.work = walk.work
          /\ walk'.anchor = walk.anchor /\ walk'.steps = walk.steps
          /\ DOMAIN walk' = WalkFields
      BY <2>3 DEF IInv, IsWalk, WalkFields
    <3> QED
      BY <1>1, <2>1, <3>1, GotoKeeps
  <2> QED
    BY <1>1, <2>2, <2>3, GivesUpKeeps
<1>3. CASE GetNullifiers
  <2>1. walk.at = "nullifiers" /\ walk.work = NoHead /\ walk.anchor \in Nat
    BY <1>3 DEF GetNullifiers, IInv, IsWalk
  <2>2. head = NoHead
    BY <2>1 DEF IInv, NotBehind
  <2>3. BootPoint.height \in Nat
    <3>1. CASE walk.steps = <<>>
      BY <3>1 DEF BootPoint, Attestation
    <3>2. CASE walk.steps # <<>>
      <4>1. PICK S : walk.steps \in Seq(S)
        BY DEF IInv, IsWalk
      <4>2. Len(walk.steps) \in 1..Len(walk.steps)
        BY <3>2, <4>1, EmptySeq, LenProperties
      <4>3. IsStep(walk.steps[Len(walk.steps)])
        BY <4>2 DEF IInv, IsWalk
      <4> QED
        BY <3>2, <4>3 DEF BootPoint, IsStep
    <3> QED
      BY <3>1, <3>2
  <2>4. ASSUME NEW nullifiers,
               walk' = [IdleWalk EXCEPT !.at = "walk", !.ask = walk.ask,
                            !.anchor = walk.anchor, !.boot = BootPoint.height,
                            !.work = BootHead(nullifiers)]
        PROVE  IInv'
    <3>1. IsHead(BootHead(nullifiers))
      BY <2>1, <2>3 DEF BootHead, IsHead, HeadFields
    <3>2. /\ walk'.at = "walk" /\ walk'.work = BootHead(nullifiers)
          /\ walk'.anchor = walk.anchor /\ walk'.steps = <<>>
          /\ DOMAIN walk' = WalkFields
      BY <2>4 DEF IdleWalk, WalkFields
    <3>3. <<>> \in Seq({}) /\ Len(<<>>) = 0
      BY EmptySeq
    <3>4. IsWalk(walk')
      BY <2>1, <3>1, <3>2, <3>3 DEF IsWalk
    <3> QED
      BY <1>1, <2>2, <3>4, GoesOn
  <2>5. ASSUME NEW nullifiers, TakesNullifiers(nullifiers)
        PROVE  IInv'
    BY <1>1, <2>4, <2>5, GivesUpKeeps DEF TakesNullifiers
  <2> QED
    BY <1>3, <2>5 DEF GetNullifiers
<1> QED
  BY <1>2, <1>3

LEMMA PlacesKeep ==
    ASSUME IInv, WalkDone \/ GetTip \/ WalkForwardDone
    PROVE  IInv'
<1>1. UNCHANGED <<atts, node, head>>
  BY DEF WalkDone, GetTip, WalkForwardDone, worldVars
<1>2. walk.at \in {"walk", "tip", "blocks"} /\ (walk.at # "walk" => walk.work # NoHead)
  BY DEF WalkDone, GetTip, WalkForwardDone, IInv, IsWalk
<1>3. /\ walk'.work = walk.work /\ walk'.anchor = walk.anchor
      /\ walk'.steps = walk.steps /\ DOMAIN walk' = WalkFields
      /\ walk'.at = "balance" => walk.work = NoHead
      /\ walk'.at # "balance" => walk.work # NoHead
      /\ walk'.at \in {"balance", "tip", "blocks", "done"}
  <2>1. DOMAIN walk = WalkFields
    BY DEF IInv, IsWalk
  <2>2. CASE WalkDone
    BY <2>1, <2>2 DEF WalkDone, Goto, WalkFields
  <2>3. CASE GetTip
    BY <1>2, <2>1, <2>3 DEF GetTip, WalkFields
  <2>4. CASE WalkForwardDone
    BY <1>2, <2>1, <2>4 DEF WalkForwardDone, Goto, WalkFields
  <2> QED
    BY <2>2, <2>3, <2>4
<1> QED
  BY <1>1, <1>2, <1>3, GotoKeeps

\* The head that is worked on advances, and perhaps the next attestation is
\* done with: its anchor is then the head's.
LEMMA Advances ==
    ASSUME IInv, walk.at = "blocks", walk.steps # <<>>, UNCHANGED <<atts, node, head>>,
           NEW work, IsHead(work), work.l2 >= walk.work.l2,
           \/ work.anchor = walk.work.anchor /\ walk'.steps = walk.steps
           \/ work.anchor = Step.anchor /\ walk'.steps = Tail(walk.steps),
           DOMAIN walk' = WalkFields, walk'.work = work, walk'.anchor = walk.anchor,
           walk'.at = "blocks"
    PROVE  IInv'
<1>1. PICK S : walk.steps \in Seq(S)
  BY DEF IInv, IsWalk
<1>2. /\ Len(walk.steps) \in Nat /\ 1 \in 1..Len(walk.steps)
      /\ Tail(walk.steps) \in Seq(S) /\ Len(Tail(walk.steps)) = Len(walk.steps) - 1
      /\ \A i \in 1..Len(Tail(walk.steps)) :
           i + 1 \in 1..Len(walk.steps) /\ Tail(walk.steps)[i] = walk.steps[i + 1]
  BY <1>1, HeadTailProperties, LenProperties, EmptySeq
<1>3. /\ walk'.steps \in Seq(S)
      /\ \A i \in 1..Len(walk'.steps) :
           \E j \in 1..Len(walk.steps) : walk'.steps[i] = walk.steps[j]
  BY <1>1, <1>2
<1>4. \A i \in 1..Len(walk'.steps) : IsStep(walk'.steps[i])
  BY <1>3 DEF IInv, IsWalk
<1>5. IsWalk(walk')
  BY <1>3, <1>4, HeadIsSome DEF IInv, IsWalk
<1>6. head # NoHead => NotBehind(walk', head)
  <2> SUFFICES ASSUME head # NoHead
               PROVE  NotBehind(walk', head)
    OBVIOUS
  <2>1. NotBehind(walk, head) /\ IsHead(head) /\ IsHead(walk.work)
    BY DEF IInv, IsWalk, NotBehind
  <2>2. Step.anchor >= head.anchor
    BY <1>2, <2>1 DEF NotBehind, Step
  <2>3. work.l2 >= head.l2
    BY <2>1 DEF NotBehind, IsHead
  <2>4. work.anchor >= head.anchor
    BY <2>1, <2>2 DEF NotBehind
  <2>5. \A i \in 1..Len(walk'.steps) : walk'.steps[i].anchor >= head.anchor
    BY <1>3, <2>1 DEF NotBehind
  <2> QED
    BY <2>1, <2>3, <2>4, <2>5, HeadIsSome DEF NotBehind
<1> QED
  BY <1>5, <1>6, GoesOn

LEMMA SkipKnownKeeps ==
    ASSUME IInv, SkipKnown
    PROVE  IInv'
<1>1. /\ walk.at = "blocks" /\ walk.steps # <<>> /\ UNCHANGED <<atts, node, head>>
      /\ walk' = [walk EXCEPT !.steps = Tail(@), !.work.anchor = Step.anchor]
  BY DEF SkipKnown, worldVars
<1>2. DOMAIN walk = WalkFields /\ IsHead(walk.work)
  BY <1>1 DEF IInv, IsWalk
<1>3. Step.anchor \in Nat
  <2>1. PICK S : walk.steps \in Seq(S)
    BY DEF IInv, IsWalk
  <2>2. 1 \in 1..Len(walk.steps)
    BY <1>1, <2>1, LenProperties, EmptySeq
  <2> QED
    BY <2>2 DEF IInv, IsWalk, IsStep, Step
<1> DEFINE work == [walk.work EXCEPT !.anchor = Step.anchor]
<1>4. IsHead(work) /\ work.l2 = walk.work.l2 /\ work.anchor = Step.anchor
  BY <1>2, <1>3 DEF IsHead, HeadFields
<1>5. /\ walk'.work = work /\ walk'.steps = Tail(walk.steps) /\ walk'.at = "blocks"
      /\ walk'.anchor = walk.anchor /\ DOMAIN walk' = WalkFields
  BY <1>1, <1>2 DEF WalkFields
<1> HIDE DEF work
<1>6. work.l2 >= walk.work.l2
  BY <1>2, <1>4 DEF IsHead
<1> QED
  BY <1>1, <1>4, <1>5, <1>6, Advances

\* Whatever block and witness were served.
LEMMA VerifiesKeeps ==
    ASSUME IInv, walk.at = "blocks", walk.steps # <<>>, UNCHANGED <<atts, node, head>>,
           NEW b, NEW w, Verifies(b, w)
    PROVE  IInv'
<1> DEFINE h == walk.work.l2 + 1
           last == h = Step.att.height
           new == NewHead(b, w, h)
           work == IF last THEN [new EXCEPT !.anchor = Step.anchor] ELSE new
<1>1. DOMAIN walk = WalkFields /\ IsHead(walk.work)
  BY DEF IInv, IsWalk
<1>2. h \in Nat /\ h >= walk.work.l2
  BY <1>1 DEF IsHead
<1>3. DOMAIN new = HeadFields /\ new.l2 = h /\ new.anchor = walk.work.anchor
  BY DEF NewHead, HeadFields
<1>4. CASE walk' = IdleWalk
  BY <1>4, GivesUpKeeps
<1>5. CASE walk' # IdleWalk
  <2>1. walk' = [walk EXCEPT !.work = work,
                             !.steps = IF last THEN Tail(@) ELSE @,
                             !.events = @ \o OwnEvents(b.txs, h)]
    BY <1>5 DEF Verifies, GivesUp
  <2> HIDE DEF new, h
  <2>2. /\ walk'.work = work /\ walk'.anchor = walk.anchor /\ walk'.at = "blocks"
        /\ walk'.steps = IF last THEN Tail(walk.steps) ELSE walk.steps
        /\ DOMAIN walk' = WalkFields
    BY <1>1, <2>1 DEF WalkFields
  <2>3. Step.anchor \in Nat
    <3>1. PICK S : walk.steps \in Seq(S)
      BY DEF IInv, IsWalk
    <3>2. 1 \in 1..Len(walk.steps)
      BY <3>1, LenProperties, EmptySeq
    <3> QED
      BY <3>2 DEF IInv, IsWalk, IsStep, Step
  <2>4. /\ IsHead(work) /\ work.l2 = h
        /\ work.anchor = IF last THEN Step.anchor ELSE walk.work.anchor
    BY <1>1, <1>2, <1>3, <2>3 DEF IsHead, HeadFields
  <2> HIDE DEF work, last
  <2> QED
    BY <1>2, <2>2, <2>4, Advances
<1> QED
  BY <1>4, <1>5

LEMMA VerifyBlockKeeps ==
    ASSUME IInv, VerifyBlock
    PROVE  IInv'
<1>1. /\ walk.at = "blocks" /\ walk.steps # <<>> /\ UNCHANGED <<atts, node, head>>
      /\ \E b, w : Verifies(b, w)
  BY DEF VerifyBlock, worldVars
<1> QED
  BY <1>1, VerifiesKeeps

\* The head of a walk that is done is saved, or nothing is.
LEMMA ShowKeeps ==
    ASSUME IInv, ShowOwn \/ ShowOther
    PROVE  /\ IInv'
           /\ head # NoHead => /\ head' # NoHead
                               /\ head'.l2 >= head.l2 /\ head'.anchor >= head.anchor
<1>1. UNCHANGED <<atts, node>> /\ walk.at = "done"
  BY DEF ShowOwn, ShowOther, worldVars
<1>2. \/ head' = walk.work /\ walk' = IdleWalk
      \/ head' = head /\ walk' = IdleWalk
  BY DEF ShowOwn, ShowOther, ShowsOther, Save, GivesUp
<1>3. IsHead(walk.work)
  BY <1>1 DEF IInv, IsWalk
<1>4. head = NoHead \/ (IsHead(head) /\ NotBehind(walk, head))
  BY <1>1 DEF IInv
<1>5. head' = NoHead \/ IsHead(head')
  BY <1>2, <1>3, <1>4
<1>6. IInv'
  BY <1>1, <1>2, <1>5, IdleIsWalk DEF IInv, Attested
<1>7. head # NoHead => /\ head' # NoHead
                       /\ head'.l2 >= head.l2 /\ head'.anchor >= head.anchor
  BY <1>2, <1>4 DEF NotBehind, IsHead
<1> QED
  BY <1>6, <1>7

\* L1, the sequencer and the node: attestations are only added, and the node
\* records the ones there are.
LEMMA WorldKeeps ==
    ASSUME IInv, World \/ NodeStep
    PROVE  IInv'
<1>1. UNCHANGED <<head, walk>>
  BY DEF World, NodeStep, NewL1Block, ConfirmLock, ReclaimLock, MoveLock, SubmitMint,
         ProduceBlock, ProduceAnyBlock, Attest, NodeAppliesBlock, NodeStoresBlock,
         NodeRecordsSpend, walletVars
<1>2. Len(atts) \in Nat
  BY LenProperties DEF IInv, Attested
<1>3. Attested'
  <2>1. CASE UNCHANGED <<atts, node>>
    BY <2>1 DEF IInv, Attested
  <2>2. CASE \E h \in 1..Len(chain) : Attest(h)
    <3>1. PICK h \in 1..Len(chain) : Attest(h)
      BY <2>2
    <3>2. h \in Nat /\ atts' = Append(atts, h) /\ node' = node
      BY <3>1 DEF Attest
    <3>3. atts' \in Seq(Nat) /\ Len(atts') = Len(atts) + 1
      BY <3>2, AppendProperties DEF IInv, Attested
    <3> QED
      BY <1>2, <3>2, <3>3 DEF IInv, Attested
  <2>3. CASE NodeStep
    <3>1. /\ UNCHANGED atts
          /\ DOMAIN node' = DOMAIN node
          /\ node'.spends = node.spends
             \/ (node'.spends = node.spends + 1 /\ node.spends < Len(atts))
      BY <2>3 DEF NodeStep, NodeAppliesBlock, NodeStoresBlock, NodeRecordsSpend,
                  Following, worldVars, IInv, Attested
    <3> QED
      BY <1>2, <3>1 DEF IInv, Attested
  <2>4. World => UNCHANGED <<atts, node>> \/ \E h \in 1..Len(chain) : Attest(h)
    BY DEF World, NewL1Block, ConfirmLock, ReclaimLock, MoveLock, SubmitMint, ProduceBlock,
           ProduceAnyBlock
  <2> QED
    BY <2>1, <2>2, <2>3, <2>4
<1> QED
  BY <1>1, <1>3 DEF IInv

LEMMA NextKeeps ==
    ASSUME IInv, [Next]_vars
    PROVE  /\ IInv'
           /\ (head # NoHead /\ head' # head)
              => /\ head' # NoHead
                 /\ head'.l2 >= head.l2 /\ head'.anchor >= head.anchor
<1>1. CASE World \/ NodeStep
  <2>1. head' = head
    BY <1>1 DEF World, NodeStep, NewL1Block, ConfirmLock, ReclaimLock, MoveLock, SubmitMint,
         ProduceBlock, ProduceAnyBlock, Attest, NodeAppliesBlock, NodeStoresBlock,
         NodeRecordsSpend, walletVars
  <2> QED
    BY <1>1, <2>1, WorldKeeps
<1>2. CASE ShowOwn \/ ShowOther
  BY <1>2, ShowKeeps
<1>3. CASE \/ \E ask \in Targets : Refresh(ask)
           \/ WalkStep \/ WalkDone \/ GetBalance \/ GetNullifiers \/ GetTip
           \/ SkipKnown \/ VerifyBlock \/ WalkForwardDone
  <2>1. head' = head
    BY <1>3 DEF Refresh, WalkStep, WalkDone, GetBalance, GetNullifiers, GetTip,
                SkipKnown, VerifyBlock, WalkForwardDone
  <2> QED
    BY <1>3, <2>1, RefreshKeeps, WalkStepKeeps, PlacesKeep, BootKeeps,
       SkipKnownKeeps, VerifyBlockKeeps
<1>4. CASE Interrupted
  <2>1. walk' = IdleWalk /\ UNCHANGED <<atts, node, head>>
    BY <1>4 DEF Interrupted, GivesUp, worldVars
  <2> QED
    BY <2>1, GivesUpKeeps
<1>5. CASE UNCHANGED vars
  BY <1>5 DEF vars, worldVars, walletVars, IInv, Attested
<1> QED
  BY <1>1, <1>2, <1>3, <1>4, <1>5 DEF Next, WalletStep

LEMMA InitHolds == Init => IInv
<1> SUFFICES ASSUME Init
             PROVE  IInv
  OBVIOUS
<1>1. atts \in Seq(Nat) /\ Len(atts) = 0
  BY EmptySeq DEF Init
<1>2. DOMAIN node = {"ledger", "head", "spends"} /\ node.spends = 0
  BY DEF Init
<1>3. head = NoHead /\ IsWalk(walk)
  BY IdleIsWalk DEF Init
<1> QED
  BY <1>1, <1>2, <1>3 DEF IInv, Attested

-----------------------------------------------------------------------------
\* The head is never lost and never moves back, neither in L2 nor in L1, whatever
\* node and sequencer serve, whichever walks fail, and also when an attestation of
\* an older block is posted again (walk_forward, light_balance).
THEOREM HeadNeverBack == Spec => NeverBack
<1>1. IInv /\ [Next]_vars =>
        [head # NoHead => /\ head' # NoHead
                          /\ head'.l2 >= head.l2 /\ head'.anchor >= head.anchor]_head
  BY NextKeeps
<1>2. IInv /\ [Next]_vars => IInv'
  BY NextKeeps
<1> QED
  BY InitHolds, <1>1, <1>2, PTL DEF Spec, NeverBack
-----------------------------------------------------------------------------
(* Headers: a hash holds what every header up to its own committed to.     *)

IsSeq(s) == \E S : s \in Seq(S)

LEMMA Appended ==
    ASSUME NEW s, IsSeq(s), NEW x
    PROVE  /\ IsSeq(Append(s, x)) /\ Len(s) \in Nat /\ Len(Append(s, x)) = Len(s) + 1
           /\ \A i \in 1..Len(s) : Append(s, x)[i] = s[i]
           /\ Append(s, x)[Len(s) + 1] = x
<1>1. PICK S : s \in Seq(S)
  BY DEF IsSeq
<1> DEFINE T == S \cup {x}
<1>2. s \in Seq(T) /\ x \in T
  BY <1>1, SeqMonotonic
<1> HIDE DEF T
<1> QED
  BY <1>2, AppendProperties, LenProperties DEF IsSeq

\* A sequence that is given by its elements, and one more.
Row(s, n) == s = [j \in 1..n |-> s[j]]
Extends(t, s, n) == \A j \in 1..n : t[j] = s[j]

LEMMA OneMore ==
    ASSUME NEW n \in Nat, NEW s, NEW t, Row(s, n), Row(t, n + 1), Extends(t, s, n)
    PROVE  Append(s, t[n + 1]) = t
<1>0. /\ s = [j \in 1..n |-> s[j]] /\ t = [j \in 1..(n + 1) |-> t[j]]
      /\ \A j \in 1..n : t[j] = s[j]
  BY DEF Row, Extends
<1> DEFINE S == {s[j] : j \in 1..n} \cup {t[j] : j \in 1..(n + 1)}
<1>1. \A j \in 1..n : s[j] \in S
  OBVIOUS
<1>2. \A j \in 1..(n + 1) : t[j] \in S
  OBVIOUS
<1>3. t[n + 1] \in S
  BY <1>2
<1> HIDE DEF S
<1>4. s \in [1..n -> S] /\ t \in [1..(n + 1) -> S]
  BY <1>0, <1>1, <1>2
<1>5. s \in Seq(S) /\ Len(s) = n /\ t \in Seq(S) /\ Len(t) = n + 1
  BY <1>4
<1> DEFINE r == Append(s, t[n + 1])
<1>6. /\ r \in Seq(S) /\ Len(r) = n + 1
      /\ \A i \in 1..n : r[i] = s[i]
      /\ r[n + 1] = t[n + 1]
  BY <1>3, <1>5, AppendProperties
<1> HIDE DEF r
<1>7. \A i \in 1..(n + 1) : r[i] = t[i]
  <2>1. \A i \in 1..(n + 1) : i \in 1..n \/ i = n + 1
    OBVIOUS
  <2> QED
    BY <1>0, <1>6, <2>1
<1>8. r = t
  BY <1>5, <1>6, <1>7, SeqEqual
<1> QED
  BY <1>8 DEF r

TxsIn(c, h) == IF h = 0 THEN <<>> ELSE c[h].txs
LedgerIn(c, h) == IF h = 0 THEN EmptyLedger ELSE c[h].ledger
Entry(c, h) == <<h, TxsIn(c, h), RootOf(LedgerIn(c, h))>>
Entries(c, h) == [j \in 1..(h + 1) |-> Entry(c, j - 1)]
HeaderIs(h) ==
    MkHeader(h, [j \in 1..h |-> Entry(chain, j - 1)], TxsIn(chain, h), LedgerIn(chain, h))

LEMMA LedgerAtIs == \A h : LedgerAt(h) = LedgerIn(chain, h)
BY DEF LedgerAt, LedgerIn

HeadersUpto(f) ==
    f = [h \in 0..Len(chain) |->
            IF h = 0 THEN MkHeader(0, <<>>, <<>>, EmptyLedger)
            ELSE MkHeader(h, HashOf(f[h - 1]), chain[h].txs, LedgerAt(h))]

LEMMA HashIs ==
    ASSUME NEW h \in Nat
    PROVE  HashOf(HeaderIs(h)) = Entries(chain, h)
<1> DEFINE s == [j \in 1..h |-> Entry(chain, j - 1)]
           t == Entries(chain, h)
<1>1. Extends(t, s, h)
  BY DEF Entries, Extends
<1>2. Row(t, h + 1) /\ Row(s, h)
  BY DEF Entries, Row
<1>3. t[h + 1] = Entry(chain, h)
  BY DEF Entries
<1>4. HashOf(HeaderIs(h)) = Append(s, Entry(chain, h))
  BY DEF HashOf, HeaderIs, MkHeader, Entry
<1> HIDE DEF s, t
<1>5. Append(s, t[h + 1]) = t
  BY <1>1, <1>2, OneMore
<1> QED
  BY <1>3, <1>4, <1>5 DEF t

\* The headers of a chain, and their hashes, in closed form.
LEMMA HeadersAre ==
    ASSUME IsSeq(chain)
    PROVE  \A h \in 0..Len(chain) : HeaderAt[h] = HeaderIs(h) /\ HashOf(HeaderAt[h]) = Entries(chain, h)
<1>0. Len(chain) \in Nat
  BY LenProperties DEF IsSeq
<1> DEFINE n == Len(chain)
           F == [h \in 0..n |-> HeaderIs(h)]
<1>1. HeadersUpto(F)
  <2>1. \A h \in 0..n : F[h] = HeaderIs(h)
    OBVIOUS
  <2>2. ASSUME NEW h \in 0..n
        PROVE  HeaderIs(h) = IF h = 0 THEN MkHeader(0, <<>>, <<>>, EmptyLedger)
                             ELSE MkHeader(h, HashOf(F[h - 1]), chain[h].txs, LedgerAt(h))
    <3>1. CASE h = 0
      <4>1. [j \in 1..0 |-> Entry(chain, j - 1)] = <<>>
        OBVIOUS
      <4> QED
        BY <3>1, <4>1 DEF HeaderIs, TxsIn, LedgerIn
    <3>2. CASE h # 0
      <4>1. h - 1 \in 0..n /\ h - 1 \in Nat /\ (h - 1) + 1 = h
        BY <1>0, <3>2
      <4>2. HashOf(F[h - 1]) = Entries(chain, h - 1)
        BY <2>1, <4>1, HashIs
      <4>3. Entries(chain, h - 1) = [j \in 1..h |-> Entry(chain, j - 1)]
        BY <4>1 DEF Entries
      <4> QED
        BY <3>2, <4>2, <4>3, LedgerAtIs DEF HeaderIs, TxsIn
    <3> QED
      BY <3>1, <3>2
  <2>3. F = [h \in 0..n |-> HeaderIs(h)]
    OBVIOUS
  <2> HIDE DEF F
  <2> QED
    BY <2>2, <2>3 DEF HeadersUpto
<1>2. HeaderAt = CHOOSE f : HeadersUpto(f)
  BY DEF HeaderAt, HeadersUpto
<1> DEFINE G == HeaderAt
<1>3. HeadersUpto(G)
  BY <1>1, <1>2
<1> HIDE DEF F, G
<1>4. \A h \in 0..n : G[h] = IF h = 0 THEN MkHeader(0, <<>>, <<>>, EmptyLedger)
                             ELSE MkHeader(h, HashOf(G[h - 1]), chain[h].txs, LedgerAt(h))
  BY <1>3 DEF HeadersUpto
<1>5. \A h \in 0..n : F[h] = IF h = 0 THEN MkHeader(0, <<>>, <<>>, EmptyLedger)
                             ELSE MkHeader(h, HashOf(F[h - 1]), chain[h].txs, LedgerAt(h))
  BY <1>1 DEF HeadersUpto
<1> DEFINE S == {h \in Nat : h <= n => G[h] = F[h]}
<1>6. 0 \in S
  BY <1>0, <1>4, <1>5
<1>7. ASSUME NEW h \in Nat, h \in S
      PROVE  h + 1 \in S
  <2>1. CASE h + 1 <= n
    <3>1. h + 1 \in 0..n /\ h + 1 # 0 /\ (h + 1) - 1 = h /\ G[h] = F[h]
      BY <1>0, <1>7, <2>1
    <3>2. G[h + 1] = F[h + 1]
      BY <1>4, <1>5, <3>1
    <3> QED
      BY <3>2
  <2> QED
    BY <2>1
<1>8. \A h \in Nat : h \in S
  <2> HIDE DEF S
  <2> QED
    BY <1>6, <1>7, SetInduction
<1>9. \A h \in 0..n : G[h] = HeaderIs(h)
  <2>1. \A h \in 0..n : h \in Nat /\ G[h] = F[h]
    BY <1>0, <1>8
  <2> QED
    BY <2>1 DEF F
<1>10. \A h \in 0..n : h \in Nat /\ HashOf(HeaderIs(h)) = Entries(chain, h)
  BY <1>0, HashIs
<1> QED
  BY <1>9, <1>10 DEF G
-----------------------------------------------------------------------------
(* What a wallet holds is of the chain it was attested, whatever a sequencer *)
(* and a node served.                                                      *)

\* The head's last header commits to its accounts and nullifiers, and its leaf
\* and path are those of an account they prove: which one, a bootstrap does not
\* look at.
ProofUnder(a, x) == [address |-> a, leaf |-> x.leaf, siblings |-> x.path]
Proves(x, a) ==
    IsProof(ProofUnder(a, x)) /\ ProofVerifies(ProofUnder(a, x), x.accounts)
Committed(x) ==
    /\ IsSeq(x.hash) /\ Len(x.hash) = x.l2 + 1
    /\ x.hash[x.l2 + 1][3] = StateRoot(x.accounts, x.consumed)
    /\ \E a \in Addrs : Proves(x, a)

\* It is a block of the chain c, attested by one of the attestations up to the
\* head's anchor.
Pinned(x, c, ats) ==
    /\ x.l2 \in 0..Len(c) /\ x.anchor \in 0..Len(ats)
    /\ x.hash = Entries(c, x.l2)
    /\ x.l2 = 0 \/ \E i \in 1..x.anchor : ats[i] = x.l2

Report(c, h) ==
    [height |-> h, hash |-> Entries(c, h), root |-> RootOf(LedgerIn(c, h))]
Reported(s, c, ats) ==
    s.anchor \in 1..Len(ats) /\ s.att = Report(c, ats[s.anchor])

\* The steps of a walk are the attestations up to its anchor, in order.
StepsAre(w, c, ats) ==
    /\ w.anchor \in 0..Len(ats)
    /\ \A i \in 1..Len(w.steps) :
          /\ Reported(w.steps[i], c, ats)
          /\ w.steps[i].anchor = w.anchor - Len(w.steps) + i

BootPointOf(w, c) == IF w.steps = <<>> THEN Report(c, 0) ELSE w.steps[Len(w.steps)].att

\* The balance a bootstrap is about to start from.
Answered(w, c) ==
    /\ IsProof(w.bal.proof)
    /\ w.bal.components = BootPointOf(w, c).root
    /\ ProofVerifies(w.bal.proof, w.bal.components.accounts)

\* Between two attestations.
MidBlocks(w) == w.at = "blocks" /\ w.steps # <<>> /\ w.work.l2 < w.steps[1].att.height

WalkTrue(w, c, ats) ==
    /\ StepsAre(w, c, ats) /\ w.ask \in Addrs
    /\ w.at = "nullifiers" => Answered(w, c)
    /\ w.work # NoHead =>
          /\ Committed(w.work)
          /\ w.work.anchor = w.anchor - Len(w.steps)
          /\ Pinned(w.work, c, ats) \/ MidBlocks(w)

Heights(c, ats) ==
    /\ IsSeq(c) /\ IsSeq(ats)
    /\ \A i \in 1..Len(ats) : ats[i] \in 1..Len(c)

TInv ==
    /\ Heights(chain, atts)
    /\ head # NoHead => Committed(head) /\ Pinned(head, chain, atts)
    /\ WalkTrue(walk, chain, atts)

-----------------------------------------------------------------------------
(* Chain and attestations only grow.                                       *)

Prolongs(c, d) ==
    /\ IsSeq(c) /\ IsSeq(d) /\ Len(c) <= Len(d)
    /\ \A i \in 1..Len(c) : d[i] = c[i]

LEMMA Between ==
    ASSUME NEW m \in Nat, NEW n \in Nat
    PROVE  /\ 0 \in 0..m
           /\ \A x \in 0..m : \A y \in 1..x : y \in 1..m
           /\ \A x \in 1..m : x \in 0..m
           /\ m <= n => /\ \A x \in 0..m : x \in 0..n
                        /\ \A x \in 1..m : x \in 1..n
OBVIOUS

LEMMA BothOneMore ==
    ASSUME NEW m \in Nat, NEW n \in Nat
    PROVE  (m + 1) - (n + 1) = m - n
OBVIOUS

LEMMA SeqLen ==
    ASSUME NEW s, IsSeq(s)
    PROVE  Len(s) \in Nat /\ DOMAIN s = 1..Len(s)
BY LenProperties DEF IsSeq

LEMMA GrowsByOne ==
    ASSUME NEW s, IsSeq(s), NEW x
    PROVE  Prolongs(s, Append(s, x))
BY Appended DEF Prolongs

LEMMA GrowsByNone ==
    ASSUME NEW s, IsSeq(s)
    PROVE  Prolongs(s, s)
BY SeqLen DEF Prolongs

LEMMA SameEntries ==
    ASSUME NEW c, NEW d, Prolongs(c, d), NEW h \in 0..Len(c)
    PROVE  /\ h \in 0..Len(d) /\ LedgerIn(d, h) = LedgerIn(c, h)
           /\ TxsIn(d, h) = TxsIn(c, h) /\ Entry(d, h) = Entry(c, h)
<1>1. Len(c) \in Nat /\ Len(d) \in Nat /\ Len(c) <= Len(d)
  BY SeqLen DEF Prolongs
<1>2. h # 0 => d[h] = c[h]
  BY <1>1 DEF Prolongs
<1>3. LedgerIn(d, h) = LedgerIn(c, h) /\ TxsIn(d, h) = TxsIn(c, h)
  BY <1>2 DEF LedgerIn, TxsIn
<1> QED
  BY <1>1, <1>3 DEF Entry

LEMMA SameReport ==
    ASSUME NEW c, NEW d, Prolongs(c, d), NEW h \in 0..Len(c)
    PROVE  Entries(d, h) = Entries(c, h) /\ Report(d, h) = Report(c, h)
<1>1. Len(c) \in Nat
  BY SeqLen DEF Prolongs
<1>2. \A j \in 1..(h + 1) : j - 1 \in 0..Len(c)
  BY <1>1
<1>3. \A j \in 1..(h + 1) : Entry(d, j - 1) = Entry(c, j - 1)
  BY <1>2, SameEntries
<1>4. Entries(d, h) = Entries(c, h)
  BY <1>3 DEF Entries
<1> QED
  BY <1>4, SameEntries DEF Report

LEMMA PinnedStays ==
    ASSUME NEW x, NEW c, NEW d, NEW ats, NEW bs, Prolongs(c, d), Prolongs(ats, bs),
           Pinned(x, c, ats)
    PROVE  Pinned(x, d, bs)
<1>1. /\ Len(c) \in Nat /\ Len(d) \in Nat /\ Len(ats) \in Nat /\ Len(bs) \in Nat
      /\ Len(c) <= Len(d) /\ Len(ats) <= Len(bs)
  BY SeqLen DEF Prolongs
<1>2. x.l2 \in 0..Len(c) /\ x.anchor \in 0..Len(ats)
  BY DEF Pinned
<1>3. Entries(d, x.l2) = Entries(c, x.l2)
  BY <1>2, SameReport
<1>4. x.l2 \in 0..Len(d) /\ x.anchor \in 0..Len(bs)
  BY <1>1, <1>2, Between
<1>5. ASSUME NEW i \in 1..x.anchor
      PROVE  bs[i] = ats[i]
  <2>1. i \in 1..Len(ats)
    BY <1>1, <1>2, Between
  <2> QED
    BY <2>1 DEF Prolongs
<1> QED
  BY <1>3, <1>4, <1>5 DEF Pinned

LEMMA WalkStays ==
    ASSUME NEW w, NEW c, NEW d, NEW ats, NEW bs, Prolongs(c, d), Prolongs(ats, bs),
           Heights(c, ats), WalkTrue(w, c, ats)
    PROVE  WalkTrue(w, d, bs)
<1>1. /\ Len(c) \in Nat /\ Len(d) \in Nat /\ Len(ats) \in Nat /\ Len(bs) \in Nat
      /\ Len(c) <= Len(d) /\ Len(ats) <= Len(bs)
  BY SeqLen DEF Prolongs
<1>2. ASSUME NEW s, Reported(s, c, ats)
      PROVE  Reported(s, d, bs)
  <2>1. s.anchor \in 1..Len(ats) /\ ats[s.anchor] \in 0..Len(c)
    <3>1. s.anchor \in 1..Len(ats) /\ ats[s.anchor] \in 1..Len(c)
      BY <1>2 DEF Reported, Heights
    <3> QED
      BY <1>1, <3>1, Between
  <2>2. bs[s.anchor] = ats[s.anchor] /\ s.anchor \in 1..Len(bs)
    <3>1. \A i \in 1..Len(ats) : bs[i] = ats[i]
      BY DEF Prolongs
    <3> QED
      BY <1>1, <2>1, <3>1, Between
  <2>3. Report(d, ats[s.anchor]) = Report(c, ats[s.anchor])
    BY <2>1, SameReport
  <2> QED
    BY <1>2, <2>2, <2>3 DEF Reported
<1>3. \A i \in 1..Len(w.steps) : Reported(w.steps[i], d, bs)
  BY <1>2 DEF WalkTrue, StepsAre
<1>4. StepsAre(w, c, ats)
  BY DEF WalkTrue
<1>5. w.anchor \in 0..Len(bs)
  <2>1. w.anchor \in 0..Len(ats)
    BY <1>4 DEF StepsAre
  <2> QED
    BY <1>1, <2>1, Between
<1>6. BootPointOf(w, d) = BootPointOf(w, c)
  <2>1. Report(d, 0) = Report(c, 0)
    BY <1>1, SameReport
  <2> QED
    BY <2>1 DEF BootPointOf
<1>7. w.work # NoHead /\ Pinned(w.work, c, ats) => Pinned(w.work, d, bs)
  BY PinnedStays
<1>8. w.at = "nullifiers" => Answered(w, d)
  BY <1>6 DEF WalkTrue, Answered
<1> QED
  BY <1>3, <1>4, <1>5, <1>7, <1>8 DEF WalkTrue, StepsAre
-----------------------------------------------------------------------------
(* The walk.                                                               *)

LEMMA AttestationIs ==
    ASSUME IsSeq(chain), NEW h \in 0..Len(chain)
    PROVE  Attestation(h) = Report(chain, h)
<1>1. HeaderAt[h] = HeaderIs(h) /\ HashOf(HeaderAt[h]) = Entries(chain, h)
  BY HeadersAre
<1>2. HeaderIs(h).root = RootOf(LedgerIn(chain, h))
  BY DEF HeaderIs, MkHeader
<1> QED
  BY <1>1, <1>2 DEF Attestation, Report

LEMMA BootPointIs ==
    ASSUME IsSeq(chain)
    PROVE  BootPoint = BootPointOf(walk, chain)
<1>1. 0 \in 0..Len(chain)
  BY SeqLen
<1> QED
  BY <1>1, AttestationIs DEF BootPoint, BootPointOf

LEMMA IdleTrue ==
    ASSUME NEW c, NEW ats, IsSeq(ats)
    PROVE  WalkTrue(IdleWalk, c, ats)
<1>1. /\ IdleWalk.at = "idle" /\ IdleWalk.work = NoHead /\ IdleWalk.steps = <<>>
      /\ IdleWalk.anchor = 0 /\ IdleWalk.ask = Own
  BY DEF IdleWalk
<1>2. Len(<<>>) = 0 /\ 1..0 = {}
  OBVIOUS
<1>3. 0 \in 0..Len(ats)
  <2>1. Len(ats) \in Nat
    BY SeqLen
  <2> QED
    BY <2>1, Between
<1>4. Own \in Addrs
  BY LightAssumption
<1>5. StepsAre(IdleWalk, c, ats)
  BY <1>1, <1>2, <1>3 DEF StepsAre
<1> QED
  BY <1>1, <1>4, <1>5 DEF WalkTrue

\* Nothing but the wallet's own records changes, and the walk stays true.
LEMMA StaysTrue ==
    ASSUME TInv, UNCHANGED <<chain, atts, head>>, WalkTrue(walk', chain, atts)
    PROVE  TInv'
BY DEF TInv

LEMMA RefreshTrue ==
    ASSUME IInv, TInv, NEW ask \in Targets, Refresh(ask)
    PROVE  WalkTrue(walk', chain, atts)
<1> DEFINE from == IF head = NoHead THEN 0 ELSE head.anchor
<1>1. /\ walk'.at = "walk" /\ walk'.work = head /\ walk'.anchor = from
      /\ walk'.steps = <<>> /\ walk'.ask = ask
  BY DEF Refresh, IdleWalk
<1>2. Len(<<>>) = 0 /\ Len(atts) \in Nat
  BY EmptySeq, SeqLen DEF TInv, Heights
<1>3. from \in 0..Len(atts)
  BY <1>2 DEF TInv, Pinned
<1>4. StepsAre(walk', chain, atts)
  BY <1>1, <1>2, <1>3 DEF StepsAre
<1>5. head # NoHead => head.anchor = from - 0
  BY <1>2 DEF TInv, Pinned
<1> QED
  BY <1>1, <1>2, <1>4, <1>5, LightAssumption DEF TInv, WalkTrue

LEMMA WalkStepTrue ==
    ASSUME IInv, TInv, WalkStep
    PROVE  WalkTrue(walk', chain, atts)
<1> DEFINE n == walk.anchor + 1
           s == [anchor |-> n, att |-> Attestation(atts[n])]
           steps == Append(walk.steps, s)
<1>1. /\ walk.at = "walk" /\ walk.anchor < node.spends
      /\ walk' = [walk EXCEPT !.anchor = @ + 1, !.steps = Append(@, s)]
  BY DEF WalkStep
<1>2. /\ DOMAIN walk = WalkFields /\ walk.anchor \in Nat
      /\ node.spends \in Nat /\ node.spends <= Len(atts)
  BY DEF IInv, IsWalk, Attested
<1>3. Len(atts) \in Nat /\ Len(chain) \in Nat
  BY SeqLen DEF TInv, Heights
<1>4. n \in 1..Len(atts) /\ n \in 0..Len(atts) /\ n = walk.anchor + 1
  BY <1>1, <1>2, <1>3
<1>5. atts[n] \in 0..Len(chain) /\ IsSeq(chain)
  <2>1. atts[n] \in 1..Len(chain)
    BY <1>4 DEF TInv, Heights
  <2> QED
    BY <1>3, <2>1, Between DEF TInv, Heights
<1>6. Reported(s, chain, atts) /\ s.anchor = n
  BY <1>4, <1>5, AttestationIs DEF Reported
<1>7. IsSeq(walk.steps)
  BY DEF IInv, IsWalk, IsSeq
<1>8. /\ walk'.at = "walk" /\ walk'.work = walk.work /\ walk'.anchor = n
      /\ walk'.steps = steps /\ walk'.ask = walk.ask
  BY <1>1, <1>2 DEF WalkFields
<1> HIDE DEF s, n
<1>9. /\ Len(walk.steps) \in Nat /\ Len(steps) = Len(walk.steps) + 1
      /\ \A i \in 1..Len(walk.steps) : steps[i] = walk.steps[i]
      /\ steps[Len(walk.steps) + 1] = s
  BY <1>7, Appended
<1> HIDE DEF steps
<1>10. \A i \in 1..Len(steps) : i \in 1..Len(walk.steps) \/ i = Len(walk.steps) + 1
  BY <1>9
<1>11. n - Len(steps) = walk.anchor - Len(walk.steps)
  BY <1>2, <1>4, <1>9, BothOneMore
<1>12. ASSUME NEW i \in 1..Len(steps)
       PROVE  Reported(steps[i], chain, atts) /\ steps[i].anchor = n - Len(steps) + i
  <2>1. CASE i \in 1..Len(walk.steps)
    BY <1>9, <1>11, <2>1 DEF TInv, WalkTrue, StepsAre
  <2>2. CASE i = Len(walk.steps) + 1
    <3>1. steps[i] = s /\ i = Len(steps)
      BY <1>9, <2>2
    <3>2. n - Len(steps) + i = n
      BY <1>2, <1>4, <1>9, <3>1
    <3> QED
      BY <1>6, <3>1, <3>2
  <2> QED
    BY <1>10, <2>1, <2>2
<1>13. StepsAre(walk', chain, atts)
  BY <1>4, <1>8, <1>12 DEF StepsAre
<1>14. walk.work # NoHead => Pinned(walk.work, chain, atts)
  BY <1>1 DEF TInv, WalkTrue, MidBlocks
<1> QED
  BY <1>8, <1>11, <1>13, <1>14 DEF TInv, WalkTrue

AnswerFields ==
    {"root", "components", "height", "address", "proof", "balance", "nonce"}

\* Whatever a node answers for a balance, its proof has the shape of one.
LEMMA AnswersHaveProofs ==
    ASSUME NEW a \in Addrs, NEW bal, bal = TrueBalance(a) \/ bal \in FalseBalances(a)
    PROVE  IsProof(bal.proof)
<1> DEFINE l == LedgerAt(node.ledger)
           b == TrueBalance(a)
           rich == ComputeProof(Richer(l, a), a)
           other == BalanceAnswer(Richer(l, a), node.head, a)
<1>1. /\ IsProof(ComputeProof(l, a)) /\ IsProof(rich)
      /\ \E x, n : rich.leaf = EmptyLeaf \/ rich.leaf = AccountLeaf(x, n)
  BY MadeProof DEF IsProof
<1>2. /\ b = [b EXCEPT !.proof = ComputeProof(l, a)] /\ b.proof = ComputeProof(l, a)
      /\ DOMAIN b = AnswerFields
      /\ other.proof = rich
      /\ DOMAIN other = AnswerFields
  BY DEF TrueBalance, BalanceAnswer, AnswerFields
<1>3. \/ bal = b
      \/ bal = [b EXCEPT !.proof.leaf = rich.leaf, !.balance = @ + 1]
      \/ bal = [b EXCEPT !.balance = @ + 1]
      \/ bal = [other EXCEPT !.root = b.root]
      \/ \E o \in Addrs : bal = [TrueBalance(o) EXCEPT !.address = a]
  BY DEF FalseBalances
<1> DEFINE p == ComputeProof(l, a)
<1>4. DOMAIN p = {"address", "leaf", "siblings"}
  BY DEF ComputeProof
<1>7. \A o \in Addrs : IsProof([TrueBalance(o) EXCEPT !.address = a].proof)
  <2> SUFFICES ASSUME NEW o \in Addrs
               PROVE  IsProof([TrueBalance(o) EXCEPT !.address = a].proof)
    OBVIOUS
  <2>1. [TrueBalance(o) EXCEPT !.address = a].proof = ComputeProof(l, o)
    BY DEF TrueBalance, BalanceAnswer
  <2> QED
    BY <2>1, MadeProof
<1> HIDE DEF b, rich, other, p
<1>5. \/ bal.proof = p \/ bal.proof = rich \/ bal.proof = [p EXCEPT !.leaf = rich.leaf]
      \/ IsProof(bal.proof)
  <2>1. CASE \E o \in Addrs : bal = [TrueBalance(o) EXCEPT !.address = a]
    BY <1>7, <2>1
  <2>2. CASE bal = b
    BY <1>2, <2>2 DEF p
  <2>3. CASE bal = [b EXCEPT !.proof.leaf = rich.leaf, !.balance = @ + 1]
    BY <1>2, <2>3 DEF p, AnswerFields
  <2>4. CASE bal = [b EXCEPT !.balance = @ + 1]
    BY <1>2, <2>4 DEF p, AnswerFields
  <2>5. CASE bal = [other EXCEPT !.root = b.root]
    BY <1>2, <2>5 DEF AnswerFields
  <2> QED
    BY <1>3, <2>1, <2>2, <2>3, <2>4, <2>5
<1>6. IsProof([p EXCEPT !.leaf = rich.leaf])
  <2> DEFINE q == [p EXCEPT !.leaf = rich.leaf]
  <2>1. q.address = p.address /\ q.leaf = rich.leaf /\ q.siblings = p.siblings
    BY <1>4
  <2> HIDE DEF q
  <2>2. IsProof(p)
    BY <1>1 DEF p
  <2>3. IsProof(q)
    BY <1>1, <2>1, <2>2 DEF IsProof
  <2> QED
    BY <2>3 DEF q
<1> QED
  BY <1>1, <1>5, <1>6 DEF p

\* The balance is what a bootstrap demands of it, or the walk ends.
LEMMA GetBalanceTrue ==
    ASSUME IInv, TInv, GetBalance
    PROVE  WalkTrue(walk', chain, atts)
<1>1. walk.at = "balance" /\ DOMAIN walk = WalkFields /\ walk.work = NoHead
  BY DEF GetBalance, IInv, IsWalk
<1>2. IsSeq(chain) /\ IsSeq(atts) /\ Own \in Addrs
  BY LightAssumption DEF TInv, Heights
<1>3. \/ walk' = IdleWalk
      \/ \E bal : /\ bal = TrueBalance(Own) \/ bal \in FalseBalances(Own)
                  /\ BootBalance(bal)
                  /\ walk' = [walk EXCEPT !.at = "nullifiers", !.bal = bal]
  BY DEF GetBalance
<1>4. ASSUME NEW bal, bal = TrueBalance(Own) \/ bal \in FalseBalances(Own),
             BootBalance(bal), walk' = [walk EXCEPT !.at = "nullifiers", !.bal = bal]
      PROVE  WalkTrue(walk', chain, atts)
  <2>1. /\ walk'.at = "nullifiers" /\ walk'.bal = bal /\ walk'.work = NoHead
        /\ walk'.steps = walk.steps /\ walk'.anchor = walk.anchor /\ walk'.ask = walk.ask
    BY <1>1, <1>4 DEF WalkFields
  <2>2. IsProof(bal.proof)
    BY <1>2, <1>4, AnswersHaveProofs
  <2>3. BootPoint = BootPointOf(walk, chain) /\ BootPointOf(walk', chain) = BootPointOf(walk, chain)
    BY <1>2, <2>1, BootPointIs DEF BootPointOf
  <2>4. Answered(walk', chain)
    BY <1>4, <2>1, <2>2, <2>3 DEF Answered, BootBalance, BalanceConsistent
  <2> QED
    BY <2>1, <2>4 DEF TInv, WalkTrue, StepsAre
<1> QED
  BY <1>2, <1>3, <1>4, IdleTrue

\* A report is of a block of the chain.
LEMMA BootPointFacts ==
    ASSUME TInv, IInv
    PROVE  /\ BootPoint.height \in 0..Len(chain)
           /\ BootPoint = Report(chain, BootPoint.height)
           /\ BootPoint.height = 0 \/ \E i \in 1..walk.anchor : atts[i] = BootPoint.height
<1>1. Len(chain) \in Nat /\ Len(atts) \in Nat /\ BootPoint = BootPointOf(walk, chain)
  BY SeqLen, BootPointIs DEF TInv, Heights
<1>2. \A h : Report(chain, h).height = h
  BY DEF Report
<1>3. CASE walk.steps = <<>>
  <2>1. BootPoint = Report(chain, 0) /\ BootPoint.height = 0
    BY <1>1, <1>2, <1>3 DEF BootPointOf
  <2> QED
    BY <1>1, <2>1, Between
<1>4. CASE walk.steps # <<>>
  <2> DEFINE n == Len(walk.steps)
             s == walk.steps[n]
  <2>1. PICK S : walk.steps \in Seq(S)
    BY DEF IInv, IsWalk
  <2>2. n \in Nat /\ n \in 1..n
    BY <1>4, <2>1, EmptySeq, LenProperties
  <2>3. Reported(s, chain, atts) /\ s.anchor = walk.anchor - n + n
    BY <2>2 DEF TInv, WalkTrue, StepsAre
  <2>4. walk.anchor \in Nat /\ BootPoint = s.att
    BY <1>1, <1>4 DEF BootPointOf, IInv, IsWalk
  <2> HIDE DEF n, s
  <2>5. s.anchor = walk.anchor /\ s.anchor \in 1..walk.anchor
    <3>1. s.anchor \in 1..Len(atts)
      BY <2>3 DEF Reported
    <3> QED
      BY <1>1, <2>2, <2>3, <2>4, <3>1
  <2>6. atts[s.anchor] \in 1..Len(chain) /\ s.att = Report(chain, atts[s.anchor])
    BY <2>3 DEF Reported, TInv, Heights
  <2>7. BootPoint.height = atts[s.anchor]
    BY <1>2, <2>4, <2>6
  <2> QED
    BY <1>1, <2>4, <2>5, <2>6, <2>7, Between
<1> QED
  BY <1>3, <1>4

\* What a proof proves depends on its three fields alone.
HashesFrom(a, leaf, siblings) ==
    LET hash[i \in 0..TreeDepth] ==
            IF i = 0 THEN LeafHash(a, leaf)
            ELSE IF Bits[a][TreeDepth - i + 1] = 0
                 THEN BranchHash(hash[i - 1], siblings[i])
                 ELSE BranchHash(siblings[i], hash[i - 1])
    IN  hash

LEMMA SameProof ==
    ASSUME NEW p, NEW q, p.address = q.address, p.leaf = q.leaf, p.siblings = q.siblings
    PROVE  /\ IsProof(p) => IsProof(q)
           /\ \A root : ProofVerifies(p, root) => ProofVerifies(q, root)
<1>1. \A r : ProofHashes(r) = HashesFrom(r.address, r.leaf, r.siblings)
  BY DEF ProofHashes, HashesFrom
<1>2. ProofHashes(p) = ProofHashes(q)
  BY <1>1
<1>3. IsProof(p) => IsProof(q)
  BY DEF IsProof
<1> QED
  BY <1>2, <1>3 DEF ProofVerifies, ProofRoot

\* A hash of h headers and the one of height h.
LEMMA LastEntry ==
    ASSUME NEW c, NEW h \in Nat
    PROVE  /\ IsSeq(Entries(c, h)) /\ Len(Entries(c, h)) = h + 1
           /\ Entries(c, h)[h + 1] = Entry(c, h)
           /\ Entries(c, h)[h + 1][3] = RootOf(LedgerIn(c, h))
<1> DEFINE e == Entries(c, h)
           S == {e[j] : j \in 1..(h + 1)}
<1>1. e = [j \in 1..(h + 1) |-> e[j]] /\ \A j \in 1..(h + 1) : e[j] \in S
  BY DEF Entries
<1>2. e[h + 1] = Entry(c, h) /\ Entry(c, h)[3] = RootOf(LedgerIn(c, h))
  BY DEF Entries, Entry
<1> HIDE DEF e, S
<1>3. e \in [1..(h + 1) -> S] /\ h + 1 \in Nat
  BY <1>1
<1>4. e \in Seq(S) /\ Len(e) = h + 1
  BY <1>3
<1> QED
  BY <1>2, <1>4 DEF IsSeq, e

\* The head of a bootstrap proves whichever account the node proved.
LEMMA BootProves ==
    ASSUME TInv, walk.at = "nullifiers"
    PROVE  LET a == walk.bal.proof.address
           IN  a \in Addrs /\ Proves(BootHead(walk.bal.components.nullifiers), a)
<1> DEFINE x == BootHead(walk.bal.components.nullifiers)
           a == walk.bal.proof.address
           q == ProofUnder(a, x)
<1>1. Answered(walk, chain)
  BY DEF TInv, WalkTrue
<1>2. /\ x.accounts = walk.bal.components.accounts
      /\ x.leaf = walk.bal.proof.leaf /\ x.path = walk.bal.proof.siblings
  BY DEF BootHead
<1>3. q.address = a /\ q.leaf = walk.bal.proof.leaf /\ q.siblings = walk.bal.proof.siblings
  BY <1>2 DEF ProofUnder
<1>4. a \in Addrs
  BY <1>1 DEF Answered, IsProof
<1> HIDE DEF q, x
<1>5. IsProof(q) /\ ProofVerifies(q, x.accounts)
  BY <1>1, <1>2, <1>3, SameProof DEF Answered
<1> QED
  BY <1>4, <1>5 DEF q, x, Proves

LEMMA GetNullifiersTrue ==
    ASSUME IInv, TInv, GetNullifiers
    PROVE  WalkTrue(walk', chain, atts)
<1> DEFINE h == BootPoint.height
           n == walk.bal.components.nullifiers
           x == BootHead(n)
<1>1. walk.at = "nullifiers" /\ DOMAIN walk = WalkFields
  BY DEF GetNullifiers, IInv, IsWalk
<1>2. IsSeq(chain) /\ IsSeq(atts) /\ Own \in Addrs /\ Len(chain) \in Nat
  BY LightAssumption, SeqLen DEF TInv, Heights
<1>3. \/ walk' = IdleWalk
      \/ walk' = [IdleWalk EXCEPT !.at = "walk", !.ask = walk.ask,
                      !.anchor = walk.anchor, !.boot = h, !.work = x]
  BY DEF GetNullifiers, TakesNullifiers
<1>4. CASE walk' = [IdleWalk EXCEPT !.at = "walk", !.ask = walk.ask,
                        !.anchor = walk.anchor, !.boot = h, !.work = x]
  <2>1. /\ h \in 0..Len(chain) /\ BootPoint = Report(chain, h)
        /\ h = 0 \/ \E i \in 1..walk.anchor : atts[i] = h
    BY BootPointFacts
  <2>2. /\ x.l2 = h /\ x.hash = BootPoint.hash /\ x.anchor = walk.anchor
        /\ x.accounts = walk.bal.components.accounts /\ x.consumed = n
        /\ x.leaf = walk.bal.proof.leaf /\ x.path = walk.bal.proof.siblings
    BY DEF BootHead
  <2>3. x.hash = Entries(chain, h) /\ BootPoint.root = RootOf(LedgerIn(chain, h))
    <3>1. /\ Report(chain, h).hash = Entries(chain, h)
          /\ Report(chain, h).root = RootOf(LedgerIn(chain, h))
      BY DEF Report
    <3> QED
      BY <2>1, <2>2, <3>1
  <2>4. /\ walk'.at = "walk" /\ walk'.work = x /\ walk'.anchor = walk.anchor
        /\ walk'.steps = <<>> /\ walk'.ask = walk.ask
    BY <1>4 DEF IdleWalk
  <2> HIDE DEF x, h
  <2>5. walk.anchor \in 0..Len(atts) /\ walk.anchor \in Nat /\ walk.ask \in Addrs
    BY DEF TInv, WalkTrue, StepsAre, IInv, IsWalk
  <2>6. Pinned(x, chain, atts)
    BY <2>1, <2>2, <2>3, <2>5 DEF Pinned
  <2>7. /\ IsProof(walk.bal.proof)
        /\ walk.bal.components = RootOf(LedgerIn(chain, h))
        /\ ProofVerifies(walk.bal.proof, walk.bal.components.accounts)
    <3>1. Answered(walk, chain)
      BY <1>1 DEF TInv, WalkTrue
    <3> QED
      BY <1>2, <2>3, <3>1, BootPointIs DEF Answered
  <2>8. walk.bal.components = StateRoot(x.accounts, x.consumed)
    BY <2>2, <2>7 DEF RootOf, StateRoot
  <2>9. \E a \in Addrs : Proves(x, a)
    BY <1>1, BootProves DEF x
  <2>10. h \in Nat
    BY <1>2, <2>1
  <2>11. Committed(x)
    BY ZenonT(30), <2>2, <2>3, <2>7, <2>8, <2>9, <2>10, LastEntry DEF Committed
  <2>12. Len(<<>>) = 0 /\ 1..0 = {} /\ walk.anchor - 0 = walk.anchor
    BY <2>5
  <2>13. StepsAre(walk', chain, atts)
    BY <2>4, <2>5, <2>12 DEF StepsAre
  <2> QED
    BY <2>2, <2>4, <2>5, <2>6, <2>11, <2>12, <2>13 DEF WalkTrue
<1> QED
  BY <1>2, <1>3, <1>4, IdleTrue

LEMMA PlacesTrue ==
    ASSUME IInv, TInv, WalkDone \/ GetTip \/ WalkForwardDone
    PROVE  WalkTrue(walk', chain, atts)
<1>1. DOMAIN walk = WalkFields /\ walk.at \in {"walk", "tip", "blocks"}
  BY DEF WalkDone, GetTip, WalkForwardDone, IInv, IsWalk
<1>2. /\ walk'.work = walk.work /\ walk'.anchor = walk.anchor
      /\ walk'.steps = walk.steps /\ walk'.ask = walk.ask
      /\ walk'.at \in {"balance", "tip", "blocks", "done"}
  <2>1. CASE WalkDone
    BY <1>1, <2>1 DEF WalkDone, Goto, WalkFields
  <2>2. CASE GetTip
    BY <1>1, <2>2 DEF GetTip, WalkFields
  <2>3. CASE WalkForwardDone
    BY <1>1, <2>3 DEF WalkForwardDone, Goto, WalkFields
  <2> QED
    BY <2>1, <2>2, <2>3
<1>3. walk.work # NoHead => Pinned(walk.work, chain, atts)
  <2>1. walk.at # "blocks" \/ walk.steps = <<>>
    BY DEF WalkDone, GetTip, WalkForwardDone
  <2> QED
    BY <2>1 DEF TInv, WalkTrue, MidBlocks
<1> QED
  BY <1>2, <1>3 DEF TInv, WalkTrue, StepsAre
-----------------------------------------------------------------------------
(* The blocks up to each attestation.                                      *)

\* The first step is done with.
LEMMA FirstStep ==
    ASSUME IInv, TInv, walk.steps # <<>>, NEW w, w.anchor = walk.anchor,
           w.steps = Tail(walk.steps)
    PROVE  /\ StepsAre(w, chain, atts)
           /\ Reported(Step, chain, atts)
           /\ Step.anchor = w.anchor - Len(w.steps)
           /\ Step.anchor = walk.anchor - Len(walk.steps) + 1
           /\ Len(walk.steps) \in Nat
<1>1. PICK S : walk.steps \in Seq(S)
  BY DEF IInv, IsWalk
<1> DEFINE n == Len(walk.steps)
<1>2. /\ n \in Nat /\ 1 \in 1..n /\ Len(w.steps) = n - 1
      /\ \A i \in 1..Len(w.steps) : i + 1 \in 1..n /\ w.steps[i] = walk.steps[i + 1]
  BY <1>1, HeadTailProperties, LenProperties, EmptySeq
<1>3. StepsAre(walk, chain, atts) /\ walk.anchor \in Nat
  BY DEF TInv, WalkTrue, IInv, IsWalk
<1>4. \A i \in 1..n : /\ Reported(walk.steps[i], chain, atts)
                      /\ walk.steps[i].anchor = walk.anchor - n + i
  BY <1>3 DEF StepsAre
<1> HIDE DEF n
<1>5. ASSUME NEW i \in 1..Len(w.steps)
      PROVE  /\ Reported(w.steps[i], chain, atts)
             /\ w.steps[i].anchor = w.anchor - Len(w.steps) + i
  <2>1. i + 1 \in 1..n /\ w.steps[i] = walk.steps[i + 1]
    BY <1>2
  <2>2. /\ Reported(w.steps[i], chain, atts)
        /\ w.steps[i].anchor = walk.anchor - n + (i + 1)
    BY <1>4, <2>1
  <2>3. walk.anchor - n + (i + 1) = walk.anchor - (n - 1) + i
    BY <1>2, <1>3
  <2> QED
    BY <1>2, <2>2, <2>3
<1>6. StepsAre(w, chain, atts)
  BY <1>3, <1>5 DEF StepsAre
<1>7. Reported(Step, chain, atts) /\ Step.anchor = walk.anchor - n + 1
  BY <1>2, <1>4 DEF Step
<1>8. walk.anchor - n + 1 = walk.anchor - (n - 1)
  BY <1>2, <1>3
<1> QED
  BY <1>2, <1>6, <1>7, <1>8 DEF n

LEMMA SkipKnownTrue ==
    ASSUME IInv, TInv, SkipKnown
    PROVE  WalkTrue(walk', chain, atts)
<1>1. /\ walk.at = "blocks" /\ walk.steps # <<>> /\ Step.att.height <= walk.work.l2
      /\ walk' = [walk EXCEPT !.steps = Tail(@), !.work.anchor = Step.anchor]
  BY DEF SkipKnown
<1>2. DOMAIN walk = WalkFields /\ IsHead(walk.work) /\ walk.work # NoHead
  BY <1>1 DEF IInv, IsWalk
<1> DEFINE x == [walk.work EXCEPT !.anchor = Step.anchor]
<1>3. /\ x.l2 = walk.work.l2 /\ x.hash = walk.work.hash /\ x.anchor = Step.anchor
      /\ x.accounts = walk.work.accounts /\ x.consumed = walk.work.consumed
      /\ x.leaf = walk.work.leaf /\ x.path = walk.work.path
  BY <1>2 DEF IsHead, HeadFields
<1>4. /\ walk'.work = x /\ walk'.steps = Tail(walk.steps) /\ walk'.at = "blocks"
      /\ walk'.anchor = walk.anchor /\ walk'.ask = walk.ask
  BY <1>1, <1>2 DEF WalkFields
<1> HIDE DEF x
<1>5. /\ StepsAre(walk', chain, atts) /\ Reported(Step, chain, atts)
      /\ Step.anchor = walk'.anchor - Len(walk'.steps)
      /\ Step.anchor = walk.anchor - Len(walk.steps) + 1 /\ Len(walk.steps) \in Nat
  BY <1>1, <1>4, FirstStep
<1>6. /\ Committed(walk.work) /\ walk.work.anchor = walk.anchor - Len(walk.steps)
      /\ Pinned(walk.work, chain, atts)
  <2>1. Step.att.height = atts[Step.anchor]
    BY <1>5 DEF Reported, Report
  <2>2. atts[Step.anchor] \in 1..Len(chain) /\ Len(chain) \in Nat
    BY <1>5, SeqLen DEF Reported, TInv, Heights
  <2>3. walk.work.l2 \in Nat
    BY <1>2 DEF IsHead
  <2>4. ~MidBlocks(walk)
    BY <1>1, <2>1, <2>2, <2>3 DEF MidBlocks, Step
  <2> QED
    BY <1>2, <2>4 DEF TInv, WalkTrue
<1>7. Committed(x)
  <2>1. \A a : Proves(walk.work, a) => Proves(x, a)
    BY <1>3 DEF Proves, ProofUnder
  <2> QED
    BY <1>3, <1>6, <2>1 DEF Committed
<1>8. Pinned(x, chain, atts)
  <2>1. /\ Step.anchor \in 1..Len(atts) /\ walk.work.anchor \in 0..Len(atts)
        /\ walk.anchor \in Nat /\ Len(atts) \in Nat
    BY <1>5, <1>6, SeqLen DEF Reported, Pinned, IInv, IsWalk, TInv, Heights
  <2>2. Step.anchor = walk.work.anchor + 1
    BY <1>5, <1>6, <2>1
  <2>3. \A i \in 1..walk.work.anchor : i \in 1..Step.anchor
    BY <2>1, <2>2
  <2>4. Step.anchor \in 0..Len(atts)
    BY <2>1, Between
  <2> QED
    BY <1>3, <1>6, <2>3, <2>4 DEF Pinned
<1> QED
  BY <1>4, <1>5, <1>7, <1>8, <1>3 DEF TInv, WalkTrue

\* The hash of a block that is accepted extends the one before.
LEMMA AcceptedHash ==
    ASSUME NEW b, NEW w, NEW h, NEW last, WellFormed(b, w, h, last)
    PROVE  HashOf(b.header) = Append(walk.work.hash, <<h, b.txs, b.header.root>>)
BY DEF WellFormed, HashOf

\* Whatever block and witness were accepted, the new head commits to itself, and
\* its leaf is the wallet's own.
LEMMA AcceptedCommits ==
    ASSUME IInv, TInv, IsHead(walk.work), Committed(walk.work), NEW b, NEW w, NEW last,
           Accepts(b, w, walk.work.l2 + 1, last)
    PROVE  /\ Committed(NewHead(b, w, walk.work.l2 + 1))
           /\ Proves(NewHead(b, w, walk.work.l2 + 1), Own)
<1> DEFINE h == walk.work.l2 + 1
           x == NewHead(b, w, h)
           after == Replay(SparseLedger(w), b.txs)
           us == UpdatesOf(w, after)
           own == RefreshObserver(us, [address |-> Own, leaf |-> walk.work.leaf,
                                       siblings |-> walk.work.path])
<1>1. /\ x.l2 = h /\ x.hash = HashOf(b.header)
      /\ x.leaf = own.leaf /\ x.path = own.siblings
  BY DEF NewHead
<1>2. /\ WellFormed(b, w, h, last)
      /\ StateRoot(x.accounts, x.consumed) = b.header.root
      /\ ProofVerifies(ProofUnder(Own, x), x.accounts)
  BY DEF Accepts, ProofUnder
<1>3. /\ IsSeq(x.hash) /\ Len(x.hash) = h + 1
      /\ x.hash[h + 1][3] = StateRoot(x.accounts, x.consumed)
  <2> DEFINE e == <<h, b.txs, b.header.root>>
  <2>1. x.hash = Append(walk.work.hash, e)
    BY <1>1, <1>2, AcceptedHash
  <2>2. IsSeq(walk.work.hash) /\ Len(walk.work.hash) = h
    BY DEF Committed
  <2>3. e[3] = b.header.root
    OBVIOUS
  <2> HIDE DEF e, x, h
  <2>4. IsSeq(x.hash) /\ Len(x.hash) = h + 1 /\ x.hash[h + 1] = e
    BY <2>1, <2>2, Appended
  <2> QED
    BY <1>2, <2>3, <2>4
<1>4. IsProof(ProofUnder(Own, x))
  <2> DEFINE proof == [address |-> Own, leaf |-> walk.work.leaf,
                       siblings |-> walk.work.path]
  <2>1. own.leaf = IF Own \in Touched(us) THEN UpdateOf(us, Own).post ELSE walk.work.leaf
    BY DEF RefreshObserver
  <2>2. own.siblings = [i \in 1..TreeDepth |-> own.siblings[i]]
    BY DEF RefreshObserver
  <2>3. \E c, n : walk.work.leaf = EmptyLeaf \/ walk.work.leaf = AccountLeaf(c, n)
    BY DEF Committed, Proves, IsProof, ProofUnder
  <2>4. Own \in Touched(us)
        => \E c, n : UpdateOf(us, Own).post = EmptyLeaf
                     \/ UpdateOf(us, Own).post = AccountLeaf(c, n)
    <3> SUFFICES ASSUME Own \in Touched(us)
                 PROVE  \E c, n : UpdateOf(us, Own).post = EmptyLeaf
                                  \/ UpdateOf(us, Own).post = AccountLeaf(c, n)
      OBVIOUS
    <3> DEFINE j == CHOOSE i \in DOMAIN us : us[i].proof.address = Own
    <3>1. j \in DOMAIN us
      BY DEF Touched
    <3>2. \A i \in DOMAIN us : us[i].post = LeafOf(after, w.proofs[i].address)
      BY DEF UpdatesOf
    <3>3. UpdateOf(us, Own) = us[j]
      BY DEF UpdateOf
    <3> HIDE DEF j, us, after
    <3>4. UpdateOf(us, Own).post = LeafOf(after, w.proofs[j].address)
      BY <3>1, <3>2, <3>3
    <3> QED
      BY <3>4, LeafForms
  <2>5. Own \in Addrs
    BY LightAssumption
  <2>6. /\ ProofUnder(Own, x).address = Own /\ ProofUnder(Own, x).leaf = own.leaf
        /\ ProofUnder(Own, x).siblings = own.siblings
    BY <1>1 DEF ProofUnder
  <2> HIDE DEF own, us, x
  <2> QED
    BY <2>1, <2>2, <2>3, <2>4, <2>5, <2>6 DEF IsProof
<1>5. Proves(x, Own) /\ Own \in Addrs
  BY <1>2, <1>4, LightAssumption DEF Proves
<1> QED
  BY <1>1, <1>3, <1>5 DEF Committed

LEMMA VerifiesTrue ==
    ASSUME IInv, TInv, walk.at = "blocks", walk.steps # <<>>,
           Step.att.height > walk.work.l2, NEW b, NEW w, Verifies(b, w)
    PROVE  WalkTrue(walk', chain, atts)
<1> DEFINE h == walk.work.l2 + 1
           last == h = Step.att.height
           new == NewHead(b, w, h)
           x == IF last THEN [new EXCEPT !.anchor = Step.anchor] ELSE new
<1>1. /\ DOMAIN walk = WalkFields /\ IsHead(walk.work) /\ walk.work # NoHead
      /\ IsSeq(chain) /\ IsSeq(atts)
  BY DEF IInv, IsWalk, TInv, Heights
<1>2. CASE walk' = IdleWalk
  BY <1>1, <1>2, IdleTrue
<1>3. CASE walk' # IdleWalk
  <2>1. /\ Accepts(b, w, h, last)
        /\ walk' = [walk EXCEPT !.work = x, !.steps = IF last THEN Tail(@) ELSE @,
                                !.events = @ \o OwnEvents(b.txs, h)]
    BY <1>3 DEF Verifies, GivesUp
  <2>2. Committed(walk.work) /\ walk.work.anchor = walk.anchor - Len(walk.steps)
    BY <1>1 DEF TInv, WalkTrue
  <2>3. Committed(new)
    BY <1>1, <2>1, <2>2, AcceptedCommits
  <2>4. /\ DOMAIN new = HeadFields /\ new.l2 = h /\ new.anchor = walk.work.anchor
        /\ new.hash = HashOf(b.header)
    BY DEF NewHead, HeadFields
  <2> HIDE DEF new
  <2>5. /\ x.l2 = h /\ x.hash = new.hash /\ x.accounts = new.accounts
        /\ x.consumed = new.consumed /\ x.leaf = new.leaf /\ x.path = new.path
        /\ x.anchor = IF last THEN Step.anchor ELSE walk.work.anchor
    BY <2>4 DEF HeadFields
  <2>6. Committed(x)
    <3>1. \A a : Proves(new, a) => Proves(x, a)
      BY <2>5 DEF Proves, ProofUnder
    <3> QED
      BY <2>3, <2>4, <2>5, <3>1 DEF Committed
  <2> HIDE DEF x
  <2>7. /\ walk'.work = x /\ walk'.anchor = walk.anchor /\ walk'.at = "blocks"
        /\ walk'.steps = (IF last THEN Tail(walk.steps) ELSE walk.steps)
        /\ walk'.ask = walk.ask
    BY <1>1, <2>1 DEF WalkFields
  <2>8. StepsAre(walk, chain, atts) /\ walk.ask \in Addrs
    BY DEF TInv, WalkTrue
  <2>9. h \in Nat /\ h = walk.work.l2 + 1 /\ walk.work.l2 \in Nat
    BY <1>1 DEF IsHead
  <2>10. CASE last
    <3>1. /\ StepsAre(walk', chain, atts) /\ Reported(Step, chain, atts)
          /\ Step.anchor = walk'.anchor - Len(walk'.steps)
      BY <2>7, <2>10, FirstStep
    <3>2. /\ Step.anchor \in 1..Len(atts) /\ Step.att.height = atts[Step.anchor]
          /\ Step.att.hash = Entries(chain, atts[Step.anchor])
          /\ atts[Step.anchor] \in 1..Len(chain)
      BY <3>1 DEF Reported, Report, TInv, Heights
    <3>3. HashOf(b.header) = Step.att.hash
      BY <2>1, <2>10 DEF Accepts, WellFormed
    <3>4. h = atts[Step.anchor] /\ x.hash = Entries(chain, h) /\ x.anchor = Step.anchor
      BY <2>4, <2>5, <2>10, <3>2, <3>3
    <3>5. /\ h \in 0..Len(chain) /\ Step.anchor \in 0..Len(atts)
          /\ Step.anchor \in 1..Step.anchor
      <4>1. Len(chain) \in Nat /\ Len(atts) \in Nat
        BY <1>1, SeqLen
      <4> QED
        BY <3>2, <3>4, <4>1, Between
    <3>6. Pinned(x, chain, atts)
      BY <2>5, <3>4, <3>5 DEF Pinned
    <3> QED
      BY <2>5, <2>6, <2>7, <2>8, <2>10, <3>1, <3>6 DEF WalkTrue
  <2>11. CASE ~last
    <3>1. Step.att.height \in Nat
      <4>1. PICK S : walk.steps \in Seq(S)
        BY DEF IInv, IsWalk
      <4>2. 1 \in 1..Len(walk.steps)
        BY <4>1, LenProperties, EmptySeq
      <4> QED
        BY <4>2 DEF IInv, IsWalk, IsStep, Step
    <3>2. h < Step.att.height
      BY <2>9, <2>11, <3>1
    <3>3. walk'.steps = walk.steps
      BY <2>7, <2>11
    <3>4. MidBlocks(walk')
      BY <2>5, <2>7, <3>2, <3>3 DEF MidBlocks, Step
    <3>5. StepsAre(walk', chain, atts)
      BY <2>7, <2>8, <3>3 DEF StepsAre
    <3> QED
      BY <2>2, <2>5, <2>6, <2>7, <2>8, <2>11, <3>3, <3>4, <3>5 DEF WalkTrue
  <2> QED
    BY <2>10, <2>11
<1> QED
  BY <1>2, <1>3

LEMMA VerifyBlockTrue ==
    ASSUME IInv, TInv, VerifyBlock
    PROVE  WalkTrue(walk', chain, atts)
<1>1. /\ walk.at = "blocks" /\ walk.steps # <<>> /\ Step.att.height > walk.work.l2
      /\ \E b, w : Verifies(b, w)
  BY DEF VerifyBlock
<1> QED
  BY <1>1, VerifiesTrue

LEMMA ShowTrue ==
    ASSUME IInv, TInv, ShowOwn \/ ShowOther
    PROVE  TInv'
<1>1. UNCHANGED <<chain, atts>> /\ walk.at = "done"
  BY DEF ShowOwn, ShowOther, worldVars
<1>2. \/ head' = walk.work /\ walk' = IdleWalk
      \/ head' = head /\ walk' = IdleWalk
  BY DEF ShowOwn, ShowOther, ShowsOther, Save, GivesUp
<1>3. walk.work # NoHead /\ Committed(walk.work) /\ Pinned(walk.work, chain, atts)
  BY <1>1 DEF IInv, IsWalk, TInv, WalkTrue, MidBlocks
<1>4. WalkTrue(IdleWalk, chain, atts)
  BY IdleTrue DEF TInv, Heights
<1> QED
  BY <1>1, <1>2, <1>3, <1>4 DEF TInv

\* L1, the sequencer and the node.
LEMMA WorldGrows ==
    ASSUME IInv, Heights(chain, atts), World \/ NodeStep
    PROVE  Prolongs(chain, chain') /\ Prolongs(atts, atts') /\ Heights(chain', atts')
<1>1. IsSeq(chain) /\ IsSeq(atts) /\ Len(chain) \in Nat /\ Len(atts) \in Nat
  BY SeqLen DEF Heights
<1>2. CASE UNCHANGED <<chain, atts>>
  BY <1>1, <1>2, GrowsByNone
<1>3. ASSUME UNCHANGED atts, NEW x, chain' = Append(chain, x)
      PROVE  Prolongs(chain, chain') /\ Prolongs(atts, atts') /\ Heights(chain', atts')
  <2>1. Prolongs(chain, chain') /\ IsSeq(chain') /\ Len(chain') = Len(chain) + 1
    BY <1>1, <1>3, GrowsByOne, Appended
  <2>2. \A i \in 1..Len(chain) : i \in 1..Len(chain')
    BY <1>1, <2>1
  <2> QED
    BY <1>1, <1>3, <2>1, <2>2, GrowsByNone DEF Heights
<1>4. ASSUME UNCHANGED chain, NEW h \in 1..Len(chain), atts' = Append(atts, h)
      PROVE  Prolongs(chain, chain') /\ Prolongs(atts, atts') /\ Heights(chain', atts')
  <2>1. /\ Prolongs(atts, atts') /\ IsSeq(atts') /\ Len(atts') = Len(atts) + 1
        /\ \A i \in 1..Len(atts) : atts'[i] = atts[i]
        /\ atts'[Len(atts) + 1] = h
    BY <1>1, <1>4, GrowsByOne, Appended
  <2>2. \A i \in 1..Len(atts') : i \in 1..Len(atts) \/ i = Len(atts) + 1
    BY <1>1, <2>1
  <2>3. \A i \in 1..Len(atts') : atts'[i] \in 1..Len(chain)
    BY <2>1, <2>2 DEF Heights
  <2> QED
    BY <1>1, <1>4, <2>1, <2>3, GrowsByNone DEF Heights
<1>5. \/ UNCHANGED <<chain, atts>>
      \/ UNCHANGED atts /\ \E x : chain' = Append(chain, x)
      \/ UNCHANGED chain /\ \E h \in 1..Len(chain) : atts' = Append(atts, h)
  <2>1. CASE NodeStep
    BY <2>1 DEF NodeStep, NodeAppliesBlock, NodeStoresBlock, NodeRecordsSpend, worldVars
  <2>2. CASE World
    <3>1. CASE \/ NewL1Block
               \/ \E o \in Outpoints : ConfirmLock(o) \/ ReclaimLock(o)
               \/ \E o \in Outpoints : MoveLock(o)
      BY <3>1 DEF NewL1Block, ConfirmLock, ReclaimLock, MoveLock
    <3>2. CASE \E o \in Outpoints, claimed \in {l1Tip}, tears \in Tears :
                  SubmitMint(o, claimed, tears)
      BY <3>2 DEF SubmitMint
    <3>3. CASE \E tears \in Tears : ProduceBlock(tears)
      BY <3>3 DEF ProduceBlock
    <3>4. CASE ProduceAnyBlock
      BY <3>4 DEF ProduceAnyBlock
    <3>5. CASE \E h \in 1..Len(chain) : Attest(h)
      BY <3>5 DEF Attest
    <3> QED
      BY <2>2, <3>1, <3>2, <3>3, <3>4, <3>5 DEF World
  <2> QED
    BY <2>1, <2>2
<1> QED
  BY <1>2, <1>3, <1>4, <1>5

LEMMA WorldTrue ==
    ASSUME IInv, TInv, World \/ NodeStep
    PROVE  TInv'
<1>1. Prolongs(chain, chain') /\ Prolongs(atts, atts') /\ Heights(chain', atts')
  BY WorldGrows DEF TInv
<1>2. UNCHANGED <<head, walk>>
  BY DEF World, NodeStep, NewL1Block, ConfirmLock, ReclaimLock, MoveLock, SubmitMint,
         ProduceBlock, ProduceAnyBlock, Attest, NodeAppliesBlock, NodeStoresBlock,
         NodeRecordsSpend, walletVars
<1>3. WalkTrue(walk, chain', atts')
  BY <1>1, WalkStays DEF TInv
<1>4. head # NoHead => Pinned(head, chain', atts')
  BY <1>1, PinnedStays DEF TInv
<1> QED
  BY <1>1, <1>2, <1>3, <1>4 DEF TInv

LEMMA NextTrue ==
    ASSUME IInv, TInv, [Next]_vars
    PROVE  TInv'
<1>1. CASE World \/ NodeStep
  BY <1>1, WorldTrue
<1>2. CASE ShowOwn \/ ShowOther
  BY <1>2, ShowTrue
<1>3. CASE \/ \E ask \in Targets : Refresh(ask)
           \/ WalkStep \/ WalkDone \/ GetBalance \/ GetNullifiers \/ GetTip
           \/ SkipKnown \/ VerifyBlock \/ WalkForwardDone
  <2>1. UNCHANGED <<chain, atts, head>>
    BY <1>3 DEF Refresh, WalkStep, WalkDone, GetBalance, GetNullifiers, GetTip,
                SkipKnown, VerifyBlock, WalkForwardDone, worldVars
  <2>2. WalkTrue(walk', chain, atts)
    BY <1>3, RefreshTrue, WalkStepTrue, PlacesTrue, GetBalanceTrue,
       GetNullifiersTrue, SkipKnownTrue, VerifyBlockTrue
  <2> QED
    BY <2>1, <2>2, StaysTrue
<1>4. CASE Interrupted
  <2>1. walk' = IdleWalk /\ UNCHANGED <<chain, atts, head>>
    BY <1>4 DEF Interrupted, GivesUp, worldVars
  <2> QED
    BY <2>1, IdleTrue, StaysTrue DEF TInv, Heights
<1>5. CASE UNCHANGED vars
  BY <1>5 DEF vars, worldVars, walletVars, TInv
<1> QED
  BY <1>1, <1>2, <1>3, <1>4, <1>5 DEF Next, WalletStep

LEMMA InitTrue == Init => TInv
<1> SUFFICES ASSUME Init
             PROVE  TInv
  OBVIOUS
<1>1. chain = <<>> /\ atts = <<>> /\ head = NoHead /\ walk = IdleWalk
  BY DEF Init
<1>2. <<>> \in Seq({}) /\ Len(<<>>) = 0 /\ 1..0 = {}
  BY EmptySeq
<1>3. Heights(chain, atts)
  BY <1>1, <1>2 DEF Heights, IsSeq
<1> QED
  BY <1>1, <1>3, IdleTrue DEF TInv, Heights

LEMMA WalletTrue == Spec => [](IInv /\ TInv)
<1>1. Init => IInv /\ TInv
  BY InitHolds, InitTrue
<1>2. IInv /\ TInv /\ [Next]_vars => IInv' /\ TInv'
  BY NextKeeps, NextTrue
<1> QED
  BY <1>1, <1>2, PTL DEF Spec

\* What a committed head that is pinned to the chain holds is what the ledger of
\* its block holds.
LEMMA HeadIsLedgers ==
    ASSUME TInv, NEW x, Committed(x), Pinned(x, chain, atts)
    PROVE  LET l == LedgerAt(x.l2)
           IN  /\ x.accounts = ComputeRoot(l) /\ x.consumed = l.consumed
               /\ \A a \in Addrs : Proves(x, a) =>
                     x.leaf = LeafOf(l, a) /\ x.path = ComputeProof(l, a).siblings
<1> DEFINE l == LedgerAt(x.l2)
<1>1. x.l2 \in Nat /\ x.hash = Entries(chain, x.l2)
  BY SeqLen DEF Pinned, TInv, Heights
<1>2. StateRoot(x.accounts, x.consumed) = RootOf(l)
  BY <1>1, LastEntry, LedgerAtIs DEF Committed
<1> HIDE DEF l
<1>3. x.accounts = ComputeRoot(l) /\ x.consumed = l.consumed
  BY <1>2 DEF RootOf, StateRoot
<1>4. ASSUME NEW a \in Addrs, Proves(x, a)
      PROVE  x.leaf = LeafOf(l, a) /\ x.path = ComputeProof(l, a).siblings
  <2> DEFINE q == ProofUnder(a, x)
  <2>1. q.address = a /\ q.leaf = x.leaf /\ q.siblings = x.path
    BY DEF ProofUnder
  <2>2. IsProof(q) /\ ProofVerifies(q, ComputeRoot(l))
    BY <1>3, <1>4 DEF Proves
  <2> HIDE DEF q
  <2>3. q.leaf = LeafOf(l, q.address) /\ q.siblings = ComputeProof(l, q.address).siblings
    BY <2>2, ProofBinds
  <2> QED
    BY <2>1, <2>3
<1> QED
  BY <1>3, <1>4 DEF l

\* The head a wallet keeps is a block of the chain, attested at or before its
\* anchor: the blocks between two attestations are pinned by the later one, and a
\* walk that fails between them leaves no trace (walk_forward, bootstrap).
THEOREM HeadIsAlwaysAttested == Spec => []HeadIsAttested
<1>1. TInv => HeadIsAttested
  <2> SUFFICES ASSUME TInv, head # NoHead
               PROVE  /\ head.hash = HashOf(HeaderAt[head.l2])
                      /\ head.l2 = 0 \/ \E i \in 1..head.anchor : atts[i] = head.l2
    BY DEF HeadIsAttested
  <2>1. Pinned(head, chain, atts) /\ IsSeq(chain)
    BY DEF TInv, Heights
  <2> QED
    BY <2>1, HeadersAre DEF Pinned
<1> QED
  BY <1>1, WalletTrue, PTL
-----------------------------------------------------------------------------
(* Transactions in a row: the recursive definitions over the transactions of *)
(* a block are solutions of their equations.                               *)

RunLevel(k, i, below) ==
    IF i = 0 THEN k.start
    ELSE IF k.what = "own"
         THEN IF Own \in Party(k.txs[i]) THEN Append(below, <<k.height, i>>) ELSE below
    ELSE IF k.what = "forced" \/ Applies(below, k.txs[i]) THEN Apply(below, k.txs[i])
    ELSE below
RunUpto(f, k, n) == f = [i \in 0..n |-> RunLevel(k, i, f[i - 1])]

LEMMA RunsExist ==
    ASSUME NEW k, NEW m \in Nat
    PROVE  \E f : RunUpto(f, k, m)
<1> DEFINE S == {n \in Nat : \E f : RunUpto(f, k, n)}
<1>0. \A x, y : RunLevel(k, 0, x) = RunLevel(k, 0, y)
  BY DEF RunLevel
<1>1. 0 \in S
  <2> DEFINE f == [i \in 0..0 |-> RunLevel(k, 0, {})]
  <2>1. f = [i \in 0..0 |-> RunLevel(k, i, f[i - 1])]
    <3>1. \A i \in 0..0 : RunLevel(k, 0, {}) = RunLevel(k, i, f[i - 1])
      BY <1>0
    <3> QED
      BY <3>1
  <2> QED
    BY <2>1 DEF RunUpto
<1>2. ASSUME NEW n \in Nat, n \in S
      PROVE  n + 1 \in S
  <2>1. PICK f : RunUpto(f, k, n)
    BY <1>2
  <2> DEFINE g == Extended(f, n, RunLevel(k, n + 1, f[n]))
  <2>2. /\ \A i \in 0..n : g[i] = f[i]
        /\ g[n + 1] = RunLevel(k, n + 1, f[n])
        /\ g = [i \in 0..(n + 1) |-> g[i]]
    BY DEF Extended
  <2>3. \A i \in 0..n : f[i] = RunLevel(k, i, f[i - 1])
    BY <2>1 DEF RunUpto
  <2> HIDE DEF g
  <2>4. ASSUME NEW i \in 0..(n + 1)
        PROVE  g[i] = RunLevel(k, i, g[i - 1])
    <3>1. CASE i = n + 1
      <4>1. i - 1 = n /\ g[i - 1] = f[n]
        BY SMTT(30), <2>2, <3>1
      <4> QED
        BY <2>2, <3>1, <4>1
    <3>2. CASE i = 0
      <4>0. 0 \in 0..n
        BY Between
      <4>1. g[0] = f[0] /\ f[0] = RunLevel(k, 0, f[0 - 1])
        BY <2>2, <2>3, <4>0
      <4>2. RunLevel(k, 0, f[0 - 1]) = RunLevel(k, 0, g[0 - 1])
        BY <1>0
      <4> QED
        BY <3>2, <4>1, <4>2
    <3>3. CASE i # n + 1 /\ i # 0
      <4>1. i \in 0..n /\ i - 1 \in 0..n
        BY <3>3
      <4> QED
        BY <2>2, <2>3, <4>1
    <3> QED
      BY <3>1, <3>2, <3>3
  <2>5. RunUpto(g, k, n + 1)
    BY <2>2, <2>4 DEF RunUpto
  <2> QED
    BY <2>5
<1>3. \A n \in Nat : n \in S
  <2> HIDE DEF S
  <2> QED
    BY <1>1, <1>2, SetInduction
<1> QED
  BY <1>3

LedgersUpto(f, l, txs) ==
    f = [i \in 0..Len(txs) |->
            IF i = 0 THEN l
            ELSE IF Applies(f[i - 1], txs[i]) THEN Apply(f[i - 1], txs[i])
            ELSE f[i - 1]]

LEMMA LedgersAre ==
    ASSUME NEW l, NEW txs, IsSeq(txs)
    PROVE  /\ Ledgers(l, txs)[0] = l
           /\ \A i \in 1..Len(txs) :
                 Ledgers(l, txs)[i] =
                    IF Applies(Ledgers(l, txs)[i - 1], txs[i])
                    THEN Apply(Ledgers(l, txs)[i - 1], txs[i])
                    ELSE Ledgers(l, txs)[i - 1]
<1>0. Len(txs) \in Nat
  BY SeqLen
<1> DEFINE k == [what |-> "ledgers", start |-> l, txs |-> txs, height |-> 0]
           n == Len(txs)
<1>1. PICK f : RunUpto(f, k, n)
  BY <1>0, RunsExist
<1>2. \A i, x : RunLevel(k, i, x) = IF i = 0 THEN l
                                    ELSE IF Applies(x, txs[i]) THEN Apply(x, txs[i])
                                    ELSE x
  BY DEF RunLevel
<1> HIDE DEF k
<1>3. LedgersUpto(f, l, txs)
  BY <1>1, <1>2 DEF RunUpto, LedgersUpto
<1>4. Ledgers(l, txs) = CHOOSE g : LedgersUpto(g, l, txs)
  BY DEF Ledgers, LedgersUpto
<1> DEFINE g == Ledgers(l, txs)
<1>5. LedgersUpto(g, l, txs)
  BY <1>3, <1>4
<1> HIDE DEF g, n
<1>6. \A i \in 0..Len(txs) : g[i] = IF i = 0 THEN l
            ELSE IF Applies(g[i - 1], txs[i]) THEN Apply(g[i - 1], txs[i])
            ELSE g[i - 1]
  BY <1>5 DEF LedgersUpto
<1>7. 0 \in 0..Len(txs) /\ \A i \in 1..Len(txs) : i \in 0..Len(txs) /\ i # 0
  BY <1>0
<1> QED
  BY <1>6, <1>7 DEF g

ForcedUpto(f, l, txs) ==
    f = [i \in 0..Len(txs) |-> IF i = 0 THEN l ELSE Apply(f[i - 1], txs[i])]

LEMMA ForcedIs ==
    ASSUME NEW l, NEW txs, IsSeq(txs)
    PROVE  \E f : /\ f[0] = l /\ f[Len(txs)] = Forced(l, txs)
                  /\ \A i \in 1..Len(txs) : f[i] = Apply(f[i - 1], txs[i])
<1>0. Len(txs) \in Nat
  BY SeqLen
<1> DEFINE k == [what |-> "forced", start |-> l, txs |-> txs, height |-> 0]
           n == Len(txs)
<1>1. PICK f : RunUpto(f, k, n)
  BY <1>0, RunsExist
<1>2. \A i, x : RunLevel(k, i, x) = IF i = 0 THEN l ELSE Apply(x, txs[i])
  BY DEF RunLevel
<1> HIDE DEF k
<1>3. ForcedUpto(f, l, txs)
  BY <1>1, <1>2 DEF RunUpto, ForcedUpto
<1> DEFINE g == CHOOSE g : ForcedUpto(g, l, txs)
<1>4. Forced(l, txs) = g[Len(txs)]
  BY DEF Forced, ForcedUpto
<1>5. ForcedUpto(g, l, txs)
  BY <1>3
<1> HIDE DEF g, n
<1>6. \A i \in 0..Len(txs) : g[i] = IF i = 0 THEN l ELSE Apply(g[i - 1], txs[i])
  BY <1>5 DEF ForcedUpto
<1>7. 0 \in 0..Len(txs) /\ \A i \in 1..Len(txs) : i \in 0..Len(txs) /\ i # 0
  BY <1>0
<1> QED
  BY <1>4, <1>6, <1>7

OwnLevel(txs, h, i, x) ==
    IF i = 0 THEN <<>>
    ELSE IF Own \in Party(txs[i]) THEN Append(x, <<h, i>>)
    ELSE x
OwnUpto(f, txs, h) == f = [i \in 0..Len(txs) |-> OwnLevel(txs, h, i, f[i - 1])]

\* The events of a block are a sequence.
LEMMA OwnEventsType ==
    ASSUME NEW txs, IsSeq(txs), NEW h
    PROVE  IsSeq(OwnEvents(txs, h))
<1>0. Len(txs) \in Nat
  BY SeqLen
<1> DEFINE k == [what |-> "own", start |-> <<>>, txs |-> txs, height |-> h]
           n == Len(txs)
<1>1. PICK f : RunUpto(f, k, n)
  BY <1>0, RunsExist
<1>2. \A i, x : RunLevel(k, i, x) = OwnLevel(txs, h, i, x)
  BY DEF RunLevel, OwnLevel
<1> HIDE DEF k
<1>3. OwnUpto(f, txs, h)
  BY <1>1, <1>2 DEF RunUpto, OwnUpto
<1> DEFINE g == CHOOSE g : OwnUpto(g, txs, h)
<1>4. OwnEvents(txs, h) = g[n]
  BY DEF OwnEvents, OwnUpto, OwnLevel
<1>5. OwnUpto(g, txs, h)
  BY <1>3
<1> HIDE DEF g
<1>6. \A i \in 0..n : g[i] = IF i = 0 THEN <<>>
            ELSE IF Own \in Party(txs[i]) THEN Append(g[i - 1], <<h, i>>)
            ELSE g[i - 1]
  BY <1>5 DEF OwnUpto, OwnLevel
<1> HIDE DEF n
<1> DEFINE S == {i \in Nat : i <= n => IsSeq(g[i])}
<1>7. n \in Nat
  BY <1>0 DEF n
<1>8. 0 \in S
  <2>1. 0 \in 0..n /\ <<>> \in Seq({})
    BY <1>7, Between
  <2>2. g[0] = <<>>
    BY <1>6, <2>1
  <2>3. IsSeq(g[0])
    BY <2>1, <2>2 DEF IsSeq
  <2> QED
    BY <2>3
<1>9. ASSUME NEW i \in Nat, i \in S
      PROVE  i + 1 \in S
  <2>1. CASE i + 1 <= n
    <3>1. i + 1 \in 0..n /\ i + 1 # 0 /\ (i + 1) - 1 = i /\ IsSeq(g[i])
      BY <1>7, <1>9, <2>1
    <3>2. g[i + 1] = Append(g[i], <<h, i + 1>>) \/ g[i + 1] = g[i]
      BY <1>6, <3>1
    <3>3. IsSeq(Append(g[i], <<h, i + 1>>))
      BY <3>1, Appended
    <3>4. IsSeq(g[i + 1])
      BY <3>1, <3>2, <3>3
    <3> QED
      BY <3>4
  <2> QED
    BY <2>1
<1>10. \A i \in Nat : i \in S
  <2> HIDE DEF S
  <2> QED
    BY <1>8, <1>9, SetInduction
<1> QED
  BY <1>4, <1>7, <1>10
-----------------------------------------------------------------------------
(* What is in the mempool and in the blocks, made up ones included.        *)

\* A mint is signed by the owner of its lock, for the owner's destination.
MintFits(t) ==
    /\ t.type = "mint" /\ t.nullifier \in Nullifiers /\ t.amount \in Nat
    /\ t.proof.outpoint \in Outpoints /\ t.proof.claimed \in Nat
    /\ t.proof.sig.of.dest = LockOf[t.proof.outpoint].dest
MintGood(t) == MintFits(t) /\ t.dest \in Addrs /\ t.amount \in Amount

TxFits(t) == t \in Transfers \/ MintFits(t)
TxGood(t) == t \in Transfers \/ MintGood(t)

AllFit(txs) == IsSeq(txs) /\ \A i \in 1..Len(txs) : TxFits(txs[i])
AllGood(txs) == IsSeq(txs) /\ \A i \in 1..Len(txs) : TxGood(txs[i])
BlockFits(b) == AllFit(b.txs) /\ b.ledger \in LedgerType

\* A ledger that was forced may have any balances.
WideLedger ==
    [balance : [Addrs -> Int], nonce : [Addrs -> Nat],
     consumed : SUBSET Nullifiers, minted : Amount]

LEMMA TransferFields ==
    ASSUME NEW t \in Transfers
    PROVE  /\ t.type = "transfer" /\ t.from \in Addrs /\ t.to \in Addrs
           /\ t.amount \in Amount
BY LightAssumption

LEMMA NarrowIsWide == LedgerType \subseteq WideLedger
BY LedgerAssumption DEF LedgerType, WideLedger, Amount

LEMMA SatAddWide ==
    /\ \A a, b \in Int : SatAdd(a, b) \in Int
    /\ \A a \in Amount, b \in Nat : SatAdd(a, b) \in Amount
<1>1. MaxAtoms \in Nat
  BY LedgerAssumption
<1> QED
  BY <1>1 DEF SatAdd, Amount

\* One entry of a function is replaced, if it has that entry.
LEMMA ExceptType ==
    ASSUME NEW D, NEW R, NEW f \in [D -> R], NEW x, NEW v, x \in D => v \in R
    PROVE  [f EXCEPT ![x] = v] \in [D -> R]
<1> DEFINE g == [f EXCEPT ![x] = v]
<1>1. DOMAIN g = D /\ g = [y \in D |-> g[y]]
  OBVIOUS
<1>2. ASSUME NEW y \in D
      PROVE  g[y] \in R
  <2>1. CASE y = x
    BY <2>1
  <2>2. CASE y # x
    BY <2>2
  <2> QED
    BY <2>1, <2>2
<1> HIDE DEF g
<1>3. g \in [D -> R]
  BY <1>1, <1>2
<1> QED
  BY <1>3 DEF g

LEMMA ApplyWide ==
    ASSUME NEW l \in WideLedger, NEW t, TxFits(t)
    PROVE  Apply(l, t) \in WideLedger
<1>1. /\ l.balance \in [Addrs -> Int] /\ l.nonce \in [Addrs -> Nat]
      /\ l.consumed \in SUBSET Nullifiers /\ l.minted \in Amount
  BY DEF WideLedger
<1>2. CASE MintFits(t)
  <2> DEFINE b == [l.balance EXCEPT ![t.dest] = SatAdd(l.balance[t.dest], t.amount)]
  <2>1. t.type = "mint" /\ t.nullifier \in Nullifiers /\ t.amount \in Nat /\ t.amount \in Int
    BY <1>2 DEF MintFits
  <2>2. t.dest \in Addrs => SatAdd(l.balance[t.dest], t.amount) \in Int
    BY <1>1, <2>1, SatAddWide
  <2>3. b \in [Addrs -> Int]
    BY <1>1, <2>2, ExceptType
  <2>4. SatAdd(l.minted, t.amount) \in Amount
    BY <1>1, <2>1, SatAddWide
  <2>5. Apply(l, t) = [l EXCEPT !.consumed = @ \cup {t.nullifier}, !.balance = b,
                                !.minted = SatAdd(@, t.amount)]
    BY <2>1 DEF Apply, AfterMint, WideLedger
  <2>6. l.consumed \cup {t.nullifier} \in SUBSET Nullifiers
    BY <1>1, <2>1
  <2> DEFINE c == l.consumed \cup {t.nullifier}
             m == SatAdd(l.minted, t.amount)
  <2> HIDE DEF b
  <2>7. Apply(l, t) = [balance |-> b, nonce |-> l.nonce, consumed |-> c, minted |-> m]
    BY <2>5 DEF WideLedger
  <2> HIDE DEF c, m
  <2>8. c \in SUBSET Nullifiers /\ m \in Amount
    BY <2>4, <2>6 DEF c, m
  <2> QED
    BY <1>1, <2>3, <2>7, <2>8 DEF WideLedger
<1>3. CASE t \in Transfers
  <2> DEFINE cost == TransferCost(t)
             fee == TransferFee(t.amount)
             d == Debited(l, t)
             c == Credited(l, t)
             f == AfterFee(l, t)
  <2>1. t.type = "transfer" /\ t.from \in Addrs /\ t.to \in Addrs /\ t.amount \in Amount
    BY <1>3, TransferFields
  <2>2. cost \in Int /\ fee \in Int /\ t.amount \in Int
    BY <2>1, TransferCostType, TransferFeeType, LedgerAssumption DEF Amount
  <2>3. d = [l.balance EXCEPT ![t.from] = l.balance[t.from] - cost]
    BY DEF Debited
  <2>4. c = [d EXCEPT ![t.to] = SatAdd(d[t.to], t.amount)]
    BY DEF Credited
  <2>5. f = IF FeeAddr = NoFeeAddr THEN c ELSE [c EXCEPT ![FeeAddr] = SatAdd(c[FeeAddr], fee)]
    BY DEF AfterFee
  <2>6. Apply(l, t) = [l EXCEPT !.balance = f, !.nonce = [l.nonce EXCEPT ![t.from] = @ + 1]]
    BY <1>1, <2>1 DEF Apply, AfterTransfer, WideLedger
  <2> HIDE DEF cost, fee, d, c, f
  <2>7. d \in [Addrs -> Int]
    BY <1>1, <2>1, <2>2, <2>3
  <2>8. SatAdd(d[t.to], t.amount) \in Int
    BY <2>1, <2>2, <2>7, SatAddWide
  <2>9. c \in [Addrs -> Int]
    BY <2>1, <2>4, <2>7, <2>8
  <2>10. FeeAddr \in Addrs => SatAdd(c[FeeAddr], fee) \in Int
    BY <2>2, <2>9, SatAddWide
  <2>11. f \in [Addrs -> Int]
    BY <2>5, <2>9, <2>10, ExceptType
  <2>12. [l.nonce EXCEPT ![t.from] = @ + 1] \in [Addrs -> Nat]
    BY <1>1, <2>1
  <2> QED
    BY <1>1, <2>6, <2>11, <2>12 DEF WideLedger
<1> QED
  BY <1>2, <1>3 DEF TxFits

LEMMA ApplyNarrow ==
    ASSUME NEW l \in LedgerType, NEW t, TxGood(t), Applies(l, t)
    PROVE  Apply(l, t) \in LedgerType
<1>1. CASE MintGood(t)
  BY <1>1, AfterMintType DEF MintGood, MintFits, Apply
<1>2. CASE t \in Transfers
  <2>1. t.type = "transfer" /\ t.from \in Addrs /\ t.to \in Addrs /\ t.amount \in Amount
    BY <1>2, TransferFields
  <2>2. TransferApplies(l, t)
    BY <2>1 DEF Applies
  <2> QED
    BY <2>1, <2>2, AfterTransferType DEF Apply
<1> QED
  BY <1>1, <1>2 DEF TxGood

\* Transactions in a row keep the ledger one.
LEMMA RunWide ==
    ASSUME NEW l \in WideLedger, NEW txs, AllFit(txs)
    PROVE  Replay(l, txs) \in WideLedger /\ Forced(l, txs) \in WideLedger
<1>0. IsSeq(txs) /\ Len(txs) \in Nat
  BY SeqLen DEF AllFit
<1> DEFINE n == Len(txs)
           g == Ledgers(l, txs)
<1>1. /\ g[0] = l
      /\ \A i \in 1..n : g[i] = IF Applies(g[i - 1], txs[i]) THEN Apply(g[i - 1], txs[i])
                                ELSE g[i - 1]
  BY <1>0, LedgersAre
<1>2. PICK f : /\ f[0] = l /\ f[n] = Forced(l, txs)
               /\ \A i \in 1..n : f[i] = Apply(f[i - 1], txs[i])
  BY <1>0, ForcedIs
<1>3. Replay(l, txs) = g[n]
  BY DEF Replay
<1> HIDE DEF g
<1> DEFINE S == {i \in Nat : i <= n => g[i] \in WideLedger /\ f[i] \in WideLedger}
<1>4. 0 \in S
  BY <1>1, <1>2
<1>5. ASSUME NEW i \in Nat, i \in S
      PROVE  i + 1 \in S
  <2>1. CASE i + 1 <= n
    <3>1. i + 1 \in 1..n /\ (i + 1) - 1 = i /\ g[i] \in WideLedger /\ f[i] \in WideLedger
      BY <1>0, <1>5, <2>1
    <3>2. TxFits(txs[i + 1])
      BY <3>1 DEF AllFit
    <3>3. Apply(g[i], txs[i + 1]) \in WideLedger /\ Apply(f[i], txs[i + 1]) \in WideLedger
      BY <3>1, <3>2, ApplyWide
    <3>4. g[i + 1] = Apply(g[i], txs[i + 1]) \/ g[i + 1] = g[i]
      BY <1>1, <3>1
    <3>5. f[i + 1] = Apply(f[i], txs[i + 1])
      BY <1>2, <3>1
    <3> QED
      BY <3>1, <3>3, <3>4, <3>5
  <2> QED
    BY <2>1
<1>6. \A i \in Nat : i \in S
  <2> HIDE DEF S
  <2> QED
    BY <1>4, <1>5, SetInduction
<1> QED
  BY <1>0, <1>2, <1>3, <1>6

LEMMA RunNarrow ==
    ASSUME NEW l \in LedgerType, NEW txs, AllGood(txs), AllApply(l, txs)
    PROVE  /\ \A i \in 0..Len(txs) : Ledgers(l, txs)[i] \in LedgerType
           /\ Replay(l, txs) \in LedgerType
<1>0. IsSeq(txs) /\ Len(txs) \in Nat
  BY SeqLen DEF AllGood
<1> DEFINE n == Len(txs)
           g == Ledgers(l, txs)
<1>1. /\ g[0] = l
      /\ \A i \in 1..n : g[i] = IF Applies(g[i - 1], txs[i]) THEN Apply(g[i - 1], txs[i])
                                ELSE g[i - 1]
  BY <1>0, LedgersAre
<1>2. \A i \in 1..n : Applies(g[i - 1], txs[i])
  BY DEF AllApply
<1>3. Replay(l, txs) = g[n]
  BY DEF Replay
<1> HIDE DEF g
<1> DEFINE S == {i \in Nat : i <= n => g[i] \in LedgerType}
<1>4. 0 \in S
  BY <1>1
<1>5. ASSUME NEW i \in Nat, i \in S
      PROVE  i + 1 \in S
  <2>1. CASE i + 1 <= n
    <3>1. i + 1 \in 1..n /\ (i + 1) - 1 = i /\ g[i] \in LedgerType
      BY <1>0, <1>5, <2>1
    <3>2. TxGood(txs[i + 1])
      BY <3>1 DEF AllGood
    <3>3. Applies(g[i], txs[i + 1])
      BY <1>2, <3>1
    <3>4. g[i + 1] = Apply(g[i], txs[i + 1])
      BY <1>1, <3>1, <3>3
    <3> QED
      BY <3>1, <3>2, <3>3, <3>4, ApplyNarrow
  <2> QED
    BY <2>1
<1>6. \A i \in Nat : i \in S
  <2> HIDE DEF S
  <2> QED
    BY <1>4, <1>5, SetInduction
<1>7. \A i \in 0..n : i \in Nat /\ i <= n
  BY <1>0
<1> QED
  BY <1>0, <1>3, <1>6, <1>7 DEF g
-----------------------------------------------------------------------------
(* The contents of blocks.                                                 *)

Contents(c) == \A h \in 1..Len(c) : BlockFits(c[h])

SInv ==
    /\ l1Tip \in Nat /\ confirmed \in [Outpoints -> 0..l1Tip]
    /\ \A e \in pending : MintGood(e)
    /\ Contents(chain)

LEMMA GoodFits ==
    ASSUME NEW t, TxGood(t)
    PROVE  TxFits(t)
BY DEF TxGood, TxFits, MintGood

LEMMA ContentsGrow ==
    ASSUME IsSeq(chain), Contents(chain), NEW b, BlockFits(b)
    PROVE  Contents(Append(chain, b))
<1> DEFINE d == Append(chain, b)
           n == Len(chain)
<1>1. /\ n \in Nat /\ Len(d) = n + 1 /\ \A i \in 1..n : d[i] = chain[i]
      /\ d[n + 1] = b
  BY Appended
<1> HIDE DEF d
<1>2. \A i \in 1..(n + 1) : i \in 1..n \/ i = n + 1
  BY <1>1
<1>3. \A i \in 1..n : BlockFits(chain[i])
  BY DEF Contents
<1> HIDE DEF n
<1>4. \A i \in 1..Len(d) : BlockFits(d[i])
  BY <1>1, <1>2, <1>3
<1> QED
  BY <1>4 DEF Contents, d

LEMMA LedgerAtType ==
    ASSUME IsSeq(chain), Contents(chain), NEW h \in 0..Len(chain)
    PROVE  LedgerAt(h) \in LedgerType
<1>1. h # 0 => h \in 1..Len(chain)
  BY SeqLen
<1> QED
  BY <1>1, EmptyLedgerType DEF Contents, BlockFits, LedgerAt

LEMMA TearsAre ==
    ASSUME NEW tears \in Tears
    PROVE  Cardinality(tears) \in {0, 1}
BY FS_EmptySet, FS_Singleton DEF Tears

\* What the owner of a lock submits.
LEMMA ProofIs ==
    ASSUME NEW o \in Outpoints, NEW claimed, NEW view,
           NEW e, e = MintEntry(Credit(ProofOf(o, claimed), view, LockOf[o].dest),
                                ProofOf(o, claimed))
    PROVE  /\ e.type = "mint" /\ e.nullifier = o /\ e.dest = LockOf[o].dest
           /\ e.amount = MintFn(view.outputs[o].value, LockOf[o].lock)
           /\ e.proof.outpoint = o /\ e.proof.sig.of.dest = LockOf[o].dest
           /\ e.proof.claimed = claimed
BY DEF MintEntry, Credit, ProofOf, Signature, Sighash

LEMMA SubmitMintFits ==
    ASSUME SInv, NEW o \in Outpoints, NEW claimed \in Nat, NEW tears,
           SubmitMint(o, claimed, tears)
    PROVE  \A e \in pending' : MintGood(e)
<1> DEFINE view == SequencerView(tears)
           p == ProofOf(o, claimed)
           e == MintEntry(Credit(p, view, LockOf[o].dest), p)
<1>1. pending' = pending \cup {e} /\ Authorises(p, view, LockOf[o].dest)
  BY DEF SubmitMint
<1>2. /\ e.type = "mint" /\ e.nullifier = o /\ e.dest = LockOf[o].dest
      /\ e.amount = MintFn(view.outputs[o].value, LockOf[o].lock)
      /\ e.proof.outpoint = o /\ e.proof.sig.of.dest = LockOf[o].dest
      /\ e.proof.claimed = claimed
  <2> HIDE DEF view
  <2> QED
    BY ProofIs DEF p, e
<1>3. o \in Locked \ spent
  BY <1>1 DEF Authorises, ProofOf, SequencerView
<1>4. view.outputs[o].value = LockOf[o].value
  BY <1>3 DEF SequencerView, OutputOf
<1>5. /\ LockOf[o].dest \in Addrs /\ MintFn(LockOf[o].value, LockOf[o].lock) \in Amount
      /\ o \in Nullifiers
  BY LightAssumption
<1>6. \A m \in Amount : m \in Nat
  BY LedgerAssumption DEF Amount
<1> HIDE DEF e, view, p
<1>7. MintGood(e)
  BY <1>2, <1>4, <1>5, <1>6 DEF MintGood, MintFits
<1> QED
  BY <1>1, <1>7 DEF SInv

\* What a lying sequencer makes of it.
LEMMA FalseMintsFit ==
    ASSUME SInv, NEW t \in FalseMints
    PROVE  MintFits(t)
<1> DEFINE P(o) == ProofOf(o, confirmed[o])
           T(o) == Credit(P(o), ViewAt(l1Tip), LockOf[o].dest)
           Late(o) == [P(o) EXCEPT !.claimed = l1Tip + 1,
                    !.sig = Signature(LockOf[o].pk,
                                Sighash(o, l1Tip + 1, LockOf[o].dest))]
<1>1. PICK o \in BadMints \cap Locked :
         \/ t = MintEntry([T(o) EXCEPT !.amount = @ + 1], P(o))
         \/ t = MintEntry([T(o) EXCEPT !.dest = FeeAddr], P(o))
         \/ t = MintEntry(T(o), Late(o))
  BY DEF FalseMints
<1>2. o \in Outpoints /\ o \in Locked /\ o \in Nullifiers
  BY <1>1, LightAssumption DEF Locked
<1>3. T(o) = [nullifier |-> o, amount |-> MintFn(LockOf[o].value, LockOf[o].lock),
              dest |-> LockOf[o].dest, create |-> confirmed[o],
              lock |-> LockOf[o].lock, value |-> LockOf[o].value]
  BY <1>2 DEF Credit, ProofOf, ViewAt, OutputOf
<1>4. /\ P(o).outpoint = o /\ P(o).sig.of.dest = LockOf[o].dest
      /\ Late(o).outpoint = o /\ Late(o).sig.of.dest = LockOf[o].dest
      /\ P(o).claimed = confirmed[o] /\ Late(o).claimed = l1Tip + 1
  BY DEF ProofOf, Signature, Sighash
<1>5. MintFn(LockOf[o].value, LockOf[o].lock) \in Nat
  BY <1>2, LightAssumption, LedgerAssumption DEF Amount
<1>7. confirmed[o] \in Nat /\ l1Tip + 1 \in Nat
  BY <1>2 DEF SInv
<1> HIDE DEF P, Late
<1>6. /\ t.type = "mint" /\ t.nullifier = o
      /\ t.amount \in Nat /\ (t.proof = P(o) \/ t.proof = Late(o))
  BY <1>1, <1>3, <1>5 DEF MintEntry
<1> QED
  BY <1>2, <1>4, <1>6, <1>7 DEF MintFits

LEMMA FalseLedgersType ==
    ASSUME NEW l \in LedgerType, NEW txs, AllFit(txs), NEW m \in FalseLedgers(l, txs)
    PROVE  m \in LedgerType
<1> DEFINE r == Replay(l, txs)
           f == Forced(l, txs)
<1>1. r \in WideLedger /\ f \in WideLedger /\ l \in WideLedger
  BY RunWide, NarrowIsWide
<1>2. /\ \/ m = f \/ m = r
         \/ m = [r EXCEPT !.balance[FeeAddr] = l.balance[FeeAddr]]
         \/ m = [r EXCEPT !.balance[FeeAddr] = @ + 1]
         \/ m = [r EXCEPT !.consumed = l.consumed]
      /\ \A a \in Addrs : m.balance[a] \in Amount
  BY DEF FalseLedgers
<1> HIDE DEF r, f
<1>3. ASSUME NEW b \in [Addrs -> Int], NEW c \in SUBSET Nullifiers,
             m = [r EXCEPT !.balance = b] \/ m = [r EXCEPT !.consumed = c]
      PROVE  m \in WideLedger
  BY <1>1, <1>3 DEF WideLedger
<1>4. /\ r.balance \in [Addrs -> Int] /\ l.balance \in [Addrs -> Int]
      /\ l.consumed \in SUBSET Nullifiers
  BY <1>1 DEF WideLedger
<1> DEFINE b1 == [r.balance EXCEPT ![FeeAddr] = l.balance[FeeAddr]]
           b2 == [r.balance EXCEPT ![FeeAddr] = r.balance[FeeAddr] + 1]
<1>5. FeeAddr \in Addrs => l.balance[FeeAddr] \in Int /\ r.balance[FeeAddr] + 1 \in Int
  BY <1>4
<1>6. b1 \in [Addrs -> Int] /\ b2 \in [Addrs -> Int]
  BY <1>4, <1>5, ExceptType
<1>7. \/ m = f \/ m = r \/ m = [r EXCEPT !.balance = b1]
      \/ m = [r EXCEPT !.balance = b2] \/ m = [r EXCEPT !.consumed = l.consumed]
  BY <1>2
<1> HIDE DEF b1, b2
<1>8. m \in WideLedger
  BY <1>1, <1>3, <1>4, <1>6, <1>7
<1> QED
  BY <1>2, <1>8 DEF WideLedger, LedgerType

LEMMA RowIsSeq ==
    ASSUME NEW S, NEW n \in Nat, NEW s \in [1..n -> S]
    PROVE  IsSeq(s) /\ Len(s) = n /\ \A i \in 1..n : s[i] \in S
<1>1. s \in Seq(S) /\ Len(s) = n
  OBVIOUS
<1> QED
  BY <1>1 DEF IsSeq

LEMMA OneIsSeq ==
    ASSUME NEW t
    PROVE  /\ IsSeq(<<t>>) /\ Len(<<t>>) = 1 /\ <<t>>[1] = t
           /\ IsSeq(<<t, t>>) /\ Len(<<t, t>>) = 2
           /\ <<t, t>>[1] = t /\ <<t, t>>[2] = t
           /\ IsSeq(<<>>) /\ Len(<<>>) = 0
<1>1. <<t>> \in Seq({t}) /\ <<t, t>> \in Seq({t}) /\ <<>> \in Seq({t})
  OBVIOUS
<1> QED
  BY <1>1 DEF IsSeq

LEMMA ProduceBlockFits ==
    ASSUME IsSeq(chain), SInv, NEW tears, ProduceBlock(tears)
    PROVE  Contents(chain') /\ \A e \in pending' : MintGood(e)
<1> DEFINE good == Reverified(SequencerView(tears))
           before == LedgerAt(Len(chain))
<1>1. PICK txs \in TxSeqs(good \cup Transfers) :
         /\ AllApply(before, txs)
         /\ chain' = Append(chain, [txs |-> txs, ledger |-> Replay(before, txs)])
         /\ pending' = good \ Mints(txs)
  BY DEF ProduceBlock
<1>2. good \subseteq pending
  BY DEF Reverified
<1>3. before \in LedgerType
  <2>1. Len(chain) \in Nat /\ Len(chain) \in 0..Len(chain)
    BY SeqLen
  <2> QED
    BY <2>1, LedgerAtType DEF SInv
<1> HIDE DEF good, before
<1>4. AllGood(txs)
  <2>1. PICK n \in 1..MaxTxs : txs \in [1..n -> good \cup Transfers]
    BY <1>1 DEF TxSeqs
  <2>2. n \in Nat
    BY LightAssumption
  <2>3. IsSeq(txs) /\ Len(txs) = n /\ \A i \in 1..n : txs[i] \in good \cup Transfers
    BY <2>1, <2>2, RowIsSeq
  <2> QED
    BY <1>2, <2>3 DEF AllGood, TxGood, SInv
<1>5. AllFit(txs) /\ Replay(before, txs) \in LedgerType
  BY <1>1, <1>3, <1>4, RunNarrow, GoodFits DEF AllFit, AllGood
<1> DEFINE b == [txs |-> txs, ledger |-> Replay(before, txs)]
<1>6. BlockFits(b)
  BY <1>5 DEF BlockFits
<1> HIDE DEF b
<1>7. Contents(Append(chain, b))
  BY <1>6, ContentsGrow DEF SInv
<1> QED
  BY <1>1, <1>2, <1>7 DEF SInv, b

LEMMA ProduceAnyBlockFits ==
    ASSUME IsSeq(chain), SInv, ProduceAnyBlock
    PROVE  Contents(chain')
<1> DEFINE before == LedgerAt(Len(chain))
           txSet == pending \cup Transfers \cup FalseMints
<1>1. PICK txs \in {<<>>} \cup {<<t>> : t \in txSet} \cup {<<t, t>> : t \in txSet} :
         \E forged \in FalseLedgers(before, txs) :
            chain' = Append(chain, [txs |-> txs, ledger |-> forged])
  BY DEF ProduceAnyBlock
<1>2. PICK forged \in FalseLedgers(before, txs) :
            chain' = Append(chain, [txs |-> txs, ledger |-> forged])
  BY <1>1
<1>3. before \in LedgerType
  <2>1. Len(chain) \in Nat /\ Len(chain) \in 0..Len(chain)
    BY SeqLen
  <2> QED
    BY <2>1, LedgerAtType DEF SInv
<1>4. \A t \in txSet : TxFits(t)
  BY FalseMintsFit DEF TxFits, SInv, MintGood
<1> HIDE DEF before, txSet
<1>5. AllFit(txs)
  <2>1. \/ txs = <<>>
        \/ \E t \in txSet : txs = <<t>>
        \/ \E t \in txSet : txs = <<t, t>>
    BY <1>1
  <2>2. CASE txs = <<>>
    <3>1. <<>> \in Seq({}) /\ Len(<<>>) = 0 /\ 1..0 = {}
      OBVIOUS
    <3> QED
      BY <2>2, <3>1 DEF AllFit, IsSeq
  <2>3. CASE \E t \in txSet : txs = <<t>>
    <3>1. PICK t \in txSet : txs = <<t>>
      BY <2>3
    <3>2. \A i \in 1..1 : i = 1
      OBVIOUS
    <3>3. TxFits(t) /\ IsSeq(txs) /\ Len(txs) = 1 /\ txs[1] = t
      BY <1>4, <3>1, OneIsSeq
    <3> QED
      BY <3>2, <3>3 DEF AllFit
  <2>4. CASE \E t \in txSet : txs = <<t, t>>
    <3>1. PICK t \in txSet : txs = <<t, t>>
      BY <2>4
    <3>2. \A i \in 1..2 : i = 1 \/ i = 2
      OBVIOUS
    <3>3. TxFits(t) /\ IsSeq(txs) /\ Len(txs) = 2 /\ txs[1] = t /\ txs[2] = t
      BY <1>4, <3>1, OneIsSeq
    <3> QED
      BY <3>2, <3>3 DEF AllFit
  <2> QED
    BY <2>1, <2>2, <2>3, <2>4
<1> DEFINE b == [txs |-> txs, ledger |-> forged]
<1>6. BlockFits(b)
  BY <1>3, <1>5, FalseLedgersType DEF BlockFits
<1> HIDE DEF b
<1> QED
  BY <1>2, <1>6, ContentsGrow DEF SInv, b

\* L1 grows, and outputs are mined at the heights it reaches.
HeightsAre(tip, c) == tip \in Nat /\ c \in [Outpoints -> 0..tip]

LEMMA HeightsGrow ==
    ASSUME NEW tip, NEW c, HeightsAre(tip, c), NEW k \in Nat
    PROVE  /\ HeightsAre(tip + k, c) /\ tip <= tip + k
           /\ \A o \in Outpoints : HeightsAre(tip + 1, [c EXCEPT ![o] = tip + 1])
<1>1. /\ tip \in Nat /\ tip + k \in Nat /\ tip <= tip + k /\ tip + 1 \in Nat
      /\ 0..tip \subseteq 0..(tip + k) /\ 0..tip \subseteq 0..(tip + 1)
      /\ tip + 1 \in 0..(tip + 1)
  BY DEF HeightsAre
<1>2. c \in [Outpoints -> 0..(tip + k)] /\ c \in [Outpoints -> 0..(tip + 1)]
  BY <1>1 DEF HeightsAre
<1>3. \A o \in Outpoints : [c EXCEPT ![o] = tip + 1] \in [Outpoints -> 0..(tip + 1)]
  BY <1>1, <1>2
<1> QED
  BY <1>1, <1>2, <1>3 DEF HeightsAre

LEMMA L1Grows ==
    ASSUME SInv, World
    PROVE  HeightsAre(l1Tip', confirmed') /\ l1Tip <= l1Tip'
<1>0. HeightsAre(l1Tip, confirmed) /\ l1Tip \in Nat
  BY DEF SInv, HeightsAre
<1>1. \/ \E k \in Nat : l1Tip' = l1Tip + k /\ confirmed' = confirmed
      \/ \E o \in Outpoints : l1Tip' = l1Tip + 1
                             /\ confirmed' = [confirmed EXCEPT ![o] = l1Tip + 1]
  <2>1. CASE NewL1Block
    BY <2>1 DEF NewL1Block
  <2>2. CASE \E o \in Outpoints : ConfirmLock(o)
    BY <2>2 DEF ConfirmLock
  <2>7. CASE \E o \in Outpoints : ReclaimLock(o)
    BY <2>7 DEF ReclaimLock
  <2>3. CASE \E o \in Outpoints : MoveLock(o)
    BY <2>3 DEF MoveLock
  <2>4. CASE \E o \in Outpoints, claimed \in {l1Tip}, tears \in Tears :
                SubmitMint(o, claimed, tears)
    <3>1. PICK tears \in Tears : Reads(tears) /\ confirmed' = confirmed
      BY <2>4 DEF SubmitMint
    <3>2. Cardinality(tears) \in Nat /\ l1Tip' = l1Tip + Cardinality(tears)
      BY <3>1, TearsAre DEF Reads
    <3> QED
      BY <3>1, <3>2
  <2>5. CASE \E tears \in Tears : ProduceBlock(tears)
    <3>1. PICK tears \in Tears : Reads(tears) /\ confirmed' = confirmed
      BY <2>5 DEF ProduceBlock
    <3>2. Cardinality(tears) \in Nat /\ l1Tip' = l1Tip + Cardinality(tears)
      BY <3>1, TearsAre DEF Reads
    <3> QED
      BY <3>1, <3>2
  <2>6. CASE ProduceAnyBlock \/ \E h \in 1..Len(chain) : Attest(h)
    <3>1. l1Tip' = l1Tip /\ confirmed' = confirmed
      BY <2>6 DEF ProduceAnyBlock, Attest
    <3>2. l1Tip' = l1Tip + 0
      BY <1>0, <3>1
    <3> QED
      BY <3>1, <3>2
  <2> QED
    BY <2>1, <2>2, <2>3, <2>4, <2>5, <2>6, <2>7 DEF World
<1>2. CASE \E k \in Nat : l1Tip' = l1Tip + k /\ confirmed' = confirmed
  BY <1>0, <1>2, HeightsGrow
<1>3. CASE \E o \in Outpoints : l1Tip' = l1Tip + 1
                               /\ confirmed' = [confirmed EXCEPT ![o] = l1Tip + 1]
  <2>1. PICK o \in Outpoints : /\ l1Tip' = l1Tip + 1
                               /\ confirmed' = [confirmed EXCEPT ![o] = l1Tip + 1]
    BY <1>3
  <2>2. HeightsAre(l1Tip + 1, [confirmed EXCEPT ![o] = l1Tip + 1])
    BY <1>0, HeightsGrow
  <2>3. l1Tip <= l1Tip + 1
    BY <1>0
  <2> QED
    BY <2>1, <2>2, <2>3
<1> QED
  BY <1>1, <1>2, <1>3

LEMMA WorldFits ==
    ASSUME IsSeq(chain), SInv, World
    PROVE  SInv'
<1>1. /\ l1Tip' \in Nat /\ confirmed' \in [Outpoints -> 0..l1Tip']
  BY L1Grows DEF HeightsAre
<1>2. (\A e \in pending' : MintGood(e)) /\ Contents(chain')
  <2>1. CASE \/ NewL1Block
             \/ \E o \in Outpoints : ConfirmLock(o) \/ ReclaimLock(o)
             \/ \E o \in Outpoints : MoveLock(o)
             \/ \E h \in 1..Len(chain) : Attest(h)
    <3>1. UNCHANGED <<pending, chain>>
      BY <2>1 DEF NewL1Block, ConfirmLock, ReclaimLock, MoveLock, Attest
    <3> QED
      BY <3>1 DEF SInv
  <2>2. CASE \E o \in Outpoints, claimed \in {l1Tip}, tears \in Tears :
                SubmitMint(o, claimed, tears)
    BY <2>2, SubmitMintFits DEF SubmitMint, SInv
  <2>3. CASE \E tears \in Tears : ProduceBlock(tears)
    BY <2>3, ProduceBlockFits
  <2>4. CASE ProduceAnyBlock
    BY <2>4, ProduceAnyBlockFits DEF ProduceAnyBlock, SInv
  <2> QED
    BY <2>1, <2>2, <2>3, <2>4 DEF World
<1> QED
  BY <1>1, <1>2 DEF SInv

LEMMA NextFits ==
    ASSUME IsSeq(chain), SInv, [Next]_vars
    PROVE  SInv'
<1>1. CASE World
  BY <1>1, WorldFits
<1>2. CASE ~World
  <2>1. UNCHANGED <<l1Tip, confirmed, pending, chain>>
    BY <1>2 DEF Next, NodeStep, NodeAppliesBlock, NodeStoresBlock, NodeRecordsSpend,
           WalletStep, Refresh, WalkStep, WalkDone, GetBalance, GetNullifiers,
           GetTip, SkipKnown, VerifyBlock, WalkForwardDone, ShowOwn, ShowOther,
           Interrupted, vars, worldVars
  <2> QED
    BY <2>1 DEF SInv
<1> QED
  BY <1>1, <1>2

LEMMA InitFits == Init => SInv
<1> SUFFICES ASSUME Init
             PROVE  SInv
  OBVIOUS
<1>1. /\ l1Tip = 1 /\ pending = {} /\ Len(chain) = 0 /\ 1..0 = {}
      /\ confirmed = [o \in Outpoints |-> IF o \in Early THEN 1 ELSE 0]
  BY EmptySeq DEF Init
<1> QED
  BY <1>1 DEF SInv, Contents

LEMMA WorldIsFit == Spec => []SInv
<1>1. TInv => IsSeq(chain)
  BY DEF TInv, Heights
<1>2. SInv /\ TInv /\ [Next]_vars => SInv'
  BY <1>1, NextFits
<1> QED
  BY <1>2, InitFits, WalletTrue, PTL DEF Spec
-----------------------------------------------------------------------------
(* The history: the own transactions of the blocks from one height to the  *)
(* next, as a walk gathers them from the headers it holds.                 *)

LEMMA Joined ==
    ASSUME NEW a, NEW b, NEW c, IsSeq(a), IsSeq(b), IsSeq(c)
    PROVE  /\ IsSeq(a \o b) /\ (a \o b) \o c = a \o (b \o c)
           /\ a \o <<>> = a /\ <<>> \o a = a
<1>1. PICK A, B, C : a \in Seq(A) /\ b \in Seq(B) /\ c \in Seq(C)
  BY DEF IsSeq
<1> DEFINE S == A \cup B \cup C
<1>2. a \in Seq(S) /\ b \in Seq(S) /\ c \in Seq(S)
  BY <1>1, SeqMonotonic
<1> HIDE DEF S
<1>3. a \o b \in Seq(S)
  BY <1>2, ConcatProperties
<1>4. (a \o b) \o c = a \o (b \o c)
  BY <1>2, ConcatAssociative
<1>5. a \o <<>> = a /\ <<>> \o a = a
  BY <1>2, ConcatEmptySeq
<1> QED
  BY <1>3, <1>4, <1>5 DEF IsSeq

EventsAt(hash, i) == OwnEvents(hash[i + 1][2], i)
Gathers(f, hash, from, to) ==
    /\ f[from] = <<>>
    /\ \A i \in from..to : IsSeq(f[i])
    /\ \A i \in (from + 1)..to :
          f[i] = f[i - 1] \o EventsAt(hash, i) /\ IsSeq(EventsAt(hash, i))
Logged(events, hash, from, to) ==
    /\ from \in Nat /\ to \in Nat /\ from <= to
    /\ \E f : Gathers(f, hash, from, to) /\ f[to] = events

\* The headers of two hashes are the same up to a height.
SameTo(hash, other, h) == \A j \in 1..(h + 1) : other[j] = hash[j]

LEMMA LoggedNone ==
    ASSUME NEW hash, NEW from \in Nat
    PROVE  Logged(<<>>, hash, from, from)
<1> DEFINE f == [i \in {from} |-> <<>>]
<1>1. \A i \in from..from : i = from
  OBVIOUS
<1>2. ~ \E i : i \in (from + 1)..from
  OBVIOUS
<1>3. f[from] = <<>> /\ IsSeq(<<>>)
  BY OneIsSeq
<1> HIDE DEF f
<1>4. Gathers(f, hash, from, from)
  BY <1>1, <1>2, <1>3 DEF Gathers
<1> QED
  BY <1>3, <1>4 DEF Logged

LEMMA LoggedSame ==
    ASSUME NEW events, NEW hash, NEW other, NEW from, NEW to,
           Logged(events, hash, from, to), SameTo(hash, other, to)
    PROVE  Logged(events, other, from, to)
<1>1. from \in Nat /\ to \in Nat /\ from <= to
  BY DEF Logged
<1>2. PICK f : Gathers(f, hash, from, to) /\ f[to] = events
  BY DEF Logged
<1>3. \A i \in (from + 1)..to : i + 1 \in 1..(to + 1)
  BY <1>1
<1>4. \A i \in (from + 1)..to : EventsAt(other, i) = EventsAt(hash, i)
  BY <1>3 DEF EventsAt, SameTo
<1>5. Gathers(f, other, from, to)
  BY <1>2, <1>4 DEF Gathers
<1> QED
  BY <1>1, <1>2, <1>5 DEF Logged

LEMMA LoggedMore ==
    ASSUME NEW events, NEW hash, NEW from, NEW to, NEW h, h = to + 1,
           Logged(events, hash, from, to), IsSeq(EventsAt(hash, h))
    PROVE  Logged(events \o EventsAt(hash, h), hash, from, h)
<1>1. from \in Nat /\ to \in Nat /\ from <= to
  BY DEF Logged
<1>2. PICK f : Gathers(f, hash, from, to) /\ f[to] = events
  BY DEF Logged
<1> DEFINE more == events \o EventsAt(hash, h)
           g == [i \in from..h |-> IF i = h THEN more ELSE f[i]]
<1>3. /\ \A i \in from..to : g[i] = f[i]
      /\ g[h] = more
  BY <1>1
<1>4. from \in from..to /\ to \in from..to /\ h \in Nat /\ from <= h
  BY <1>1
<1> HIDE DEF g
<1>5. IsSeq(events) /\ IsSeq(more)
  BY <1>2, <1>4, Joined DEF Gathers
<1>6. \A i \in from..h : i = h \/ i \in from..to
  BY <1>1
<1>7. \A i \in (from + 1)..h :
         \/ i = h /\ i - 1 = to
         \/ i \in (from + 1)..to /\ i - 1 \in from..to /\ i \in from..to
  BY <1>1
<1>8. \A i \in from..h : IsSeq(g[i])
  BY <1>2, <1>3, <1>5, <1>6 DEF Gathers
<1>9. ASSUME NEW i \in (from + 1)..h
      PROVE  g[i] = g[i - 1] \o EventsAt(hash, i) /\ IsSeq(EventsAt(hash, i))
  <2>1. CASE i = h /\ i - 1 = to
    BY <1>2, <1>3, <1>4, <2>1 DEF more
  <2>2. CASE i \in (from + 1)..to /\ i - 1 \in from..to /\ i \in from..to
    <3>1. f[i] = f[i - 1] \o EventsAt(hash, i) /\ IsSeq(EventsAt(hash, i))
      BY <1>2, <2>2 DEF Gathers
    <3> QED
      BY <1>3, <2>2, <3>1
  <2> QED
    BY <1>7, <2>1, <2>2
<1>10. g[from] = <<>>
  BY <1>2, <1>3, <1>4 DEF Gathers
<1>11. Gathers(g, hash, from, h)
  BY <1>8, <1>9, <1>10 DEF Gathers
<1> QED
  BY <1>1, <1>3, <1>4, <1>11 DEF Logged

\* What two walks gathered, one after the other.
LEMMA LoggedJoin ==
    ASSUME NEW a, NEW b, NEW hash, NEW from, NEW mid, NEW to,
           Logged(a, hash, from, mid), Logged(b, hash, mid, to)
    PROVE  Logged(a \o b, hash, from, to)
<1>1. /\ from \in Nat /\ mid \in Nat /\ to \in Nat /\ from <= mid /\ mid <= to
      /\ from <= to
  BY DEF Logged
<1>2. PICK f : Gathers(f, hash, from, mid) /\ f[mid] = a
  BY DEF Logged
<1>3. PICK e : Gathers(e, hash, mid, to) /\ e[to] = b
  BY DEF Logged
<1> DEFINE g == [i \in from..to |-> IF i <= mid THEN f[i] ELSE a \o e[i]]
<1>4. IsSeq(a) /\ e[mid] = <<>> /\ f[from] = <<>>
  BY <1>1, <1>2, <1>3 DEF Gathers
<1>5. /\ \A i \in from..mid : g[i] = f[i]
      /\ \A i \in (mid + 1)..to : g[i] = a \o e[i]
  BY <1>1
<1>6. \A i \in mid..to : g[i] = a \o e[i]
  <2>1. g[mid] = a
    BY <1>1, <1>2, <1>5
  <2>2. g[mid] = a \o e[mid]
    BY <1>4, <2>1, Joined
  <2>3. \A i \in mid..to : i = mid \/ i \in (mid + 1)..to
    BY <1>1
  <2> HIDE DEF g
  <2> QED
    BY <1>5, <2>2, <2>3
<1> HIDE DEF g
<1>7. \A i \in from..to : i \in from..mid \/ i \in mid..to
  BY <1>1
<1>8. \A i \in (from + 1)..to :
         \/ i \in (from + 1)..mid /\ i - 1 \in from..mid /\ i \in from..mid
         \/ i \in (mid + 1)..to /\ i - 1 \in mid..to /\ i \in mid..to
  BY <1>1
<1>9. \A i \in from..to : IsSeq(g[i])
  <2>1. \A i \in from..mid : IsSeq(g[i])
    BY <1>2, <1>5 DEF Gathers
  <2>2. \A i \in mid..to : IsSeq(e[i])
    BY <1>3 DEF Gathers
  <2>3. \A i \in mid..to : IsSeq(a \o e[i])
    BY <1>4, <2>2, Joined
  <2> QED
    BY <1>6, <1>7, <2>1, <2>3
<1>10. ASSUME NEW i \in (from + 1)..to
       PROVE  g[i] = g[i - 1] \o EventsAt(hash, i) /\ IsSeq(EventsAt(hash, i))
  <2>1. CASE i \in (from + 1)..mid /\ i - 1 \in from..mid /\ i \in from..mid
    <3>1. f[i] = f[i - 1] \o EventsAt(hash, i) /\ IsSeq(EventsAt(hash, i))
      BY <1>2, <2>1 DEF Gathers
    <3> QED
      BY <1>5, <2>1, <3>1
  <2>2. CASE i \in (mid + 1)..to /\ i - 1 \in mid..to /\ i \in mid..to
    <3>1. /\ e[i] = e[i - 1] \o EventsAt(hash, i) /\ IsSeq(e[i - 1])
          /\ IsSeq(EventsAt(hash, i))
      BY <1>3, <2>2 DEF Gathers
    <3>2. g[i] = a \o (e[i - 1] \o EventsAt(hash, i)) /\ g[i - 1] = a \o e[i - 1]
      BY <1>6, <2>2, <3>1
    <3>3. (a \o e[i - 1]) \o EventsAt(hash, i) = a \o (e[i - 1] \o EventsAt(hash, i))
      <4> DEFINE u == e[i - 1]
                 v == EventsAt(hash, i)
      <4>1. IsSeq(a) /\ IsSeq(u) /\ IsSeq(v)
        BY <1>4, <3>1
      <4> HIDE DEF u, v
      <4>2. (a \o u) \o v = a \o (u \o v)
        BY <4>1, Joined
      <4> QED
        BY <4>2 DEF u, v
    <3> QED
      BY <3>1, <3>2, <3>3
  <2> QED
    BY <1>8, <2>1, <2>2
<1>11. g[from] = <<>> /\ g[to] = a \o b
  <2>1. from \in from..mid /\ to \in mid..to
    BY <1>1
  <2> QED
    BY <1>3, <1>4, <1>5, <1>6, <2>1
<1>12. Gathers(g, hash, from, to)
  BY <1>9, <1>10, <1>11 DEF Gathers
<1> QED
  BY <1>1, <1>11, <1>12 DEF Logged

SinceUpto(f, h) ==
    f = [i \in booted..h |->
            IF i = booted THEN <<>> ELSE f[i - 1] \o OwnEvents(chain[i].txs, i)]

LEMMA OwnSinceIs ==
    ASSUME NEW events, NEW hash, NEW h, Logged(events, hash, booted, h),
           \A i \in (booted + 1)..h : hash[i + 1][2] = chain[i].txs
    PROVE  OwnSince(h) = events
<1>1. booted \in Nat /\ h \in Nat /\ booted <= h
  BY DEF Logged
<1>2. PICK f : Gathers(f, hash, booted, h) /\ f[h] = events
  BY DEF Logged
<1>3. \A i \in booted..h : i = booted \/ (i \in (booted + 1)..h /\ i - 1 \in booted..h)
  BY <1>1
<1>4. \A i \in (booted + 1)..h : EventsAt(hash, i) = OwnEvents(chain[i].txs, i)
  BY DEF EventsAt
<1>5. ASSUME NEW i \in booted..h
      PROVE  f[i] = IF i = booted THEN <<>>
                    ELSE f[i - 1] \o OwnEvents(chain[i].txs, i)
  <2>1. CASE i = booted
    BY <1>2, <2>1 DEF Gathers
  <2>2. CASE i # booted
    <3>1. i \in (booted + 1)..h
      BY <1>3, <2>2
    <3>2. f[i] = f[i - 1] \o EventsAt(hash, i)
      BY <1>2, <3>1 DEF Gathers
    <3>3. EventsAt(hash, i) = OwnEvents(chain[i].txs, i)
      BY <1>4, <3>1
    <3> QED
      BY <2>2, <3>2, <3>3
  <2> QED
    BY <2>1, <2>2
<1> DEFINE F == [i \in booted..h |-> f[i]]
           G == OwnSince(h)
           g == CHOOSE g : SinceUpto(g, h)
<1>6. \A i \in booted..h : F[i] = f[i]
  OBVIOUS
<1>7. F = [i \in booted..h |-> F[i]]
  OBVIOUS
<1> HIDE DEF F
<1>8. ASSUME NEW i \in booted..h
      PROVE  F[i] = IF i = booted THEN <<>>
                    ELSE F[i - 1] \o OwnEvents(chain[i].txs, i)
  <2>1. CASE i = booted
    BY <1>5, <1>6, <2>1
  <2>2. CASE i # booted
    <3>1. i - 1 \in booted..h
      BY <1>3, <2>2
    <3>2. F[i] = f[i] /\ F[i - 1] = f[i - 1]
      BY <1>6, <3>1
    <3> QED
      BY <1>5, <2>2, <3>2
  <2> QED
    BY <2>1, <2>2
<1>9. SinceUpto(F, h)
  BY <1>7, <1>8 DEF SinceUpto
<1>10. G = g[h]
  BY DEF OwnSince, SinceUpto
<1>11. SinceUpto(g, h)
  BY <1>9
<1> HIDE DEF g, G
<1>12. \A i \in booted..h : g[i] = IF i = booted THEN <<>>
                    ELSE g[i - 1] \o OwnEvents(chain[i].txs, i)
  BY <1>11 DEF SinceUpto
<1> DEFINE S == {n \in Nat : booted + n <= h => g[booted + n] = f[booted + n]}
<1>13. 0 \in S
  <2>1. booted + 0 = booted /\ booted \in booted..h
    BY <1>1
  <2>2. g[booted] = <<>> /\ f[booted] = <<>>
    BY <1>5, <1>12, <2>1
  <2> QED
    BY <2>1, <2>2
<1>14. ASSUME NEW n \in Nat, n \in S
       PROVE  n + 1 \in S
  <2>1. CASE booted + (n + 1) <= h
    <3> DEFINE i == booted + (n + 1)
    <3>1. i \in booted..h /\ i # booted /\ i - 1 = booted + n /\ booted + n <= h
      BY <1>1, <2>1
    <3> HIDE DEF i
    <3>2. g[i - 1] = f[i - 1]
      BY <1>14, <3>1
    <3>3. g[i] = f[i]
      BY <1>5, <1>12, <3>1, <3>2
    <3> QED
      BY <3>3 DEF i
  <2> QED
    BY <2>1
<1>15. \A n \in Nat : n \in S
  <2> HIDE DEF S
  <2> QED
    BY <1>13, <1>14, SetInduction
<1> DEFINE n == h - booted
<1>16. n \in Nat /\ booted + n = h /\ booted + n <= h
  BY <1>1
<1>17. g[h] = f[h]
  <2> HIDE DEF n
  <2>1. n \in S
    BY <1>15, <1>16
  <2> QED
    BY <1>16, <2>1
<1> QED
  BY <1>2, <1>10, <1>17 DEF G

-----------------------------------------------------------------------------
\* Where the events of the walk w begin: at the head hd, or where it booted.
Start(w, hd) == IF hd = NoHead THEN w.boot ELSE hd.l2

HistoryLogged(hist, from, hd) ==
    IF hd = NoHead THEN hist = <<>> /\ from = 0
    ELSE Logged(hist, hd.hash, from, hd.l2)
WalkLogged(w, hd) ==
    w.work # NoHead => Logged(w.events, w.work.hash, Start(w, hd), w.work.l2)

HInv == HistoryLogged(history, booted, head) /\ WalkLogged(walk, head)

LEMMA IdleLogged ==
    ASSUME NEW hd
    PROVE  WalkLogged(IdleWalk, hd)
BY DEF WalkLogged, IdleWalk

LEMMA RefreshLogs ==
    ASSUME IInv, NEW ask, Refresh(ask)
    PROVE  WalkLogged(walk', head)
<1>1. walk'.work = head /\ walk'.events = <<>>
  BY DEF Refresh, IdleWalk
<1>2. head # NoHead => head.l2 \in Nat
  BY DEF IInv, IsHead
<1> QED
  BY <1>1, <1>2, LoggedNone DEF WalkLogged, Start

\* The head a bootstrap begins with, which has verified no block.
LEMMA BootLogs ==
    ASSUME IInv, TInv, GetNullifiers
    PROVE  WalkLogged(walk', head)
<1> DEFINE h == BootPoint.height
           x == BootHead(walk.bal.components.nullifiers)
<1>1. \/ walk' = IdleWalk
      \/ walk' = [IdleWalk EXCEPT !.at = "walk", !.ask = walk.ask,
                      !.anchor = walk.anchor, !.boot = h, !.work = x]
  BY DEF GetNullifiers, TakesNullifiers
<1>2. head = NoHead
  BY DEF GetNullifiers, IInv, IsWalk, NotBehind
<1>3. CASE walk' = [IdleWalk EXCEPT !.at = "walk", !.ask = walk.ask,
                      !.anchor = walk.anchor, !.boot = h, !.work = x]
  <2>1. x.l2 = h
    BY DEF BootHead
  <2>2. h \in Nat
    <3>1. h \in 0..Len(chain) /\ Len(chain) \in Nat
      BY BootPointFacts, SeqLen DEF TInv, Heights
    <3> QED
      BY <3>1
  <2> HIDE DEF x, h
  <2>3. walk'.work = x /\ walk'.boot = h /\ walk'.events = <<>>
    BY <1>3 DEF IdleWalk
  <2> QED
    BY <1>2, <2>1, <2>2, <2>3, LoggedNone DEF WalkLogged, Start
<1> QED
  BY <1>1, <1>3, IdleLogged

\* Steps that change neither the events nor the head they are of.
LEMMA KeepsLog ==
    ASSUME HInv, walk.work # NoHead => walk'.work.hash = walk.work.hash,
           walk.work # NoHead => walk'.work.l2 = walk.work.l2,
           walk.work = NoHead => walk'.work = NoHead,
           walk'.events = walk.events, walk'.boot = walk.boot
    PROVE  WalkLogged(walk', head)
BY DEF HInv, WalkLogged, Start

LEMMA OtherStepsLog ==
    ASSUME IInv, HInv, WalkStep \/ WalkDone \/ GetBalance \/ GetTip \/ SkipKnown
                       \/ WalkForwardDone
    PROVE  WalkLogged(walk', head)
<1>1. DOMAIN walk = WalkFields
  BY DEF IInv, IsWalk
<1>2. CASE WalkStep
  <2>1. walk'.work = walk.work /\ walk'.events = walk.events /\ walk'.boot = walk.boot
    BY <1>1, <1>2 DEF WalkStep, WalkFields
  <2> QED
    BY <2>1, KeepsLog
<1>3. CASE WalkDone \/ WalkForwardDone
  <2>1. walk'.work = walk.work /\ walk'.events = walk.events /\ walk'.boot = walk.boot
    BY <1>1, <1>3 DEF WalkDone, WalkForwardDone, Goto, WalkFields
  <2> QED
    BY <2>1, KeepsLog
<1>4. CASE GetTip
  <2>1. walk'.work = walk.work /\ walk'.events = walk.events /\ walk'.boot = walk.boot
    BY <1>1, <1>4 DEF GetTip, WalkFields
  <2> QED
    BY <2>1, KeepsLog
<1>5. CASE GetBalance
  <2>1. \/ walk' = IdleWalk
        \/ \E bal : walk' = [walk EXCEPT !.at = "nullifiers", !.bal = bal]
    BY <1>5 DEF GetBalance
  <2>2. CASE \E bal : walk' = [walk EXCEPT !.at = "nullifiers", !.bal = bal]
    <3>1. walk'.work = walk.work /\ walk'.events = walk.events /\ walk'.boot = walk.boot
      BY <1>1, <2>2 DEF WalkFields
    <3> QED
      BY <3>1, KeepsLog
  <2> QED
    BY <2>1, <2>2, IdleLogged
<1>6. CASE SkipKnown
  <2>1. IsHead(walk.work) /\ walk.work # NoHead
    BY <1>6 DEF SkipKnown, IInv, IsWalk
  <2>2. /\ walk'.work.hash = walk.work.hash /\ walk'.work.l2 = walk.work.l2
        /\ walk'.events = walk.events /\ walk'.boot = walk.boot
    BY <1>1, <1>6, <2>1 DEF SkipKnown, WalkFields, IsHead, HeadFields
  <2> QED
    BY <2>1, <2>2, KeepsLog
<1> QED
  BY <1>2, <1>3, <1>4, <1>5, <1>6

\* The block after the one that was verified is one of the chain's.
LEMMA NextHeight ==
    ASSUME IInv, TInv, walk.at = "blocks", walk.steps # <<>>,
           Step.att.height > walk.work.l2
    PROVE  walk.work.l2 \in Nat /\ walk.work.l2 + 1 \in 1..Len(chain)
<1>1. IsHead(walk.work) /\ walk.work.l2 \in Nat
  BY DEF IInv, IsWalk, IsHead
<1>2. Len(chain) \in Nat
  BY SeqLen DEF TInv, Heights
<1>3. Reported(Step, chain, atts)
  <2>1. PICK S : walk.steps \in Seq(S)
    BY DEF IInv, IsWalk
  <2>2. 1 \in 1..Len(walk.steps)
    BY <2>1, LenProperties, EmptySeq
  <2> QED
    BY <2>2 DEF TInv, WalkTrue, StepsAre, Step
<1>4. Step.att.height \in 1..Len(chain)
  BY <1>3 DEF Reported, Report, TInv, Heights
<1> QED
  BY <1>1, <1>2, <1>4

\* A block a node may serve for a height.
Served(b, h) == b = BlockAt(h) \/ b \in FalseBlocks(h)

LEMMA ServedTxs ==
    ASSUME SInv, NEW h \in 1..Len(chain), NEW b, Served(b, h)
    PROVE  AllFit(b.txs)
<1>1. AllFit(chain[h].txs)
  BY DEF SInv, Contents, BlockFits
<1>2. CASE b = BlockAt(h)
  BY <1>1, <1>2 DEF BlockAt
<1>3. CASE b \in FalseBlocks(h)
  <2>1. \/ b.txs = <<>>
        \/ \E t \in Transfers : b.txs = <<t>>
    <3> DEFINE before == LedgerAt(h - 1)
               txSets == {<<>>} \cup {<<t>> : t \in {u \in Transfers : Applies(before, u)}}
               block  == BlockAt(h)
    <3>1. \E txs \in txSets :
             \/ b = [header |-> MkHeader(h, block.header.prev, txs, Replay(before, txs)),
                     txs |-> txs]
             \/ b = [block EXCEPT !.txs = txs]
      BY <1>3 DEF FalseBlocks
    <3>2. DOMAIN block = {"header", "txs"}
      BY DEF BlockAt
    <3>3. \E txs \in txSets : b.txs = txs
      <4> HIDE DEF block, txSets, before
      <4> QED
        BY <3>1, <3>2
    <3> QED
      BY <3>3
  <2>2. CASE b.txs = <<>>
    <3>1. <<>> \in Seq({}) /\ Len(<<>>) = 0 /\ 1..0 = {}
      OBVIOUS
    <3> QED
      BY <2>2, <3>1 DEF AllFit, IsSeq
  <2>3. CASE \E t \in Transfers : b.txs = <<t>>
    <3>1. PICK t \in Transfers : b.txs = <<t>>
      BY <2>3
    <3>2. \A i \in 1..1 : i = 1
      OBVIOUS
    <3>3. IsSeq(b.txs) /\ Len(b.txs) = 1 /\ b.txs[1] = t
      BY <3>1, OneIsSeq
    <3> QED
      BY <3>2, <3>3 DEF AllFit, TxFits
  <2> QED
    BY <2>1, <2>2, <2>3
<1> QED
  BY <1>2, <1>3 DEF Served

\* A block that is accepted adds its own transactions, whatever it is.
LEMMA VerifyLogs ==
    ASSUME IInv, TInv, SInv, HInv, VerifyBlock
    PROVE  WalkLogged(walk', head)
<1> DEFINE h == walk.work.l2 + 1
           last == h = Step.att.height
<1>1. /\ walk.at = "blocks" /\ walk.steps # <<>> /\ Step.att.height > walk.work.l2
      /\ \E b, w : Served(b, h) /\ Verifies(b, w)
  BY DEF VerifyBlock, Served
<1>2. PICK b, w : Served(b, h) /\ Verifies(b, w)
  BY <1>1
<1>3. /\ DOMAIN walk = WalkFields /\ IsHead(walk.work) /\ walk.work # NoHead
      /\ Committed(walk.work)
  BY <1>1 DEF IInv, IsWalk, TInv, WalkTrue
<1>4. walk.work.l2 \in Nat /\ h \in 1..Len(chain)
  BY <1>1, NextHeight
<1>5. IsSeq(OwnEvents(b.txs, h))
  BY <1>2, <1>4, ServedTxs, OwnEventsType DEF AllFit
<1>6. CASE walk' = IdleWalk
  BY <1>6, IdleLogged
<1>7. CASE walk' # IdleWalk
  <2> DEFINE new == NewHead(b, w, h)
             x == IF last THEN [new EXCEPT !.anchor = Step.anchor] ELSE new
             e == <<h, b.txs, b.header.root>>
  <2>1. /\ Accepts(b, w, h, last)
        /\ walk' = [walk EXCEPT !.work = x, !.steps = IF last THEN Tail(@) ELSE @,
                                !.events = @ \o OwnEvents(b.txs, h)]
    BY <1>2, <1>7 DEF Verifies, GivesUp
  <2>2. DOMAIN new = HeadFields /\ new.l2 = h /\ new.hash = HashOf(b.header)
    BY DEF NewHead, HeadFields
  <2>3. HashOf(b.header) = Append(walk.work.hash, e)
    BY <2>1, AcceptedHash DEF Accepts
  <2> HIDE DEF new
  <2>4. x.l2 = h /\ x.hash = Append(walk.work.hash, e)
    BY <2>2, <2>3 DEF HeadFields
  <2> HIDE DEF x
  <2>5. /\ walk'.work = x /\ walk'.boot = walk.boot
        /\ walk'.events = walk.events \o OwnEvents(b.txs, h)
    BY <1>3, <2>1 DEF WalkFields
  <2>6. IsSeq(walk.work.hash) /\ Len(walk.work.hash) = h
    BY <1>3 DEF Committed
  <2>7. e[2] = b.txs
    OBVIOUS
  <2> HIDE DEF e
  <2>8. /\ \A j \in 1..h : x.hash[j] = walk.work.hash[j]
        /\ x.hash[h + 1] = e
    BY <2>4, <2>6, Appended
  <2>9. SameTo(walk.work.hash, x.hash, walk.work.l2)
    BY <2>8 DEF SameTo
  <2>10. EventsAt(x.hash, h) = OwnEvents(b.txs, h)
    BY <2>7, <2>8 DEF EventsAt
  <2>11. Logged(walk.events, x.hash, Start(walk, head), walk.work.l2)
    BY <1>3, <2>9, LoggedSame DEF HInv, WalkLogged
  <2>12. Logged(walk.events \o EventsAt(x.hash, h), x.hash, Start(walk, head), h)
    BY <1>5, <2>10, <2>11, LoggedMore
  <2>13. Start(walk', head) = Start(walk, head)
    BY <2>5 DEF Start
  <2> QED
    BY <2>4, <2>5, <2>10, <2>12, <2>13 DEF WalkLogged
<1> QED
  BY <1>6, <1>7

\* Two heights of one chain: the lower hash is a prefix of the higher.
LEMMA EntriesAgree ==
    ASSUME NEW c, NEW h \in Nat, NEW k \in Nat, h <= k
    PROVE  SameTo(Entries(c, h), Entries(c, k), h)
<1>1. \A j \in 1..(h + 1) : j \in 1..(k + 1)
  OBVIOUS
<1>2. /\ \A j \in 1..(h + 1) : Entries(c, h)[j] = Entry(c, j - 1)
      /\ \A j \in 1..(k + 1) : Entries(c, k)[j] = Entry(c, j - 1)
  BY DEF Entries
<1> QED
  BY <1>1, <1>2 DEF SameTo

LEMMA ShowLogs ==
    ASSUME IInv, TInv, HInv, ShowOwn \/ ShowOther
    PROVE  HInv'
<1>1. walk.at = "done"
  BY DEF ShowOwn, ShowOther
<1>2. \/ Save
      \/ walk' = IdleWalk /\ UNCHANGED <<head, history, booted>>
  BY DEF ShowOwn, ShowOther, ShowsOther, GivesUp
<1>3. /\ walk.work # NoHead /\ IsHead(walk.work) /\ Pinned(walk.work, chain, atts)
      /\ Logged(walk.events, walk.work.hash, Start(walk, head), walk.work.l2)
  BY <1>1 DEF IInv, IsWalk, TInv, WalkTrue, MidBlocks, HInv, WalkLogged
<1>4. CASE walk' = IdleWalk /\ UNCHANGED <<head, history, booted>>
  BY <1>4, IdleLogged DEF HInv
<1>5. CASE Save
  <2>1. /\ head' = walk.work /\ history' = history \o walk.events
        /\ booted' = (IF head = NoHead THEN walk.boot ELSE booted) /\ walk' = IdleWalk
    BY <1>5 DEF Save
  <2>2. CASE head = NoHead
    <3>1. history = <<>> /\ Start(walk, head) = walk.boot /\ booted' = walk.boot
      BY <2>1, <2>2 DEF HInv, HistoryLogged, Start
    <3>2. IsSeq(walk.events)
      <4>1. /\ walk.boot \in Nat /\ walk.work.l2 \in Nat /\ walk.boot <= walk.work.l2
            /\ \E f : Gathers(f, walk.work.hash, walk.boot, walk.work.l2)
                      /\ f[walk.work.l2] = walk.events
        BY <1>3, <3>1 DEF Logged
      <4> QED
        BY <4>1 DEF Gathers
    <3>3. history' = walk.events
      BY <2>1, <3>1, <3>2, Joined
    <3>4. Logged(history', head'.hash, booted', head'.l2)
      BY <1>3, <2>1, <3>1, <3>3
    <3> QED
      BY <1>3, <2>1, <3>4, IdleLogged DEF HInv, HistoryLogged
  <2>3. CASE head # NoHead
    <3>1. /\ Logged(history, head.hash, booted, head.l2) /\ Start(walk, head) = head.l2
          /\ booted' = booted
      BY <2>1, <2>3 DEF HInv, HistoryLogged, Start
    <3>2. head.l2 \in Nat /\ walk.work.l2 \in Nat /\ head.l2 <= walk.work.l2
      BY <1>3, <3>1 DEF Logged
    <3>3. /\ head.hash = Entries(chain, head.l2)
          /\ walk.work.hash = Entries(chain, walk.work.l2)
      BY <1>3, <2>3 DEF TInv, Pinned
    <3>4. SameTo(head.hash, walk.work.hash, head.l2)
      BY <3>2, <3>3, EntriesAgree
    <3>5. Logged(history, walk.work.hash, booted, head.l2)
      BY <3>1, <3>4, LoggedSame
    <3>6. Logged(history \o walk.events, walk.work.hash, booted, walk.work.l2)
      BY <1>3, <3>1, <3>5, LoggedJoin
    <3>7. Logged(history', head'.hash, booted', head'.l2)
      BY <2>1, <3>1, <3>6
    <3> QED
      BY <1>3, <2>1, <3>7, IdleLogged DEF HInv, HistoryLogged
  <2> QED
    BY <2>2, <2>3
<1> QED
  BY <1>2, <1>4, <1>5

LEMMA NextLogs ==
    ASSUME IInv, TInv, SInv, HInv, [Next]_vars
    PROVE  HInv'
<1>1. CASE ShowOwn \/ ShowOther
  BY <1>1, ShowLogs
<1>2. CASE World \/ NodeStep \/ UNCHANGED vars
  <2>1. UNCHANGED <<head, history, booted, walk>>
    BY <1>2 DEF World, NodeStep, NewL1Block, ConfirmLock, ReclaimLock, MoveLock, SubmitMint,
         ProduceBlock, ProduceAnyBlock, Attest, NodeAppliesBlock, NodeStoresBlock,
         NodeRecordsSpend, walletVars, vars
  <2> QED
    BY <2>1 DEF HInv
<1>3. CASE \/ \E ask \in Targets : Refresh(ask)
           \/ WalkStep \/ WalkDone \/ GetBalance \/ GetNullifiers \/ GetTip
           \/ SkipKnown \/ VerifyBlock \/ WalkForwardDone
  <2>1. UNCHANGED <<head, history, booted>>
    BY <1>3 DEF Refresh, WalkStep, WalkDone, GetBalance, GetNullifiers, GetTip,
                SkipKnown, VerifyBlock, WalkForwardDone
  <2>2. WalkLogged(walk', head)
    BY <1>3, RefreshLogs, BootLogs, OtherStepsLog, VerifyLogs
  <2> QED
    BY <2>1, <2>2 DEF HInv
<1>4. CASE Interrupted
  <2>1. walk' = IdleWalk /\ UNCHANGED <<head, history, booted>>
    BY <1>4 DEF Interrupted, GivesUp
  <2> QED
    BY <2>1, IdleLogged DEF HInv
<1> QED
  BY <1>1, <1>2, <1>3, <1>4 DEF Next, WalletStep

LEMMA HistoryIsLogged == Spec => []HInv
<1>1. Init => HInv
  BY IdleLogged DEF Init, HInv, HistoryLogged
<1>2. IInv /\ TInv /\ SInv /\ HInv /\ [Next]_vars => HInv'
  BY NextLogs
<1> QED
  BY <1>1, <1>2, WalletTrue, WorldIsFit, PTL DEF Spec

\* The history that is saved holds every own transaction of the blocks from the
\* bootstrap to the head, each once and in order, although the blocks were served
\* by a node that lies, and walks failed half way and began again (walk_forward,
\* light_balance).
THEOREM HistoryIsExact == Spec => []HistoryExact
<1>1. TInv /\ HInv => HistoryExact
  <2> SUFFICES ASSUME TInv, HInv
               PROVE  history = IF head = NoHead THEN <<>> ELSE OwnSince(head.l2)
    BY DEF HistoryExact
  <2>1. CASE head = NoHead
    BY <2>1 DEF HInv, HistoryLogged
  <2>2. CASE head # NoHead
    <3>1. Logged(history, head.hash, booted, head.l2) /\ booted \in Nat /\ head.l2 \in Nat
      BY <2>2 DEF HInv, HistoryLogged, Logged
    <3>2. head.hash = Entries(chain, head.l2)
      BY <2>2 DEF TInv, Pinned
    <3>3. \A i \in (booted + 1)..head.l2 :
             i + 1 \in 1..(head.l2 + 1) /\ (i + 1) - 1 = i /\ i # 0
      BY <3>1
    <3>4. ASSUME NEW i \in (booted + 1)..head.l2
          PROVE  head.hash[i + 1][2] = chain[i].txs
      <4>1. Entry(chain, i)[2] = TxsIn(chain, i)
        BY DEF Entry
      <4>2. head.hash[i + 1] = Entry(chain, i)
        BY <3>2, <3>3 DEF Entries
      <4> QED
        BY <3>3, <4>1, <4>2 DEF TxsIn
    <3>5. OwnSince(head.l2) = history
      BY <3>1, <3>4, OwnSinceIs
    <3> QED
      BY <2>2, <3>5
  <2> QED
    BY <2>1, <2>2
<1> QED
  BY <1>1, WalletTrue, HistoryIsLogged, PTL
-----------------------------------------------------------------------------
(* Types.                                                                  *)

NodeIs(m, c) ==
    /\ DOMAIN m = {"ledger", "head", "spends"}
    /\ m.head \in 0..Len(c) /\ m.ledger \in 0..Len(c)
    /\ m.ledger = m.head \/ m.ledger = m.head + 1
CountersAre == lies \in Nat /\ torn \in Nat /\ moves \in Nat /\ faults \in Nat

LEMMA NodeStays ==
    ASSUME NEW m, NEW c, NEW d, NodeIs(m, c), Prolongs(c, d)
    PROVE  NodeIs(m, d)
<1>1. Len(c) \in Nat /\ Len(d) \in Nat /\ Len(c) <= Len(d)
  BY SeqLen DEF Prolongs
<1> QED
  BY <1>1, Between DEF NodeIs

\* The node's ledger is never more than one block ahead of what it stored, and
\* never past the chain.
LEMMA NodeSteps ==
    ASSUME IInv, TInv, NodeIs(node, chain), NodeStep
    PROVE  NodeIs(node', chain)
<1>1. Len(chain) \in Nat /\ Len(atts) \in Nat /\ node.head \in Nat /\ node.spends \in Nat
  BY SeqLen DEF TInv, Heights, NodeIs, IInv, Attested
<1>2. CASE NodeAppliesBlock
  <2>1. /\ node.spends + 1 \in 1..Len(atts) /\ node.ledger = node.head
        /\ node.head < atts[node.spends + 1]
        /\ node' = [node EXCEPT !.ledger = @ + 1]
    BY <1>1, <1>2 DEF NodeAppliesBlock, Following, NextAttested
  <2>2. atts[node.spends + 1] \in 1..Len(chain)
    BY <2>1 DEF TInv, Heights
  <2>3. node.head + 1 \in 0..Len(chain)
    BY <1>1, <2>1, <2>2
  <2> QED
    BY <2>1, <2>3 DEF NodeIs
<1>3. CASE NodeStoresBlock
  BY <1>3 DEF NodeStoresBlock, NodeIs
<1>4. CASE NodeRecordsSpend
  BY <1>4 DEF NodeRecordsSpend, NodeIs
<1> QED
  BY <1>2, <1>3, <1>4 DEF NodeStep

LEMMA PlacesAre ==
    ASSUME IInv, walk.at \in Places, [Next]_vars
    PROVE  walk'.at \in Places
<1>0. DOMAIN walk = WalkFields /\ IdleWalk.at = "idle" /\ "idle" \in Places
  BY DEF IInv, IsWalk, IdleWalk, Places
<1>1. CASE World \/ NodeStep \/ UNCHANGED vars
  <2>1. UNCHANGED walk
    BY <1>1 DEF World, NodeStep, NewL1Block, ConfirmLock, ReclaimLock, MoveLock, SubmitMint,
         ProduceBlock, ProduceAnyBlock, Attest, NodeAppliesBlock, NodeStoresBlock,
         NodeRecordsSpend, walletVars, vars
  <2> QED
    BY <2>1
<1>2. CASE (\E ask \in Targets : Refresh(ask)) \/ WalkStep
  BY <1>0, <1>2 DEF Refresh, WalkStep, IdleWalk, WalkFields, Places
<1>3. CASE WalkDone \/ GetTip \/ WalkForwardDone
  BY <1>0, <1>3 DEF WalkDone, GetTip, WalkForwardDone, Goto, WalkFields, Places
<1>4. CASE GetBalance
  <2>1. \/ walk' = IdleWalk
        \/ \E bal : walk' = [walk EXCEPT !.at = "nullifiers", !.bal = bal]
    BY <1>4 DEF GetBalance
  <2> QED
    BY <1>0, <2>1 DEF WalkFields, Places
<1>5. CASE GetNullifiers
  <2>1. \/ walk' = IdleWalk
        \/ \E n : walk' = [IdleWalk EXCEPT !.at = "walk", !.ask = walk.ask,
                      !.anchor = walk.anchor, !.boot = BootPoint.height,
                      !.work = BootHead(n)]
    BY <1>5 DEF GetNullifiers, TakesNullifiers
  <2>2. CASE \E n : walk' = [IdleWalk EXCEPT !.at = "walk", !.ask = walk.ask,
                      !.anchor = walk.anchor, !.boot = BootPoint.height,
                      !.work = BootHead(n)]
    <3>1. walk'.at = "walk"
      BY <2>2 DEF IdleWalk
    <3> QED
      BY <3>1 DEF Places
  <2> QED
    BY <1>0, <2>1, <2>2
<1>6. CASE SkipKnown
  BY <1>0, <1>6 DEF SkipKnown, WalkFields, Places
<1>7. CASE VerifyBlock
  <2>1. PICK b, w : Verifies(b, w)
    BY <1>7 DEF VerifyBlock
  <2> DEFINE h == walk.work.l2 + 1
             last == h = Step.att.height
             new == NewHead(b, w, h)
             x == IF last THEN [new EXCEPT !.anchor = Step.anchor] ELSE new
  <2>2. \/ walk' = IdleWalk
        \/ walk' = [walk EXCEPT !.work = x, !.steps = IF last THEN Tail(@) ELSE @,
                                !.events = @ \o OwnEvents(b.txs, h)]
    BY <2>1 DEF Verifies, GivesUp
  <2> HIDE DEF x, last, h
  <2> QED
    BY <1>0, <2>2 DEF WalkFields
<1>8. CASE ShowOwn \/ ShowOther \/ Interrupted
  <2>1. walk' = IdleWalk
    BY <1>8 DEF ShowOwn, ShowOther, ShowsOther, Save, GivesUp, Interrupted
  <2> QED
    BY <1>0, <2>1
<1> QED
  BY <1>1, <1>2, <1>3, <1>4, <1>5, <1>6, <1>7, <1>8 DEF Next, WalletStep

LEMMA CountersStay ==
    ASSUME CountersAre, [Next]_vars
    PROVE  CountersAre' /\ (lies' = 0 => lies = 0)
<1>1. CASE \/ NewL1Block \/ NodeStep \/ WalkStep \/ WalkDone \/ GetTip \/ SkipKnown
           \/ WalkForwardDone \/ ShowOwn \/ UNCHANGED vars
           \/ \E o \in Outpoints : ConfirmLock(o) \/ ReclaimLock(o)
           \/ \E ask \in Targets : Refresh(ask)
  <2>1. UNCHANGED counters
    BY <1>1 DEF NewL1Block, NodeStep, NodeAppliesBlock, NodeStoresBlock,
         NodeRecordsSpend, WalkStep, WalkDone, GetTip, SkipKnown, WalkForwardDone,
         ShowOwn, vars, ConfirmLock, ReclaimLock, Refresh
  <2> QED
    BY <2>1 DEF CountersAre, counters
<1>2. CASE \/ \E o \in Outpoints : MoveLock(o)
           \/ ProduceAnyBlock \/ Interrupted
           \/ \E h \in 1..Len(chain) : Attest(h)
  BY <1>2 DEF MoveLock, ProduceAnyBlock, Interrupted, Attest, Lie, CountersAre
<1>3. CASE \/ \E o \in Outpoints, claimed \in {l1Tip}, tears \in Tears :
                 SubmitMint(o, claimed, tears)
           \/ \E tears \in Tears : ProduceBlock(tears)
  <2>1. PICK tears \in Tears : Reads(tears) /\ UNCHANGED <<lies, moves, faults>>
    BY <1>3 DEF SubmitMint, ProduceBlock
  <2>2. Cardinality(tears) \in Nat /\ torn' = torn + Cardinality(tears)
    BY <2>1, TearsAre DEF Reads
  <2> QED
    BY <2>1, <2>2 DEF CountersAre
<1>4. CASE GetBalance \/ GetNullifiers \/ VerifyBlock \/ ShowOther
  <2>1. UNCHANGED <<torn, moves, faults>> /\ (Lie \/ UNCHANGED lies)
    BY <1>4 DEF GetBalance, GetNullifiers, VerifyBlock, ShowOther, Colludes
  <2> QED
    BY <2>1 DEF Lie, CountersAre
<1> QED
  BY <1>1, <1>2, <1>3, <1>4 DEF Next, World, WalletStep

KInv == NodeIs(node, chain) /\ walk.at \in Places /\ CountersAre

LEMMA NextIsTyped ==
    ASSUME IInv, TInv, KInv, [Next]_vars
    PROVE  KInv'
<1>1. walk'.at \in Places /\ CountersAre'
  BY PlacesAre, CountersStay DEF KInv
<1>2. NodeIs(node', chain')
  <2>1. CASE NodeStep
    <3>1. UNCHANGED chain
      BY <2>1 DEF NodeStep, NodeAppliesBlock, NodeStoresBlock, NodeRecordsSpend,
                  worldVars
    <3> QED
      BY <2>1, <3>1, NodeSteps DEF KInv
  <2>2. CASE World
    <3>1. UNCHANGED node
      BY <2>2 DEF World, NewL1Block, ConfirmLock, ReclaimLock, MoveLock, SubmitMint,
         ProduceBlock, ProduceAnyBlock, Attest
    <3>2. Prolongs(chain, chain')
      BY <2>2, WorldGrows DEF TInv
    <3> QED
      BY <3>1, <3>2, NodeStays DEF KInv
  <2>3. CASE ~World /\ ~NodeStep
    <3>1. UNCHANGED <<node, chain>>
      BY <2>3 DEF Next, WalletStep, Refresh, WalkStep, WalkDone, GetBalance,
           GetNullifiers, GetTip, SkipKnown, VerifyBlock, WalkForwardDone, ShowOwn,
           ShowOther, Interrupted, vars, worldVars
    <3> QED
      BY <3>1 DEF KInv
  <2> QED
    BY <2>1, <2>2, <2>3
<1> QED
  BY <1>1, <1>2 DEF KInv

LEMMA IsTyped == Spec => []KInv
<1>1. Init => KInv
  <2> SUFFICES ASSUME Init
               PROVE  KInv
    OBVIOUS
  <2>1. /\ Len(chain) = 0 /\ 0 \in 0..0
        /\ node = [ledger |-> 0, head |-> 0, spends |-> 0]
        /\ walk = IdleWalk /\ lies = 0 /\ torn = 0 /\ moves = 0 /\ faults = 0
    BY EmptySeq DEF Init
  <2>2. walk.at = "idle"
    BY <2>1 DEF IdleWalk
  <2> QED
    BY <2>1, <2>2 DEF KInv, NodeIs, Places, CountersAre
<1>2. IInv /\ TInv /\ KInv /\ [Next]_vars => KInv'
  BY NextIsTyped
<1> QED
  BY <1>1, <1>2, WalletTrue, PTL DEF Spec

LEMMA SeqInto ==
    ASSUME NEW A, NEW T, NEW s \in Seq(A), \A i \in 1..Len(s) : s[i] \in T
    PROVE  s \in Seq(T)
<1>1. Len(s) \in Nat /\ s = [i \in 1..Len(s) |-> s[i]]
  BY LenProperties
<1>2. s \in [1..Len(s) -> T]
  BY <1>1
<1> QED
  BY <1>1, <1>2

LEMMA SpentAreLocked == Spec => [](spent \subseteq Locked)
<1> DEFINE I == spent \subseteq Locked
<1>1. Init => I
  BY DEF Init
<1>2. SInv /\ I /\ [Next]_vars => I'
  <2> SUFFICES ASSUME SInv, I, [Next]_vars, NEW x \in spent'
               PROVE  x \in Locked'
    OBVIOUS
  <2>1. CASE \E o \in Outpoints : ReclaimLock(o)
    <3>1. PICK o \in Outpoints : ReclaimLock(o)
      BY <2>1
    <3> QED
      BY <3>1 DEF ReclaimLock, Locked
  <2>2. CASE \E o \in Outpoints : ConfirmLock(o) \/ MoveLock(o)
    <3>1. PICK o \in Outpoints : ConfirmLock(o) \/ MoveLock(o)
      BY <2>2
    <3>2. spent' = spent /\ confirmed' = [confirmed EXCEPT ![o] = l1Tip + 1]
      BY <3>1 DEF ConfirmLock, MoveLock
    <3>3. l1Tip + 1 # 0 /\ confirmed \in [Outpoints -> 0..l1Tip]
      BY DEF SInv
    <3>4. x \in Outpoints /\ confirmed[x] # 0
      BY <3>2 DEF Locked
    <3>5. confirmed'[x] # 0
      BY <3>2, <3>3, <3>4
    <3> QED
      BY <3>4, <3>5 DEF Locked
  <2>3. CASE UNCHANGED <<spent, confirmed>>
    BY <2>3 DEF Locked
  <2> QED
    BY <2>1, <2>2, <2>3 DEF Next, World, NodeStep, NewL1Block, SubmitMint, ProduceBlock,
         ProduceAnyBlock, Attest, NodeAppliesBlock, NodeStoresBlock, NodeRecordsSpend,
         WalletStep, Refresh, WalkStep, WalkDone, GetBalance, GetNullifiers, GetTip,
         SkipKnown, VerifyBlock, WalkForwardDone, ShowOwn, ShowOther, Interrupted,
         vars, worldVars
<1> QED
  BY <1>1, <1>2, WorldIsFit, PTL DEF Spec

\* Heights, anchors and ledgers are what they should be, for any number of
\* blocks, attestations, lies and faults; and a wallet never walks forward without
\* a head (light_balance).
THEOREM LightTypes == Spec => []TypeOK
<1>1. IInv /\ TInv /\ SInv /\ HInv /\ KInv /\ spent \subseteq Locked => TypeOK
  <2> SUFFICES ASSUME IInv, TInv, SInv, HInv, KInv, spent \subseteq Locked
               PROVE  TypeOK
    OBVIOUS
  <2>0. Len(chain) \in Nat /\ Len(atts) \in Nat
    BY SeqLen DEF TInv, Heights
  <2>1. \A e \in pending : e.nullifier \in Outpoints
    BY LightAssumption DEF SInv, MintGood, MintFits
  <2>2. \A h \in 1..Len(chain) : chain[h].ledger \in LedgerType
    BY DEF SInv, Contents, BlockFits
  <2>3. atts \in Seq(1..Len(chain))
    BY SeqInto DEF IInv, Attested, TInv, Heights
  <2>4. node.spends \in 0..Len(atts)
    BY <2>0 DEF IInv, Attested
  <2>5. node.head \in 0..Len(chain) /\ node.ledger \in {node.head, node.head + 1}
    BY DEF KInv, NodeIs
  <2>6. /\ walk.at \in Places /\ walk.ask \in Addrs /\ walk.anchor \in 0..Len(atts)
        /\ walk.at \in {"tip", "blocks", "done"} => walk.work # NoHead
    BY DEF KInv, TInv, WalkTrue, StepsAre, IInv, IsWalk
  <2>7. head # NoHead => head.l2 \in 0..Len(chain) /\ head.anchor \in 0..Len(atts)
    BY DEF TInv, Pinned
  <2>8. booted \in 0..Len(chain)
    <3>1. CASE head = NoHead
      BY <2>0, <3>1 DEF HInv, HistoryLogged
    <3>2. CASE head # NoHead
      <4>1. booted \in Nat /\ head.l2 \in Nat /\ booted <= head.l2
        BY <3>2 DEF HInv, HistoryLogged, Logged
      <4> QED
        BY <2>0, <2>7, <3>2, <4>1
    <3> QED
      BY <3>1, <3>2
  <2>9. {lies, torn, moves, faults} \subseteq Nat
    BY DEF KInv, CountersAre
  <2> QED
    BY <2>1, <2>2, <2>3, <2>4, <2>5, <2>6, <2>7, <2>8, <2>9 DEF TypeOK, SInv
<1> QED
  BY <1>1, WalletTrue, WorldIsFit, HistoryIsLogged, IsTyped, SpentAreLocked, PTL
-----------------------------------------------------------------------------
(* Whose leaf the wallet holds.  Every block it accepts proves its own;    *)
(* the balance it bootstraps from need not, unless nobody lies.            *)

OwnLeaf(x, from, k) == x # NoHead /\ (k = 0 \/ x.l2 > from) => Proves(x, Own)

\* The height the walk's head was bootstrapped at.
Since == IF head = NoHead THEN walk.boot ELSE booted

MInv ==
    /\ OwnLeaf(head, booted, lies)
    /\ walk.at = "nullifiers" /\ lies = 0 => walk.bal.proof.address = Own
    /\ OwnLeaf(walk.work, Since, lies)

LEMMA LeafStays ==
    ASSUME NEW x, NEW from, NEW k, NEW j, j = 0 => k = 0, OwnLeaf(x, from, k)
    PROVE  OwnLeaf(x, from, j)
BY DEF OwnLeaf

LEMMA IdleOwn ==
    ASSUME walk' = IdleWalk, OwnLeaf(head', booted', lies')
    PROVE  MInv'
<1>1. IdleWalk.work = NoHead /\ IdleWalk.at = "idle"
  BY DEF IdleWalk
<1>2. OwnLeaf(walk'.work, Since', lies')
  BY <1>1 DEF OwnLeaf
<1> QED
  BY <1>1, <1>2 DEF MInv

\* Steps that leave the head alone, and whose work is the walk's, or proves Own.
LEMMA KeepsOwn ==
    ASSUME MInv, lies' = 0 => lies = 0, UNCHANGED <<head, booted>>,
           \/ walk'.work = walk.work /\ walk'.boot = walk.boot
           \/ Proves(walk'.work, Own),
           walk'.at # "nullifiers"
    PROVE  MInv'
<1>1. OwnLeaf(head, booted, lies')
  BY LeafStays DEF MInv
<1>2. OwnLeaf(walk'.work, Since', lies')
  <2>1. CASE walk'.work = walk.work /\ walk'.boot = walk.boot
    <3>1. Since' = Since
      BY <2>1 DEF Since
    <3>2. OwnLeaf(walk.work, Since, lies')
      BY LeafStays DEF MInv
    <3> QED
      BY <2>1, <3>1, <3>2
  <2>2. CASE Proves(walk'.work, Own)
    BY <2>2 DEF OwnLeaf
  <2> QED
    BY <2>1, <2>2
<1> QED
  BY <1>1, <1>2 DEF MInv

LEMMA RefreshOwn ==
    ASSUME MInv, NEW ask, Refresh(ask)
    PROVE  MInv'
<1>1. /\ walk'.work = head /\ walk'.at = "walk" /\ UNCHANGED <<head, booted, lies>>
  BY DEF Refresh, IdleWalk, counters
<1>2. OwnLeaf(walk'.work, Since', lies')
  BY <1>1 DEF MInv, OwnLeaf, Since
<1> QED
  BY <1>1, <1>2 DEF MInv

\* An honest node proves the account it was asked for.
LEMMA TrueAddress == ASSUME NEW a \in Addrs PROVE TrueBalance(a).proof.address = a
BY MadeProof DEF TrueBalance, BalanceAnswer

LEMMA GetBalanceOwn ==
    ASSUME IInv, MInv, CountersAre, lies' = 0 => lies = 0, GetBalance
    PROVE  MInv'
<1>1. /\ walk.at = "balance" /\ DOMAIN walk = WalkFields /\ walk.work = NoHead
      /\ UNCHANGED <<head, booted>>
  BY DEF GetBalance, IInv, IsWalk
<1>2. OwnLeaf(head', booted', lies')
  BY <1>1, LeafStays DEF MInv
<1>3. CASE walk' = IdleWalk
  BY <1>2, <1>3, IdleOwn
<1>4. CASE walk' # IdleWalk
  <2>1. PICK bal : /\ walk' = [walk EXCEPT !.at = "nullifiers", !.bal = bal]
                   /\ bal = TrueBalance(Own) \/ Lie
    BY <1>4 DEF GetBalance
  <2>2. walk'.work = NoHead /\ walk'.bal = bal
    BY <1>1, <2>1 DEF WalkFields
  <2>3. lies' = 0 => bal = TrueBalance(Own)
    BY <2>1 DEF Lie, CountersAre
  <2>4. lies' = 0 => walk'.bal.proof.address = Own
    BY <2>2, <2>3, TrueAddress, LightAssumption
  <2>5. OwnLeaf(walk'.work, Since', lies')
    BY <2>2 DEF OwnLeaf
  <2> QED
    BY <1>2, <2>4, <2>5 DEF MInv
<1> QED
  BY <1>3, <1>4

\* The work of a bootstrap is at the height that it was bootstrapped at.
LEMMA GetNullifiersOwn ==
    ASSUME IInv, TInv, MInv, lies' = 0 => lies = 0, GetNullifiers
    PROVE  MInv'
<1> DEFINE n == walk.bal.components.nullifiers
           x == BootHead(n)
           h == BootPoint.height
<1>1. /\ walk.at = "nullifiers" /\ UNCHANGED <<head, booted>> /\ head = NoHead
  BY DEF GetNullifiers, IInv, IsWalk, NotBehind
<1>2. OwnLeaf(head', booted', lies')
  BY <1>1, LeafStays DEF MInv
<1>3. \/ walk' = IdleWalk
      \/ walk' = [IdleWalk EXCEPT !.at = "walk", !.ask = walk.ask,
                      !.anchor = walk.anchor, !.boot = h, !.work = x]
  BY DEF GetNullifiers, TakesNullifiers
<1>4. CASE walk' = [IdleWalk EXCEPT !.at = "walk", !.ask = walk.ask,
                        !.anchor = walk.anchor, !.boot = h, !.work = x]
  <2>1. walk'.at = "walk" /\ walk'.work = x /\ walk'.boot = h
    BY <1>4 DEF IdleWalk
  <2>2. x.l2 = h
    BY DEF BootHead
  <2>3. Since' = h
    BY <1>1, <2>1 DEF Since
  <2>4. lies' = 0 => Proves(x, Own)
    BY <1>1, BootProves DEF MInv
  <2>5. h \in Nat
    BY BootPointFacts, SeqLen DEF TInv, Heights
  <2> HIDE DEF x, h
  <2>6. OwnLeaf(x, h, lies')
    BY <2>2, <2>4, <2>5 DEF OwnLeaf
  <2> QED
    BY <1>2, <2>1, <2>3, <2>6 DEF MInv
<1> QED
  BY <1>2, <1>3, <1>4, IdleOwn

LEMMA SkipKnownOwn ==
    ASSUME IInv, MInv, lies' = 0 => lies = 0, SkipKnown
    PROVE  MInv'
<1>1. /\ walk.at = "blocks" /\ UNCHANGED <<head, booted>>
      /\ walk' = [walk EXCEPT !.steps = Tail(@), !.work.anchor = Step.anchor]
  BY DEF SkipKnown
<1>2. DOMAIN walk = WalkFields /\ IsHead(walk.work) /\ walk.work # NoHead
  BY <1>1 DEF IInv, IsWalk
<1> DEFINE x == [walk.work EXCEPT !.anchor = Step.anchor]
<1>3. /\ x.l2 = walk.work.l2 /\ x.accounts = walk.work.accounts
      /\ x.leaf = walk.work.leaf /\ x.path = walk.work.path
  BY <1>2 DEF IsHead, HeadFields
<1>4. walk'.work = x /\ walk'.at = "blocks" /\ walk'.boot = walk.boot
  BY <1>1, <1>2 DEF WalkFields
<1> HIDE DEF x
<1>5. Since' = Since
  BY <1>1, <1>4 DEF Since
<1>6. OwnLeaf(walk.work, Since, lies') /\ OwnLeaf(head, booted, lies')
  BY LeafStays DEF MInv
<1>7. OwnLeaf(x, Since, lies')
  BY <1>2, <1>3, <1>6 DEF OwnLeaf, Proves, ProofUnder
<1> QED
  BY <1>1, <1>4, <1>5, <1>6, <1>7 DEF MInv

LEMMA VerifyOwn ==
    ASSUME IInv, TInv, MInv, lies' = 0 => lies = 0, VerifyBlock
    PROVE  MInv'
<1>1. PICK b, w : Verifies(b, w)
  BY DEF VerifyBlock
<1> DEFINE h == walk.work.l2 + 1
           last == h = Step.att.height
           new == NewHead(b, w, h)
           x == IF last THEN [new EXCEPT !.anchor = Step.anchor] ELSE new
<1>2. walk.at = "blocks" /\ UNCHANGED <<head, booted>>
  BY DEF VerifyBlock
<1>3. DOMAIN walk = WalkFields /\ IsHead(walk.work) /\ walk.work # NoHead
  BY <1>2 DEF IInv, IsWalk
<1>4. CASE walk' = IdleWalk
  <2>1. OwnLeaf(head', booted', lies')
    BY <1>2, LeafStays DEF MInv
  <2> QED
    BY <1>4, <2>1, IdleOwn
<1>5. CASE walk' # IdleWalk
  <2>1. /\ Accepts(b, w, h, last)
        /\ walk' = [walk EXCEPT !.work = x, !.steps = IF last THEN Tail(@) ELSE @,
                                !.events = @ \o OwnEvents(b.txs, h)]
    BY <1>1, <1>5 DEF Verifies, GivesUp
  <2>2. Proves(new, Own)
    BY <1>3, <2>1, AcceptedCommits DEF TInv, WalkTrue
  <2>3. DOMAIN new = HeadFields
    BY DEF NewHead, HeadFields
  <2> HIDE DEF new
  <2>4. x.leaf = new.leaf /\ x.path = new.path /\ x.accounts = new.accounts
    BY <2>3 DEF HeadFields
  <2>5. Proves(x, Own)
    BY <2>2, <2>4 DEF Proves, ProofUnder
  <2> HIDE DEF x
  <2>6. walk'.work = x /\ walk'.at = "blocks"
    BY <1>2, <1>3, <2>1 DEF WalkFields
  <2> QED
    BY <1>2, <2>5, <2>6, KeepsOwn
<1> QED
  BY <1>4, <1>5

LEMMA ShowKeepsOwn ==
    ASSUME MInv, lies' = 0 => lies = 0, ShowOwn \/ ShowOther
    PROVE  MInv'
<1>1. /\ walk' = IdleWalk
      /\ \/ head' = walk.work /\ booted' = Since
         \/ UNCHANGED <<head, booted>>
  BY DEF ShowOwn, ShowOther, ShowsOther, Save, GivesUp, Since
<1>2. OwnLeaf(walk.work, Since, lies') /\ OwnLeaf(head, booted, lies')
  BY LeafStays DEF MInv
<1>3. OwnLeaf(head', booted', lies')
  BY <1>1, <1>2
<1> QED
  BY <1>1, <1>3, IdleOwn

LEMMA NextOwn ==
    ASSUME IInv, TInv, KInv, MInv, [Next]_vars
    PROVE  MInv'
<1>0. CountersAre /\ (lies' = 0 => lies = 0)
  BY CountersStay DEF KInv
<1>1. CASE World \/ NodeStep \/ UNCHANGED vars
  <2>1. UNCHANGED <<head, walk, booted>>
    BY <1>1 DEF World, NodeStep, NewL1Block, ConfirmLock, ReclaimLock, MoveLock,
         SubmitMint, ProduceBlock, ProduceAnyBlock, Attest, NodeAppliesBlock,
         NodeStoresBlock, NodeRecordsSpend, walletVars, vars
  <2>2. Since' = Since
    BY <2>1 DEF Since
  <2>3. OwnLeaf(walk.work, Since, lies') /\ OwnLeaf(head, booted, lies')
    BY <1>0, LeafStays DEF MInv
  <2> QED
    BY <1>0, <2>1, <2>2, <2>3 DEF MInv
<1>2. CASE \E ask \in Targets : Refresh(ask)
  BY <1>2, RefreshOwn
<1>3. CASE WalkStep \/ WalkDone \/ GetTip \/ WalkForwardDone
  <2>1. DOMAIN walk = WalkFields
    BY DEF IInv, IsWalk
  <2>2. /\ walk'.work = walk.work /\ walk'.boot = walk.boot
        /\ walk'.at # "nullifiers" /\ UNCHANGED <<head, booted>>
    BY <1>3, <2>1 DEF WalkStep, WalkDone, GetTip, WalkForwardDone, Goto, WalkFields
  <2> QED
    BY <1>0, <2>2, KeepsOwn
<1>4. CASE Interrupted
  <2>1. walk' = IdleWalk /\ UNCHANGED <<head, booted>>
    BY <1>4 DEF Interrupted, GivesUp
  <2>2. OwnLeaf(head, booted, lies')
    BY <1>0, LeafStays DEF MInv
  <2> QED
    BY <2>1, <2>2, IdleOwn
<1> QED
  BY <1>0, <1>1, <1>2, <1>3, <1>4, GetBalanceOwn, GetNullifiersOwn, SkipKnownOwn,
     VerifyOwn, ShowKeepsOwn DEF Next, WalletStep

LEMMA LeavesAreOwn == Spec => []MInv
<1>1. Init => MInv
  <2> SUFFICES ASSUME Init
               PROVE  MInv
    OBVIOUS
  <2>1. head = NoHead /\ walk.work = NoHead /\ walk.at = "idle"
    BY DEF Init, IdleWalk
  <2> QED
    BY <2>1 DEF MInv, OwnLeaf
<1>2. IInv /\ TInv /\ KInv /\ MInv /\ [Next]_vars => MInv'
  BY NextOwn
<1> QED
  BY <1>1, <1>2, WalletTrue, IsTyped, PTL DEF Spec

\* The root, the nullifiers, the leaf and the path that the wallet carries from
\* block to block are those of the attested ledger, for every tree depth and
\* chain, and whatever blocks, witnesses and balances a sequencer and a node made
\* up; the leaf and the path are the wallet's own ones while nobody lies, and from
\* the first block on that the wallet verified (bootstrap, verify_one_l2_block,
\* apply_updates, refresh_observer).
THEOREM HeadAlwaysCommits == Spec => []HeadCommits
<1>1. TInv /\ MInv => HeadCommits
  <2> SUFFICES ASSUME TInv, MInv, head # NoHead
               PROVE  LET l == LedgerAt(head.l2)
                          LeafAndPathOf(a) == /\ head.leaf = LeafOf(l, a)
                                              /\ head.path = ComputeProof(l, a).siblings
                      IN  /\ head.accounts = ComputeRoot(l) /\ head.consumed = l.consumed
                          /\ \E a \in Addrs : LeafAndPathOf(a)
                          /\ lies = 0 \/ head.l2 > booted => LeafAndPathOf(Own)
    BY DEF HeadCommits
  <2> DEFINE l == LedgerAt(head.l2)
  <2>1. Committed(head) /\ Pinned(head, chain, atts)
    BY DEF TInv
  <2>2. /\ head.accounts = ComputeRoot(l) /\ head.consumed = l.consumed
        /\ \A a \in Addrs : Proves(head, a) =>
              head.leaf = LeafOf(l, a) /\ head.path = ComputeProof(l, a).siblings
    BY <2>1, HeadIsLedgers
  <2>3. \E a \in Addrs : Proves(head, a)
    BY <2>1 DEF Committed
  <2>4. (lies = 0 \/ head.l2 > booted) => Proves(head, Own)
    BY DEF MInv, OwnLeaf
  <2> HIDE DEF l
  <2>5. Own \in Addrs
    BY LightAssumption
  <2> QED
    BY <2>2, <2>3, <2>4, <2>5 DEF l
<1> QED
  BY <1>1, WalletTrue, LeavesAreOwn, PTL
-----------------------------------------------------------------------------
(* What is shown.                                                          *)

Holds(s, c, a) ==
    /\ s.balance = LedgerIn(c, s.l2).balance[a]
    /\ s.nonce = LedgerIn(c, s.l2).nonce[a]
ShownIn(s, c, from, k) ==
    /\ s.l2 \in 0..Len(c)
    /\ \E a \in Addrs : Holds(s, c, a)
    /\ k = 0 \/ (s.addr = Own /\ s.l2 > from) => Holds(s, c, s.addr)

LEMMA LeafHolds ==
    ASSUME NEW l, NEW a
    PROVE  LeafOf(l, a).balance = l.balance[a] /\ LeafOf(l, a).nonce = l.nonce[a]
BY DEF LeafOf, EmptyLeaf, AccountLeaf

LEMMA ShowsTrue ==
    ASSUME IInv, TInv, MInv, CountersAre, lies' = 0 => lies = 0,
           ShownIn(shown, chain, booted, lies), ShowOwn \/ ShowOther
    PROVE  ShownIn(shown', chain, booted', lies')
<1> DEFINE x == walk.work
           l == LedgerAt(x.l2)
<1>1. walk.at = "done" /\ x # NoHead /\ Committed(x) /\ Pinned(x, chain, atts)
  BY DEF ShowOwn, ShowOther, IInv, IsWalk, TInv, WalkTrue, MidBlocks
<1>2. x.l2 \in 0..Len(chain) /\ l = LedgerIn(chain, x.l2)
  BY <1>1, LedgerAtIs DEF Pinned
<1>3. /\ x.accounts = ComputeRoot(l)
      /\ \A a \in Addrs : Proves(x, a) => x.leaf = LeafOf(l, a)
  BY <1>1, HeadIsLedgers
<1>4. /\ \E a \in Addrs : Proves(x, a)
      /\ (lies' = 0 \/ x.l2 > Since) => Proves(x, Own)
  BY <1>1 DEF Committed, MInv, OwnLeaf
<1>5. Own \in Addrs
  BY LightAssumption
<1> HIDE DEF x, l
<1>6. CASE ShowOwn
  <2>1. /\ shown'.addr = Own /\ shown'.balance = x.leaf.balance
        /\ shown'.nonce = x.leaf.nonce /\ shown'.l2 = x.l2 /\ booted' = Since
    BY <1>6 DEF ShowOwn, x, Save, Since
  <2>2. \A a \in Addrs : Proves(x, a) => Holds(shown', chain, a)
    BY <1>2, <1>3, <2>1, LeafHolds DEF Holds
  <2> QED
    BY <1>2, <1>4, <1>5, <2>1, <2>2 DEF ShownIn
<1>7. CASE ShowOther
  <2>1. walk.ask \in Addrs /\ walk.ask # Own
    BY <1>7 DEF TInv, WalkTrue, ShowOther
  <2>2. PICK bal : /\ bal = TrueBalance(walk.ask)
                      \/ (bal \in FalseBalances(walk.ask) /\ Lie)
                   /\ ShowsOther(bal)
    BY <1>7 DEF ShowOther
  <2>3. IsProof(bal.proof)
    BY <2>1, <2>2, AnswersHaveProofs
  <2>4. CASE UNCHANGED <<shown, booted>>
    BY <2>4 DEF ShownIn
  <2>5. CASE ~UNCHANGED <<shown, booted>>
    <3>1. /\ BalanceConsistent(bal, x.accounts)
          /\ shown'.addr = walk.ask /\ shown'.balance = bal.balance
          /\ shown'.nonce = bal.nonce /\ shown'.l2 = x.l2
      BY <2>2, <2>5 DEF ShowsOther, x
    <3> DEFINE a == bal.proof.address
    <3>2. a \in Addrs
      BY <2>3 DEF IsProof
    <3>3. bal.proof.leaf = LeafOf(l, a)
      BY <1>3, <2>3, <3>1, ProofBinds DEF BalanceConsistent
    <3>4. bal.balance = LeafOf(l, a).balance /\ bal.nonce = LeafOf(l, a).nonce
      BY <3>1, <3>3 DEF BalanceConsistent
    <3>5. lies' = 0 => a = walk.ask
      <4>1. lies' = 0 => bal = TrueBalance(walk.ask)
        BY <2>2 DEF Lie, CountersAre
      <4> QED
        BY <2>1, <4>1, TrueAddress
    <3> HIDE DEF a
    <3>6. Holds(shown', chain, a)
      BY <1>2, <3>1, <3>4, LeafHolds DEF Holds
    <3> QED
      BY <1>2, <2>1, <3>1, <3>2, <3>5, <3>6 DEF ShownIn
  <2> QED
    BY <2>4, <2>5
<1> QED
  BY <1>6, <1>7

\* Whatever a node answers, a balance that the wallet shows is one of the attested
\* ledger at the height shown; while nobody lies it is that of the address it is
\* shown for, and the wallet's own balance is its own in any case once the wallet
\* has verified a block (light_balance, fetch_verified_balance).
THEOREM ShownIsAlwaysTrue == Spec => []ShownIsTrue
<1> DEFINE I == ShownIn(shown, chain, booted, lies)
<1>1. Init => I
  <2> SUFFICES ASSUME Init
               PROVE  I
    OBVIOUS
  <2>1. /\ shown.l2 = 0 /\ shown.balance = 0 /\ shown.nonce = 0 /\ shown.addr = Own
        /\ Len(chain) = 0 /\ 0 \in 0..0
    BY EmptySeq DEF Init
  <2>2. Own \in Addrs /\ Holds(shown, chain, Own)
    BY <2>1, LightAssumption DEF Holds, LedgerIn, EmptyLedger
  <2> QED
    BY <2>1, <2>2 DEF ShownIn
<1>2. IInv /\ TInv /\ KInv /\ MInv /\ I /\ [Next]_vars => I'
  <2> SUFFICES ASSUME IInv, TInv, KInv, MInv, I, [Next]_vars
               PROVE  I'
    OBVIOUS
  <2>0. CountersAre /\ (lies' = 0 => lies = 0)
    BY CountersStay DEF KInv
  <2>1. CASE ShowOwn \/ ShowOther
    <3>1. UNCHANGED chain
      BY <2>1 DEF ShowOwn, ShowOther, worldVars
    <3> QED
      BY <2>0, <2>1, <3>1, ShowsTrue
  <2>2. CASE World \/ NodeStep
    <3>1. UNCHANGED <<shown, booted>>
      BY <2>2 DEF World, NodeStep, NewL1Block, ConfirmLock, ReclaimLock, MoveLock,
         SubmitMint, ProduceBlock, ProduceAnyBlock, Attest, NodeAppliesBlock,
         NodeStoresBlock, NodeRecordsSpend, walletVars
    <3>2. Prolongs(chain, chain')
      BY <2>2, WorldGrows DEF TInv
    <3>3. /\ shown.l2 \in 0..Len(chain')
          /\ LedgerIn(chain', shown.l2) = LedgerIn(chain, shown.l2)
      BY <3>2, SameEntries DEF ShownIn
    <3>4. \A a : Holds(shown, chain, a) => Holds(shown, chain', a)
      BY <3>3 DEF Holds
    <3> QED
      BY <2>0, <3>1, <3>3, <3>4 DEF ShownIn
  <2>3. CASE UNCHANGED <<shown, chain, booted>>
    BY <2>0, <2>3 DEF ShownIn
  <2>4. \/ World \/ NodeStep \/ ShowOwn \/ ShowOther
        \/ UNCHANGED <<shown, chain, booted>>
    BY DEF Next, WalletStep, Refresh, WalkStep, WalkDone, GetBalance, GetNullifiers,
           GetTip, SkipKnown, VerifyBlock, WalkForwardDone, Interrupted, vars,
           worldVars, walletVars
  <2> QED
    BY <2>1, <2>2, <2>3, <2>4
<1>3. I => ShownIsTrue
  BY LedgerAtIs DEF ShownIn, Holds, ShownIsTrue
<1> HIDE DEF I
<1> QED
  BY <1>1, <1>2, <1>3, WalletTrue, IsTyped, LeavesAreOwn, PTL DEF Spec
-----------------------------------------------------------------------------
(* Ledgers that agree on the accounts that transactions touch.             *)

SameOn(f, g, A) == \A a \in A : f[a] = g[a]
AgreeOn(l, m, A) ==
    SameOn(l.balance, m.balance, A) /\ SameOn(l.nonce, m.nonce, A)
    /\ l.consumed = m.consumed

Touches(t) ==
    Party(t) \cup (IF t.type = "transfer" THEN {FeeAddr} \ {NoFeeAddr} ELSE {})

LEMMA SameUpdate ==
    ASSUME NEW f, NEW g, DOMAIN f = Addrs, DOMAIN g = Addrs, NEW A \in SUBSET Addrs,
           SameOn(f, g, A), NEW x \in A, NEW v
    PROVE  /\ SameOn([f EXCEPT ![x] = v], [g EXCEPT ![x] = v], A)
           /\ SameOn([f EXCEPT ![x] = v], f, Addrs \ A)
BY DEF SameOn

LEMMA SameOver ==
    ASSUME NEW f, NEW g, NEW h, NEW A, SameOn(f, g, A), SameOn(g, h, A)
    PROVE  SameOn(f, h, A)
BY DEF SameOn

Put(f, x, v) == [f EXCEPT ![x] = v]

LEMMA NextSame ==
    ASSUME NEW f \in [Addrs -> Int], NEW g \in [Addrs -> Int], NEW A \in SUBSET Addrs,
           NEW h, SameOn(f, g, A), SameOn(f, h, Addrs \ A), NEW x \in A, NEW v \in Int
    PROVE  /\ Put(f, x, v) \in [Addrs -> Int] /\ Put(g, x, v) \in [Addrs -> Int]
           /\ SameOn(Put(f, x, v), Put(g, x, v), A)
           /\ SameOn(Put(f, x, v), h, Addrs \ A)
<1>1. Put(f, x, v) \in [Addrs -> Int] /\ Put(g, x, v) \in [Addrs -> Int]
  BY DEF Put
<1>2. SameOn(Put(f, x, v), Put(g, x, v), A) /\ SameOn(Put(f, x, v), f, Addrs \ A)
  BY SameUpdate DEF Put
<1> QED
  BY <1>1, <1>2, SameOver

LEMMA TransfersAgree ==
    ASSUME NEW l \in WideLedger, NEW m \in WideLedger, NEW A \in SUBSET Addrs,
           AgreeOn(l, m, A), NEW t \in Transfers, Touches(t) \subseteq A
    PROVE  /\ Applies(l, t) <=> Applies(m, t)
           /\ AgreeOn(Apply(l, t), Apply(m, t), A)
           /\ SameOn(Apply(l, t).balance, l.balance, Addrs \ A)
           /\ SameOn(Apply(l, t).nonce, l.nonce, Addrs \ A)
<1>1. /\ t.type = "transfer" /\ t.from \in A /\ t.to \in A /\ t.amount \in Amount
      /\ FeeAddr # NoFeeAddr => FeeAddr \in A
  BY TransferFields DEF Touches, Party
<1>2. /\ l.balance \in [Addrs -> Int] /\ l.nonce \in [Addrs -> Nat]
      /\ m.balance \in [Addrs -> Int] /\ m.nonce \in [Addrs -> Nat]
  BY DEF WideLedger
<1>3. /\ SameOn(l.balance, m.balance, A) /\ SameOn(l.nonce, m.nonce, A)
      /\ l.consumed = m.consumed
      /\ l.balance[t.from] = m.balance[t.from] /\ l.nonce[t.from] = m.nonce[t.from]
  BY <1>1 DEF AgreeOn, SameOn
<1>4. Applies(l, t) <=> Applies(m, t)
  BY <1>1, <1>3 DEF Applies, TransferApplies
<1> DEFINE cost == TransferCost(t)
           fee == TransferFee(t.amount)
           left == l.balance[t.from] - cost
           used == l.nonce[t.from] + 1
           dl == Debited(l, t)
           dm == Debited(m, t)
           cl == Credited(l, t)
           cm == Credited(m, t)
           fl == AfterFee(l, t)
           fm == AfterFee(m, t)
           nl == [l.nonce EXCEPT ![t.from] = used]
           nm == [m.nonce EXCEPT ![t.from] = used]
<1>5. cost \in Int /\ fee \in Int /\ t.amount \in Int
  BY <1>1, TransferCostType, TransferFeeType, LedgerAssumption DEF Amount
<1>6. left \in Int /\ used \in Int
  BY <1>1, <1>2, <1>5
<1>7. /\ dl = Put(l.balance, t.from, left)
      /\ dm = Put(m.balance, t.from, left)
      /\ cl = Put(dl, t.to, SatAdd(dl[t.to], t.amount))
      /\ cm = Put(dm, t.to, SatAdd(dm[t.to], t.amount))
      /\ fl = IF FeeAddr = NoFeeAddr THEN cl
              ELSE Put(cl, FeeAddr, SatAdd(cl[FeeAddr], fee))
      /\ fm = IF FeeAddr = NoFeeAddr THEN cm
              ELSE Put(cm, FeeAddr, SatAdd(cm[FeeAddr], fee))
  BY <1>3 DEF Debited, Credited, AfterFee, Put
<1>8. /\ Apply(l, t).balance = fl /\ Apply(l, t).nonce = nl
      /\ Apply(l, t).consumed = l.consumed
      /\ Apply(m, t).balance = fm /\ Apply(m, t).nonce = nm
      /\ Apply(m, t).consumed = m.consumed
  BY <1>1, <1>2, <1>3 DEF Apply, AfterTransfer, WideLedger
<1>9. SameOn(l.balance, l.balance, Addrs \ A) /\ SameOn(l.nonce, l.nonce, Addrs \ A)
  BY DEF SameOn
<1>10. SameOn(nl, nm, A) /\ SameOn(nl, l.nonce, Addrs \ A)
  <2> HIDE DEF used
  <2> QED
    BY <1>1, <1>2, <1>3, SameUpdate
<1> HIDE DEF cost, fee, left, used, dl, dm, cl, cm, fl, fm, nl, nm
<1>11. /\ dl \in [Addrs -> Int] /\ dm \in [Addrs -> Int]
       /\ SameOn(dl, dm, A) /\ SameOn(dl, l.balance, Addrs \ A)
  BY ZenonT(30), <1>1, <1>2, <1>3, <1>6, <1>7, <1>9, NextSame
<1>12. /\ cl \in [Addrs -> Int] /\ cm \in [Addrs -> Int]
       /\ SameOn(cl, cm, A) /\ SameOn(cl, l.balance, Addrs \ A)
  <2> DEFINE v == SatAdd(dl[t.to], t.amount)
  <2>1. dl[t.to] = dm[t.to]
    BY <1>1, <1>11 DEF SameOn
  <2>2. cl = Put(dl, t.to, v) /\ cm = Put(dm, t.to, v)
    BY <1>7, <2>1
  <2>3. v \in Int
    BY <1>1, <1>5, <1>11, SatAddWide
  <2> HIDE DEF v
  <2> QED
    BY <1>1, <1>11, <2>2, <2>3, NextSame
<1>13. SameOn(fl, fm, A) /\ SameOn(fl, l.balance, Addrs \ A)
  <2>1. CASE FeeAddr = NoFeeAddr
    BY <1>7, <1>12, <2>1
  <2>2. CASE FeeAddr # NoFeeAddr
    <3> DEFINE v == SatAdd(cl[FeeAddr], fee)
    <3>1. cl[FeeAddr] = cm[FeeAddr] /\ FeeAddr \in A
      BY <1>1, <1>12, <2>2 DEF SameOn
    <3>2. fl = Put(cl, FeeAddr, v) /\ fm = Put(cm, FeeAddr, v)
      BY <1>7, <2>2, <3>1
    <3>3. v \in Int
      BY <1>5, <1>12, <3>1, SatAddWide
    <3> HIDE DEF v
    <3> QED
      BY <1>12, <3>1, <3>2, <3>3, NextSame
  <2> QED
    BY <2>1, <2>2
<1> QED
  BY <1>3, <1>4, <1>8, <1>10, <1>13 DEF AgreeOn

LEMMA MintsAgree ==
    ASSUME NEW l \in WideLedger, NEW m \in WideLedger, NEW A \in SUBSET Addrs,
           AgreeOn(l, m, A), NEW t, MintGood(t), Touches(t) \subseteq A
    PROVE  /\ Applies(l, t) <=> Applies(m, t)
           /\ AgreeOn(Apply(l, t), Apply(m, t), A)
           /\ SameOn(Apply(l, t).balance, l.balance, Addrs \ A)
           /\ SameOn(Apply(l, t).nonce, l.nonce, Addrs \ A)
<1>1. t.type = "mint" /\ t.dest \in A
  BY DEF MintGood, MintFits, Touches, Party
<1>2. /\ l.balance \in [Addrs -> Int] /\ m.balance \in [Addrs -> Int]
  BY DEF WideLedger
<1>3. /\ SameOn(l.balance, m.balance, A) /\ SameOn(l.nonce, m.nonce, A)
      /\ l.consumed = m.consumed /\ l.balance[t.dest] = m.balance[t.dest]
  BY <1>1 DEF AgreeOn, SameOn
<1>4. Applies(l, t) <=> Applies(m, t)
  BY <1>1, <1>3 DEF Applies, MintApplies
<1> DEFINE v == SatAdd(l.balance[t.dest], t.amount)
           B(k) == [k.balance EXCEPT ![t.dest] = v]
<1>5. /\ Apply(l, t).balance = B(l) /\ Apply(l, t).nonce = l.nonce
      /\ Apply(l, t).consumed = l.consumed \cup {t.nullifier}
      /\ Apply(m, t).balance = B(m) /\ Apply(m, t).nonce = m.nonce
      /\ Apply(m, t).consumed = m.consumed \cup {t.nullifier}
  BY <1>1, <1>3 DEF Apply, AfterMint, WideLedger
<1>6. SameOn(B(l), B(m), A) /\ SameOn(B(l), l.balance, Addrs \ A)
  <2>1. DOMAIN l.balance = Addrs /\ DOMAIN m.balance = Addrs
    BY <1>2
  <2> HIDE DEF v
  <2> QED
    BY <1>1, <1>3, <2>1, SameUpdate
<1>7. SameOn(l.nonce, l.nonce, Addrs \ A)
  BY DEF SameOn
<1> QED
  BY <1>3, <1>4, <1>5, <1>6, <1>7 DEF AgreeOn

\* The same transactions run alike on ledgers that agree on what they touch, and
\* leave the rest of each as it was.
LEMMA RunsAgree ==
    ASSUME NEW l \in WideLedger, NEW m \in WideLedger, NEW A \in SUBSET Addrs,
           AgreeOn(l, m, A), NEW txs, AllGood(txs),
           \A i \in 1..Len(txs) : Touches(txs[i]) \subseteq A
    PROVE  /\ AllApply(l, txs) => AllApply(m, txs)
           /\ AgreeOn(Replay(l, txs), Replay(m, txs), A)
           /\ SameOn(Replay(l, txs).balance, l.balance, Addrs \ A)
           /\ SameOn(Replay(l, txs).nonce, l.nonce, Addrs \ A)
<1>0. IsSeq(txs) /\ Len(txs) \in Nat
  BY SeqLen DEF AllGood
<1> DEFINE n == Len(txs)
           f == Ledgers(l, txs)
           g == Ledgers(m, txs)
<1>1. /\ f[0] = l /\ g[0] = m
      /\ \A i \in 1..n :
            /\ f[i] = IF Applies(f[i - 1], txs[i]) THEN Apply(f[i - 1], txs[i])
                      ELSE f[i - 1]
            /\ g[i] = IF Applies(g[i - 1], txs[i]) THEN Apply(g[i - 1], txs[i])
                      ELSE g[i - 1]
  BY <1>0, LedgersAre
<1>2. Replay(l, txs) = f[n] /\ Replay(m, txs) = g[n]
  BY DEF Replay
<1>3. /\ AllApply(l, txs) <=> \A i \in 1..n : Applies(f[i - 1], txs[i])
      /\ AllApply(m, txs) <=> \A i \in 1..n : Applies(g[i - 1], txs[i])
  BY DEF AllApply
<1> HIDE DEF f, g
<1> DEFINE P(i) == /\ f[i] \in WideLedger /\ g[i] \in WideLedger
                   /\ AgreeOn(f[i], g[i], A)
                   /\ SameOn(f[i].balance, l.balance, Addrs \ A)
                   /\ SameOn(f[i].nonce, l.nonce, Addrs \ A)
           S == {i \in Nat : i <= n => P(i)}
<1>4. 0 \in S
  <2>1. SameOn(l.balance, l.balance, Addrs \ A) /\ SameOn(l.nonce, l.nonce, Addrs \ A)
    BY DEF SameOn
  <2> QED
    BY <1>1, <2>1
<1>5. ASSUME NEW i \in 1..n, P(i - 1)
      PROVE  P(i) /\ (Applies(f[i - 1], txs[i]) <=> Applies(g[i - 1], txs[i]))
  <2> DEFINE u == f[i - 1]
             v == g[i - 1]
             t == txs[i]
  <2>1. /\ u \in WideLedger /\ v \in WideLedger /\ AgreeOn(u, v, A)
        /\ SameOn(u.balance, l.balance, Addrs \ A)
        /\ SameOn(u.nonce, l.nonce, Addrs \ A)
    BY <1>5
  <2>2. /\ f[i] = IF Applies(u, t) THEN Apply(u, t) ELSE u
        /\ g[i] = IF Applies(v, t) THEN Apply(v, t) ELSE v
    BY <1>1
  <2>3. TxGood(t) /\ Touches(t) \subseteq A
    BY DEF AllGood
  <2> HIDE DEF u, v, t
  <2>4. /\ Applies(u, t) <=> Applies(v, t)
        /\ AgreeOn(Apply(u, t), Apply(v, t), A)
        /\ SameOn(Apply(u, t).balance, u.balance, Addrs \ A)
        /\ SameOn(Apply(u, t).nonce, u.nonce, Addrs \ A)
    BY <2>1, <2>3, TransfersAgree, MintsAgree DEF TxGood
  <2>5. Apply(u, t) \in WideLedger /\ Apply(v, t) \in WideLedger
    BY <2>1, <2>3, GoodFits, ApplyWide
  <2>6. /\ SameOn(Apply(u, t).balance, l.balance, Addrs \ A)
        /\ SameOn(Apply(u, t).nonce, l.nonce, Addrs \ A)
    BY <2>1, <2>4, SameOver
  <2>7. P(i)
    BY <2>1, <2>2, <2>4, <2>5, <2>6
  <2> QED
    BY <2>4, <2>7 DEF u, v, t
<1>6. ASSUME NEW i \in Nat, i \in S
      PROVE  i + 1 \in S
  <2>1. CASE i + 1 <= n
    <3>1. i + 1 \in 1..n /\ (i + 1) - 1 = i /\ P(i)
      BY <1>0, <1>6, <2>1
    <3> HIDE DEF P
    <3> QED
      BY <1>5, <3>1
  <2> QED
    BY <2>1
<1>7. \A i \in Nat : i \in S
  <2> HIDE DEF S
  <2> QED
    BY <1>4, <1>6, SetInduction
<1> HIDE DEF P
<1>8. \A i \in 0..n : P(i)
  BY <1>0, <1>7
<1>9. P(n)
  BY <1>0, <1>8
<1>10. \A i \in 1..n : Applies(f[i - 1], txs[i]) <=> Applies(g[i - 1], txs[i])
  <2>1. \A i \in 1..n : i - 1 \in 0..n
    BY <1>0
  <2> QED
    BY <1>5, <1>8, <2>1
<1> QED
  BY <1>2, <1>3, <1>9, <1>10 DEF P

LEMMA TouchesAll ==
    ASSUME NEW txs, IsSeq(txs)
    PROVE  /\ \A i \in 1..Len(txs) : Touches(txs[i]) \subseteq TouchedAddresses(txs)
           /\ \A A : (\A i \in 1..Len(txs) : Touches(txs[i]) \subseteq A)
                     => TouchedAddresses(txs) \subseteq A
<1>1. DOMAIN txs = 1..Len(txs)
  BY LenProperties DEF IsSeq
<1>2. ASSUME NEW i \in 1..Len(txs), NEW a \in Touches(txs[i])
      PROVE  a \in TouchedAddresses(txs)
  <2>1. CASE a \in Party(txs[i])
    BY <1>1, <2>1 DEF TouchedAddresses
  <2>2. CASE txs[i].type = "transfer" /\ a \in {FeeAddr} \ {NoFeeAddr}
    BY <1>1, <2>2 DEF TouchedAddresses
  <2> QED
    BY <2>1, <2>2 DEF Touches
<1>3. ASSUME NEW a \in TouchedAddresses(txs)
      PROVE  \E i \in 1..Len(txs) : a \in Touches(txs[i])
  <2>1. CASE \E i \in 1..Len(txs) : a \in Party(txs[i])
    BY <2>1 DEF Touches
  <2>2. CASE /\ \E i \in 1..Len(txs) : txs[i].type = "transfer"
             /\ a \in {FeeAddr} \ {NoFeeAddr}
    BY <2>2 DEF Touches
  <2> QED
    BY <1>1, <2>1, <2>2 DEF TouchedAddresses
<1> QED
  BY <1>2, <1>3

LEMMA GoodTouches ==
    ASSUME NEW t, TxGood(t)
    PROVE  Touches(t) \subseteq Addrs
BY TransferFields, LedgerAssumption DEF TxGood, MintGood, MintFits, Touches, Party
-----------------------------------------------------------------------------
(* The witnesses that are served.                                          *)

TouchedUpto(txs, n) == UNION {Touches(txs[i]) : i \in 1..n}

LEMMA TouchedFinite ==
    ASSUME NEW txs, IsSeq(txs)
    PROVE  IsFiniteSet(TouchedAddresses(txs))
<1>0. Len(txs) \in Nat
  BY SeqLen
<1> DEFINE S == {n \in Nat : IsFiniteSet(TouchedUpto(txs, n))}
<1>1. 0 \in S
  <2>1. TouchedUpto(txs, 0) = {}
    BY DEF TouchedUpto
  <2> QED
    BY <2>1, FS_EmptySet
<1>2. ASSUME NEW n \in Nat, n \in S
      PROVE  n + 1 \in S
  <2> DEFINE t == txs[n + 1]
             U == TouchedUpto(txs, n)
  <2>1. \E x, y : Touches(t) \subseteq {x, y, FeeAddr}
    <3>1. CASE t.type = "mint"
      BY <3>1 DEF Touches, Party
    <3>2. CASE t.type # "mint"
      BY <3>2 DEF Touches, Party
    <3> QED
      BY <3>1, <3>2
  <2>2. PICK x, y : Touches(t) \subseteq {x, y, FeeAddr}
    BY <2>1
  <2>3. TouchedUpto(txs, n + 1) = U \cup Touches(t)
    <3>1. \A i \in 1..(n + 1) : i \in 1..n \/ i = n + 1
      OBVIOUS
    <3>2. n + 1 \in 1..(n + 1) /\ \A i \in 1..n : i \in 1..(n + 1)
      OBVIOUS
    <3> QED
      BY <3>1, <3>2 DEF TouchedUpto
  <2> DEFINE V == ((U \cup {x}) \cup {y}) \cup {FeeAddr}
  <2>4. IsFiniteSet(V)
    BY <1>2, FS_AddElement
  <2>5. TouchedUpto(txs, n + 1) \in SUBSET V
    BY <2>2, <2>3
  <2> HIDE DEF V
  <2> QED
    BY <2>4, <2>5, FS_Subset
<1>3. \A n \in Nat : n \in S
  <2> HIDE DEF S
  <2> QED
    BY <1>1, <1>2, SetInduction
<1>4. IsFiniteSet(TouchedUpto(txs, Len(txs)))
  BY <1>0, <1>3
<1>5. TouchedAddresses(txs) \in SUBSET TouchedUpto(txs, Len(txs))
  <2>1. \A i \in 1..Len(txs) : Touches(txs[i]) \subseteq TouchedUpto(txs, Len(txs))
    BY DEF TouchedUpto
  <2> QED
    BY <2>1, TouchesAll
<1> QED
  BY <1>4, <1>5, FS_Subset

LEMMA OrderIs ==
    ASSUME NEW S, IsFiniteSet(S)
    PROVE  Cardinality(S) \in Nat /\ InSomeOrder(S) \in [1..Cardinality(S) -> S]
<1>1. Cardinality(S) \in Nat /\ ExistsBijection(1..Cardinality(S), S)
  BY FS_CardinalityType
<1>2. PICK s : s \in [1..Cardinality(S) -> S] /\ IsInjective(s)
  BY <1>1 DEF ExistsBijection, Bijection, Injection
<1>3. \A i, j \in DOMAIN s : s[i] = s[j] => i = j
  BY <1>2 DEF IsInjective
<1> QED
  BY <1>1, <1>2, <1>3 DEF InSomeOrder

\* A proof of whatever address.
Shaped(p) ==
    /\ DOMAIN p = {"address", "leaf", "siblings"}
    /\ \E b, n : p.leaf = EmptyLeaf \/ p.leaf = AccountLeaf(b, n)
    /\ p.siblings = [i \in 1..TreeDepth |-> p.siblings[i]]
ShapedWitness(w) ==
    /\ DOMAIN w = {"height", "prior", "proofs"}
    /\ IsSeq(w.proofs) /\ \A i \in 1..Len(w.proofs) : Shaped(w.proofs[i])

LEMMA MadeShaped ==
    ASSUME NEW l, NEW a
    PROVE  Shaped(ComputeProof(l, a))
<1> DEFINE p == ComputeProof(l, a)
<1>1. DOMAIN p = {"address", "leaf", "siblings"} /\ p.leaf = LeafOf(l, a)
  BY DEF ComputeProof
<1>2. p.siblings = [i \in 1..TreeDepth |-> p.siblings[i]]
  BY DEF ComputeProof
<1> HIDE DEF p
<1>3. Shaped(p)
  BY <1>1, <1>2, LeafForms DEF Shaped
<1> QED
  BY <1>3 DEF p

LEMMA BuiltShaped ==
    ASSUME NEW l, NEW txs, IsSeq(txs), NEW h
    PROVE  ShapedWitness(BuildWitness(l, txs, h))
<1> DEFINE s == InSomeOrder(TouchedAddresses(txs))
           n == Cardinality(TouchedAddresses(txs))
           w == BuildWitness(l, txs, h)
           P == {ComputeProof(l, s[i]) : i \in 1..n}
<1>1. n \in Nat /\ DOMAIN s = 1..n
  BY TouchedFinite, OrderIs
<1>2. /\ DOMAIN w = {"height", "prior", "proofs"}
      /\ w.proofs = [i \in DOMAIN s |-> ComputeProof(l, s[i])]
  BY DEF BuildWitness
<1> HIDE DEF s, n, w
<1>3. w.proofs \in [1..n -> P]
  BY <1>1, <1>2
<1>4. \A p \in P : Shaped(p)
  BY MadeShaped
<1> HIDE DEF P
<1>5. IsSeq(w.proofs) /\ \A i \in 1..Len(w.proofs) : Shaped(w.proofs[i])
  BY <1>1, <1>3, <1>4, RowIsSeq
<1> QED
  BY <1>2, <1>5 DEF ShapedWitness, w

\* What a lie does to the proofs: each is still the proof of something.
LEMMA FalseShaped ==
    ASSUME NEW w, ShapedWitness(w), NEW h, NEW v \in FalseWitnesses(h, w)
    PROVE  ShapedWitness(v)
<1> DEFINE n == Len(w.proofs)
           ps == w.proofs
           P == {p \in {ps[i] : i \in 1..n}
                       \cup {[ps[i] EXCEPT !.leaf = AccountLeaf(ps[i].leaf.balance + 1,
                                                               ps[i].leaf.nonce)]
                             : i \in 1..n}
                       \cup {ComputeProof(EmptyLedger, ps[i].address) : i \in 1..n} :
                    Shaped(p)}
<1>0. /\ DOMAIN w = {"height", "prior", "proofs"} /\ n \in Nat
      /\ \A i \in 1..n : Shaped(ps[i])
  BY SeqLen DEF ShapedWitness
<1>1. \A i \in 1..n :
         /\ ps[i] \in P
         /\ ComputeProof(EmptyLedger, ps[i].address) \in P
         /\ [ps[i] EXCEPT !.leaf = AccountLeaf(ps[i].leaf.balance + 1,
                                               ps[i].leaf.nonce)] \in P
  <2> SUFFICES ASSUME NEW i \in 1..n
               PROVE  /\ Shaped(ps[i])
                      /\ Shaped(ComputeProof(EmptyLedger, ps[i].address))
                      /\ Shaped([ps[i] EXCEPT !.leaf =
                                    AccountLeaf(ps[i].leaf.balance + 1,
                                                ps[i].leaf.nonce)])
    OBVIOUS
  <2> DEFINE p == ps[i]
             leaf == AccountLeaf(p.leaf.balance + 1, p.leaf.nonce)
             q == [p EXCEPT !.leaf = leaf]
  <2>1. Shaped(p)
    BY <1>0
  <2>2. \E b, m : leaf = AccountLeaf(b, m)
    OBVIOUS
  <2> HIDE DEF p, leaf
  <2>3. DOMAIN q = DOMAIN p /\ q.leaf = leaf /\ q.siblings = p.siblings
    BY <2>1 DEF Shaped
  <2> HIDE DEF q
  <2>4. Shaped(q)
    BY <2>1, <2>2, <2>3 DEF Shaped
  <2> QED
    BY <2>1, <2>4, MadeShaped DEF p, q, leaf
<1>2. PICK T : ps \in Seq(T)
  BY DEF ShapedWitness, IsSeq
<1>3. ps \in Seq(P)
  BY <1>1, <1>2, SeqInto
<1>4. /\ \A p \in P : Shaped(p)
      /\ \A i \in 1..n : ps[i] \in P
  BY <1>1
<1>5. v.proofs \in Seq(P) /\ DOMAIN v = {"height", "prior", "proofs"}
  <2>0. \/ v = [w EXCEPT !.proofs = SubSeq(ps, 1, n - 1)]
        \/ \E i \in 1..n : v = [w EXCEPT !.proofs = Append(ps, ps[i])]
        \/ \E i, j \in 1..n : v = [w EXCEPT !.proofs = [ps EXCEPT ![i] = ps[j]]]
        \/ \E i \in 1..n :
              v = [w EXCEPT !.proofs =
                    [ps EXCEPT ![i] =
                        [ps[i] EXCEPT !.leaf = AccountLeaf(ps[i].leaf.balance + 1,
                                                           ps[i].leaf.nonce)]]]
        \/ \E i \in 1..n :
              v = [w EXCEPT !.proofs =
                    [ps EXCEPT ![i] = ComputeProof(EmptyLedger, ps[i].address)]]
    BY <1>0 DEF FalseWitnesses
  <2> HIDE DEF P, ps
  <2>1. \A x : [w EXCEPT !.proofs = x].proofs = x
               /\ DOMAIN [w EXCEPT !.proofs = x] = {"height", "prior", "proofs"}
    BY <1>0
  <2>2. SubSeq(ps, 1, n - 1) \in Seq(P)
    <3>1. \A i \in 1..(n - 1) : ps[i] \in P
      BY <1>0, <1>4
    <3> QED
      BY <1>0, <3>1, SubSeqProperties
  <2>3. \A i \in 1..n : Append(ps, ps[i]) \in Seq(P)
    BY <1>3, <1>4, AppendProperties
  <2>4. \A i \in 1..n : \A x \in P : [ps EXCEPT ![i] = x] \in Seq(P)
    BY <1>3, ExceptSeq DEF ps
  <2> QED
    BY ZenonT(30), <1>1, <1>4, <2>0, <2>1, <2>2, <2>3, <2>4 DEF ps
<1> HIDE DEF P
<1>6. \A i \in 1..Len(v.proofs) : v.proofs[i] \in P
  BY <1>5, ElementOfSeq
<1> QED
  BY <1>4, <1>5, <1>6 DEF ShapedWitness, IsSeq
-----------------------------------------------------------------------------
(* The blocks that are accepted.                                           *)

\* MintEarned, by the L1 height `tip`.
EarnedBy(e, tip) ==
    LET lock == LockOf[e.nullifier]
    IN  /\ e.amount = MintFn(lock.value, lock.lock) /\ e.dest = lock.dest
        /\ e.create <= e.proof.claimed /\ e.proof.claimed < e.create + lock.lock
        /\ e.proof.claimed \in Nat /\ e.proof.claimed <= tip

LEMMA VerifiedMint ==
    ASSUME SInv, NEW t, MintFits(t), NEW tip, EntryVerifies(t, ViewAt(tip))
    PROVE  MintGood(t) /\ EarnedBy(t, tip)
<1> DEFINE p == t.proof
           o == p.outpoint
           out == ViewAt(tip).outputs[o]
           c == Credit(p, ViewAt(tip), t.dest)
<1>1. /\ o \in DOMAIN ViewAt(tip).outputs
      /\ InLockPeriod(p, out, tip)
      /\ MintScript(p.pk, p.lock) = out.script
      /\ p.sig = Signature(p.pk, Sighash(o, p.claimed, t.dest))
  BY DEF EntryVerifies, Authorises, ViewAt
<1>2. o \in Locked /\ o \in Outpoints
  BY <1>1 DEF ViewAt, Locked
<1>3. /\ out.value = LockOf[o].value /\ out.height = confirmed[o]
      /\ out.script = MintScript(LockOf[o].pk, LockOf[o].lock)
  BY <1>2 DEF ViewAt, OutputOf
<1>4. p.lock = LockOf[o].lock
  BY <1>1, <1>3 DEF MintScript
<1>5. t.dest = LockOf[o].dest
  BY <1>1 DEF MintFits, Signature, Sighash
<1>6. c = EventOf(t)
  BY DEF EntryVerifies
<1>7. /\ c.nullifier = o /\ c.amount = MintFn(out.value, p.lock)
      /\ c.create = out.height
      /\ EventOf(t).nullifier = t.nullifier /\ EventOf(t).amount = t.amount
      /\ EventOf(t).create = t.create
  BY DEF Credit, EventOf
<1>8. /\ t.nullifier = o /\ t.amount = MintFn(LockOf[o].value, LockOf[o].lock)
      /\ t.create = confirmed[o]
  BY <1>3, <1>4, <1>6, <1>7
<1>9. /\ p.claimed >= confirmed[o]
      /\ p.claimed < Unlock(confirmed[o], LockOf[o].lock)
      /\ p.claimed <= tip
  BY <1>1, <1>3, <1>4 DEF InLockPeriod
<1>10. /\ confirmed[o] \in Nat /\ p.claimed \in Nat /\ LockOf[o].lock \in Nat
       /\ MaxL1Height \in Nat /\ LockOf[o].dest \in Addrs
       /\ MintFn(LockOf[o].value, LockOf[o].lock) \in Amount
  BY <1>2, LightAssumption, MintProofAssumption DEF SInv, MintFits
<1>11. Unlock(confirmed[o], LockOf[o].lock) <= confirmed[o] + LockOf[o].lock
  BY <1>10 DEF Unlock
<1>12. Unlock(confirmed[o], LockOf[o].lock) \in Nat
  BY <1>10 DEF Unlock
<1> HIDE DEF o
<1>13. t.create <= p.claimed /\ p.claimed < t.create + LockOf[o].lock
  BY <1>8, <1>9, <1>10, <1>11, <1>12
<1> QED
  BY <1>5, <1>8, <1>9, <1>10, <1>13 DEF EarnedBy, MintGood

LEMMA MintsAre ==
    ASSUME NEW txs, AllFit(txs)
    PROVE  \A i \in 1..Len(txs) : \/ txs[i] \in Transfers
                                  \/ MintFits(txs[i]) /\ txs[i] \in Mints(txs)
<1>1. DOMAIN txs = 1..Len(txs)
  BY LenProperties DEF AllFit, IsSeq
<1> QED
  BY <1>1 DEF AllFit, TxFits, MintFits, Mints

LEMMA VerifiedTxs ==
    ASSUME SInv, NEW txs, AllFit(txs), NEW tip,
           \A e \in Mints(txs) : EntryVerifies(e, ViewAt(tip))
    PROVE  AllGood(txs) /\ \A e \in Mints(txs) : EarnedBy(e, tip)
<1>1. AllGood(txs)
  BY MintsAre, VerifiedMint DEF AllGood, AllFit, TxGood
<1>2. ASSUME NEW e \in Mints(txs)
      PROVE  EarnedBy(e, tip)
  <2>1. DOMAIN txs = 1..Len(txs)
    BY LenProperties DEF AllFit, IsSeq
  <2>2. PICK i \in 1..Len(txs) : e = txs[i] /\ e.type = "mint"
    BY <2>1 DEF Mints
  <2>3. MintFits(e)
    BY <2>2, TransferFields DEF AllFit, TxFits
  <2> QED
    BY <2>3, VerifiedMint
<1> QED
  BY <1>1, <1>2

\* The paths are those of the ledger l.
PathsOf(l, w) ==
    \A i \in DOMAIN w.proofs :
       w.proofs[i].siblings = ComputeProof(l, w.proofs[i].address).siblings

\* The ledger that is put together of proofs of l is as l where they are.
LEMMA SparseIs ==
    ASSUME NEW w, ShapedWitness(w), ProofAddresses(w) \subseteq Addrs,
           NEW l \in LedgerType, walk.work.consumed = l.consumed,
           \A i \in DOMAIN w.proofs : ProofVerifies(w.proofs[i], ComputeRoot(l))
    PROVE  /\ SparseLedger(w) \in LedgerType
           /\ AgreeOn(l, SparseLedger(w), ProofAddresses(w)) /\ PathsOf(l, w)
<1>0. DOMAIN w.proofs = 1..Len(w.proofs)
  BY LenProperties DEF ShapedWitness, IsSeq
<1>1. ASSUME NEW i \in DOMAIN w.proofs
      PROVE  /\ w.proofs[i].leaf = LeafOf(l, w.proofs[i].address)
             /\ w.proofs[i].siblings = ComputeProof(l, w.proofs[i].address).siblings
  <2>1. IsProof(w.proofs[i])
    BY <1>0 DEF ShapedWitness, Shaped, IsProof, ProofAddresses
  <2> QED
    BY <2>1, ProofBinds
<1>2. ASSUME NEW a \in ProofAddresses(w)
      PROVE  ProofFor(w, a).leaf = LeafOf(l, a)
  <2> DEFINE j == CHOOSE i \in DOMAIN w.proofs : w.proofs[i].address = a
  <2>1. j \in DOMAIN w.proofs /\ w.proofs[j].address = a
    BY DEF ProofAddresses
  <2>2. ProofFor(w, a) = w.proofs[j]
    BY DEF ProofFor
  <2> HIDE DEF j
  <2> QED
    BY <1>1, <2>1, <2>2
<1> DEFINE A == ProofAddresses(w)
           leaf(a) == IF a \in A THEN ProofFor(w, a).leaf ELSE EmptyLeaf
           m == SparseLedger(w)
<1>3. m = [balance  |-> [a \in Addrs |-> leaf(a).balance],
           nonce    |-> [a \in Addrs |-> leaf(a).nonce],
           consumed |-> walk.work.consumed, minted |-> 0]
  BY DEF SparseLedger
<1>4. \A a : LeafOf(l, a).balance = l.balance[a] /\ LeafOf(l, a).nonce = l.nonce[a]
  BY LeafHolds
<1>5. \A a \in A : leaf(a).balance = l.balance[a] /\ leaf(a).nonce = l.nonce[a]
  BY <1>2, <1>4
<1>6. \A a : a \notin A => leaf(a).balance = 0 /\ leaf(a).nonce = 0
  BY DEF EmptyLeaf
<1>7. /\ l.balance \in [Addrs -> Amount] /\ l.nonce \in [Addrs -> Nat]
      /\ l.consumed \in SUBSET Nullifiers /\ 0 \in Amount
  BY LedgerAssumption DEF LedgerType, Amount
<1>8. \A a \in Addrs : leaf(a).balance \in Amount /\ leaf(a).nonce \in Nat
  BY <1>5, <1>6, <1>7
<1> HIDE DEF leaf, m, A
<1>9. m \in LedgerType
  BY <1>3, <1>7, <1>8 DEF LedgerType
<1>10. AgreeOn(l, m, A)
  BY <1>3, <1>5 DEF AgreeOn, SameOn, A
<1> QED
  BY <1>1, <1>9, <1>10 DEF m, A, PathsOf

\* The ledger m differs from l where the proofs are, and is as `after` there.
Changes(l, m, after, w) ==
    /\ ProofAddresses(w) \subseteq Addrs
    /\ AgreeOn(m, after, ProofAddresses(w))
    /\ SameOn(m.balance, l.balance, Addrs \ ProofAddresses(w))
    /\ SameOn(m.nonce, l.nonce, Addrs \ ProofAddresses(w))

\* The updates of a witness that verifies are those of the whole ledger.
LEMMA UpdatesChange ==
    ASSUME NEW w, ShapedWitness(w), NEW l, NEW m, NEW after, PathsOf(l, w),
           Changes(l, m, after, w)
    PROVE  LET us == UpdatesOf(w, after)
           IN  Update(us, l, m) /\ (us = <<>> \/ \E i \in DOMAIN us : TRUE)
<1> DEFINE us == UpdatesOf(w, after)
           n == Len(w.proofs)
<1>0. DOMAIN w.proofs = 1..n /\ n \in Nat
  BY LenProperties DEF ShapedWitness, IsSeq
<1>1. /\ DOMAIN us = 1..n
      /\ us = [i \in 1..n |-> us[i]]
      /\ \A i \in 1..n : us[i].proof = w.proofs[i]
                         /\ us[i].post = LeafOf(after, w.proofs[i].address)
  BY <1>0 DEF UpdatesOf
<1>3. us = <<>> \/ \E i \in DOMAIN us : TRUE
  <2>1. CASE n = 0
    <3>1. 1..n = {}
      BY <2>1
    <3>2. us = <<>>
      BY <1>1, <3>1
    <3> QED
      BY <3>2
  <2>2. CASE n # 0
    <3>1. 1 \in 1..n
      BY <1>0, <2>2
    <3> QED
      BY <1>1, <3>1
  <2> QED
    BY <2>1, <2>2
<1> HIDE DEF us
<1>2. Touched(us) = ProofAddresses(w)
  <2>1. \A i \in 1..n : us[i].proof.address = w.proofs[i].address
    BY <1>1
  <2> HIDE DEF n
  <2> QED
    BY <1>0, <1>1, <2>1 DEF Touched, ProofAddresses
<1>4. ASSUME NEW i \in DOMAIN us
      PROVE  LET a == us[i].proof.address
             IN  /\ a \in Addrs
                 /\ us[i].proof.siblings = ComputeProof(l, a).siblings
                 /\ us[i].post = LeafOf(m, a)
  <2> DEFINE a == w.proofs[i].address
  <2>1. us[i].proof = w.proofs[i] /\ us[i].post = LeafOf(after, a) /\ i \in DOMAIN w.proofs
    BY <1>0, <1>1
  <2>2. a \in ProofAddresses(w)
    BY <2>1 DEF ProofAddresses
  <2>3. LeafOf(after, a) = LeafOf(m, a)
    BY <2>2 DEF Changes, AgreeOn, SameOn, LeafOf
  <2>4. w.proofs[i].siblings = ComputeProof(l, a).siblings
    BY <2>1 DEF PathsOf
  <2>5. a \in Addrs
    BY <2>2 DEF Changes
  <2> QED
    BY <2>1, <2>3, <2>4, <2>5
<1>5. \A a \in Addrs \ Touched(us) : LeafOf(m, a) = LeafOf(l, a)
  BY <1>2 DEF Changes, SameOn, LeafOf
<1>6. Update(us, l, m)
  BY <1>4, <1>5 DEF Update
<1> QED
  BY <1>3, <1>6 DEF us

LEMMA UpdatesAre ==
    ASSUME NEW w, ShapedWitness(w), NEW l, NEW m, NEW after, PathsOf(l, w),
           Changes(l, m, after, w)
    PROVE  ApplyUpdates(UpdatesOf(w, after), ComputeRoot(l)) = ComputeRoot(m)
BY UpdatesChange, UpdatesReachRoot

\* The head's commitments are to a ledger.
Backs(l, x) == x.accounts = ComputeRoot(l) /\ x.consumed = l.consumed
Backed(x) == \E l \in LedgerType : Backs(l, x)

\* A block that is accepted applies to the ledger before it, in full, and the new
\* head commits to the ledger after it.
LEMMA AcceptedRuns ==
    ASSUME SInv, NEW b, AllFit(b.txs), NEW w, ShapedWitness(w), NEW h, NEW last,
           Accepts(b, w, h, last), NEW l \in LedgerType, Backs(l, walk.work)
    PROVE  LET m == Replay(l, b.txs)
           IN  /\ AllGood(b.txs) /\ AllApply(l, b.txs)
               /\ m \in LedgerType /\ Backs(m, NewHead(b, w, h))
               /\ b.header.root = RootOf(m)
               /\ \A e \in Mints(b.txs) : EarnedBy(e, walk.tip)
<1> DEFINE A == ProofAddresses(w)
           s == SparseLedger(w)
           m == Replay(l, b.txs)
           after == Replay(s, b.txs)
           us == UpdatesOf(w, after)
           x == NewHead(b, w, h)
<1>1. /\ A = TouchedAddresses(b.txs)
      /\ \A e \in Mints(b.txs) : EntryVerifies(e, ViewAt(walk.tip))
      /\ AllApply(s, b.txs) /\ SparseUpdateSound(us)
      /\ StateRoot(x.accounts, x.consumed) = b.header.root
  BY DEF Accepts, WellFormed
<1>2. x.accounts = ApplyUpdates(us, walk.work.accounts) /\ x.consumed = after.consumed
  BY DEF NewHead
<1>3. AllGood(b.txs) /\ \A e \in Mints(b.txs) : EarnedBy(e, walk.tip)
  BY <1>1, VerifiedTxs
<1>4. IsSeq(b.txs) /\ DOMAIN w.proofs = 1..Len(w.proofs)
  BY LenProperties DEF AllFit, ShapedWitness, IsSeq
<1>5. /\ \A i \in 1..Len(b.txs) : Touches(b.txs[i]) \subseteq A
      /\ A \subseteq Addrs
  <2>1. \A i \in 1..Len(b.txs) : Touches(b.txs[i]) \subseteq Addrs
    BY <1>3, GoodTouches DEF AllGood
  <2>2. TouchedAddresses(b.txs) \subseteq Addrs
    BY <1>4, <2>1, TouchesAll
  <2> QED
    BY <1>1, <1>4, <2>2, TouchesAll
<1>6. \A i \in DOMAIN w.proofs : ProofVerifies(w.proofs[i], ComputeRoot(l))
  <2> SUFFICES ASSUME NEW i \in DOMAIN w.proofs
               PROVE  ProofVerifies(w.proofs[i], ComputeRoot(l))
    OBVIOUS
  <2>1. DOMAIN us = DOMAIN w.proofs /\ us[i].proof = w.proofs[i]
    BY DEF UpdatesOf
  <2>2. us # <<>>
    <3>1. DOMAIN us # {}
      BY <2>1
    <3> HIDE DEF us
    <3> QED
      BY <3>1
  <2>3. UpdatesValid(us, walk.work.accounts)
    BY <1>1, <2>2 DEF SparseUpdateSound
  <2> HIDE DEF us
  <2> QED
    BY <2>1, <2>3 DEF UpdatesValid, Backs
<1>7. s \in LedgerType /\ AgreeOn(l, s, A) /\ PathsOf(l, w)
  BY <1>5, <1>6, SparseIs DEF Backs
<1> HIDE DEF s, A
<1>8. l \in WideLedger /\ s \in WideLedger /\ A \in SUBSET Addrs /\ AgreeOn(s, l, A)
  <2>1. AgreeOn(s, l, A)
    BY <1>7 DEF AgreeOn, SameOn
  <2> QED
    BY <1>5, <1>7, <2>1, NarrowIsWide
<1>9. /\ AgreeOn(m, after, A)
      /\ SameOn(m.balance, l.balance, Addrs \ A)
      /\ SameOn(m.nonce, l.nonce, Addrs \ A)
  BY <1>3, <1>5, <1>7, <1>8, RunsAgree
<1>10. AllApply(l, b.txs)
  BY <1>1, <1>3, <1>5, <1>8, RunsAgree
<1>11. m \in LedgerType
  BY <1>3, <1>10, RunNarrow
<1> HIDE DEF m, after, x
<1>12. ApplyUpdates(us, ComputeRoot(l)) = ComputeRoot(m)
  <2>1. Changes(l, m, after, w)
    BY <1>5, <1>9 DEF Changes, A
  <2> QED
    BY <1>7, <2>1, UpdatesAre
<1>13. x.accounts = ComputeRoot(m) /\ x.consumed = m.consumed
  BY <1>2, <1>9, <1>12 DEF Backs, AgreeOn
<1>14. b.header.root = RootOf(m)
  BY <1>1, <1>13 DEF RootOf
<1> QED
  BY <1>3, <1>10, <1>11, <1>13, <1>14 DEF Backs, m, x

\* The blocks of a hash are valid: block i applies to a ledger the header before
\* commits to, leads to the one its own header does, and its mints are earned.
ValidAt(hash, i, tip) ==
    \E l \in LedgerType :
       /\ hash[i][3] = RootOf(l)
       /\ AllGood(hash[i + 1][2]) /\ AllApply(l, hash[i + 1][2])
       /\ hash[i + 1][3] = RootOf(Replay(l, hash[i + 1][2]))
       /\ \A e \in Mints(hash[i + 1][2]) : EarnedBy(e, tip)
AllValid(hash, from, to, tip) == \A i \in (from + 1)..to : ValidAt(hash, i, tip)

HeadValid(hd, from, tip) == hd # NoHead => AllValid(hd.hash, from, hd.l2, tip)
WalkValid(w, hd, tip) ==
    /\ w.tip \in 0..tip
    /\ w.work # NoHead =>
          Backed(w.work) /\ AllValid(w.work.hash, Start(w, hd), w.work.l2, tip)

VInv == HeadValid(head, booted, l1Tip) /\ WalkValid(walk, head, l1Tip)

LEMMA ValidStays ==
    ASSUME NEW hash, NEW other, NEW from \in Nat, NEW to \in Nat, NEW tip \in Nat,
           NEW tip1 \in Nat, tip <= tip1, AllValid(hash, from, to, tip),
           SameTo(hash, other, to)
    PROVE  AllValid(other, from, to, tip1)
<1> SUFFICES ASSUME NEW i \in (from + 1)..to
             PROVE  ValidAt(other, i, tip1)
  BY DEF AllValid
<1>1. i \in 1..(to + 1) /\ i + 1 \in 1..(to + 1)
  OBVIOUS
<1>2. other[i] = hash[i] /\ other[i + 1] = hash[i + 1]
  BY <1>1 DEF SameTo
<1>3. \A e : EarnedBy(e, tip) => EarnedBy(e, tip1)
  BY DEF EarnedBy
<1>4. ValidAt(hash, i, tip)
  BY DEF AllValid
<1> QED
  BY <1>2, <1>3, <1>4 DEF ValidAt

LEMMA NoneValid ==
    ASSUME NEW hash, NEW from \in Nat, NEW tip
    PROVE  AllValid(hash, from, from, tip)
<1>1. (from + 1)..from = {}
  OBVIOUS
<1> QED
  BY <1>1 DEF AllValid

LEMMA PinnedBacked ==
    ASSUME TInv, SInv, NEW x, Committed(x), Pinned(x, chain, atts)
    PROVE  Backed(x)
<1>1. x.l2 \in 0..Len(chain) /\ IsSeq(chain) /\ Contents(chain)
  BY DEF Pinned, TInv, Heights, SInv
<1>2. LedgerAt(x.l2) \in LedgerType
  BY <1>1, LedgerAtType
<1>3. Backs(LedgerAt(x.l2), x)
  BY HeadIsLedgers DEF Backs
<1> QED
  BY <1>2, <1>3 DEF Backed

LEMMA IdleValid ==
    ASSUME NEW hd, NEW tip \in Nat
    PROVE  WalkValid(IdleWalk, hd, tip)
<1>1. IdleWalk.tip = 0 /\ IdleWalk.work = NoHead
  BY DEF IdleWalk
<1> QED
  BY <1>1 DEF WalkValid

LEMMA RefreshValid ==
    ASSUME IInv, TInv, SInv, NEW ask, Refresh(ask)
    PROVE  WalkValid(walk', head, l1Tip)
<1>1. walk'.work = head /\ walk'.tip = 0 /\ l1Tip \in Nat
  BY DEF Refresh, IdleWalk, SInv
<1>2. CASE head = NoHead
  BY <1>1, <1>2 DEF WalkValid
<1>3. CASE head # NoHead
  <2>1. head.l2 \in Nat /\ Start(walk', head) = head.l2
    BY <1>3 DEF IInv, IsHead, Start
  <2>2. Backed(head)
    BY <1>3, PinnedBacked DEF TInv
  <2> QED
    BY <1>1, <2>1, <2>2, NoneValid DEF WalkValid
<1> QED
  BY <1>2, <1>3

LEMMA BootValid ==
    ASSUME IInv, TInv, SInv, GetNullifiers
    PROVE  WalkValid(walk', head, l1Tip)
<1> DEFINE h == BootPoint.height
           x == BootHead(walk.bal.components.nullifiers)
<1>0. l1Tip \in Nat
  BY DEF SInv
<1>1. \/ walk' = IdleWalk
      \/ walk' = [IdleWalk EXCEPT !.at = "walk", !.ask = walk.ask,
                      !.anchor = walk.anchor, !.boot = h, !.work = x]
  BY DEF GetNullifiers, TakesNullifiers
<1>2. head = NoHead
  BY DEF GetNullifiers, IInv, IsWalk, NotBehind
<1>3. CASE walk' = [IdleWalk EXCEPT !.at = "walk", !.ask = walk.ask,
                      !.anchor = walk.anchor, !.boot = h, !.work = x]
  <2>1. x.l2 = h /\ DOMAIN x = HeadFields
    BY DEF BootHead, HeadFields
  <2>2. h \in Nat
    <3>1. h \in 0..Len(chain) /\ Len(chain) \in Nat
      BY BootPointFacts, SeqLen DEF TInv, Heights
    <3> QED
      BY <3>1
  <2>3. x # NoHead
    <3>1. DOMAIN NoHead = {"none"} /\ "l2" \in HeadFields
      BY DEF NoHead, HeadFields
    <3> HIDE DEF x
    <3> QED
      BY <2>1, <3>1
  <2> HIDE DEF x, h
  <2>4. walk'.work = x /\ walk'.boot = h /\ walk'.tip = 0 /\ walk'.at = "walk"
    BY <1>3 DEF IdleWalk
  <2>5. Backed(x)
    <3>1. WalkTrue(walk', chain, atts)
      BY GetNullifiersTrue
    <3>2. Committed(x) /\ Pinned(x, chain, atts)
      BY <2>3, <2>4, <3>1 DEF WalkTrue, MidBlocks
    <3> QED
      BY <3>2, PinnedBacked
  <2>6. Start(walk', head) = x.l2
    BY <1>2, <2>1, <2>4 DEF Start
  <2> QED
    BY <1>0, <2>1, <2>2, <2>4, <2>5, <2>6, NoneValid DEF WalkValid
<1> QED
  BY <1>0, <1>1, <1>3, IdleValid

\* Steps that leave the verified blocks as they are.
LEMMA KeepsValid ==
    ASSUME VInv, walk.work # NoHead => /\ walk'.work.hash = walk.work.hash
                                       /\ walk'.work.l2 = walk.work.l2
                                       /\ walk'.work.accounts = walk.work.accounts
                                       /\ walk'.work.consumed = walk.work.consumed,
           walk.work = NoHead => walk'.work = NoHead,
           walk'.boot = walk.boot, walk'.tip \in 0..l1Tip
    PROVE  WalkValid(walk', head, l1Tip)
BY DEF VInv, WalkValid, Start, Backed, Backs

LEMMA OtherStepsValid ==
    ASSUME IInv, SInv, VInv, WalkStep \/ WalkDone \/ GetBalance \/ GetTip \/ SkipKnown
                       \/ WalkForwardDone
    PROVE  WalkValid(walk', head, l1Tip)
<1>1. DOMAIN walk = WalkFields /\ walk.tip \in 0..l1Tip /\ l1Tip \in Nat
  BY DEF IInv, IsWalk, SInv, VInv, WalkValid
<1>2. CASE WalkStep
  <2>1. walk'.work = walk.work /\ walk'.tip = walk.tip /\ walk'.boot = walk.boot
    BY <1>1, <1>2 DEF WalkStep, WalkFields
  <2> QED
    BY <1>1, <2>1, KeepsValid
<1>3. CASE WalkDone \/ WalkForwardDone
  <2>1. walk'.work = walk.work /\ walk'.tip = walk.tip /\ walk'.boot = walk.boot
    BY <1>1, <1>3 DEF WalkDone, WalkForwardDone, Goto, WalkFields
  <2> QED
    BY <1>1, <2>1, KeepsValid
<1>4. CASE GetTip
  <2>1. walk'.work = walk.work /\ walk'.tip = l1Tip /\ walk'.boot = walk.boot
    BY <1>1, <1>4 DEF GetTip, WalkFields
  <2>2. l1Tip \in 0..l1Tip
    BY <1>1
  <2> QED
    BY <2>1, <2>2, KeepsValid
<1>5. CASE GetBalance
  <2>1. \/ walk' = IdleWalk
        \/ \E bal : walk' = [walk EXCEPT !.at = "nullifiers", !.bal = bal]
    BY <1>5 DEF GetBalance
  <2>2. CASE \E bal : walk' = [walk EXCEPT !.at = "nullifiers", !.bal = bal]
    <3>1. walk'.work = walk.work /\ walk'.tip = walk.tip /\ walk'.boot = walk.boot
      BY <1>1, <2>2 DEF WalkFields
    <3> QED
      BY <1>1, <3>1, KeepsValid
  <2> QED
    BY <1>1, <2>1, <2>2, IdleValid
<1>6. CASE SkipKnown
  <2>1. IsHead(walk.work) /\ walk.work # NoHead
    BY <1>6 DEF SkipKnown, IInv, IsWalk
  <2>2. /\ walk'.work.hash = walk.work.hash /\ walk'.work.l2 = walk.work.l2
        /\ walk'.work.accounts = walk.work.accounts
        /\ walk'.work.consumed = walk.work.consumed
        /\ walk'.tip = walk.tip /\ walk'.boot = walk.boot
    BY <1>1, <1>6, <2>1 DEF SkipKnown, WalkFields, IsHead, HeadFields
  <2> QED
    BY <1>1, <2>1, <2>2, KeepsValid
<1> QED
  BY <1>2, <1>3, <1>4, <1>5, <1>6

\* A block and a witness that a node may serve for a height.
ServedWith(b, w, h) ==
    \/ b = BlockAt(h) /\ w = TrueWitness(h)
    \/ b = BlockAt(h) /\ w \in FalseWitnesses(h, TrueWitness(h))
    \/ b \in FalseBlocks(h) /\ w = BuildWitness(LedgerAt(h - 1), b.txs, h)

LEMMA ServedShaped ==
    ASSUME SInv, NEW h \in 1..Len(chain), NEW b, NEW w, ServedWith(b, w, h)
    PROVE  AllFit(b.txs) /\ ShapedWitness(w)
<1>1. AllFit(b.txs)
  BY ServedTxs DEF ServedWith, Served
<1>2. ShapedWitness(TrueWitness(h))
  <2>1. IsSeq(chain[h].txs)
    BY DEF SInv, Contents, BlockFits, AllFit
  <2> QED
    BY <2>1, BuiltShaped DEF TrueWitness
<1>3. \A v \in FalseWitnesses(h, TrueWitness(h)) : ShapedWitness(v)
  BY <1>2, FalseShaped
<1>4. ShapedWitness(BuildWitness(LedgerAt(h - 1), b.txs, h))
  BY <1>1, BuiltShaped DEF AllFit
<1> QED
  BY <1>1, <1>2, <1>3, <1>4 DEF ServedWith

\* The block that is accepted is valid, whether or not an attestation is of it.
LEMMA VerifyValid ==
    ASSUME IInv, TInv, SInv, HInv, VInv, VerifyBlock
    PROVE  WalkValid(walk', head, l1Tip)
<1> DEFINE h == walk.work.l2 + 1
           last == h = Step.att.height
<1>1. /\ walk.at = "blocks" /\ walk.steps # <<>> /\ Step.att.height > walk.work.l2
      /\ \E b, w : ServedWith(b, w, h) /\ Verifies(b, w)
  BY DEF VerifyBlock, ServedWith
<1>2. PICK b, w : ServedWith(b, w, h) /\ Verifies(b, w)
  BY <1>1
<1>3. /\ DOMAIN walk = WalkFields /\ IsHead(walk.work) /\ walk.work # NoHead
      /\ Committed(walk.work) /\ l1Tip \in Nat
  BY <1>1 DEF IInv, IsWalk, TInv, WalkTrue, SInv
<1>4. walk.work.l2 \in Nat /\ h \in 1..Len(chain)
  BY <1>1, NextHeight
<1>5. AllFit(b.txs) /\ ShapedWitness(w)
  BY <1>2, <1>4, ServedShaped
<1>6. CASE walk' = IdleWalk
  BY <1>3, <1>6, IdleValid
<1>7. CASE walk' # IdleWalk
  <2> DEFINE new == NewHead(b, w, h)
             x == IF last THEN [new EXCEPT !.anchor = Step.anchor] ELSE new
             e == <<h, b.txs, b.header.root>>
             old == walk.work.hash
  <2>1. /\ Accepts(b, w, h, last)
        /\ walk' = [walk EXCEPT !.work = x, !.steps = IF last THEN Tail(@) ELSE @,
                                !.events = @ \o OwnEvents(b.txs, h)]
    BY <1>2, <1>7 DEF Verifies, GivesUp
  <2>2. DOMAIN new = HeadFields /\ new.l2 = h /\ new.hash = HashOf(b.header)
    BY DEF NewHead, HeadFields
  <2>3. HashOf(b.header) = Append(old, e)
    BY <2>1, AcceptedHash DEF Accepts
  <2>4. PICK l \in LedgerType : Backs(l, walk.work)
    BY <1>3 DEF VInv, WalkValid, Backed
  <2> DEFINE m == Replay(l, b.txs)
  <2>5. /\ AllGood(b.txs) /\ AllApply(l, b.txs)
        /\ m \in LedgerType /\ Backs(m, new) /\ b.header.root = RootOf(m)
        /\ \A t \in Mints(b.txs) : EarnedBy(t, walk.tip)
    BY <1>5, <2>1, <2>4, AcceptedRuns
  <2> HIDE DEF new
  <2>6. /\ x.l2 = h /\ x.hash = Append(old, e)
        /\ x.accounts = new.accounts /\ x.consumed = new.consumed
    BY <2>2, <2>3 DEF HeadFields
  <2> HIDE DEF x
  <2>7. walk'.work = x /\ walk'.boot = walk.boot /\ walk'.tip = walk.tip
    BY <1>3, <2>1 DEF WalkFields
  <2>8. Backed(x)
    BY <2>5, <2>6 DEF Backed, Backs
  <2>9. IsSeq(old) /\ Len(old) = h /\ old[h][3] = RootOf(l)
    <3>1. IsSeq(old) /\ Len(old) = h
          /\ old[h][3] = StateRoot(walk.work.accounts, walk.work.consumed)
      BY <1>3 DEF Committed
    <3> QED
      BY <2>4, <3>1 DEF Backs, RootOf
  <2>10. e[2] = b.txs /\ e[3] = b.header.root
    OBVIOUS
  <2> HIDE DEF e, old, m
  <2>11. /\ \A j \in 1..h : x.hash[j] = old[j]
         /\ x.hash[h + 1] = e
    BY <2>6, <2>9, Appended
  <2>12. SameTo(old, x.hash, walk.work.l2)
    BY <2>11 DEF SameTo
  <2>13. h \in Nat /\ h \in 1..h /\ walk.tip \in Nat /\ walk.tip <= l1Tip
    BY <1>3, <1>4 DEF VInv, WalkValid
  <2>14. ValidAt(x.hash, h, l1Tip)
    <3>1. x.hash[h][3] = RootOf(l) /\ x.hash[h + 1][2] = b.txs
          /\ x.hash[h + 1][3] = RootOf(m)
      BY <2>5, <2>9, <2>10, <2>11, <2>13
    <3>2. \A t \in Mints(b.txs) : EarnedBy(t, l1Tip)
      BY <1>3, <2>5, <2>13 DEF EarnedBy
    <3> QED
      BY <2>5, <3>1, <3>2 DEF ValidAt, m
  <2> DEFINE from == Start(walk, head)
  <2>15. from \in Nat /\ AllValid(old, from, walk.work.l2, l1Tip)
    BY <1>3 DEF HInv, WalkLogged, Logged, VInv, WalkValid, old
  <2> HIDE DEF from
  <2>16. AllValid(x.hash, from, walk.work.l2, l1Tip)
    <3>1. l1Tip <= l1Tip
      BY <1>3
    <3> QED
      BY <1>3, <1>4, <2>12, <2>15, <3>1, ValidStays
  <2>17. AllValid(x.hash, from, h, l1Tip)
    <3>1. \A i \in (from + 1)..h : i \in (from + 1)..walk.work.l2 \/ i = h
      BY <1>4, <2>15
    <3> HIDE DEF h
    <3> QED
      BY <2>14, <2>16, <3>1 DEF AllValid
  <2>18. Start(walk', head) = from
    BY <2>7 DEF Start, from
  <2> QED
    BY <2>6, <2>7, <2>8, <2>17, <2>18 DEF VInv, WalkValid
<1> QED
  BY <1>6, <1>7

LEMMA ShowValid ==
    ASSUME IInv, TInv, SInv, HInv, VInv, ShowOwn \/ ShowOther
    PROVE  VInv'
<1>1. walk.at = "done" /\ l1Tip' = l1Tip /\ l1Tip \in Nat
  BY DEF ShowOwn, ShowOther, worldVars, SInv
<1>2. \/ Save
      \/ walk' = IdleWalk /\ UNCHANGED <<head, booted>>
  BY DEF ShowOwn, ShowOther, ShowsOther, GivesUp
<1>3. /\ walk.work # NoHead /\ IsHead(walk.work) /\ Pinned(walk.work, chain, atts)
      /\ Logged(walk.events, walk.work.hash, Start(walk, head), walk.work.l2)
      /\ AllValid(walk.work.hash, Start(walk, head), walk.work.l2, l1Tip)
  BY <1>1 DEF IInv, IsWalk, TInv, WalkTrue, MidBlocks, HInv, WalkLogged, VInv, WalkValid
<1>4. WalkValid(IdleWalk, head', l1Tip')
  BY <1>1, IdleValid
<1>5. CASE walk' = IdleWalk /\ UNCHANGED <<head, booted>>
  BY <1>1, <1>4, <1>5 DEF VInv
<1>6. CASE Save
  <2>1. /\ head' = walk.work /\ walk' = IdleWalk
        /\ booted' = (IF head = NoHead THEN walk.boot ELSE booted)
    BY <1>6 DEF Save
  <2>2. AllValid(walk.work.hash, booted', walk.work.l2, l1Tip)
    <3>1. CASE head = NoHead
      BY <1>3, <2>1, <3>1 DEF Start
    <3>2. CASE head # NoHead
      <4> DEFINE n == walk.work.l2
                 k == head.l2
                 new == walk.work.hash
      <4>1. /\ Logged(history, head.hash, booted, k) /\ Start(walk, head) = k
            /\ booted' = booted
        BY <2>1, <3>2 DEF HInv, HistoryLogged, Start
      <4>2. k \in Nat /\ n \in Nat /\ k <= n /\ booted \in Nat /\ booted <= k
        BY <1>3, <4>1 DEF Logged
      <4>3. head.hash = Entries(chain, k) /\ new = Entries(chain, n)
        BY <1>3, <3>2 DEF TInv, Pinned
      <4>4. SameTo(head.hash, new, k)
        BY <4>2, <4>3, EntriesAgree
      <4>5. AllValid(head.hash, booted, k, l1Tip)
        BY <3>2 DEF VInv, HeadValid
      <4>6. AllValid(new, booted, k, l1Tip)
        <5>1. l1Tip <= l1Tip
          BY <1>1
        <5> QED
          BY <1>1, <4>2, <4>4, <4>5, <5>1, ValidStays
      <4>7. AllValid(new, k, n, l1Tip)
        BY <1>3, <4>1
      <4> HIDE DEF n, k, new
      <4>8. \A i \in (booted + 1)..n : i \in (booted + 1)..k \/ i \in (k + 1)..n
        BY <4>2
      <4>9. AllValid(new, booted, n, l1Tip)
        BY <4>6, <4>7, <4>8 DEF AllValid
      <4> QED
        BY <4>1, <4>9 DEF new, n
    <3> QED
      BY <3>1, <3>2
  <2> QED
    BY <1>1, <1>4, <2>1, <2>2 DEF VInv, HeadValid
<1> QED
  BY <1>2, <1>5, <1>6

\* While L1 grows, what was valid stays valid.
LEMMA WorldValid ==
    ASSUME IInv, SInv, HInv, VInv, l1Tip' \in Nat, l1Tip <= l1Tip',
           UNCHANGED <<head, booted, walk>>
    PROVE  VInv'
<1>1. l1Tip \in Nat
  BY DEF SInv
<1>2. \A hash : SameTo(hash, hash, head.l2) /\ SameTo(hash, hash, walk.work.l2)
  BY DEF SameTo
<1>3. HeadValid(head, booted, l1Tip')
  <2>1. CASE head = NoHead
    BY <2>1 DEF HeadValid
  <2>2. CASE head # NoHead
    <3>1. booted \in Nat /\ head.l2 \in Nat
      BY <2>2 DEF HInv, HistoryLogged, Logged
    <3>2. AllValid(head.hash, booted, head.l2, l1Tip)
      BY <2>2 DEF VInv, HeadValid
    <3> QED
      BY <1>1, <1>2, <3>1, <3>2, ValidStays DEF HeadValid
  <2> QED
    BY <2>1, <2>2
<1>4. WalkValid(walk, head, l1Tip')
  <2>1. walk.tip \in 0..l1Tip'
    BY <1>1 DEF VInv, WalkValid
  <2>2. CASE walk.work = NoHead
    BY <2>1, <2>2 DEF WalkValid
  <2>3. CASE walk.work # NoHead
    <3>1. Start(walk, head) \in Nat /\ walk.work.l2 \in Nat
      BY <2>3 DEF HInv, WalkLogged, Logged
    <3>2. /\ AllValid(walk.work.hash, Start(walk, head), walk.work.l2, l1Tip)
          /\ Backed(walk.work)
      BY <2>3 DEF VInv, WalkValid
    <3> QED
      BY <1>1, <1>2, <2>1, <3>1, <3>2, ValidStays DEF WalkValid
  <2> QED
    BY <2>2, <2>3
<1> QED
  BY <1>3, <1>4 DEF VInv

LEMMA NextValid ==
    ASSUME IInv, TInv, SInv, HInv, VInv, [Next]_vars
    PROVE  VInv'
<1>0. l1Tip \in Nat
  BY DEF SInv
<1>1. CASE ShowOwn \/ ShowOther
  BY <1>1, ShowValid
<1>2. CASE World
  <2>1. UNCHANGED <<head, booted, walk>>
    BY <1>2 DEF World, NewL1Block, ConfirmLock, ReclaimLock, MoveLock, SubmitMint,
         ProduceBlock, ProduceAnyBlock, Attest, walletVars
  <2>2. l1Tip' \in Nat /\ l1Tip <= l1Tip'
    BY <1>2, L1Grows DEF HeightsAre
  <2> QED
    BY <2>1, <2>2, WorldValid
<1>3. CASE NodeStep \/ UNCHANGED vars
  <2>1. UNCHANGED <<head, booted, walk, l1Tip>>
    BY <1>3 DEF NodeStep, NodeAppliesBlock, NodeStoresBlock, NodeRecordsSpend,
                walletVars, worldVars, vars
  <2>2. l1Tip' \in Nat /\ l1Tip <= l1Tip'
    BY <1>0, <2>1
  <2> QED
    BY <2>1, <2>2, WorldValid
<1>4. CASE \/ \E ask \in Targets : Refresh(ask)
           \/ WalkStep \/ WalkDone \/ GetBalance \/ GetNullifiers \/ GetTip
           \/ SkipKnown \/ VerifyBlock \/ WalkForwardDone
  <2>1. UNCHANGED <<head, booted, l1Tip>>
    BY <1>4 DEF Refresh, WalkStep, WalkDone, GetBalance, GetNullifiers, GetTip,
                SkipKnown, VerifyBlock, WalkForwardDone, worldVars
  <2>2. WalkValid(walk', head, l1Tip)
    BY <1>4, RefreshValid, BootValid, OtherStepsValid, VerifyValid
  <2> QED
    BY <2>1, <2>2 DEF VInv
<1>5. CASE Interrupted
  <2>1. walk' = IdleWalk /\ UNCHANGED <<head, booted, l1Tip>>
    BY <1>5 DEF Interrupted, GivesUp, worldVars
  <2> QED
    BY <1>0, <2>1, IdleValid DEF VInv
<1> QED
  BY <1>1, <1>2, <1>3, <1>4, <1>5 DEF Next, WalletStep

LEMMA HeadsAreValid == Spec => []VInv
<1>1. Init => VInv
  <2> SUFFICES ASSUME Init
               PROVE  VInv
    OBVIOUS
  <2>1. head = NoHead /\ walk = IdleWalk /\ l1Tip \in Nat
    BY DEF Init
  <2> QED
    BY <2>1, IdleValid DEF VInv, HeadValid
<1>2. IInv /\ TInv /\ SInv /\ HInv /\ VInv /\ [Next]_vars => VInv'
  BY NextValid
<1> QED
  BY <1>1, <1>2, WalletTrue, WorldIsFit, HistoryIsLogged, PTL DEF Spec

\* Two ledgers with one root hold the same accounts and nullifiers.
LEMMA RootsBind ==
    ASSUME NEW l \in LedgerType, NEW m \in LedgerType, RootOf(l) = RootOf(m)
    PROVE  AgreeOn(l, m, Addrs)
<1>1. ComputeRoot(l) = ComputeRoot(m) /\ l.consumed = m.consumed
  BY DEF RootOf, StateRoot
<1>2. \A a \in Addrs : LeafOf(l, a) = LeafOf(m, a)
  BY <1>1, RootBinds
<1>3. \A a \in Addrs : l.balance[a] = m.balance[a] /\ l.nonce[a] = m.nonce[a]
  <2>1. \A k, a : LeafOf(k, a).balance = k.balance[a] /\ LeafOf(k, a).nonce = k.nonce[a]
    BY LeafHolds
  <2> SUFFICES ASSUME NEW a \in Addrs
               PROVE  l.balance[a] = m.balance[a] /\ l.nonce[a] = m.nonce[a]
    OBVIOUS
  <2>2. /\ LeafOf(l, a).balance = l.balance[a] /\ LeafOf(l, a).nonce = l.nonce[a]
        /\ LeafOf(m, a).balance = m.balance[a] /\ LeafOf(m, a).nonce = m.nonce[a]
    BY <2>1
  <2> QED
    BY <1>2, <2>2
<1> QED
  BY <1>1, <1>3 DEF AgreeOn, SameOn

\* No head lies beyond an invalid block: every block between the bootstrap and the
\* head applies in full to the ledger before it, leads to the ledger its header
\* commits to, and mints what the locks on L1 earn, though the sequencer built
\* what it liked and the node served it; the wallet saw one account of each ledger
\* (verify_one_l2_block).
THEOREM VerifiedIsAlwaysValid == Spec => []VerifiedIsValid
<1>1. TInv /\ SInv /\ HInv /\ VInv => VerifiedIsValid
  <2> SUFFICES ASSUME TInv, SInv, HInv, VInv, head # NoHead,
                      NEW h \in (booted + 1)..head.l2
               PROVE  /\ AllApply(LedgerAt(h - 1), chain[h].txs)
                      /\ Root(Replay(LedgerAt(h - 1), chain[h].txs)) = Root(LedgerAt(h))
                      /\ \A e \in Mints(chain[h].txs) : MintEarned(e)
    BY DEF VerifiedIsValid
  <2> DEFINE txs == chain[h].txs
             before == LedgerAt(h - 1)
  <2>1. /\ booted \in Nat /\ head.l2 \in Nat /\ head.l2 \in 0..Len(chain)
        /\ Len(chain) \in Nat /\ head.hash = Entries(chain, head.l2)
        /\ ValidAt(head.hash, h, l1Tip)
    BY SeqLen DEF HInv, HistoryLogged, Logged, TInv, Heights, Pinned, VInv, HeadValid,
                  AllValid
  <2>2. /\ h \in 1..(head.l2 + 1) /\ h + 1 \in 1..(head.l2 + 1) /\ (h + 1) - 1 = h
        /\ h # 0 /\ h - 1 \in 0..Len(chain) /\ h \in 0..Len(chain)
        /\ h \in 1..Len(chain)
    BY <2>1
  <2>3. head.hash[h] = Entry(chain, h - 1) /\ head.hash[h + 1] = Entry(chain, h)
    BY <2>1, <2>2 DEF Entries
  <2>4. /\ head.hash[h][3] = RootOf(before) /\ head.hash[h + 1][2] = txs
        /\ head.hash[h + 1][3] = RootOf(LedgerAt(h))
    <3>1. /\ \A k : Entry(chain, k)[2] = TxsIn(chain, k)
          /\ \A k : Entry(chain, k)[3] = RootOf(LedgerAt(k))
      BY LedgerAtIs DEF Entry
    <3> QED
      BY <2>2, <2>3, <3>1 DEF TxsIn
  <2>5. before \in LedgerType /\ LedgerAt(h) \in LedgerType
    BY <2>2, LedgerAtType DEF TInv, Heights, SInv
  <2> HIDE DEF txs, before
  <2>6. PICK l \in LedgerType :
           /\ RootOf(l) = RootOf(before)
           /\ AllGood(txs) /\ AllApply(l, txs)
           /\ RootOf(Replay(l, txs)) = RootOf(LedgerAt(h))
           /\ \A e \in Mints(txs) : EarnedBy(e, l1Tip)
    BY <2>1, <2>4 DEF ValidAt
  <2>7. AgreeOn(l, before, Addrs)
    BY <2>5, <2>6, RootsBind
  <2>8. \A i \in 1..Len(txs) : Touches(txs[i]) \subseteq Addrs
    BY <2>6, GoodTouches DEF AllGood
  <2>9. l \in WideLedger /\ before \in WideLedger /\ Addrs \in SUBSET Addrs
    BY <2>5, <2>6, NarrowIsWide
  <2>10. AllApply(before, txs) /\ AgreeOn(Replay(l, txs), Replay(before, txs), Addrs)
    BY <2>6, <2>7, <2>8, <2>9, RunsAgree
  <2>11. Replay(l, txs) \in LedgerType /\ Replay(before, txs) \in LedgerType
    BY <2>5, <2>6, <2>10, RunNarrow
  <2>12. AgreeOn(Replay(l, txs), LedgerAt(h), Addrs)
    BY <2>5, <2>6, <2>11, RootsBind
  <2>13. Root(Replay(before, txs)) = Root(LedgerAt(h))
    <3> DEFINE m == Replay(before, txs)
               k == LedgerAt(h)
    <3>1. /\ \A a \in Addrs : m.balance[a] = k.balance[a] /\ m.nonce[a] = k.nonce[a]
          /\ m.consumed = k.consumed
      BY <2>10, <2>12 DEF AgreeOn, SameOn
    <3>2. /\ m.balance \in [Addrs -> Amount] /\ k.balance \in [Addrs -> Amount]
          /\ m.nonce \in [Addrs -> Nat] /\ k.nonce \in [Addrs -> Nat]
      BY <2>5, <2>11 DEF LedgerType
    <3> HIDE DEF m, k
    <3>3. m.balance = k.balance /\ m.nonce = k.nonce
      BY <3>1, <3>2
    <3> QED
      BY <3>1, <3>3 DEF Root, m, k
  <2>14. \A e \in Mints(txs) : MintEarned(e)
    BY <2>6 DEF EarnedBy, MintEarned
  <2> QED
    BY <2>10, <2>13, <2>14 DEF txs, before
<1> QED
  BY <1>1, WalletTrue, WorldIsFit, HistoryIsLogged, HeadsAreValid, PTL
-----------------------------------------------------------------------------
(* While nobody lies.                                                      *)

\* What verifying the mint e asks of a lock output of the height given, but for
\* the tip.
Sound(e, height) ==
    LET p    == e.proof
        lock == LockOf[p.outpoint]
    IN  /\ p.lock \in 1..MaxLockBlocks
        /\ p.claimed >= height /\ p.claimed < Unlock(height, p.lock)
        /\ MintScript(p.pk, p.lock) = MintScript(lock.pk, lock.lock)
        /\ p.sig = Signature(p.pk, Sighash(p.outpoint, p.claimed, e.dest))
        /\ MintFn(lock.value, p.lock) # 0
        /\ EventOf(e) = [nullifier |-> p.outpoint, amount |-> MintFn(lock.value, p.lock),
                         dest |-> e.dest, create |-> height, lock |-> p.lock,
                         value |-> lock.value]
IsLocked(o, c) == o \in Outpoints /\ c[o] # 0
Stands(e, c, tip) ==
    /\ IsLocked(e.proof.outpoint, c) /\ Sound(e, c[e.proof.outpoint])
    /\ e.proof.claimed <= tip

LEMMA LockedIs == \A o : o \in Locked <=> IsLocked(o, confirmed)
BY DEF Locked, IsLocked

LEMMA StandsVerifies ==
    ASSUME SInv, NEW e, NEW tip \in Nat, Stands(e, confirmed, tip)
    PROVE  EntryVerifies(e, ViewAt(tip))
<1> DEFINE p == e.proof
           o == p.outpoint
           out == ViewAt(tip).outputs[o]
<1>1. o \in Locked /\ o \in Outpoints /\ confirmed[o] \in Nat
  BY LockedIs DEF Stands, IsLocked, SInv
<1>2. /\ out = OutputOf(o, confirmed[o],
                        IF confirmed[o] > tip THEN 1 ELSE tip - confirmed[o] + 1)
      /\ o \in DOMAIN ViewAt(tip).outputs /\ ViewAt(tip).tip = tip
  BY <1>1 DEF ViewAt
<1>3. /\ out.value = LockOf[o].value /\ out.height = confirmed[o]
      /\ out.script = MintScript(LockOf[o].pk, LockOf[o].lock)
      /\ out.confirmations = IF confirmed[o] > tip THEN 1 ELSE tip - confirmed[o] + 1
  BY <1>2 DEF OutputOf
<1>4. out.confirmations >= MintConfirmations
  BY <1>1, <1>3 DEF MintConfirmations
<1> DEFINE view == ViewAt(tip)
<1>5. /\ o \in DOMAIN view.outputs /\ view.tip = tip /\ out = view.outputs[o]
  BY <1>2
<1> HIDE DEF view, out
<1>6. Authorises(p, view, e.dest)
  BY <1>3, <1>4, <1>5 DEF Authorises, InLockPeriod, Stands, Sound
<1>7. Credit(p, view, e.dest) = EventOf(e)
  BY <1>3, <1>5 DEF Credit, Stands, Sound
<1> QED
  BY <1>6, <1>7 DEF EntryVerifies, view

\* The height at which the sequencer saw a lock output.
SeenAt(o, tears) == IF o \in tears THEN confirmed[o] + 1 ELSE confirmed[o]

LEMMA SeenOutput ==
    ASSUME NEW tears, NEW o, o \in DOMAIN SequencerView(tears).outputs
    PROVE  LET out == SequencerView(tears).outputs[o]
           IN  /\ o \in Locked
               /\ out.value = LockOf[o].value /\ out.height = SeenAt(o, tears)
               /\ out.script = MintScript(LockOf[o].pk, LockOf[o].lock)
BY DEF SequencerView, OutputOf, SeenAt

LEMMA SequencerVerifies ==
    ASSUME NEW e, NEW tears, EntryVerifies(e, SequencerView(tears))
    PROVE  /\ IsLocked(e.proof.outpoint, confirmed)
           /\ Sound(e, SeenAt(e.proof.outpoint, tears))
           /\ e.proof.claimed <= l1Tip + Cardinality(tears)
           /\ e.create = SeenAt(e.proof.outpoint, tears)
<1> DEFINE p == e.proof
           o == p.outpoint
           view == SequencerView(tears)
           out == view.outputs[o]
<1>1. Authorises(p, view, e.dest) /\ Credit(p, view, e.dest) = EventOf(e)
  BY DEF EntryVerifies
<1>2. o \in DOMAIN view.outputs
  BY <1>1 DEF Authorises
<1>3. /\ o \in Locked
      /\ out.value = LockOf[o].value /\ out.height = SeenAt(o, tears)
      /\ out.script = MintScript(LockOf[o].pk, LockOf[o].lock)
  BY <1>2, SeenOutput
<1>4. view.tip = l1Tip + Cardinality(tears)
  BY DEF SequencerView
<1> HIDE DEF view
<1>5. Sound(e, SeenAt(o, tears)) /\ p.claimed <= view.tip
  BY <1>1, <1>3 DEF Authorises, InLockPeriod, Credit, Sound
<1>6. e.create = SeenAt(o, tears)
  <2>1. EventOf(e).create = e.create
    BY DEF EventOf
  <2> QED
    BY <1>5, <2>1 DEF Sound
<1> QED
  BY <1>3, <1>4, <1>5, <1>6, LockedIs

\* An order of a set has each of its elements once.
LEMMA OrderOnce ==
    ASSUME NEW S, IsFiniteSet(S)
    PROVE  LET s == InSomeOrder(S)
           IN  /\ \A i, j \in DOMAIN s : s[i] = s[j] => i = j
               /\ \A x \in S : \E i \in DOMAIN s : s[i] = x
<1> DEFINE n == Cardinality(S)
           s == InSomeOrder(S)
<1>1. n \in Nat /\ s \in [1..n -> S] /\ ExistsBijection(1..n, S)
  BY OrderIs, FS_CardinalityType
<1>2. PICK t : t \in [1..n -> S] /\ IsInjective(t)
  BY <1>1 DEF ExistsBijection, Bijection, Injection
<1>3. \A i, j \in DOMAIN t : t[i] = t[j] => i = j
  BY <1>2 DEF IsInjective
<1>4. \A i, j \in DOMAIN s : s[i] = s[j] => i = j
  BY <1>2, <1>3 DEF InSomeOrder
<1> HIDE DEF s, n
<1>5. s \in Injection(1..n, S)
  BY <1>1, <1>4 DEF Injection, IsInjective
<1>6. Cardinality(1..n) = n /\ IsFiniteSet(1..n)
  BY <1>1, FS_Interval
<1>7. s \in Surjection(1..n, S)
  BY <1>5, <1>6, FS_Injection DEF n
<1>8. \A x \in S : \E i \in DOMAIN s : s[i] = x
  BY <1>1, <1>7 DEF Surjection
<1> QED
  BY <1>4, <1>8 DEF s

\* The witness of a block is one proof of each account it touches.
IsWitness(w, l, txs, h) ==
    /\ ShapedWitness(w) /\ w.height = h /\ w.prior = ComputeRoot(l)
    /\ ProofAddresses(w) = TouchedAddresses(txs) /\ ProofAddresses(w) \subseteq Addrs
    /\ Len(w.proofs) = Cardinality(ProofAddresses(w))
    /\ \A i \in DOMAIN w.proofs : w.proofs[i] = ComputeProof(l, w.proofs[i].address)
    /\ \A i, j \in DOMAIN w.proofs : w.proofs[i].address = w.proofs[j].address => i = j

LEMMA BuiltWitness ==
    ASSUME NEW l, NEW txs, AllGood(txs), NEW h
    PROVE  IsWitness(BuildWitness(l, txs, h), l, txs, h)
<1> DEFINE T == TouchedAddresses(txs)
           s == InSomeOrder(T)
           n == Cardinality(T)
           w == BuildWitness(l, txs, h)
<1>1. IsFiniteSet(T) /\ T \subseteq Addrs
  <2>1. \A i \in 1..Len(txs) : Touches(txs[i]) \subseteq Addrs
    BY GoodTouches DEF AllGood
  <2> QED
    BY <2>1, TouchesAll, TouchedFinite DEF AllGood
<1>2. n \in Nat /\ s \in [1..n -> T]
  BY <1>1, OrderIs
<1>3. /\ \A i, j \in DOMAIN s : s[i] = s[j] => i = j
      /\ \A x \in T : \E i \in DOMAIN s : s[i] = x
  BY <1>1, OrderOnce
<1>4. /\ w.height = h /\ w.prior = ComputeRoot(l)
      /\ w.proofs = [i \in DOMAIN s |-> ComputeProof(l, s[i])]
  BY DEF BuildWitness
<1>5. ShapedWitness(w)
  BY BuiltShaped DEF AllGood
<1> HIDE DEF s, n, w
<1>6. DOMAIN w.proofs = 1..n /\ DOMAIN s = 1..n /\ Len(w.proofs) = n
  <2>1. DOMAIN w.proofs = 1..n /\ DOMAIN s = 1..n
    BY <1>2, <1>4
  <2>2. IsSeq(w.proofs)
    BY <1>5 DEF ShapedWitness
  <2>3. Len(w.proofs) \in Nat /\ DOMAIN w.proofs = 1..Len(w.proofs)
    BY <2>2, SeqLen
  <2>4. Len(w.proofs) = n
    BY <1>2, <2>1, <2>3
  <2> QED
    BY <2>1, <2>4
<1>7. \A i \in 1..n : w.proofs[i] = ComputeProof(l, s[i]) /\ w.proofs[i].address = s[i]
  BY <1>4, <1>6 DEF ComputeProof
<1>8. ProofAddresses(w) = T
  <2>1. \A x \in ProofAddresses(w) : x \in T
    BY <1>2, <1>6, <1>7 DEF ProofAddresses
  <2>2. \A x \in T : x \in ProofAddresses(w)
    BY <1>3, <1>6, <1>7 DEF ProofAddresses
  <2> QED
    BY <2>1, <2>2
<1>9. \A i, j \in 1..n : w.proofs[i].address = w.proofs[j].address => i = j
  BY <1>3, <1>6, <1>7
<1> QED
  BY <1>1, <1>4, <1>5, <1>6, <1>7, <1>8, <1>9 DEF w, n, IsWitness

\* A block that applies to the ledger the head commits to, with mints that stand,
\* is accepted with the witness that is built for it.
LEMMA GoodIsAccepted ==
    ASSUME SInv, NEW l \in LedgerType, Backs(l, walk.work), walk.tip \in Nat,
           Proves(walk.work, Own), NEW b, AllFit(b.txs), AllApply(l, b.txs),
           \A e \in Mints(b.txs) : Stands(e, confirmed, walk.tip),
           NEW h, b.header.height = h, b.txs = b.header.txsRoot,
           b.header.prev = walk.work.hash, b.header.root = RootOf(Replay(l, b.txs)),
           NEW last, last => HashOf(b.header) = Step.att.hash
                             /\ b.header.root = Step.att.root
    PROVE  Accepts(b, BuildWitness(l, b.txs, h), h, last)
<1> DEFINE w == BuildWitness(l, b.txs, h)
           A == ProofAddresses(w)
           s == SparseLedger(w)
           m == Replay(l, b.txs)
           after == Replay(s, b.txs)
           us == UpdatesOf(w, after)
           own == ProofUnder(Own, walk.work)
           x == NewHead(b, w, h)
<1>1. \A e \in Mints(b.txs) : EntryVerifies(e, ViewAt(walk.tip))
  BY StandsVerifies
<1>2. AllGood(b.txs)
  BY <1>1, VerifiedTxs
<1>3. /\ ShapedWitness(w) /\ w.height = h /\ w.prior = ComputeRoot(l)
      /\ A = TouchedAddresses(b.txs) /\ A \subseteq Addrs
      /\ Len(w.proofs) = Cardinality(A)
      /\ \A i \in DOMAIN w.proofs : w.proofs[i] = ComputeProof(l, w.proofs[i].address)
      /\ \A i, j \in DOMAIN w.proofs : w.proofs[i].address = w.proofs[j].address => i = j
  <2>1. IsWitness(w, l, b.txs, h)
    BY <1>2, BuiltWitness
  <2> QED
    BY <2>1 DEF IsWitness
<1>4. WellFormed(b, w, h, last)
  BY <1>3 DEF WellFormed, Backs
<1> HIDE DEF w
<1>5. \A i \in DOMAIN w.proofs : ProofVerifies(w.proofs[i], ComputeRoot(l))
  <2> SUFFICES ASSUME NEW i \in DOMAIN w.proofs
               PROVE  ProofVerifies(w.proofs[i], ComputeRoot(l))
    OBVIOUS
  <2>1. w.proofs[i].address \in Addrs
    BY <1>3 DEF ProofAddresses
  <2> QED
    BY <1>3, <2>1, MadeProofVerifies
<1>6. s \in LedgerType /\ AgreeOn(l, s, A) /\ PathsOf(l, w)
  BY <1>3, <1>5, SparseIs DEF Backs
<1>7. /\ \A i \in 1..Len(b.txs) : Touches(b.txs[i]) \subseteq A
      /\ l \in WideLedger /\ s \in WideLedger /\ A \in SUBSET Addrs
  BY <1>3, <1>6, TouchesAll, NarrowIsWide DEF AllFit
<1> HIDE DEF s, A
<1>8. /\ AllApply(s, b.txs) /\ AgreeOn(m, after, A)
      /\ SameOn(m.balance, l.balance, Addrs \ A)
      /\ SameOn(m.nonce, l.nonce, Addrs \ A)
  BY <1>2, <1>6, <1>7, RunsAgree
<1> HIDE DEF m, after
<1>9. Update(us, l, m) /\ ApplyUpdates(us, ComputeRoot(l)) = ComputeRoot(m)
  <2>1. Changes(l, m, after, w)
    BY <1>7, <1>8 DEF Changes, A
  <2> QED
    BY <1>3, <1>6, <2>1, UpdatesChange, UpdatesAre
<1>10. SparseUpdateSound(us)
  <2>1. DOMAIN us = DOMAIN w.proofs /\ \A i \in DOMAIN us : us[i].proof = w.proofs[i]
    BY DEF UpdatesOf
  <2> HIDE DEF us
  <2>2. UpdatesValid(us, walk.work.accounts)
    BY <1>3, <1>5, <2>1 DEF UpdatesValid, Backs
  <2> QED
    BY <2>2 DEF SparseUpdateSound, Proves, ProofUnder
<1>11. /\ x.accounts = ApplyUpdates(us, walk.work.accounts)
       /\ x.consumed = after.consumed
       /\ x.leaf = RefreshObserver(us, own).leaf
       /\ x.path = RefreshObserver(us, own).siblings
  BY DEF NewHead, ProofUnder, after, s
<1> HIDE DEF us, x
<1>12. x.accounts = ComputeRoot(m) /\ x.consumed = m.consumed
  BY <1>8, <1>9, <1>11 DEF Backs, AgreeOn
<1>13. own = ComputeProof(l, Own)
  <2>1. own.address = Own
    BY DEF ProofUnder
  <2>2. own.leaf = LeafOf(l, Own) /\ own.siblings = ComputeProof(l, Own).siblings
    BY <2>1, ProofBinds DEF Backs, Proves
  <2>3. own = [address |-> own.address, leaf |-> own.leaf, siblings |-> own.siblings]
    BY DEF ProofUnder
  <2>4. ComputeProof(l, Own)
        = [address |-> Own, leaf |-> LeafOf(l, Own),
           siblings |-> ComputeProof(l, Own).siblings]
    BY DEF ComputeProof
  <2> QED
    BY <2>1, <2>2, <2>3, <2>4
<1>14. /\ x.leaf = LeafOf(m, Own) /\ x.path = ComputeProof(m, Own).siblings
       /\ Own \in Addrs
  <2>1. Own \in Addrs
    BY LightAssumption
  <2> QED
    BY <1>9, <1>11, <1>13, <2>1, ObserverIsRefreshed
<1>15. ProofVerifies([address |-> Own, leaf |-> x.leaf, siblings |-> x.path], x.accounts)
  <2> DEFINE p == ComputeProof(m, Own)
             q == [address |-> Own, leaf |-> x.leaf, siblings |-> x.path]
  <2>1. p.address = Own /\ p.leaf = LeafOf(m, Own)
    BY DEF ComputeProof
  <2>2. ProofVerifies(p, ComputeRoot(m))
    BY <1>14, MadeProofVerifies
  <2>3. p.address = q.address /\ p.leaf = q.leaf /\ p.siblings = q.siblings
    BY <1>14, <2>1
  <2> HIDE DEF p, q
  <2>4. ProofVerifies(q, ComputeRoot(m))
    BY <2>2, <2>3, SameProof
  <2> QED
    BY <1>12, <2>4 DEF q
<1>16. StateRoot(x.accounts, x.consumed) = b.header.root
  BY <1>12 DEF RootOf, m
<1> QED
  BY <1>1, <1>4, <1>8, <1>10, <1>15, <1>16 DEF Accepts, x, us, after, s, w

-----------------------------------------------------------------------------
\* A queued mint is of a lock in L1; it says at which height, but for one that was
\* submitted while a block arrived.
PendingOk(p, c, t) ==
    \A e \in p : LET o == e.proof.outpoint
                 IN  IsLocked(o, c) /\ (e.create = c[o] \/ t >= 1)

\* A block of a sequencer that does not lie.
BlockOk(b, before, c, tip) ==
    /\ AllApply(before, b.txs) /\ b.ledger = Replay(before, b.txs)
    /\ \A e \in Mints(b.txs) : Stands(e, c, tip)
ChainOk(ch, c, tip) == \A h \in 1..Len(ch) : BlockOk(ch[h], LedgerIn(ch, h - 1), c, tip)

\* The work of a walk is the chain itself; the mints of the blocks it is to verify
\* are not in the future of its tip.
Covers(tip, ch, h) == \A e \in Mints(ch[h].txs) : e.proof.claimed <= tip
WalkOk(w, ch) ==
    /\ w.work # NoHead => w.work.l2 \in 0..Len(ch) /\ w.work.hash = Entries(ch, w.work.l2)
    /\ w.at = "blocks" => \A i \in 1..Len(w.steps) :
                             \A h \in 1..w.steps[i].att.height : Covers(w.tip, ch, h)

NInv ==
    Honest => /\ PendingOk(pending, confirmed, torn)
              /\ ChainOk(chain, confirmed, l1Tip)
              /\ WalkOk(walk, chain) /\ ~rejected

LEMMA HonestBefore ==
    ASSUME CountersAre, [Next]_vars, Honest'
    PROVE  /\ Honest /\ lies' = lies /\ torn <= torn' /\ torn' <= 1
           /\ \A o \in Outpoints : ~MoveLock(o)
<1>0. Honest' => lies' = 0 /\ moves' = 0 /\ torn' <= 1
  BY DEF Honest
<1>1. CASE \/ NewL1Block \/ NodeStep \/ WalkStep \/ WalkDone \/ GetTip \/ SkipKnown
           \/ WalkForwardDone \/ ShowOwn \/ UNCHANGED vars
           \/ \E o \in Outpoints : ConfirmLock(o) \/ ReclaimLock(o)
           \/ \E ask \in Targets : Refresh(ask)
  <2>1. UNCHANGED counters
    BY <1>1 DEF NewL1Block, NodeStep, NodeAppliesBlock, NodeStoresBlock,
         NodeRecordsSpend, WalkStep, WalkDone, GetTip, SkipKnown, WalkForwardDone,
         ShowOwn, vars, ConfirmLock, ReclaimLock, Refresh
  <2>2. \A o \in Outpoints : ~MoveLock(o)
    BY <2>1 DEF MoveLock, counters, CountersAre
  <2> QED
    BY <1>0, <2>1, <2>2 DEF CountersAre, counters, Honest
<1>2. CASE \/ \E o \in Outpoints : MoveLock(o)
           \/ ProduceAnyBlock \/ Interrupted
           \/ \E h \in 1..Len(chain) : Attest(h)
  BY <1>0, <1>2 DEF MoveLock, ProduceAnyBlock, Interrupted, Attest, Lie, CountersAre,
                    Honest
<1>3. CASE \/ \E o \in Outpoints, claimed \in {l1Tip}, tears \in Tears :
                 SubmitMint(o, claimed, tears)
           \/ \E tears \in Tears : ProduceBlock(tears)
  <2>1. PICK tears \in Tears : Reads(tears) /\ UNCHANGED <<lies, moves, faults>>
    BY <1>3 DEF SubmitMint, ProduceBlock
  <2>2. Cardinality(tears) \in Nat /\ torn' = torn + Cardinality(tears)
    BY <2>1, TearsAre DEF Reads
  <2>3. \A o \in Outpoints : ~MoveLock(o)
    BY <2>1 DEF MoveLock, CountersAre
  <2> QED
    BY <1>0, <2>1, <2>2, <2>3 DEF CountersAre, Honest
<1>4. CASE GetBalance \/ GetNullifiers \/ VerifyBlock \/ ShowOther
  <2>1. UNCHANGED <<torn, moves, faults>> /\ (Lie \/ UNCHANGED lies)
    BY <1>4 DEF GetBalance, GetNullifiers, VerifyBlock, ShowOther, Colludes
  <2>2. \A o \in Outpoints : ~MoveLock(o)
    BY <2>1 DEF MoveLock, CountersAre
  <2> QED
    BY <1>0, <2>1, <2>2 DEF Lie, CountersAre, Honest
<1> QED
  BY <1>1, <1>2, <1>3, <1>4 DEF Next, World, WalletStep

\* Locks stay where they are mined.
Fixed(c, d) == \A o : IsLocked(o, c) => IsLocked(o, d) /\ d[o] = c[o]

LEMMA OkStays ==
    ASSUME NEW c, NEW d, Fixed(c, d), NEW tip \in Int, NEW tip1 \in Int, tip <= tip1,
           NEW t \in Int, NEW t1 \in Int, t <= t1
    PROVE  /\ \A p : PendingOk(p, c, t) => PendingOk(p, d, t1)
           /\ \A e : e.proof.claimed \in Int /\ Stands(e, c, tip) => Stands(e, d, tip1)
<1>1. \A p : PendingOk(p, c, t) => PendingOk(p, d, t1)
  <2> SUFFICES ASSUME NEW p, PendingOk(p, c, t), NEW e \in p
               PROVE  LET o == e.proof.outpoint
                      IN  IsLocked(o, d) /\ (e.create = d[o] \/ t1 >= 1)
    BY DEF PendingOk
  <2> DEFINE o == e.proof.outpoint
  <2>1. IsLocked(o, c) /\ (e.create = c[o] \/ t >= 1)
    BY DEF PendingOk
  <2>2. IsLocked(o, d) /\ d[o] = c[o]
    BY <2>1 DEF Fixed
  <2>3. t >= 1 => t1 >= 1
    OBVIOUS
  <2> QED
    BY <2>1, <2>2, <2>3
<1>2. ASSUME NEW e, e.proof.claimed \in Int, Stands(e, c, tip)
      PROVE  Stands(e, d, tip1)
  <2> DEFINE o == e.proof.outpoint
             k == e.proof.claimed
  <2>1. IsLocked(o, c) /\ Sound(e, c[o]) /\ k <= tip /\ k \in Int
    BY <1>2 DEF Stands
  <2>2. IsLocked(o, d) /\ d[o] = c[o]
    BY <2>1 DEF Fixed
  <2> HIDE DEF k
  <2>3. k <= tip1
    BY <2>1
  <2> QED
    BY <2>1, <2>2, <2>3 DEF Stands, k
<1> QED
  BY <1>1, <1>2

LEMMA MintsFit ==
    ASSUME NEW txs, AllFit(txs), NEW e \in Mints(txs)
    PROVE  MintFits(e) /\ \E i \in 1..Len(txs) : e = txs[i] /\ e.type = "mint"
<1>1. DOMAIN txs = 1..Len(txs)
  BY LenProperties DEF AllFit, IsSeq
<1>2. PICK i \in 1..Len(txs) : e = txs[i] /\ e.type = "mint"
  BY <1>1 DEF Mints
<1>3. MintFits(e)
  BY <1>2, TransferFields DEF AllFit, TxFits
<1> QED
  BY <1>2, <1>3

LEMMA ChainStays ==
    ASSUME IsSeq(chain), SInv, ChainOk(chain, confirmed, l1Tip), NEW d,
           Fixed(confirmed, d), NEW tip \in Int, l1Tip <= tip
    PROVE  ChainOk(chain, d, tip)
<1>1. SUFFICES ASSUME NEW h \in 1..Len(chain)
               PROVE  BlockOk(chain[h], LedgerIn(chain, h - 1), d, tip)
  BY DEF ChainOk
<1>2. BlockOk(chain[h], LedgerIn(chain, h - 1), confirmed, l1Tip)
  BY DEF ChainOk
<1>3. ASSUME NEW e \in Mints(chain[h].txs)
      PROVE  Stands(e, d, tip)
  <2>1. AllFit(chain[h].txs)
    BY DEF SInv, Contents, BlockFits
  <2>2. MintFits(e)
    BY <2>1, MintsFit
  <2>3. e.proof.claimed \in Int /\ Stands(e, confirmed, l1Tip)
    BY <1>2, <2>2 DEF MintFits, BlockOk
  <2>4. l1Tip \in Int /\ 0 \in Int /\ 0 <= 0
    BY DEF SInv
  <2> QED
    BY <2>3, <2>4, OkStays
<1> QED
  BY <1>2, <1>3 DEF BlockOk

\* A block that is put on a good chain.
LEMMA ChainGrows ==
    ASSUME NEW ch, IsSeq(ch), NEW c, NEW tip, ChainOk(ch, c, tip), NEW b,
           BlockOk(b, LedgerIn(ch, Len(ch)), c, tip)
    PROVE  ChainOk(Append(ch, b), c, tip)
<1> DEFINE d == Append(ch, b)
           n == Len(ch)
<1>1. /\ n \in Nat /\ Len(d) = n + 1 /\ \A i \in 1..n : d[i] = ch[i]
      /\ d[n + 1] = b
  BY Appended
<1>2. Prolongs(ch, d)
  BY GrowsByOne
<1> HIDE DEF d
<1>3. ASSUME NEW h \in 1..(n + 1)
      PROVE  BlockOk(d[h], LedgerIn(d, h - 1), c, tip)
  <2>1. h - 1 \in 0..n /\ (h \in 1..n \/ h = n + 1) /\ (n + 1) - 1 = n
    BY <1>1
  <2>2. LedgerIn(d, h - 1) = LedgerIn(ch, h - 1)
    BY <1>2, <2>1, SameEntries
  <2>3. CASE h \in 1..n
    BY <1>1, <2>2, <2>3 DEF ChainOk
  <2>4. CASE h = n + 1
    BY <1>1, <2>1, <2>2, <2>4
  <2> QED
    BY <2>1, <2>3, <2>4
<1> QED
  BY <1>1, <1>3 DEF ChainOk, d

LEMMA WalkOkStays ==
    ASSUME NEW w, NEW c, NEW d, Prolongs(c, d), WalkOk(w, c),
           \A i \in 1..Len(w.steps) : w.steps[i].att.height \in 0..Len(c)
    PROVE  WalkOk(w, d)
<1>1. Len(c) \in Nat
  BY SeqLen DEF Prolongs
<1>2. w.work # NoHead => w.work.l2 \in 0..Len(d) /\ w.work.hash = Entries(d, w.work.l2)
  BY SameEntries, SameReport DEF WalkOk
<1>3. ASSUME w.at = "blocks", NEW i \in 1..Len(w.steps),
             NEW h \in 1..w.steps[i].att.height
      PROVE  Covers(w.tip, d, h)
  <2> DEFINE k == w.steps[i].att.height
  <2>1. k \in 0..Len(c) /\ h \in 1..k
    OBVIOUS
  <2>2. Covers(w.tip, c, h)
    BY <1>3 DEF WalkOk
  <2> HIDE DEF k
  <2>3. h \in 1..Len(c)
    BY <1>1, <2>1
  <2>4. d[h] = c[h]
    BY <2>3 DEF Prolongs
  <2> QED
    BY <2>2, <2>4 DEF Covers
<1> QED
  BY <1>2, <1>3 DEF WalkOk

LEMMA StepsBelow ==
    ASSUME TInv
    PROVE  \A i \in 1..Len(walk.steps) : walk.steps[i].att.height \in 0..Len(chain)
<1> SUFFICES ASSUME NEW i \in 1..Len(walk.steps)
             PROVE  walk.steps[i].att.height \in 0..Len(chain)
  OBVIOUS
<1>1. Reported(walk.steps[i], chain, atts)
  BY DEF TInv, WalkTrue, StepsAre
<1>2. walk.steps[i].att.height \in 1..Len(chain)
  BY <1>1 DEF Reported, Report, TInv, Heights
<1>3. Len(chain) \in Nat
  BY SeqLen DEF TInv, Heights
<1> QED
  BY <1>2, <1>3

LEMMA LocksStay ==
    ASSUME SInv, World, \A o \in Outpoints : ~MoveLock(o)
    PROVE  Fixed(confirmed, confirmed')
<1>1. \/ confirmed' = confirmed
      \/ \E o \in Outpoints : /\ confirmed[o] = 0
                              /\ confirmed' = [confirmed EXCEPT ![o] = l1Tip + 1]
  BY DEF World, NewL1Block, ConfirmLock, ReclaimLock, SubmitMint, ProduceBlock,
         ProduceAnyBlock, Attest
<1>2. CASE confirmed' = confirmed
  BY <1>2 DEF Fixed
<1>3. CASE \E o \in Outpoints : /\ confirmed[o] = 0
                                /\ confirmed' = [confirmed EXCEPT ![o] = l1Tip + 1]
  <2>1. PICK o \in Outpoints : /\ confirmed[o] = 0
                               /\ confirmed' = [confirmed EXCEPT ![o] = l1Tip + 1]
    BY <1>3
  <2>2. confirmed \in [Outpoints -> 0..l1Tip]
    BY DEF SInv
  <2>3. ASSUME NEW x, IsLocked(x, confirmed)
        PROVE  IsLocked(x, confirmed') /\ confirmed'[x] = confirmed[x]
    <3>1. x \in Outpoints /\ x # o
      BY <2>1, <2>3 DEF IsLocked
    <3> QED
      BY <2>1, <2>2, <2>3, <3>1 DEF IsLocked
  <2> QED
    BY <2>3 DEF Fixed
<1> QED
  BY <1>1, <1>2, <1>3

\* A mint that verifies a second time, when at most one block ever arrived inside
\* get_output, says the height its lock has.
LEMMA ReverifiedStands ==
    ASSUME SInv, CountersAre, PendingOk(pending, confirmed, torn),
           NEW tears \in Tears, torn + Cardinality(tears) <= 1,
           NEW e \in pending, EntryVerifies(e, SequencerView(tears))
    PROVE  Stands(e, confirmed, l1Tip + Cardinality(tears))
<1> DEFINE o == e.proof.outpoint
<1>1. /\ IsLocked(o, confirmed) /\ Sound(e, SeenAt(o, tears))
      /\ e.proof.claimed <= l1Tip + Cardinality(tears)
      /\ e.create = SeenAt(o, tears)
  BY SequencerVerifies
<1>2. e.create = confirmed[o] \/ torn >= 1
  BY DEF PendingOk
<1>3. confirmed[o] \in Nat /\ torn \in Nat
  BY <1>1 DEF SInv, IsLocked, CountersAre
<1>4. o \notin tears
  <2> SUFFICES ASSUME o \in tears
               PROVE  FALSE
    OBVIOUS
  <2>1. Cardinality(tears) = 1
    <3>1. tears = {} \/ \E x : tears = {x}
      BY DEF Tears
    <3> QED
      BY <3>1, FS_Singleton
  <2>2. e.create = confirmed[o] + 1
    BY <1>1 DEF SeenAt
  <2> QED
    BY <1>2, <1>3, <2>1, <2>2
<1> QED
  BY <1>1, <1>4 DEF Stands, SeenAt

LEMMA ProduceBlockOk ==
    ASSUME IsSeq(chain), SInv, CountersAre, PendingOk(pending, confirmed, torn),
           ChainOk(chain, confirmed, l1Tip), NEW tears \in Tears, ProduceBlock(tears),
           torn' <= 1
    PROVE  PendingOk(pending', confirmed, torn) /\ ChainOk(chain', confirmed, l1Tip')
<1> DEFINE good == Reverified(SequencerView(tears))
           before == LedgerAt(Len(chain))
<1>1. PICK txs \in TxSeqs(good \cup Transfers) :
         /\ AllApply(before, txs)
         /\ chain' = Append(chain, [txs |-> txs, ledger |-> Replay(before, txs)])
         /\ pending' = good \ Mints(txs)
  BY DEF ProduceBlock
<1>2. /\ l1Tip' = l1Tip + Cardinality(tears) /\ torn' = torn + Cardinality(tears)
      /\ Cardinality(tears) \in Nat
  BY TearsAre DEF ProduceBlock, Reads
<1>3. \A e \in good : e \in pending /\ Stands(e, confirmed, l1Tip')
  BY <1>2, ReverifiedStands DEF Reverified
<1>4. \A e \in Mints(txs) : Stands(e, confirmed, l1Tip')
  <2>1. PICK n \in 1..MaxTxs : txs \in [1..n -> good \cup Transfers]
    BY <1>1 DEF TxSeqs
  <2> HIDE DEF good
  <2>2. \A e \in Mints(txs) : e \in good
    BY <2>1, TransferFields DEF Mints
  <2> QED
    BY <1>3, <2>2
<1>5. ChainOk(chain, confirmed, l1Tip') /\ l1Tip \in Int /\ l1Tip' \in Int
  <2>1. Fixed(confirmed, confirmed)
    BY DEF Fixed
  <2>2. l1Tip \in Nat /\ l1Tip' \in Int /\ l1Tip <= l1Tip'
    BY <1>2 DEF SInv
  <2> QED
    BY <2>1, <2>2, ChainStays
<1> DEFINE b == [txs |-> txs, ledger |-> Replay(before, txs)]
<1>6. BlockOk(b, LedgerIn(chain, Len(chain)), confirmed, l1Tip')
  BY <1>1, <1>4, LedgerAtIs DEF BlockOk
<1> HIDE DEF b, good
<1>7. ChainOk(Append(chain, b), confirmed, l1Tip')
  BY <1>5, <1>6, ChainGrows
<1>8. PendingOk(pending', confirmed, torn)
  BY <1>1, <1>3 DEF PendingOk
<1> QED
  BY <1>1, <1>7, <1>8 DEF b

LEMMA SubmitMintOk ==
    ASSUME SInv, CountersAre, PendingOk(pending, confirmed, torn),
           NEW o \in Outpoints, NEW claimed, NEW tears \in Tears,
           SubmitMint(o, claimed, tears)
    PROVE  PendingOk(pending', confirmed, torn')
<1> DEFINE p == ProofOf(o, claimed)
           view == SequencerView(tears)
           e == MintEntry(Credit(p, view, LockOf[o].dest), p)
           out == view.outputs[o]
<1>1. Authorises(p, view, LockOf[o].dest) /\ pending' = pending \cup {e}
  BY DEF SubmitMint
<1>2. p.outpoint = o /\ e.proof = p /\ e.create = out.height
  BY DEF ProofOf, MintEntry, Credit
<1>3. o \in DOMAIN view.outputs
  BY <1>1, <1>2 DEF Authorises
<1>4. o \in Locked /\ out.height = SeenAt(o, tears)
  BY <1>3, SeenOutput
<1>5. torn' = torn + Cardinality(tears) /\ Cardinality(tears) \in Nat /\ torn \in Nat
  BY TearsAre DEF SubmitMint, Reads, CountersAre
<1> HIDE DEF p, view, e, out
<1>6. IsLocked(o, confirmed) /\ (e.create = confirmed[o] \/ torn' >= 1)
  <2>1. CASE o \notin tears
    BY <1>2, <1>4, <2>1, LockedIs DEF SeenAt
  <2>2. CASE o \in tears
    <3>1. tears = {} \/ \E x : tears = {x}
      BY DEF Tears
    <3>2. Cardinality(tears) = 1
      BY <2>2, <3>1, FS_Singleton
    <3>3. torn' >= 1
      BY <1>5, <3>2
    <3> QED
      BY <1>4, <3>3, LockedIs
  <2> QED
    BY <2>1, <2>2
<1>7. PendingOk(pending, confirmed, torn')
  <2>1. torn >= 1 => torn' >= 1
    BY <1>5
  <2> QED
    BY <2>1 DEF PendingOk
<1> QED
  BY <1>1, <1>2, <1>6, <1>7 DEF PendingOk

LEMMA WorldHonest ==
    ASSUME TInv, SInv, KInv, NInv, [Next]_vars, World
    PROVE  NInv'
<1> SUFFICES ASSUME Honest'
             PROVE  /\ PendingOk(pending', confirmed', torn')
                    /\ ChainOk(chain', confirmed', l1Tip')
                    /\ WalkOk(walk', chain') /\ ~rejected'
  BY DEF NInv
<1>1. /\ Honest /\ lies' = lies /\ torn <= torn' /\ torn' <= 1
      /\ \A o \in Outpoints : ~MoveLock(o)
  BY HonestBefore DEF KInv
<1>2. /\ PendingOk(pending, confirmed, torn) /\ ChainOk(chain, confirmed, l1Tip)
      /\ WalkOk(walk, chain) /\ ~rejected
  BY <1>1 DEF NInv
<1>3. /\ IsSeq(chain) /\ CountersAre /\ Fixed(confirmed, confirmed')
      /\ l1Tip \in Nat /\ l1Tip' \in Nat /\ l1Tip <= l1Tip'
      /\ lies \in Nat /\ torn \in Nat
  BY <1>1, LocksStay, L1Grows DEF TInv, Heights, KInv, SInv, HeightsAre, CountersAre
<1>4. walk' = walk /\ ~rejected'
  <2>1. walk' = walk /\ rejected' = rejected
    BY DEF World, NewL1Block, ConfirmLock, ReclaimLock, MoveLock, SubmitMint, ProduceBlock,
           ProduceAnyBlock, Attest, walletVars
  <2> HIDE DEF NInv
  <2>2. rejected' = rejected => (~rejected => ~rejected')
    OBVIOUS
  <2> QED
    BY <1>2, <2>1, <2>2, Zenon
<1>5. WalkOk(walk', chain')
  <2>1. Prolongs(chain, chain')
    <3>1. \/ UNCHANGED chain \/ \E b : chain' = Append(chain, b)
      BY DEF World, NewL1Block, ConfirmLock, ReclaimLock, MoveLock, SubmitMint,
             ProduceBlock, ProduceAnyBlock, Attest
    <3> QED
      BY <1>3, <3>1, GrowsByOne, GrowsByNone
  <2> QED
    BY <1>2, <1>4, <2>1, StepsBelow, WalkOkStays
<1>6. PendingOk(pending', confirmed', torn') /\ ChainOk(chain', confirmed', l1Tip')
  <2>1. CASE UNCHANGED <<pending, chain, torn>>
    <3>1. torn' \in Int /\ 0 \in Int /\ 0 <= 0
      BY <1>3, <2>1
    <3>2. PendingOk(pending, confirmed', torn')
      BY <1>1, <1>2, <1>3, <3>1, OkStays
    <3>3. ChainOk(chain, confirmed', l1Tip')
      BY <1>2, <1>3, ChainStays
    <3> QED
      BY <2>1, <3>2, <3>3
  <2>2. CASE \E o \in Outpoints, claimed \in {l1Tip}, tears \in Tears :
                SubmitMint(o, claimed, tears)
    <3>1. PICK o \in Outpoints, claimed \in {l1Tip}, tears \in Tears :
             SubmitMint(o, claimed, tears)
      BY <2>2
    <3>2. UNCHANGED <<confirmed, chain>>
      BY <3>1 DEF SubmitMint
    <3>3. PendingOk(pending', confirmed, torn')
      BY <1>2, <1>3, <3>1, SubmitMintOk
    <3>4. ChainOk(chain, confirmed', l1Tip')
      BY <1>2, <1>3, ChainStays
    <3> QED
      BY <3>2, <3>3, <3>4
  <2>3. CASE \E tears \in Tears : ProduceBlock(tears)
    <3>1. PICK tears \in Tears : ProduceBlock(tears)
      BY <2>3
    <3>2. PendingOk(pending', confirmed, torn) /\ ChainOk(chain', confirmed, l1Tip')
      BY <1>1, <1>2, <1>3, <3>1, ProduceBlockOk
    <3>3. confirmed' = confirmed
      BY <3>1 DEF ProduceBlock
    <3>4. torn >= 1 => torn' >= 1
      <4>1. \E k \in Nat : torn' = torn + k
        BY <3>1, TearsAre DEF ProduceBlock, Reads
      <4> QED
        BY <1>3, <4>1
    <3>5. PendingOk(pending', confirmed, torn')
      BY <3>2, <3>4 DEF PendingOk
    <3> QED
      BY <3>2, <3>3, <3>5
  <2>4. CASE ProduceAnyBlock
    <3>1. lies' = lies + 1
      BY <2>4 DEF ProduceAnyBlock, Lie
    <3> QED
      BY <1>1, <1>3, <3>1
  <2>5. \/ UNCHANGED <<pending, chain, torn>>
        \/ \E o \in Outpoints, claimed \in {l1Tip}, tears \in Tears :
              SubmitMint(o, claimed, tears)
        \/ \E tears \in Tears : ProduceBlock(tears)
        \/ ProduceAnyBlock
    BY DEF World, NewL1Block, ConfirmLock, ReclaimLock, MoveLock, Attest, counters
  <2> QED
    BY <2>1, <2>2, <2>3, <2>4, <2>5
<1> QED
  BY <1>4, <1>5, <1>6

LEMMA IdleOk == \A c : WalkOk(IdleWalk, c)
BY DEF WalkOk, IdleWalk, NoHead

LEMMA RefreshOk ==
    ASSUME TInv, NEW ask, Refresh(ask)
    PROVE  WalkOk(walk', chain)
<1>1. walk'.work = head /\ walk'.at = "walk"
  BY DEF Refresh, IdleWalk
<1> QED
  BY <1>1 DEF TInv, Pinned, WalkOk

LEMMA BootOk ==
    ASSUME IInv, TInv, GetNullifiers
    PROVE  WalkOk(walk', chain)
<1>1. \/ walk' = IdleWalk
      \/ \E n : walk' = [IdleWalk EXCEPT !.at = "walk", !.ask = walk.ask,
                          !.anchor = walk.anchor, !.boot = BootPoint.height,
                          !.work = BootHead(n)]
  BY DEF GetNullifiers, TakesNullifiers
<1>2. CASE walk' # IdleWalk
  <2>1. PICK n : walk' = [IdleWalk EXCEPT !.at = "walk", !.ask = walk.ask,
                           !.anchor = walk.anchor, !.boot = BootPoint.height,
                           !.work = BootHead(n)]
    BY <1>1, <1>2
  <2>2. walk'.at = "walk" /\ walk'.work = BootHead(n)
    BY <2>1 DEF IdleWalk
  <2>3. BootHead(n).l2 = BootPoint.height /\ BootHead(n).hash = BootPoint.hash
    BY DEF BootHead
  <2>4. BootPoint.height \in 0..Len(chain) /\ BootPoint = Report(chain, BootPoint.height)
    BY BootPointFacts
  <2>5. BootPoint.hash = Entries(chain, BootPoint.height)
    <3>1. \A h : Report(chain, h).hash = Entries(chain, h)
      BY DEF Report
    <3> QED
      BY <2>4, <3>1
  <2> QED
    BY <2>2, <2>3, <2>4, <2>5 DEF WalkOk
<1> QED
  BY <1>2, IdleOk

\* Only the place, or the steps ahead, change.
LEMMA KeepsOk ==
    ASSUME NEW v, NEW w, NEW c, WalkOk(w, c),
           w.work # NoHead => v.work.hash = w.work.hash /\ v.work.l2 = w.work.l2,
           w.work = NoHead => v.work = NoHead,
           v.at # "blocks"
    PROVE  WalkOk(v, c)
BY DEF WalkOk

LEMMA GetTipOk ==
    ASSUME IInv, TInv, SInv, ChainOk(chain, confirmed, l1Tip), WalkOk(walk, chain), GetTip
    PROVE  WalkOk(walk', chain)
<1>1. /\ walk'.work = walk.work /\ walk'.tip = l1Tip /\ walk'.steps = walk.steps
  BY DEF GetTip, IInv, IsWalk, WalkFields
<1>2. ASSUME NEW i \in 1..Len(walk.steps), NEW h \in 1..walk.steps[i].att.height
      PROVE  Covers(l1Tip, chain, h)
  <2> DEFINE k == walk.steps[i].att.height
  <2>1. k \in 0..Len(chain) /\ h \in 1..k
    BY StepsBelow
  <2>2. Len(chain) \in Nat
    BY SeqLen DEF TInv, Heights
  <2> HIDE DEF k
  <2>3. h \in 1..Len(chain)
    BY <2>1, <2>2
  <2>4. BlockOk(chain[h], LedgerIn(chain, h - 1), confirmed, l1Tip)
    BY <2>3 DEF ChainOk
  <2> QED
    BY <2>4 DEF BlockOk, Stands, Covers
<1> QED
  BY <1>1, <1>2 DEF WalkOk

LEMMA SkipKnownOk ==
    ASSUME IInv, TInv, WalkOk(walk, chain), SkipKnown
    PROVE  WalkOk(walk', chain)
<1>1. /\ walk.at = "blocks" /\ walk.steps # <<>>
      /\ walk' = [walk EXCEPT !.steps = Tail(@), !.work.anchor = Step.anchor]
  BY DEF SkipKnown
<1>2. DOMAIN walk = WalkFields /\ IsHead(walk.work) /\ walk.work # NoHead
  BY <1>1 DEF IInv, IsWalk
<1>3. /\ walk'.work.l2 = walk.work.l2 /\ walk'.work.hash = walk.work.hash
      /\ walk'.steps = Tail(walk.steps) /\ walk'.tip = walk.tip
  BY <1>1, <1>2 DEF WalkFields, IsHead, HeadFields
<1>4. PICK S : walk.steps \in Seq(S)
  BY DEF IInv, IsWalk
<1>5. /\ Len(walk.steps) \in Nat
      /\ \A i \in 1..Len(walk'.steps) :
           i + 1 \in 1..Len(walk.steps) /\ walk'.steps[i] = walk.steps[i + 1]
  BY <1>1, <1>3, <1>4, HeadTailProperties, LenProperties, EmptySeq
<1>6. ASSUME NEW i \in 1..Len(walk'.steps), NEW h \in 1..walk'.steps[i].att.height
      PROVE  Covers(walk'.tip, chain, h)
  <2>1. i + 1 \in 1..Len(walk.steps) /\ h \in 1..walk.steps[i + 1].att.height
    BY <1>5
  <2> QED
    BY <1>1, <1>3, <2>1 DEF WalkOk
<1> QED
  BY <1>2, <1>3, <1>6 DEF WalkOk

\* The next block of an honest chain, with its witness.
LEMMA TrueBlockAccepted ==
    ASSUME IInv, TInv, SInv, VInv, MInv, lies = 0, ChainOk(chain, confirmed, l1Tip),
           WalkOk(walk, chain), walk.at = "blocks", walk.steps # <<>>,
           Step.att.height > walk.work.l2,
           NEW h, h = walk.work.l2 + 1
    PROVE  /\ Accepts(BlockAt(h), TrueWitness(h), h, h = Step.att.height)
           /\ HashOf(BlockAt(h).header) = Entries(chain, h)
<1> DEFINE b == BlockAt(h)
           l == LedgerAt(h - 1)
           txs == chain[h].txs
<1>1. /\ IsHead(walk.work) /\ walk.work # NoHead /\ Committed(walk.work)
      /\ walk.tip \in Nat /\ IsSeq(chain) /\ Len(chain) \in Nat
  BY SeqLen DEF IInv, IsWalk, TInv, WalkTrue, Heights, VInv, WalkValid, SInv
<1>2. /\ walk.work.l2 \in Nat /\ h \in 1..Len(chain) /\ h \in Nat /\ h # 0
      /\ h - 1 = walk.work.l2 /\ h - 1 \in 0..Len(chain) /\ h \in 0..Len(chain)
  <2>1. walk.work.l2 \in Nat /\ walk.work.l2 + 1 \in 1..Len(chain)
    BY NextHeight
  <2> QED
    BY <1>1, <2>1
<1>3. walk.work.hash = Entries(chain, h - 1)
  BY <1>1, <1>2 DEF WalkOk
<1>4. l \in LedgerType /\ Backs(l, walk.work)
  <2>1. l \in LedgerType
    BY <1>1, <1>2, LedgerAtType DEF SInv
  <2>2. Entries(chain, h - 1)[h][3] = RootOf(LedgerIn(chain, h - 1))
    <3>1. h - 1 \in Nat /\ (h - 1) + 1 = h
      BY <1>2
    <3> QED
      BY <3>1, LastEntry
  <2>3. Entries(chain, h - 1)[h][3] = StateRoot(walk.work.accounts, walk.work.consumed)
    BY <1>1, <1>2, <1>3 DEF Committed
  <2>4. StateRoot(walk.work.accounts, walk.work.consumed) = RootOf(l)
    BY <2>2, <2>3, LedgerAtIs
  <2> HIDE DEF l
  <2>5. walk.work.accounts = ComputeRoot(l) /\ walk.work.consumed = l.consumed
    BY <2>4 DEF RootOf, StateRoot
  <2> QED
    BY <2>1, <2>5 DEF Backs, l
<1>5. BlockOk(chain[h], l, confirmed, l1Tip) /\ AllFit(txs)
  BY <1>2, LedgerAtIs DEF ChainOk, SInv, Contents, BlockFits
<1>6. LedgerAt(h) = Replay(l, txs) /\ AllApply(l, txs)
  BY <1>2, <1>5 DEF BlockOk, LedgerAt
<1>7. /\ HeaderAt[h] = HeaderIs(h) /\ HashOf(HeaderAt[h]) = Entries(chain, h)
  BY <1>1, <1>2, HeadersAre
<1>8. /\ b.header = HeaderAt[h] /\ b.txs = txs
      /\ b.header.height = h /\ b.header.txsRoot = txs
      /\ b.header.prev = Entries(chain, h - 1) /\ b.header.root = RootOf(LedgerAt(h))
  <2>1. (h - 1) + 1 = h
    BY <1>2
  <2>2. Entries(chain, h - 1) = [j \in 1..h |-> Entry(chain, j - 1)]
    BY <2>1 DEF Entries
  <2>3. b.header = HeaderAt[h] /\ b.txs = txs
    BY DEF BlockAt
  <2>4. /\ HeaderIs(h).height = h /\ HeaderIs(h).txsRoot = txs
        /\ HeaderIs(h).prev = [j \in 1..h |-> Entry(chain, j - 1)]
        /\ HeaderIs(h).root = RootOf(LedgerAt(h))
    BY <1>2, LedgerAtIs DEF HeaderIs, MkHeader, TxsIn
  <2> HIDE DEF b
  <2> QED
    BY <1>7, <2>2, <2>3, <2>4
<1>9. \A e \in Mints(txs) : Stands(e, confirmed, walk.tip)
  <2>1. \E S : walk.steps \in Seq(S)
    BY DEF IInv, IsWalk
  <2>2. 1 \in 1..Len(walk.steps) /\ Step = walk.steps[1]
    <3>1. PICK S : walk.steps \in Seq(S)
      BY <2>1
    <3> QED
      BY <3>1, LenProperties, EmptySeq DEF Step
  <2>3. walk.steps[1].att.height \in 0..Len(chain)
    BY <2>2, StepsBelow
  <2>4. h \in 1..walk.steps[1].att.height
    BY <1>1, <1>2, <2>2, <2>3
  <2>5. Covers(walk.tip, chain, h)
    BY <2>2, <2>4 DEF WalkOk
  <2> QED
    BY <1>5, <2>5 DEF BlockOk, Stands, Covers
<1>10. h = Step.att.height => HashOf(b.header) = Step.att.hash /\ b.header.root = Step.att.root
  <2>1. Reported(Step, chain, atts)
    <3> DEFINE w == [anchor |-> walk.anchor, steps |-> Tail(walk.steps)]
    <3>1. w.anchor = walk.anchor /\ w.steps = Tail(walk.steps)
      OBVIOUS
    <3> HIDE DEF w
    <3> QED
      BY <3>1, FirstStep
  <2>2. \A k : /\ Report(chain, k).height = k /\ Report(chain, k).hash = Entries(chain, k)
               /\ Report(chain, k).root = RootOf(LedgerAt(k))
    BY LedgerAtIs DEF Report
  <2>3. Step.att = Report(chain, atts[Step.anchor])
    BY <2>1 DEF Reported
  <2> QED
    BY <1>7, <1>8, <2>2, <2>3
<1>11. TrueWitness(h) = BuildWitness(l, b.txs, h)
  BY <1>8 DEF TrueWitness
<1>12. Proves(walk.work, Own)
  BY <1>1 DEF MInv, OwnLeaf
<1> HIDE DEF b, l, txs
<1>13. /\ AllFit(b.txs) /\ AllApply(l, b.txs) /\ b.header.root = RootOf(Replay(l, b.txs))
       /\ \A e \in Mints(b.txs) : Stands(e, confirmed, walk.tip)
       /\ b.txs = b.header.txsRoot /\ b.header.prev = walk.work.hash
       /\ b.header.height = h
  BY <1>3, <1>5, <1>6, <1>8, <1>9
<1> DEFINE last == h = Step.att.height
<1>14. last => HashOf(b.header) = Step.att.hash /\ b.header.root = Step.att.root
  BY <1>10
<1> HIDE DEF last
<1>15. Accepts(b, BuildWitness(l, b.txs, h), h, last)
  BY <1>1, <1>4, <1>12, <1>13, <1>14, GoodIsAccepted
<1> QED
  BY <1>7, <1>8, <1>11, <1>15 DEF last, b

LEMMA VerifyOk ==
    ASSUME IInv, TInv, SInv, VInv, MInv, ChainOk(chain, confirmed, l1Tip),
           WalkOk(walk, chain), ~rejected, lies = 0, lies' = lies, VerifyBlock
    PROVE  WalkOk(walk', chain) /\ ~rejected'
<1> DEFINE h == walk.work.l2 + 1
           b == BlockAt(h)
           w == TrueWitness(h)
           last == h = Step.att.height
           new == NewHead(b, w, h)
           x == IF last THEN [new EXCEPT !.anchor = Step.anchor] ELSE new
<1>1. /\ walk.at = "blocks" /\ walk.steps # <<>> /\ Step.att.height > walk.work.l2
      /\ Verifies(b, w)
  BY DEF VerifyBlock, Colludes, Lie
<1>2. Accepts(b, w, h, last) /\ HashOf(b.header) = Entries(chain, h)
  BY <1>1, TrueBlockAccepted
<1>3. /\ walk' = [walk EXCEPT !.work = x, !.steps = IF last THEN Tail(@) ELSE @,
                              !.events = @ \o OwnEvents(b.txs, h)]
      /\ rejected' = rejected
  BY <1>1, <1>2 DEF Verifies
<1>4. DOMAIN new = HeadFields /\ new.l2 = h /\ new.hash = HashOf(b.header)
  BY DEF NewHead, HeadFields
<1>5. h \in 1..Len(chain) /\ Len(chain) \in Nat
  BY <1>1, NextHeight, SeqLen DEF TInv, Heights
<1> HIDE DEF new
<1>6. x.l2 = h /\ x.hash = Entries(chain, h)
  BY <1>2, <1>4 DEF HeadFields
<1> HIDE DEF x
<1>7. /\ walk'.work = x /\ walk'.tip = walk.tip
      /\ walk'.steps = IF last THEN Tail(walk.steps) ELSE walk.steps
  BY <1>3 DEF IInv, IsWalk, WalkFields
<1> HIDE DEF last
<1>8. PICK S : walk.steps \in Seq(S)
  BY DEF IInv, IsWalk
<1>9. \A i \in 1..Len(walk'.steps) : \E j \in 1..Len(walk.steps) :
         walk'.steps[i] = walk.steps[j]
  <2>1. CASE last
    <3>1. \A i \in 1..Len(walk'.steps) :
            i + 1 \in 1..Len(walk.steps) /\ walk'.steps[i] = walk.steps[i + 1]
      BY <1>1, <1>7, <1>8, <2>1, HeadTailProperties, LenProperties, EmptySeq
    <3> QED
      BY <3>1
  <2>2. CASE ~last
    BY <1>7, <2>2
  <2> QED
    BY <2>1, <2>2
<1>10. ASSUME NEW i \in 1..Len(walk'.steps), NEW k \in 1..walk'.steps[i].att.height
       PROVE  Covers(walk'.tip, chain, k)
  <2>1. PICK j \in 1..Len(walk.steps) : walk'.steps[i] = walk.steps[j]
    BY <1>9
  <2>2. k \in 1..walk.steps[j].att.height
    BY <2>1
  <2> QED
    BY <1>1, <1>7, <2>2 DEF WalkOk
<1>11. x.l2 \in 0..Len(chain)
  BY <1>5, <1>6
<1>12. WalkOk(walk', chain)
  BY <1>6, <1>7, <1>10, <1>11 DEF WalkOk
<1> QED
  BY <1>3, <1>12

LEMMA WalletHonest ==
    ASSUME IInv, TInv, SInv, KInv, VInv, MInv, NInv, [Next]_vars, ~World
    PROVE  NInv'
<1> SUFFICES ASSUME Honest'
             PROVE  /\ PendingOk(pending', confirmed', torn')
                    /\ ChainOk(chain', confirmed', l1Tip')
                    /\ WalkOk(walk', chain') /\ ~rejected'
  BY DEF NInv
<1>1. Honest /\ lies' = lies /\ torn <= torn'
  BY HonestBefore DEF KInv
<1>2. /\ PendingOk(pending, confirmed, torn) /\ ChainOk(chain, confirmed, l1Tip)
      /\ WalkOk(walk, chain) /\ ~rejected /\ lies = 0
  BY <1>1 DEF NInv, Honest
<1>3. UNCHANGED <<l1Tip, confirmed, pending, chain, torn>>
  BY DEF Next, NodeStep, NodeAppliesBlock, NodeStoresBlock, NodeRecordsSpend,
         WalletStep, Refresh, WalkStep, WalkDone, GetBalance, GetNullifiers,
         GetTip, SkipKnown, VerifyBlock, WalkForwardDone, ShowOwn, ShowOther,
         Interrupted, vars, worldVars, counters
<1>4. DOMAIN walk = WalkFields
  BY DEF IInv, IsWalk
<1>5. CASE VerifyBlock
  BY <1>1, <1>2, <1>3, <1>5, VerifyOk
<1>6. CASE ~VerifyBlock
  <2>1. rejected' = rejected
    BY <1>6 DEF Next, NodeStep, NodeAppliesBlock, NodeStoresBlock, NodeRecordsSpend,
           WalletStep, Refresh, WalkStep, WalkDone, GetBalance, GetNullifiers,
           GetTip, SkipKnown, WalkForwardDone, ShowOwn, ShowOther, Interrupted,
           vars, walletVars
  <2>2. WalkOk(walk', chain)
    <3>1. CASE WalkStep \/ WalkDone \/ WalkForwardDone
      <4>1. walk'.work = walk.work /\ walk'.at # "blocks"
        BY <1>4, <3>1 DEF WalkStep, WalkDone, WalkForwardDone, Goto, WalkFields
      <4> QED
        BY <1>2, <4>1, KeepsOk
    <3>2. CASE GetBalance
      <4>1. \/ walk' = IdleWalk
            \/ \E bal : walk' = [walk EXCEPT !.at = "nullifiers", !.bal = bal]
        BY <3>2 DEF GetBalance
      <4>2. CASE \E bal : walk' = [walk EXCEPT !.at = "nullifiers", !.bal = bal]
        <5>1. walk'.work = walk.work /\ walk'.at # "blocks"
          BY <1>4, <4>2 DEF WalkFields
        <5> QED
          BY <1>2, <5>1, KeepsOk
      <4> QED
        BY <4>1, <4>2, IdleOk
    <3>3. CASE ShowOwn \/ ShowOther \/ Interrupted
      <4>1. walk' = IdleWalk
        BY <3>3 DEF ShowOwn, ShowOther, ShowsOther, Interrupted, Save, GivesUp
      <4> QED
        BY <4>1, IdleOk
    <3>4. CASE \E ask \in Targets : Refresh(ask)
      BY <3>4, RefreshOk
    <3>5. CASE GetNullifiers
      BY <3>5, BootOk
    <3>6. CASE GetTip
      BY <1>2, <3>6, GetTipOk
    <3>7. CASE SkipKnown
      BY <1>2, <3>7, SkipKnownOk
    <3>8. CASE NodeStep \/ UNCHANGED vars
      <4>1. walk' = walk
        BY <3>8 DEF NodeStep, NodeAppliesBlock, NodeStoresBlock, NodeRecordsSpend,
               vars, walletVars
      <4> QED
        BY <1>2, <4>1
    <3> QED
      BY <1>6, <3>1, <3>2, <3>3, <3>4, <3>5, <3>6, <3>7, <3>8 DEF Next, WalletStep
  <2> QED
    BY <1>2, <1>3, <2>1, <2>2
<1> QED
  BY <1>5, <1>6

LEMMA NobodyLies == Spec => []NInv
<1>1. Init => NInv
  <2> SUFFICES ASSUME Init
               PROVE  NInv
    OBVIOUS
  <2>1. pending = {} /\ chain = <<>> /\ walk = IdleWalk /\ ~rejected
    BY DEF Init
  <2>2. Len(chain) = 0 /\ 1..0 = {}
    BY <2>1, EmptySeq
  <2> QED
    BY <2>1, <2>2, IdleOk DEF NInv, PendingOk, ChainOk
<1>2. IInv /\ TInv /\ SInv /\ KInv /\ VInv /\ MInv /\ NInv /\ [Next]_vars => NInv'
  BY WorldHonest, WalletHonest
<1> QED
  BY <1>1, <1>2, WalletTrue, WorldIsFit, IsTyped, HeadsAreValid, LeavesAreOwn, PTL
     DEF Spec

\* The node sees an unspent output as the wallet sees it.
LEMMA NodeSeesUnspent ==
    ASSUME SInv, NEW e, EntryVerifies(e, ViewAt(l1Tip)), e.nullifier \notin spent
    PROVE  EntryVerifies(e, NodeView)
<1> DEFINE p == e.proof
           o == p.outpoint
           mine == ViewAt(l1Tip)
           view == NodeView
<1>1. /\ Authorises(p, mine, e.dest) /\ Credit(p, mine, e.dest) = EventOf(e)
  BY DEF EntryVerifies
<1>2. Credit(p, mine, e.dest).nullifier = o /\ EventOf(e).nullifier = e.nullifier
  BY DEF Credit, EventOf
<1>3. o \in DOMAIN mine.outputs
  BY <1>1 DEF Authorises
<1>4. o \in Locked \ spent /\ o \notin {}
  BY <1>1, <1>2, <1>3 DEF ViewAt
<1>5. confirmed[o] \in Nat /\ l1Tip \in Nat /\ ~(confirmed[o] > l1Tip)
  BY <1>4 DEF SInv, Locked
<1>6. /\ mine.outputs[o] = OutputOf(o, confirmed[o], l1Tip - confirmed[o] + 1)
      /\ mine.tip = l1Tip
  BY <1>4, <1>5 DEF ViewAt
<1>7. /\ o \in DOMAIN view.outputs
      /\ view.outputs[o] = OutputOf(o, confirmed[o], l1Tip - confirmed[o] + 1)
  BY <1>4 DEF NodeView, SequencerView
<1>8. view.tip = l1Tip
  <2>1. Cardinality({}) = 0
    BY FS_EmptySet
  <2>2. view.tip = l1Tip + Cardinality({})
    BY DEF NodeView, SequencerView
  <2> QED
    BY <1>5, <2>1, <2>2
<1>9. view.outputs[o] = mine.outputs[o] /\ view.tip = mine.tip
  BY <1>6, <1>7, <1>8
<1> HIDE DEF mine, view
<1>10. Authorises(p, view, e.dest)
  BY <1>1, <1>7, <1>9 DEF Authorises
<1>11. Credit(p, view, e.dest) = EventOf(e)
  BY <1>1, <1>9 DEF Credit
<1> QED
  BY <1>10, <1>11 DEF EntryVerifies, view

\* While nobody lies and no lock moves, a wallet refuses no block, and a node none
\* but one with a mint whose lock was reclaimed since, though one block of L1
\* arrives inside the sequencer's get_output: the mint that was queued with a false
\* height is dropped when it is verified again (produce_block), and the wallet,
\* which runs the transactions on the accounts of the witness alone, finds the root
\* the sequencer found on all of them (verify_one_l2_block).  A node asks gettxout,
\* which forgets a reclaimed output, and refuses its mint (validate_block).
THEOREM HonestAreAccepted == Spec => []HonestNeverRejected
<1>1. TInv /\ SInv /\ NInv => HonestNeverRejected
  <2> SUFFICES ASSUME TInv, SInv, NInv, Honest
               PROVE  /\ ~rejected
                      /\ \A h \in 1..Len(chain) :
                            /\ ValidIn(h, ViewAt(l1Tip))
                            /\ NodeRefuses(h) =>
                                 \E e \in Mints(chain[h].txs) : e.nullifier \in spent
    BY DEF HonestNeverRejected
  <2>1. ~rejected /\ ChainOk(chain, confirmed, l1Tip) /\ l1Tip \in Nat
    BY DEF NInv, SInv
  <2>2. ASSUME NEW h \in 1..Len(chain)
        PROVE  /\ ValidIn(h, ViewAt(l1Tip))
               /\ NodeRefuses(h) =>
                    \E e \in Mints(chain[h].txs) : e.nullifier \in spent
    <3> DEFINE l == LedgerAt(h - 1)
    <3>1. BlockOk(chain[h], l, confirmed, l1Tip)
      BY <2>1, LedgerAtIs DEF ChainOk
    <3>2. LedgerAt(h) = chain[h].ledger
      BY DEF LedgerAt
    <3> HIDE DEF l
    <3>3. \A e \in Mints(chain[h].txs) : EntryVerifies(e, ViewAt(l1Tip))
      BY <2>1, <3>1, StandsVerifies DEF BlockOk
    <3>4. /\ AllApply(l, chain[h].txs)
          /\ Root(Replay(l, chain[h].txs)) = Root(LedgerAt(h))
      BY <3>1, <3>2 DEF BlockOk
    <3>5. ValidIn(h, ViewAt(l1Tip))
      BY <3>3, <3>4 DEF ValidIn, BlockValid, l
    <3>6. ASSUME \A e \in Mints(chain[h].txs) : e.nullifier \notin spent
          PROVE  ValidIn(h, NodeView)
      <4>1. \A e \in Mints(chain[h].txs) : EntryVerifies(e, NodeView)
        BY <3>3, <3>6, NodeSeesUnspent
      <4> QED
        BY <3>4, <4>1 DEF ValidIn, BlockValid, l
    <3> QED
      BY <3>5, <3>6 DEF NodeRefuses
  <2> QED
    BY <2>1, <2>2
<1> QED
  BY <1>1, WalletTrue, WorldIsFit, NobodyLies, PTL
=============================================================================
