-------------------------- MODULE SequencerProofs ---------------------------
(***************************************************************************)
(* Theorems about Sequencer, for any number of submissions, addresses,     *)
(* locks, crashes, L1 reorgs and failing writes.                           *)
(***************************************************************************)
EXTENDS Sequencer, LedgerProofs, Induction, SequenceTheorems

\* TypeOK is not inductive: AddPending changes the nonce of a submission, and
\* only a transfer has one.
QueriedIsTransfer ==
    \A r \in Requests : pc[r] = "queried" => sub[r] \in Transfers

TypeInv == TypeOK /\ QueriedIsTransfer

-----------------------------------------------------------------------------

\* The two kinds of transaction, told apart by their type.
LEMMA TxTypes ==
    /\ \A t \in Mints : t.type = "mint"
    /\ \A t \in Transfers : t.type = "transfer"
    /\ NoTx.type = "none"
BY DEF Mints, MintTx, Transfers, TransferTx, NoTx

\* A mint or a transfer, as the handlers build it, is a transaction.
LEMMA MintOfType ==
    ASSUME NEW r \in Requests, NEW in \in MintInputs
    PROVE  MintOf(r, in) \in Mints
<1>1. in.nullifier \in Nullifiers /\ in.dest \in Addrs
  BY SequencerAssumption
<1>2. MintAmount[in.nullifier] \in Amount
  BY <1>1, SequencerAssumption
<1> QED
  BY <1>1, <1>2 DEF MintOf, Mints, MintTx

LEMMA TransferOfType ==
    ASSUME NEW r \in Requests, NEW in \in TransferInputs, NEW n \in Nat
    PROVE  TransferOf(r, in, n) \in Transfers
<1>1. /\ in.from \in Addrs /\ in.to \in Addrs /\ in.amount \in Amount
      /\ in.signed \in BOOLEAN
  BY SequencerAssumption
<1> QED
  BY <1>1 DEF TransferOf, Transfers, TransferTx

\* The number of waiting transfers of an address is a number.
LEMMA PendingFromType ==
    ASSUME TypeOK, NEW a
    PROVE  PendingFrom(a) \in Nat
<1> DEFINE mine == {i \in 1..Len(mempool.transfers) :
                       mempool.transfers[i].from = a}
<1>1. Len(mempool.transfers) \in Nat
  BY LenProperties DEF TypeOK
<1>2. IsFiniteSet(1..Len(mempool.transfers))
  BY <1>1, FS_Interval
<1>3. IsFiniteSet(mine)
  BY <1>2, FS_Subset
<1>4. Cardinality(mine) \in Nat
  BY <1>3, FS_CardinalityType
<1> QED
  BY <1>4 DEF PendingFrom

\* There is always a newest block.
LEMMA LastBlockType ==
    ASSUME TypeOK
    PROVE  /\ Len(chain) \in Nat \ {0}
           /\ LastBlock \in Block
           /\ LastBlock.snapshot \in LedgerType
           /\ LastBlock.hash \in Nat
<1>1. chain \in Seq(Block) /\ chain # <<>>
  BY DEF TypeOK
<1>2. Len(chain) \in Nat \ {0}
  BY <1>1, EmptySeq
<1>3. Len(chain) \in 1..Len(chain)
  BY <1>2
<1>4. LastBlock \in Block
  BY <1>1, <1>3, ElementOfSeq DEF LastBlock
<1> QED
  BY <1>2, <1>4 DEF Block

\* The root of a ledger is a root.
LEMMA RootType ==
    ASSUME NEW l \in LedgerType
    PROVE  Root(l) \in [Addrs -> Amount] \X [Addrs -> Nat] \X SUBSET Nullifiers
BY DEF Root, LedgerType

-----------------------------------------------------------------------------

\* The initial state is well typed.
LEMMA TypeInit == Init => TypeInv
<1> SUFFICES ASSUME Init PROVE TypeInv
  OBVIOUS
<1>1. EmptyLedger \in LedgerType
  BY EmptyLedgerType
<1>2. GenesisBlock \in Block
  BY <1>1, RootType, EmptySeq DEF GenesisBlock, Block, GenesisL1
<1>3. chain \in Seq(Block) /\ chain # <<>>
  BY <1>2 DEF Init
<1>4. /\ mempool \in [mints : Seq(Mints), transfers : Seq(Transfers),
                      pending : SUBSET Nullifiers]
      /\ prod \in ProducerType
  BY <1>1, EmptySeq DEF Init, EmptyMempool, IdleProducer, ProducerType, GenesisL1
<1>5. QueriedIsTransfer
  BY DEF Init, QueriedIsTransfer
<1> QED
  BY <1>1, <1>3, <1>4, <1>5 DEF Init, TypeInv, TypeOK, GenesisL1, Phases, Terminal

\* What each group of actions leaves alone keeps its type; what it assigns has
\* the right one.
LEMMA TypeL1 ==
    ASSUME TypeInv, L1Step
    PROVE  TypeInv'
<1> USE DEF l1Vars, procVars, dbVars, reqVars, counters
<1>1. ASSUME NEW n \in Nullifiers, FundLock(n)
      PROVE  TypeInv'
  BY <1>1 DEF FundLock, TypeInv, TypeOK, QueriedIsTransfer
<1>2. ASSUME NEW n \in Nullifiers, ReclaimLock(n)
      PROVE  TypeInv'
  BY <1>2 DEF ReclaimLock, TypeInv, TypeOK, QueriedIsTransfer
<1>3. ASSUME NEW n \in Nullifiers, ReorgLock(n)
      PROVE  TypeInv'
  BY <1>3 DEF ReorgLock, TypeInv, TypeOK, QueriedIsTransfer
<1> QED
  BY <1>1, <1>2, <1>3 DEF L1Step

LEMMA TypeClient ==
    ASSUME TypeInv, NEW r \in Requests, ClientStep(r)
    PROVE  TypeInv'
<1> USE DEF l1Vars, procVars, dbVars, reqVars, counters
<1>1. ASSUME NEW in \in MintInputs, VerifyMint(r, in)
      PROVE  TypeInv'
  <2>1. MintOf(r, in) \in Txs
    BY MintOfType DEF Txs
  <2>2. pc' \in [Requests -> Phases] /\ pc'[r] # "queried"
    BY <1>1 DEF VerifyMint, Goto, TypeInv, TypeOK, Phases, Terminal
  <2>3. \A q \in Requests \ {r} : pc'[q] = pc[q] /\ sub'[q] = sub[q]
    BY <1>1 DEF VerifyMint, Goto, TypeInv, TypeOK
  <2> QED
    BY <1>1, <2>1, <2>2, <2>3 DEF VerifyMint, TypeInv, TypeOK, QueriedIsTransfer
<1>2. ASSUME NEW in \in TransferInputs, QueryNonce(r, in)
      PROVE  TypeInv'
  <2>1. in.from \in Addrs
    BY SequencerAssumption
  <2>2. state.nonce[in.from] \in Nat
    BY <2>1 DEF TypeInv, TypeOK, LedgerType
  <2>3. TransferOf(r, in, state.nonce[in.from]) \in Transfers
    BY <2>2, TransferOfType
  <2> QED
    BY <1>2, <2>3 DEF QueryNonce, Goto, TypeInv, TypeOK, QueriedIsTransfer,
                      Phases, Terminal, Txs
<1>3. ASSUME NEW in \in TransferInputs, NEW n \in RawNonces,
             SendTransfer(r, in, n)
      PROVE  TypeInv'
  <2>1. TransferOf(r, in, n) \in Transfers
    BY SequencerAssumption, TransferOfType
  <2> QED
    BY <1>3, <2>1 DEF SendTransfer, Goto, TypeInv, TypeOK, QueriedIsTransfer,
                      Phases, Terminal, Txs
<1> QED
  BY <1>1, <1>2, <1>3 DEF ClientStep

LEMMA TypeHandler ==
    ASSUME TypeInv, NEW r \in Requests, HandlerStep(r)
    PROVE  TypeInv'
<1> USE DEF l1Vars, procVars, dbVars, reqVars, counters
<1>1. CASE CheckConsumed(r)
  BY <1>1 DEF CheckConsumed, Goto, TypeInv, TypeOK, QueriedIsTransfer, Phases,
              Terminal
<1>2. CASE PushMint(r)
  <2>1. sub[r] \in Mints
    BY <1>2, TxTypes DEF PushMint, TypeInv, TypeOK, Txs
  <2>2. sub[r].nullifier \in Nullifiers
    BY <2>1 DEF Mints, MintTx
  <2>3. Append(mempool.mints, sub[r]) \in Seq(Mints)
    BY <2>1, AppendProperties DEF TypeInv, TypeOK
  <2>4. mempool' \in [mints : Seq(Mints), transfers : Seq(Transfers),
                      pending : SUBSET Nullifiers]
    <3>1. /\ mempool.pending \cup {sub[r].nullifier} \in SUBSET Nullifiers
          /\ mempool.transfers \in Seq(Transfers)
      BY <2>2 DEF TypeInv, TypeOK
    <3>2. CASE sub[r].nullifier \in mempool.pending
      BY <1>2, <3>2 DEF PushMint, TypeInv, TypeOK
    <3>3. CASE sub[r].nullifier \notin mempool.pending
      <4>1. mempool' = [mints |-> Append(mempool.mints, sub[r]),
                        transfers |-> mempool.transfers,
                        pending |-> mempool.pending \cup {sub[r].nullifier}]
        BY <1>2, <3>3 DEF PushMint, TypeInv, TypeOK
      <4> QED
        BY <4>1, <2>3, <3>1
    <3> QED
      BY <3>2, <3>3
  <2>5. pc' \in [Requests -> Phases] /\ QueriedIsTransfer'
    BY <1>2 DEF PushMint, Goto, TypeInv, TypeOK, QueriedIsTransfer, Phases,
                Terminal
  <2> QED
    BY <1>2, <2>4, <2>5 DEF PushMint, TypeInv, TypeOK
<1>3. CASE AddPending(r)
  <2>1. sub[r] \in Transfers
    BY <1>3 DEF AddPending, TypeInv, QueriedIsTransfer
  <2>2. sub[r].nonce + PendingFrom(sub[r].from) \in Nat
    BY <2>1, PendingFromType DEF TypeInv, Transfers, TransferTx
  <2>3. [sub[r] EXCEPT !.nonce = @ + PendingFrom(sub[r].from)] \in Transfers
    BY <2>1, <2>2 DEF Transfers, TransferTx
  <2>4. sub' \in [Requests -> Txs \cup {NoTx}]
    BY <1>3, <2>3 DEF AddPending, TypeInv, TypeOK, Txs
  <2>5. pc' \in [Requests -> Phases] /\ QueriedIsTransfer'
    BY <1>3 DEF AddPending, Goto, TypeInv, TypeOK, QueriedIsTransfer, Phases,
                Terminal
  <2> QED
    BY <1>3, <2>4, <2>5 DEF AddPending, TypeInv, TypeOK
<1>4. CASE CheckNonce(r)
  BY <1>4 DEF CheckNonce, Goto, TypeInv, TypeOK, QueriedIsTransfer, Phases,
              Terminal
<1>5. CASE PushTransfer(r)
  <2>1. sub[r] \in Transfers
    BY <1>5, TxTypes DEF PushTransfer, TypeInv, TypeOK, Txs
  <2>2. Append(mempool.transfers, sub[r]) \in Seq(Transfers)
    BY <2>1, AppendProperties DEF TypeInv, TypeOK
  <2> QED
    BY <1>5, <2>2 DEF PushTransfer, Goto, TypeInv, TypeOK, QueriedIsTransfer,
                      Phases, Terminal
<1>6. CASE SignSoftConf(r)
  BY <1>6 DEF SignSoftConf, Goto, TypeInv, TypeOK, QueriedIsTransfer, Phases,
              Terminal
<1> QED
  BY <1>1, <1>2, <1>3, <1>4, <1>5, <1>6 DEF HandlerStep

\* The locals of the producer after one round of either loop of produce_block.
LEMMA TypeRound ==
    ASSUME TypeInv, NEW tx \in Txs, NEW ok \in BOOLEAN,
           ok => Applies(prod.working, tx)
    PROVE  /\ (IF ok THEN Append(prod.txs, tx) ELSE prod.txs) \in Seq(Txs)
           /\ (IF ok THEN Apply(prod.working, tx) ELSE prod.working)
                \in LedgerType
<1>1. prod.txs \in Seq(Txs) /\ prod.working \in LedgerType
  BY DEF TypeInv, TypeOK, ProducerType
<1>2. Append(prod.txs, tx) \in Seq(Txs)
  BY <1>1, AppendProperties
<1>3. ok => Apply(prod.working, tx) \in LedgerType
  BY <1>1, ApplyType DEF Txs, Mints, Transfers
<1> QED
  BY <1>1, <1>2, <1>3

LEMMA TypeProducer ==
    ASSUME TypeInv, ProducerStep
    PROVE  TypeInv'
<1> USE DEF l1Vars, procVars, dbVars, reqVars, counters
<1>0. /\ prod \in ProducerType /\ l1Tip \in Nat /\ state \in LedgerType
      /\ head \in [height : Nat, hash : Nat] /\ builds \in Nat
      /\ chain \in Seq(Block)
  BY DEF TypeInv, TypeOK
<1>e. EmptyMempool \in [mints : Seq(Mints), transfers : Seq(Transfers),
                        pending : SUBSET Nullifiers]
  BY EmptySeq DEF EmptyMempool
<1>i. IdleProducer \in ProducerType
  BY EmptySeq, EmptyLedgerType DEF IdleProducer, ProducerType, GenesisL1
<1>q. QueriedIsTransfer'
  BY DEF TypeInv, QueriedIsTransfer, ProducerStep, ReadL1, Drain, BuildMint,
         BuildTransfer, Seal, WriteBlock, WriteFails, SetL1Cursor, CursorFails,
         PublishHead
<1>1. CASE ReadL1
  <2>1. prod' \in ProducerType
    BY <1>0, <1>1 DEF ReadL1, ProducerType
  <2> QED
    BY <1>1, <1>q, <2>1 DEF ReadL1, TypeInv, TypeOK
<1>2. CASE Drain
  <2>1. /\ mempool.mints \in Seq(Mints) /\ mempool.transfers \in Seq(Transfers)
        /\ <<>> \in Seq(Txs)
    BY EmptySeq DEF TypeInv, TypeOK
  <2>2. prod' \in ProducerType
    BY <1>0, <1>2, <2>1 DEF Drain, ProducerType
  <2> QED
    BY <1>2, <1>e, <1>q, <2>2 DEF Drain, TypeInv, TypeOK
<1>3. CASE BuildMint
  <2>1. PICK answered \in Answers :
           LET tx == Head(prod.mints)
               ok == /\ answered /\ WitnessVerifies(tx.nullifier)
                     /\ Applies(prod.working, tx)
           IN  prod' = [prod EXCEPT
                   !.mints = Tail(@),
                   !.txs = IF ok THEN Append(@, tx) ELSE @,
                   !.working = IF ok THEN Apply(@, tx) ELSE @]
    BY <1>3 DEF BuildMint
  <2> DEFINE tx == Head(prod.mints)
             ok == /\ answered /\ WitnessVerifies(tx.nullifier)
                   /\ Applies(prod.working, tx)
  <2>2. tx \in Txs /\ Tail(prod.mints) \in Seq(Mints)
    BY <1>0, <1>3, HeadTailProperties DEF BuildMint, ProducerType, Txs
  <2>3. /\ ok \in BOOLEAN
        /\ ok => Applies(prod.working, tx)
    BY DEF Answers, WitnessVerifies
  <2>4. /\ (IF ok THEN Append(prod.txs, tx) ELSE prod.txs) \in Seq(Txs)
        /\ (IF ok THEN Apply(prod.working, tx) ELSE prod.working) \in LedgerType
    <3> HIDE DEF tx, ok
    <3> QED
      BY <2>2, <2>3, TypeRound
  <2>5. prod' = [prod EXCEPT
            !.mints = Tail(prod.mints),
            !.txs = IF ok THEN Append(prod.txs, tx) ELSE prod.txs,
            !.working = IF ok THEN Apply(prod.working, tx) ELSE prod.working]
    BY <2>1
  <2>6. prod' \in ProducerType
    <3> HIDE DEF tx, ok
    <3> QED
      BY <1>0, <2>2, <2>4, <2>5 DEF ProducerType
  <2> QED
    BY <1>3, <1>q, <2>6 DEF BuildMint, TypeInv, TypeOK
<1>4. CASE BuildTransfer
  <2> DEFINE tx == Head(prod.transfers)
             ok == Applies(prod.working, tx)
  <2>1. prod' = [prod EXCEPT
            !.transfers = Tail(prod.transfers),
            !.txs = IF ok THEN Append(prod.txs, tx) ELSE prod.txs,
            !.working = IF ok THEN Apply(prod.working, tx) ELSE prod.working]
    BY <1>4 DEF BuildTransfer
  <2>2. tx \in Txs /\ Tail(prod.transfers) \in Seq(Transfers)
    BY <1>0, <1>4, HeadTailProperties DEF BuildTransfer, ProducerType, Txs
  <2>3. ok \in BOOLEAN /\ (ok => Applies(prod.working, tx))
    BY DEF Applies, MintApplies, TransferApplies
  <2>4. /\ (IF ok THEN Append(prod.txs, tx) ELSE prod.txs) \in Seq(Txs)
        /\ (IF ok THEN Apply(prod.working, tx) ELSE prod.working) \in LedgerType
    <3> HIDE DEF tx, ok
    <3> QED
      BY <2>2, <2>3, TypeRound
  <2>5. prod' \in ProducerType
    <3> HIDE DEF tx, ok
    <3> QED
      BY <1>0, <2>1, <2>2, <2>4 DEF ProducerType
  <2> QED
    BY <1>4, <1>q, <2>5 DEF BuildTransfer, TypeInv, TypeOK
<1>5. CASE Seal
  <2>1. prod' \in ProducerType /\ state' \in LedgerType
    BY <1>0, <1>5 DEF Seal, ProducerType
  <2> QED
    BY <1>0, <1>5, <1>q, <2>1 DEF Seal, TypeInv, TypeOK
<1>6. CASE WriteBlock
  <2>1. NewBlock \in Block
    BY <1>0, RootType DEF NewBlock, Block, ProducerType
  <2>2. chain' \in Seq(Block) /\ chain' # <<>>
    BY <1>0, <1>6, <2>1, AppendProperties, EmptySeq DEF WriteBlock
  <2>3. prod' \in ProducerType
    BY <1>0, <1>6 DEF WriteBlock, ProducerType
  <2> QED
    BY <1>6, <1>q, <2>2, <2>3 DEF WriteBlock, TypeInv, TypeOK
<1>7. CASE WriteFails
  BY <1>7, <1>i, <1>q DEF WriteFails, TypeInv, TypeOK
<1>8. CASE SetL1Cursor
  <2>1. prod' \in ProducerType /\ l1Cursor' \in Nat
    BY <1>0, <1>8 DEF SetL1Cursor, ProducerType
  <2> QED
    BY <1>8, <1>q, <2>1 DEF SetL1Cursor, TypeInv, TypeOK
<1>9. CASE CursorFails
  BY <1>9, <1>i, <1>q DEF CursorFails, TypeInv, TypeOK
<1>10. CASE PublishHead
  <2>1. head' \in [height : Nat, hash : Nat]
    BY <1>0, <1>10 DEF PublishHead
  <2> QED
    BY <1>10, <1>i, <1>q, <2>1 DEF PublishHead, TypeInv, TypeOK
<1> QED
  BY <1>1, <1>2, <1>3, <1>4, <1>5, <1>6, <1>7, <1>8, <1>9, <1>10 DEF ProducerStep

LEMMA TypeCrash ==
    ASSUME TypeInv, Crash
    PROVE  TypeInv'
<1> USE DEF l1Vars, dbVars
<1>1. state' \in LedgerType /\ head' \in [height : Nat, hash : Nat]
  BY LastBlockType DEF Crash, ResumedHead, TypeInv
<1>2. mempool' \in [mints : Seq(Mints), transfers : Seq(Transfers),
                    pending : SUBSET Nullifiers]
  BY EmptySeq DEF Crash, EmptyMempool
<1>3. prod' \in ProducerType
  BY EmptySeq, EmptyLedgerType DEF Crash, IdleProducer, ProducerType, GenesisL1
<1>4. pc' \in [Requests -> Phases] /\ QueriedIsTransfer'
  BY DEF Crash, TypeInv, TypeOK, QueriedIsTransfer, Phases, Terminal
<1> QED
  BY <1>1, <1>2, <1>3, <1>4 DEF Crash, TypeInv, TypeOK

LEMMA TypeStep == TypeInv /\ [Next]_vars => TypeInv'
<1> SUFFICES ASSUME TypeInv, [Next]_vars
             PROVE  TypeInv'
  OBVIOUS
<1>1. CASE Next
  BY <1>1, TypeL1, TypeClient, TypeHandler, TypeProducer, TypeCrash DEF Next
<1>2. CASE UNCHANGED vars
  BY <1>2 DEF vars, l1Vars, procVars, dbVars, reqVars, counters, TypeInv, TypeOK,
              QueriedIsTransfer
<1> QED
  BY <1>1, <1>2

\* Every reachable state is well typed: in particular no balance underflows or
\* leaves u64 (state.rs:131-135), and whatever is stored is a whole block.
THEOREM TypeCorrect == Spec => []TypeOK
<1>1. Spec => []TypeInv
  BY TypeInit, TypeStep, PTL DEF Spec
<1>2. TypeInv => TypeOK
  BY DEF TypeInv
<1> QED
  BY <1>1, <1>2, PTL
-----------------------------------------------------------------------------
(* Safety of the stored chain.  Whether a stored transaction can be stored *)
(* again is decided by a ledger in memory, which is ahead of the stored    *)
(* one: the invariant ties the three ledgers (newest snapshot, state,      *)
(* prod.working) and the transactions on both sides together.              *)

\* Each ledger has grown out of the one before it.
LedgersGrow ==
    /\ Grows(LastBlock.snapshot, state)
    /\ prod.at = "build" => Grows(state, prod.working)
    /\ prod.at = "write" => prod.working = state

\* The block being built holds transactions the stored ledger does not know,
\* and no two of which one ledger would execute one.
Building == prod.at \in {"build", "write"}
BuiltIsNew ==
    Building =>
      /\ \A i \in 1..Len(prod.txs) :
            /\ Known(prod.working, prod.txs[i])
            /\ ~Known(LastBlock.snapshot, prod.txs[i])
      /\ \A i, j \in 1..Len(prod.txs) :
            Same(prod.txs[i], prod.txs[j]) => i = j

\* The newest snapshot knows every stored transaction.
StoredIsKnown ==
    \A i \in 1..Len(chain) : \A j \in 1..Len(chain[i].txs) :
        Known(LastBlock.snapshot, chain[i].txs[j])

NoReplay ==
    \A i, k \in 1..Len(chain) :
      \A j \in 1..Len(chain[i].txs), m \in 1..Len(chain[k].txs) :
        Same(chain[i].txs[j], chain[k].txs[m]) => i = k /\ j = m

\* Between the write and the publication of a block the head is one behind.
HeadIsBehind ==
    prod.at \in {"cursor", "publish"} =>
        head.height + 2 = Len(chain) /\ LastBlock.hash = builds

SafeInv ==
    /\ LedgersGrow /\ BuiltIsNew /\ StoredIsKnown /\ NoReplay
    /\ HeadIsBehind /\ HeadIsStored /\ ChainLinked

\* The stored chain of the initial state is the genesis block.
LEMMA SafeInit == Init => SafeInv
<1> SUFFICES ASSUME Init PROVE SafeInv
  OBVIOUS
<1>1. /\ Len(chain) = 1 /\ chain[1] = GenesisBlock /\ LastBlock = GenesisBlock
      /\ Len(GenesisBlock.txs) = 0 /\ GenesisBlock.hash = 0
      /\ GenesisBlock.snapshot = EmptyLedger
  BY DEF Init, LastBlock, GenesisBlock
<1>2. prod.at = "idle"
  BY DEF Init, IdleProducer
<1>3. LedgersGrow
  BY <1>1, <1>2, EmptyLedgerType, GrowsOrder DEF Init, LedgersGrow
<1>4. StoredIsKnown /\ NoReplay /\ ChainLinked
  BY <1>1 DEF StoredIsKnown, NoReplay, ChainLinked
<1>5. HeadIsStored
  BY <1>1 DEF Init, HeadIsStored
<1> QED
  BY <1>2, <1>3, <1>4, <1>5 DEF SafeInv, BuiltIsNew, Building, HeadIsBehind

\* Only the producer and a crash touch what SafeInv is about.
LEMMA SafeUnchanged ==
    ASSUME SafeInv, UNCHANGED <<state, head, prod, chain, builds>>
    PROVE  SafeInv'
<1>1. LastBlock' = LastBlock
  BY DEF LastBlock
<1>2. LedgersGrow'
  BY <1>1 DEF SafeInv, LedgersGrow
<1>3. BuiltIsNew'
  BY <1>1 DEF SafeInv, BuiltIsNew, Building
<1>4. StoredIsKnown' /\ NoReplay' /\ ChainLinked'
  BY <1>1 DEF SafeInv, StoredIsKnown, NoReplay, ChainLinked
<1>5. HeadIsBehind' /\ HeadIsStored'
  BY <1>1 DEF SafeInv, HeadIsBehind, HeadIsStored
<1> QED
  BY <1>2, <1>3, <1>4, <1>5 DEF SafeInv

LEMMA SafeEnvironment ==
    ASSUME SafeInv,
           L1Step \/ \E r \in Requests : ClientStep(r) \/ HandlerStep(r)
    PROVE  SafeInv'
<1>1. UNCHANGED <<state, head, prod, chain, builds>>
  BY DEF L1Step, FundLock, ReclaimLock, ReorgLock, ClientStep, VerifyMint,
         QueryNonce, SendTransfer, HandlerStep, CheckConsumed, PushMint,
         AddPending, CheckNonce, PushTransfer, SignSoftConf,
         procVars, dbVars, counters
<1> QED
  BY <1>1, SafeUnchanged

\* The producer outside its building phase: nothing it holds matters.
LEMMA SafeQuiet ==
    ASSUME SafeInv, UNCHANGED <<state, head, chain, builds>>,
           prod'.at \in {"idle", "drain"}
    PROVE  SafeInv'
<1>1. LastBlock' = LastBlock
  BY DEF LastBlock
<1> QED
  BY <1>1 DEF SafeInv, LedgersGrow, BuiltIsNew, Building, StoredIsKnown,
              NoReplay, HeadIsBehind, HeadIsStored, ChainLinked

\* One round of either loop of produce_block.  If the transaction applies, the
\* working ledger did not know it, so neither does the stored one, and no
\* transaction taken before conflicts with it.
LEMMA SafeRound ==
    ASSUME TypeInv, SafeInv, prod.at = "build",
           NEW tx \in Txs, NEW ok \in BOOLEAN, ok => Applies(prod.working, tx),
           UNCHANGED <<state, head, chain, builds>>,
           prod'.at = "build",
           prod'.txs = IF ok THEN Append(prod.txs, tx) ELSE prod.txs,
           prod'.working = IF ok THEN Apply(prod.working, tx) ELSE prod.working
    PROVE  SafeInv'
<1> DEFINE n == Len(prod.txs)
<1>0. /\ LastBlock' = LastBlock /\ LastBlock.snapshot \in LedgerType
      /\ state \in LedgerType /\ prod.working \in LedgerType
      /\ prod.txs \in Seq(Txs) /\ n \in Nat
      /\ \A i \in 1..n : prod.txs[i] \in Txs
  <2>1. /\ LastBlock' = LastBlock /\ LastBlock.snapshot \in LedgerType
        /\ state \in LedgerType /\ prod.working \in LedgerType
        /\ prod.txs \in Seq(Txs)
    BY LastBlockType DEF LastBlock, TypeInv, TypeOK, ProducerType
  <2> QED
    BY <2>1, ElementOfSeq, LenProperties
<1>t. tx \in MintTx(Requests) \cup TransferTx(Requests)
  BY DEF Txs, Mints, Transfers
<1>c. StoredIsKnown' /\ NoReplay' /\ ChainLinked' /\ HeadIsBehind' /\ HeadIsStored'
  BY <1>0 DEF SafeInv, StoredIsKnown, NoReplay, ChainLinked, HeadIsBehind,
              HeadIsStored
<1>1. CASE ~ok
  <2>1. prod'.txs = prod.txs /\ prod'.working = prod.working
    BY <1>1
  <2>2. LedgersGrow'
    BY <2>1, <1>0 DEF SafeInv, LedgersGrow
  <2>3. BuiltIsNew'
    BY <2>1, <1>0 DEF SafeInv, BuiltIsNew, Building
  <2> QED
    BY <1>c, <2>2, <2>3 DEF SafeInv
<1>2. CASE ok
  <2>1. /\ prod'.txs = Append(prod.txs, tx)
        /\ prod'.working = Apply(prod.working, tx)
        /\ prod'.working \in LedgerType
    BY <1>0, <1>2, ApplyType DEF Txs, Mints, Transfers
  <2>2. /\ ~Known(prod.working, tx)
        /\ Known(prod'.working, tx)
        /\ Grows(prod.working, prod'.working)
    <3>1. Applies(prod.working, tx)
      BY <1>2
    <3> QED
      <4>1. /\ ~Known(prod.working, tx)
            /\ Known(Apply(prod.working, tx), tx)
        BY <1>0, <1>t, <3>1, ApplyKnows
      <4>2. Grows(prod.working, Apply(prod.working, tx))
        BY <1>0, <1>t, ApplyGrows
      <4> QED
        BY <2>1, <4>1, <4>2
  <2>3. /\ Grows(state, prod'.working)
        /\ Grows(LastBlock.snapshot, prod.working)
    BY <1>0, <2>1, <2>2, GrowsOrder DEF SafeInv, LedgersGrow
  <2>4. ~Known(LastBlock.snapshot, tx)
    BY <1>0, <2>2, <2>3, KnownGrows DEF Txs, Mints, Transfers
  <2>5. /\ Len(prod'.txs) = n + 1
        /\ prod'.txs[n + 1] = tx
        /\ \A i \in 1..n : prod'.txs[i] = prod.txs[i]
    BY <1>0, <2>1, AppendProperties
  <2>6. \A i \in 1..n : /\ Known(prod.working, prod.txs[i])
                         /\ ~Known(LastBlock.snapshot, prod.txs[i])
    BY DEF SafeInv, BuiltIsNew, Building
  <2>7. \A i \in 1..n : Known(prod'.working, prod.txs[i])
    BY <1>0, <2>1, <2>2, <2>6, KnownGrows DEF Txs, Mints, Transfers
  <2>8. \A i \in 1..n : ~Same(prod.txs[i], tx) /\ ~Same(tx, prod.txs[i])
    <3>1. \A i \in 1..n : ~Same(prod.txs[i], tx)
      BY <2>2, <2>6, SameKnown
    <3> QED
      BY <3>1 DEF Same
  <2>9. \A i \in 1..(n + 1) : i = n + 1 \/ i \in 1..n
    BY <1>0
  <2>10. BuiltIsNew'
    <3>1. \A i \in 1..(n + 1) : /\ Known(prod'.working, prod'.txs[i])
                                /\ ~Known(LastBlock.snapshot, prod'.txs[i])
      BY <2>2, <2>4, <2>5, <2>6, <2>7, <2>9
    <3>2. \A i, j \in 1..(n + 1) : Same(prod'.txs[i], prod'.txs[j]) => i = j
      <4> SUFFICES ASSUME NEW i \in 1..(n + 1), NEW j \in 1..(n + 1),
                          Same(prod'.txs[i], prod'.txs[j])
                   PROVE  i = j
        OBVIOUS
      <4>1. CASE i \in 1..n /\ j \in 1..n
        BY <4>1, <2>5 DEF SafeInv, BuiltIsNew, Building
      <4>2. CASE i \in 1..n /\ j = n + 1
        BY <4>2, <2>5, <2>8
      <4>3. CASE i = n + 1 /\ j \in 1..n
        BY <4>3, <2>5, <2>8
      <4>4. CASE i = n + 1 /\ j = n + 1
        BY <4>4
      <4> QED
        BY <2>9, <4>1, <4>2, <4>3, <4>4
    <3> QED
      BY <1>0, <2>5, <3>1, <3>2 DEF BuiltIsNew
  <2>11. LedgersGrow'
    BY <1>0, <2>3 DEF SafeInv, LedgersGrow
  <2> QED
    BY <1>c, <2>10, <2>11 DEF SafeInv
<1> QED
  BY <1>1, <1>2

\* write_block_and_state: the block extends the head, its transactions are new
\* to the stored chain, and its snapshot knows them.
LEMMA SafeWrite ==
    ASSUME TypeInv, SafeInv, WriteBlock
    PROVE  SafeInv'
<1> DEFINE n == Len(chain)
<1>1. /\ n \in Nat \ {0} /\ chain \in Seq(Block) /\ prod.txs \in Seq(Txs)
      /\ state \in LedgerType /\ LastBlock.snapshot \in LedgerType
      /\ head.height \in Nat /\ Len(prod.txs) \in Nat
  <2>1. /\ n \in Nat \ {0} /\ LastBlock.snapshot \in LedgerType
    BY LastBlockType DEF TypeInv
  <2> QED
    BY <2>1, LenProperties DEF TypeInv, TypeOK, ProducerType
<1>2. /\ prod.at = "write" /\ head.height + 1 = n
      /\ chain' = Append(chain, NewBlock) /\ prod'.at = "cursor"
      /\ UNCHANGED <<state, head, builds>>
  BY DEF WriteBlock, HeightIsFree, TypeInv, TypeOK, ProducerType, counters
<1>3. NewBlock \in Block
  BY <1>1, RootType DEF NewBlock, Block, TypeInv, TypeOK, ProducerType
<1>4. /\ Len(chain') = n + 1 /\ chain'[n + 1] = NewBlock
      /\ \A i \in 1..n : chain'[i] = chain[i]
  BY <1>1, <1>2, <1>3, AppendProperties
<1>5. LastBlock' = NewBlock
  BY <1>4 DEF LastBlock
<1>6. /\ NewBlock.snapshot = state /\ NewBlock.hash = builds
      /\ NewBlock.prev = head.hash /\ NewBlock.txs = prod.txs
  BY DEF NewBlock
<1>7. LedgersGrow'
  BY <1>1, <1>2, <1>5, <1>6, GrowsOrder DEF LedgersGrow
<1>8. BuiltIsNew' /\ HeadIsBehind'
  BY <1>1, <1>2, <1>4, <1>5, <1>6 DEF BuiltIsNew, Building, HeadIsBehind
<1>9. \A i \in 1..(n + 1) : i = n + 1 \/ i \in 1..n
  BY <1>1
<1>t. \A i \in 1..n : \A j \in 1..Len(chain[i].txs) : chain[i].txs[j] \in Txs
  <2> SUFFICES ASSUME NEW i \in 1..n, NEW j \in 1..Len(chain[i].txs)
               PROVE  chain[i].txs[j] \in Txs
    OBVIOUS
  <2>1. chain[i] \in Block
    BY <1>1, ElementOfSeq
  <2>2. chain[i].txs \in Seq(Txs)
    BY <2>1 DEF Block
  <2> QED
    BY <2>2, ElementOfSeq
<1>10. \A j \in 1..Len(prod.txs) : /\ Known(state, prod.txs[j])
                                    /\ ~Known(LastBlock.snapshot, prod.txs[j])
  BY <1>2 DEF SafeInv, BuiltIsNew, Building, LedgersGrow
<1>11. \A i \in 1..n : \A j \in 1..Len(chain[i].txs) :
          /\ Known(LastBlock.snapshot, chain[i].txs[j])
          /\ Known(state, chain[i].txs[j])
  <2> SUFFICES ASSUME NEW i \in 1..n, NEW j \in 1..Len(chain[i].txs)
               PROVE  /\ Known(LastBlock.snapshot, chain[i].txs[j])
                      /\ Known(state, chain[i].txs[j])
    OBVIOUS
  <2>1. Known(LastBlock.snapshot, chain[i].txs[j])
    BY DEF SafeInv, StoredIsKnown
  <2>2. Grows(LastBlock.snapshot, state)
    BY DEF SafeInv, LedgersGrow
  <2>3. chain[i].txs[j] \in MintTx(Requests) \cup TransferTx(Requests)
    BY <1>t DEF Txs, Mints, Transfers
  <2>4. Known(state, chain[i].txs[j])
    BY <1>1, <2>1, <2>2, <2>3, KnownGrows
  <2> QED
    BY <2>1, <2>4
<1>12. StoredIsKnown'
  <2> SUFFICES ASSUME NEW i \in 1..(n + 1), NEW j \in 1..Len(chain'[i].txs)
               PROVE  Known(state, chain'[i].txs[j])
    BY <1>2, <1>4, <1>5, <1>6 DEF StoredIsKnown
  <2>1. CASE i \in 1..n
    BY <2>1, <1>4, <1>11
  <2>2. CASE i = n + 1
    BY <2>2, <1>4, <1>6, <1>10
  <2> QED
    BY <1>9, <2>1, <2>2
<1>13. NoReplay'
  <2> SUFFICES ASSUME NEW i \in 1..(n + 1), NEW k \in 1..(n + 1),
                      NEW j \in 1..Len(chain'[i].txs),
                      NEW m \in 1..Len(chain'[k].txs),
                      Same(chain'[i].txs[j], chain'[k].txs[m])
               PROVE  i = k /\ j = m
    BY <1>4 DEF NoReplay
  <2>1. CASE i \in 1..n /\ k \in 1..n
    BY SMTT(30), <2>1, <1>4 DEF SafeInv, NoReplay
  <2>2. CASE i \in 1..n /\ k = n + 1
    <3>1. /\ Known(LastBlock.snapshot, chain'[i].txs[j])
          /\ ~Known(LastBlock.snapshot, chain'[k].txs[m])
      BY <2>2, <1>4, <1>6, <1>10, <1>11
    <3> QED
      BY <3>1, SameKnown
  <2>3. CASE i = n + 1 /\ k \in 1..n
    <3>1. /\ Known(LastBlock.snapshot, chain'[k].txs[m])
          /\ ~Known(LastBlock.snapshot, chain'[i].txs[j])
      BY <2>3, <1>4, <1>6, <1>10, <1>11
    <3>2. Same(chain'[k].txs[m], chain'[i].txs[j])
      BY DEF Same
    <3> QED
      BY <3>1, <3>2, SameKnown
  <2>4. CASE i = n + 1 /\ k = n + 1
    BY <2>4, <1>2, <1>4, <1>6 DEF SafeInv, BuiltIsNew, Building
  <2> QED
    BY <1>9, <2>1, <2>2, <2>3, <2>4
<1>14. HeadIsStored'
  BY <1>1, <1>2, <1>4 DEF SafeInv, HeadIsStored
<1>15. ChainLinked'
  <2> SUFFICES ASSUME NEW i \in 2..(n + 1)
               PROVE  chain'[i].prev = chain'[i - 1].hash
    BY <1>4 DEF ChainLinked
  <2>1. CASE i \in 2..n
    BY <2>1, <1>1, <1>4 DEF SafeInv, ChainLinked
  <2>2. CASE i = n + 1
    <3>1. chain[n].hash = head.hash
      BY <1>1, <1>2 DEF SafeInv, HeadIsStored
    <3> QED
      BY <2>2, <3>1, <1>1, <1>4, <1>6
  <2> QED
    BY <1>1, <2>1, <2>2
<1> QED
  BY <1>7, <1>8, <1>12, <1>13, <1>14, <1>15 DEF SafeInv

LEMMA SafeProducer ==
    ASSUME TypeInv, SafeInv, ProducerStep
    PROVE  SafeInv'
<1> USE DEF dbVars, counters
<1>0. prod \in ProducerType
  BY DEF TypeInv, TypeOK
<1>i. IdleProducer.at = "idle"
  BY DEF IdleProducer
<1>1. CASE ReadL1
  <2>1. prod'.at = "drain" /\ UNCHANGED <<state, head, chain, builds>>
    BY <1>0, <1>1 DEF ReadL1, ProducerType
  <2> QED
    BY <2>1, SafeQuiet
<1>2. CASE Drain
  <2>1. /\ prod'.at = "build" /\ prod'.txs = <<>> /\ prod'.working = state
        /\ UNCHANGED <<state, head, chain, builds>>
    BY <1>0, <1>2 DEF Drain, ProducerType
  <2>2. Grows(state, state)
    BY GrowsOrder DEF TypeInv, TypeOK
  <2>3. LastBlock' = LastBlock
    BY <2>1 DEF LastBlock
  <2>4. LedgersGrow'
    BY <2>1, <2>2, <2>3 DEF SafeInv, LedgersGrow
  <2>5. BuiltIsNew'
    BY <2>1 DEF BuiltIsNew
  <2> QED
    BY <2>1, <2>3, <2>4, <2>5 DEF SafeInv, StoredIsKnown, NoReplay, HeadIsBehind,
                                  HeadIsStored, ChainLinked
<1>3. CASE BuildMint
  <2>1. PICK answered \in Answers :
           LET tx == Head(prod.mints)
               ok == /\ answered /\ WitnessVerifies(tx.nullifier)
                     /\ Applies(prod.working, tx)
           IN  prod' = [prod EXCEPT
                   !.mints = Tail(@),
                   !.txs = IF ok THEN Append(@, tx) ELSE @,
                   !.working = IF ok THEN Apply(@, tx) ELSE @]
    BY <1>3 DEF BuildMint
  <2> DEFINE tx == Head(prod.mints)
             ok == /\ answered /\ WitnessVerifies(tx.nullifier)
                   /\ Applies(prod.working, tx)
  <2>2. tx \in Txs
    BY <1>0, <1>3, HeadTailProperties DEF BuildMint, ProducerType, Txs
  <2>3. ok \in BOOLEAN /\ (ok => Applies(prod.working, tx))
    BY DEF Answers, WitnessVerifies
  <2>4. /\ prod.at = "build" /\ prod'.at = "build"
        /\ prod'.txs = IF ok THEN Append(prod.txs, tx) ELSE prod.txs
        /\ prod'.working = IF ok THEN Apply(prod.working, tx) ELSE prod.working
        /\ UNCHANGED <<state, head, chain, builds>>
    <3>1. prod' = [prod EXCEPT
              !.mints = Tail(prod.mints),
              !.txs = IF ok THEN Append(prod.txs, tx) ELSE prod.txs,
              !.working = IF ok THEN Apply(prod.working, tx) ELSE prod.working]
      BY <2>1
    <3>2. prod.at = "build" /\ UNCHANGED <<state, head, chain, builds>>
      BY <1>3 DEF BuildMint
    <3> HIDE DEF tx, ok
    <3> QED
      BY <1>0, <3>1, <3>2 DEF ProducerType
  <2> HIDE DEF tx, ok
  <2> QED
    BY <2>2, <2>3, <2>4, SafeRound
<1>4. CASE BuildTransfer
  <2> DEFINE tx == Head(prod.transfers)
             ok == Applies(prod.working, tx)
  <2>1. tx \in Txs
    BY <1>0, <1>4, HeadTailProperties DEF BuildTransfer, ProducerType, Txs
  <2>2. ok \in BOOLEAN /\ (ok => Applies(prod.working, tx))
    BY DEF Applies, MintApplies, TransferApplies
  <2>3. /\ prod.at = "build" /\ prod'.at = "build"
        /\ prod'.txs = IF ok THEN Append(prod.txs, tx) ELSE prod.txs
        /\ prod'.working = IF ok THEN Apply(prod.working, tx) ELSE prod.working
        /\ UNCHANGED <<state, head, chain, builds>>
    <3>1. prod' = [prod EXCEPT
              !.transfers = Tail(prod.transfers),
              !.txs = IF ok THEN Append(prod.txs, tx) ELSE prod.txs,
              !.working = IF ok THEN Apply(prod.working, tx) ELSE prod.working]
      BY <1>4 DEF BuildTransfer
    <3>2. prod.at = "build" /\ UNCHANGED <<state, head, chain, builds>>
      BY <1>4 DEF BuildTransfer
    <3> HIDE DEF tx, ok
    <3> QED
      BY <1>0, <3>1, <3>2 DEF ProducerType
  <2> HIDE DEF tx, ok
  <2> QED
    BY <2>1, <2>2, <2>3, SafeRound
<1>5. CASE Seal
  <2>1. /\ prod.at = "build" /\ prod'.at = "write"
        /\ prod'.txs = prod.txs /\ prod'.working = prod.working
        /\ state' = prod.working /\ UNCHANGED <<head, chain>>
    BY <1>0, <1>5 DEF Seal, ProducerType
  <2>2. LastBlock' = LastBlock
    BY <2>1 DEF LastBlock
  <2>3. Grows(LastBlock.snapshot, prod.working)
    <3>1. Grows(LastBlock.snapshot, state) /\ Grows(state, prod.working)
      BY <2>1 DEF SafeInv, LedgersGrow
    <3>2. /\ LastBlock.snapshot \in LedgerType /\ state \in LedgerType
          /\ prod.working \in LedgerType
      BY LastBlockType DEF TypeInv, TypeOK, ProducerType
    <3> QED
      BY <3>1, <3>2, GrowsOrder
  <2>4. LedgersGrow'
    BY <2>1, <2>2, <2>3 DEF LedgersGrow
  <2>5. BuiltIsNew'
    BY <2>1, <2>2 DEF SafeInv, BuiltIsNew, Building
  <2> QED
    BY <2>1, <2>2, <2>4, <2>5 DEF SafeInv, StoredIsKnown, NoReplay, HeadIsBehind,
                                  HeadIsStored, ChainLinked
<1>6. CASE WriteBlock
  BY <1>6, SafeWrite
<1>7. CASE WriteFails
  <2>1. prod'.at = "idle" /\ UNCHANGED <<state, head, chain, builds>>
    BY <1>7, <1>i DEF WriteFails
  <2> QED
    BY <2>1, SafeQuiet
<1>8. CASE SetL1Cursor
  <2>1. /\ prod.at = "cursor" /\ prod'.at = "publish"
        /\ UNCHANGED <<state, head, chain, builds>>
    BY <1>0, <1>8 DEF SetL1Cursor, ProducerType
  <2>2. LastBlock' = LastBlock
    BY <2>1 DEF LastBlock
  <2> QED
    BY <2>1, <2>2 DEF SafeInv, LedgersGrow, BuiltIsNew, Building, StoredIsKnown,
                      NoReplay, HeadIsBehind, HeadIsStored, ChainLinked
<1>9. CASE CursorFails
  <2>1. prod'.at = "idle" /\ UNCHANGED <<state, head, chain, builds>>
    BY <1>9, <1>i DEF CursorFails
  <2> QED
    BY <2>1, SafeQuiet
<1>10. CASE PublishHead
  <2>1. /\ prod.at = "publish" /\ prod'.at = "idle"
        /\ head'.height = head.height + 1 /\ head'.hash = builds
        /\ UNCHANGED <<state, chain, builds>>
    BY <1>10, <1>i DEF PublishHead
  <2>2. LastBlock' = LastBlock
    BY <2>1 DEF LastBlock
  <2>3. HeadIsStored'
    <3>1. head.height + 2 = Len(chain) /\ LastBlock.hash = builds
      BY <2>1 DEF SafeInv, HeadIsBehind
    <3>2. head.height \in Nat /\ Len(chain) \in Nat
      BY LastBlockType DEF TypeInv, TypeOK
    <3> QED
      BY <2>1, <3>1, <3>2 DEF HeadIsStored, LastBlock
  <2> QED
    BY <2>1, <2>2, <2>3 DEF SafeInv, LedgersGrow, BuiltIsNew, Building,
                            StoredIsKnown, NoReplay, HeadIsBehind, ChainLinked
<1> QED
  BY <1>1, <1>2, <1>3, <1>4, <1>5, <1>6, <1>7, <1>8, <1>9, <1>10 DEF ProducerStep

\* `bootstrap` resumes at the newest block with the ledger stored beside it.
LEMMA SafeCrash ==
    ASSUME TypeInv, SafeInv, Crash
    PROVE  SafeInv'
<1>1. /\ state' = LastBlock.snapshot /\ head' = ResumedHead
      /\ prod' = IdleProducer /\ UNCHANGED <<chain, builds>>
  BY DEF Crash, dbVars
<1>2. LastBlock' = LastBlock
  BY <1>1 DEF LastBlock
<1>3. prod'.at = "idle"
  BY <1>1 DEF IdleProducer
<1>4. Grows(LastBlock.snapshot, LastBlock.snapshot)
  BY LastBlockType, GrowsOrder DEF TypeInv
<1>5. LedgersGrow'
  BY <1>1, <1>2, <1>3, <1>4 DEF LedgersGrow
<1>6. HeadIsStored'
  <2>1. Len(chain) \in Nat \ {0}
    BY LastBlockType DEF TypeInv
  <2> QED
    BY <1>1, <2>1 DEF HeadIsStored, ResumedHead, LastBlock
<1>7. BuiltIsNew' /\ HeadIsBehind'
  BY <1>3 DEF BuiltIsNew, Building, HeadIsBehind
<1>8. StoredIsKnown' /\ NoReplay' /\ ChainLinked'
  BY <1>1, <1>2 DEF SafeInv, StoredIsKnown, NoReplay, ChainLinked
<1> QED
  BY <1>5, <1>6, <1>7, <1>8 DEF SafeInv

LEMMA SafeStep == TypeInv /\ SafeInv /\ [Next]_vars => SafeInv'
<1> SUFFICES ASSUME TypeInv, SafeInv, [Next]_vars
             PROVE  SafeInv'
  OBVIOUS
<1>1. CASE Next
  BY <1>1, SafeEnvironment, SafeProducer, SafeCrash DEF Next
<1>2. CASE UNCHANGED vars
  BY <1>2, SafeUnchanged DEF vars, procVars, dbVars, counters
<1> QED
  BY <1>1, <1>2

LEMMA SafeInvariant == Spec => []SafeInv
<1>1. Spec => []TypeInv
  BY TypeInit, TypeStep, PTL DEF Spec
<1> QED
  BY <1>1, SafeInit, SafeStep, PTL DEF Spec

\* Positions of the chain are pairs of a block and an index into its body.
LEMMA PositionsAre ==
    ASSUME NEW p \in Positions
    PROVE  /\ p = <<p[1], p[2]>>
           /\ p[1] \in 1..Len(chain)
           /\ p[2] \in 1..Len(chain[p[1]].txs)
BY DEF Positions

LEMMA NoReplayAt ==
    ASSUME NoReplay, NEW p \in Positions, NEW q \in Positions,
           Same(TxAt(p), TxAt(q))
    PROVE  p = q
<1>1. p[1] = q[1] /\ p[2] = q[2]
  BY PositionsAre DEF NoReplay, TxAt
<1> QED
  BY <1>1, PositionsAre

\* A lock mints at most once in the stored chain, whatever is submitted and
\* whenever the process dies or the store fails (api.rs:175-203,
\* shared.rs:23, producer.rs:121-141).
THEOREM LockMintsOnce == Spec => []MintedOnce
<1>1. SafeInv => MintedOnce
  BY NoReplayAt DEF SafeInv, MintedOnce, Same
<1> QED
  BY <1>1, SafeInvariant, PTL

\* A signed transfer is applied at most once (state.rs:114-117).
THEOREM TransferAppliesOnce == Spec => []TransferredOnce
<1>1. SafeInv => TransferredOnce
  BY NoReplayAt DEF SafeInv, TransferredOnce, Same
<1> QED
  BY <1>1, SafeInvariant, PTL

\* The stored blocks are one hash-linked chain (producer.rs:150-199).
THEOREM StoredChainIsLinked == Spec => []ChainLinked
<1>1. SafeInv => ChainLinked
  BY DEF SafeInv
<1> QED
  BY <1>1, SafeInvariant, PTL

\* A published head is a stored block (producer.rs:187-209).
THEOREM PublishedHeadIsStored == Spec => []HeadIsStored
<1>1. SafeInv => HeadIsStored
  BY DEF SafeInv
<1> QED
  BY <1>1, SafeInvariant, PTL
-----------------------------------------------------------------------------
(* When an accepted submission gets into a block.  Its target is the block *)
(* above the head at the time of its receipt; by then it may be waiting in *)
(* the mempool behind a block that is being built, be in that block, or be *)
(* stored.                                                                 *)

\* What a queue holds.
Entries(s) == {s[i] : i \in 1..Len(s)}

\* Every submission is its own: what a handler pushes names its request.
SubIsOwn == \A r \in Requests : sub[r] # NoTx => sub[r].by = r

\* The store is at most one block ahead of the head.
StoreIsNear == Len(chain) <= head.height + 2

\* The next block the mempool can be drained into lies one above the head, or,
\* once a block is under way, two.
QueuedInTime(s) ==
    \A e \in Entries(s) :
        pc[e.by] = "accepted" =>
          /\ head.height <= target[e.by]
          /\ prod.at \notin {"idle", "drain"} => head.height + 1 <= target[e.by]
DrainedInTime(s) ==
    prod.at \in {"build", "write"} =>
    \A e \in Entries(s) : pc[e.by] = "accepted" => head.height <= target[e.by]
StoredInTime ==
    \A i \in 1..Len(chain) : \A e \in Entries(chain[i].txs) :
        pc[e.by] = "accepted" => i <= target[e.by] + 2

LateInv ==
    /\ SubIsOwn /\ StoreIsNear
    /\ QueuedInTime(mempool.mints) /\ QueuedInTime(mempool.transfers)
    /\ DrainedInTime(prod.mints) /\ DrainedInTime(prod.transfers)
    /\ DrainedInTime(prod.txs)
    /\ StoredInTime

\* What the operations on queues do to what they hold.
LEMMA EntriesAre ==
    ASSUME NEW S, NEW s \in Seq(S)
    PROVE  /\ Entries(s) \subseteq S
           /\ Entries(<<>>) = {}
           /\ \A x : Entries(Append(s, x)) = Entries(s) \cup {x}
           /\ s # <<>> => /\ Head(s) \in Entries(s)
                          /\ Entries(Tail(s)) \subseteq Entries(s)
                          /\ Entries(s) \subseteq Entries(Tail(s)) \cup {Head(s)}
<1>0. Len(s) \in Nat
  BY LenProperties
<1>1. Entries(s) \subseteq S
  BY ElementOfSeq DEF Entries
<1>2. Entries(<<>>) = {}
  BY EmptySeq DEF Entries
<1>3. ASSUME NEW x
      PROVE  Entries(Append(s, x)) = Entries(s) \cup {x}
  <2>1. s \in Seq(S \cup {x}) /\ x \in S \cup {x}
    BY SeqMonotonic
  <2>2. /\ Len(Append(s, x)) = Len(s) + 1 /\ Append(s, x)[Len(s) + 1] = x
        /\ \A i \in 1..Len(s) : Append(s, x)[i] = s[i]
    BY <2>1, AppendProperties
  <2>3. \A i \in 1..(Len(s) + 1) : i = Len(s) + 1 \/ i \in 1..Len(s)
    BY <1>0
  <2>4. 1..Len(s) \subseteq 1..(Len(s) + 1) /\ Len(s) + 1 \in 1..(Len(s) + 1)
    BY <1>0
  <2> QED
    BY <2>2, <2>3, <2>4 DEF Entries
<1>4. ASSUME s # <<>>
      PROVE  /\ Head(s) \in Entries(s)
             /\ Entries(Tail(s)) \subseteq Entries(s)
             /\ Entries(s) \subseteq Entries(Tail(s)) \cup {Head(s)}
  <2>1. /\ Head(s) = s[1] /\ Len(s) \in Nat \ {0} /\ Len(Tail(s)) = Len(s) - 1
        /\ \A i \in 1..Len(Tail(s)) : Tail(s)[i] = s[i + 1]
    BY <1>0, <1>4, HeadTailProperties, EmptySeq
  <2>2. \A i \in 1..(Len(s) - 1) : i + 1 \in 1..Len(s)
    BY <2>1
  <2>3. \A i \in 1..Len(s) : i = 1 \/ (i - 1 \in 1..(Len(s) - 1) /\ i = (i - 1) + 1)
    BY <2>1
  <2>4. Entries(Tail(s)) \subseteq Entries(s) /\ Head(s) \in Entries(s)
    BY <2>1, <2>2 DEF Entries
  <2>5. ASSUME NEW i \in 1..Len(s)
        PROVE  s[i] \in Entries(Tail(s)) \cup {Head(s)}
    <3>1. CASE i = 1
      BY <2>1, <3>1
    <3>2. CASE i # 1
      <4>1. i - 1 \in 1..Len(Tail(s)) /\ Tail(s)[i - 1] = s[i]
        BY <2>1, <2>3, <3>2
      <4> QED
        BY <4>1 DEF Entries
    <3> QED
      BY <3>1, <3>2
  <2> QED
    BY <2>4, <2>5 DEF Entries
<1> QED
  BY <1>1, <1>2, <1>3, <1>4

\* What waits, and what is stored, was submitted.
LEMMA EntriesAreSubmitted ==
    ASSUME TypeInv
    PROVE  /\ \A e \in Entries(mempool.mints) : e \in Mints /\ e.by \in Requests
           /\ \A e \in Entries(mempool.transfers) :
                e \in Transfers /\ e.by \in Requests
           /\ \A e \in Entries(prod.mints) : e \in Mints /\ e.by \in Requests
           /\ \A e \in Entries(prod.transfers) : e \in Transfers /\ e.by \in Requests
           /\ \A e \in Entries(prod.txs) : e \in Txs /\ e.by \in Requests
           /\ \A i \in 1..Len(chain) : \A e \in Entries(chain[i].txs) :
                e \in Txs /\ e.by \in Requests
<1>1. /\ mempool.mints \in Seq(Mints) /\ mempool.transfers \in Seq(Transfers)
      /\ prod.mints \in Seq(Mints) /\ prod.transfers \in Seq(Transfers)
      /\ prod.txs \in Seq(Txs)
  BY DEF TypeInv, TypeOK, ProducerType
<1>2. \A i \in 1..Len(chain) : chain[i].txs \in Seq(Txs)
  <2> SUFFICES ASSUME NEW i \in 1..Len(chain) PROVE chain[i].txs \in Seq(Txs)
    OBVIOUS
  <2>1. chain[i] \in Block
    BY ElementOfSeq DEF TypeInv, TypeOK
  <2> QED
    BY <2>1 DEF Block
<1>3. \A e \in Txs : e.by \in Requests
  BY DEF Txs, Mints, Transfers, MintTx, TransferTx
<1>4. Mints \subseteq Txs /\ Transfers \subseteq Txs
  BY DEF Txs
<1>5. /\ Entries(mempool.mints) \subseteq Mints
      /\ Entries(mempool.transfers) \subseteq Transfers
      /\ Entries(prod.mints) \subseteq Mints
      /\ Entries(prod.transfers) \subseteq Transfers
      /\ Entries(prod.txs) \subseteq Txs
  BY <1>1, EntriesAre
<1>6. \A i \in 1..Len(chain) : Entries(chain[i].txs) \subseteq Txs
  BY <1>2, EntriesAre
<1> QED
  BY <1>3, <1>4, <1>5, <1>6
LEMMA LateInit == Init => LateInv
<1> SUFFICES ASSUME Init PROVE LateInv
  OBVIOUS
<1>1. /\ Len(chain) = 1 /\ Len(chain[1].txs) = 0 /\ head.height = 0
  BY DEF Init, GenesisBlock
<1>2. \A r \in Requests : pc[r] # "accepted" /\ sub[r] = NoTx
  BY DEF Init
<1>3. /\ Entries(mempool.mints) = {} /\ Entries(mempool.transfers) = {}
      /\ Entries(prod.mints) = {} /\ Entries(prod.transfers) = {}
      /\ Entries(prod.txs) = {} /\ Entries(chain[1].txs) = {}
  BY <1>1 DEF Init, EmptyMempool, IdleProducer, Entries, GenesisBlock
<1> QED
  BY <1>1, <1>2, <1>3 DEF LateInv, SubIsOwn, StoreIsNear, QueuedInTime,
                          DrainedInTime, StoredInTime

\* The submissions are still their own after any step of a client or a handler.
LEMMA OwnKept ==
    ASSUME TypeInv, SubIsOwn, [Next]_vars
    PROVE  SubIsOwn'
<1>1. CASE UNCHANGED sub
  BY <1>1 DEF SubIsOwn
<1>2. ASSUME NEW r \in Requests, NEW in \in MintInputs, VerifyMint(r, in)
      PROVE  SubIsOwn'
  BY <1>2 DEF VerifyMint, MintOf, SubIsOwn, TypeInv, TypeOK
<1>3. ASSUME NEW r \in Requests, NEW in \in TransferInputs, NEW n,
             QueryNonce(r, in) \/ SendTransfer(r, in, n)
      PROVE  SubIsOwn'
  <2>1. \E m : sub' = [sub EXCEPT ![r] = TransferOf(r, in, m)]
    BY <1>3 DEF QueryNonce, SendTransfer
  <2>2. /\ sub'[r].by = r
        /\ \A q \in Requests \ {r} : sub'[q] = sub[q]
    BY <2>1 DEF TransferOf, TypeInv, TypeOK
  <2> QED
    BY <2>2 DEF SubIsOwn
<1>4. ASSUME NEW r \in Requests, AddPending(r)
      PROVE  SubIsOwn'
  <2>1. sub[r] \in Transfers /\ sub[r] # NoTx
    BY <1>4, TxTypes DEF AddPending, TypeInv, QueriedIsTransfer
  <2>2. sub[r].by = r
    BY <2>1 DEF SubIsOwn
  <2>3. sub'[r].by = r
    BY <1>4, <2>1, <2>2 DEF AddPending, TypeInv, TypeOK, Transfers, TransferTx
  <2>4. \A q \in Requests \ {r} : sub'[q] = sub[q]
    BY <1>4 DEF AddPending, TypeInv, TypeOK
  <2> QED
    BY <2>3, <2>4 DEF SubIsOwn
<1>5. [Next]_vars => \/ UNCHANGED sub
                     \/ \E r \in Requests, in \in MintInputs : VerifyMint(r, in)
                     \/ \E r \in Requests, in \in TransferInputs :
                          QueryNonce(r, in) \/ \E n \in RawNonces : SendTransfer(r, in, n)
                     \/ \E r \in Requests : AddPending(r)
  BY DEF Next, L1Step, FundLock, ReclaimLock, ReorgLock, ClientStep, HandlerStep,
         CheckConsumed, PushMint, CheckNonce, PushTransfer, SignSoftConf,
         ProducerStep, ReadL1, Drain, BuildMint, BuildTransfer, Seal, WriteBlock,
         WriteFails, SetL1Cursor, CursorFails, PublishHead, Crash, vars, reqVars
<1> QED
  BY <1>1, <1>2, <1>3, <1>4, <1>5

\* A step after which nothing more is accepted, waiting or stored.
LEMMA LateStays ==
    ASSUME TypeInv, LateInv, SubIsOwn', UNCHANGED <<head, chain, target>>,
           \A r \in Requests : pc'[r] = "accepted" => pc[r] = "accepted",
           Entries(mempool'.mints) \subseteq Entries(mempool.mints),
           Entries(mempool'.transfers) \subseteq Entries(mempool.transfers),
           prod'.at \in {"build", "write"} =>
               /\ prod.at \in {"build", "write"}
               /\ Entries(prod'.mints) \cup Entries(prod'.transfers)
                    \cup Entries(prod'.txs)
                  \subseteq Entries(prod.mints) \cup Entries(prod.transfers)
                              \cup Entries(prod.txs),
           prod'.at \notin {"idle", "drain"} => prod.at \notin {"idle", "drain"}
    PROVE  LateInv'
<1> DEFINE held == Entries(prod.mints) \cup Entries(prod.transfers)
                     \cup Entries(prod.txs)
<1>1. QueuedInTime(mempool.mints)' /\ QueuedInTime(mempool.transfers)'
  BY EntriesAreSubmitted DEF LateInv, QueuedInTime
<1>2. prod'.at \in {"build", "write"} =>
      \A e \in held : pc'[e.by] = "accepted" => head.height <= target[e.by]
  BY EntriesAreSubmitted DEF LateInv, DrainedInTime
<1>3. DrainedInTime(prod.mints)' /\ DrainedInTime(prod.transfers)'
      /\ DrainedInTime(prod.txs)'
  BY <1>2 DEF DrainedInTime
<1>4. StoredInTime'
  BY EntriesAreSubmitted DEF LateInv, StoredInTime
<1> QED
  BY <1>1, <1>3, <1>4 DEF LateInv, StoreIsNear

\* A push: the transaction is that of a request not accepted yet.
LEMMA LatePush ==
    ASSUME TypeInv, LateInv, SubIsOwn', NEW r \in Requests,
           PushMint(r) \/ PushTransfer(r)
    PROVE  LateInv'
<1>1. /\ UNCHANGED <<head, prod, chain, target, sub>>
      /\ pc'[r] # "accepted" /\ \A q \in Requests \ {r} : pc'[q] = pc[q]
  BY DEF PushMint, PushTransfer, Goto, TypeInv, TypeOK, dbVars
<1>2. sub[r] # NoTx /\ sub[r].by = r
  BY TxTypes DEF PushMint, PushTransfer, LateInv, SubIsOwn
<1>3. \A q \in Requests : pc'[q] = "accepted" => pc[q] = "accepted"
  BY <1>1
<1>4. /\ Entries(mempool'.mints) \subseteq Entries(mempool.mints) \cup {sub[r]}
      /\ Entries(mempool'.transfers) \subseteq Entries(mempool.transfers) \cup {sub[r]}
  <2>1. /\ mempool.mints \in Seq(Mints) /\ mempool.transfers \in Seq(Transfers)
        /\ DOMAIN mempool = {"mints", "transfers", "pending"}
    BY DEF TypeInv, TypeOK
  <2>2. /\ mempool'.mints \in {mempool.mints, Append(mempool.mints, sub[r])}
        /\ mempool'.transfers \in {mempool.transfers,
                                   Append(mempool.transfers, sub[r])}
    BY <2>1 DEF PushMint, PushTransfer
  <2> QED
    BY <2>1, <2>2, EntriesAre
<1>5. QueuedInTime(mempool.mints)' /\ QueuedInTime(mempool.transfers)'
  BY <1>1, <1>2, <1>3, <1>4, EntriesAreSubmitted DEF LateInv, QueuedInTime
<1>6. DrainedInTime(prod.mints)' /\ DrainedInTime(prod.transfers)'
      /\ DrainedInTime(prod.txs)' /\ StoredInTime'
  BY <1>1, <1>3, EntriesAreSubmitted DEF LateInv, DrainedInTime, StoredInTime
<1> QED
  BY <1>1, <1>5, <1>6 DEF LateInv, StoreIsNear

\* A receipt names the block above the head: wherever the transaction is, that
\* is soon enough.
LEMMA LateSign ==
    ASSUME TypeInv, LateInv, SubIsOwn', NEW r \in Requests, SignSoftConf(r)
    PROVE  LateInv'
<1>1. /\ UNCHANGED <<head, prod, chain, mempool, sub>>
      /\ target'[r] = head.height + 1
      /\ \A q \in Requests \ {r} : pc'[q] = pc[q] /\ target'[q] = target[q]
      /\ head.height \in Nat
  BY DEF SignSoftConf, Goto, TypeInv, TypeOK, dbVars, procVars
<1>2. QueuedInTime(mempool.mints)' /\ QueuedInTime(mempool.transfers)'
  BY <1>1, EntriesAreSubmitted DEF LateInv, QueuedInTime
<1>3. DrainedInTime(prod.mints)' /\ DrainedInTime(prod.transfers)'
      /\ DrainedInTime(prod.txs)'
  BY <1>1, EntriesAreSubmitted DEF LateInv, DrainedInTime
<1>4. StoredInTime'
  <2> SUFFICES ASSUME NEW i \in 1..Len(chain), NEW e \in Entries(chain[i].txs),
                      pc'[e.by] = "accepted"
               PROVE  i <= target'[e.by] + 2
    BY <1>1 DEF StoredInTime
  <2>1. e.by \in Requests
    BY EntriesAreSubmitted
  <2>2. CASE e.by = r
    <3>1. Len(chain) <= head.height + 2 /\ Len(chain) \in Nat
      BY LenProperties DEF LateInv, StoreIsNear, TypeInv, TypeOK
    <3> QED
      BY <1>1, <2>2, <3>1
  <2>3. CASE e.by # r
    BY <1>1, <2>1, <2>3 DEF LateInv, StoredInTime
  <2> QED
    BY <2>2, <2>3
<1> QED
  BY <1>1, <1>2, <1>3, <1>4 DEF LateInv, StoreIsNear
\* One round of either loop moves the first entry of its queue, if anywhere,
\* into the block.
LEMMA RoundMoves ==
    ASSUME TypeInv, BuildMint \/ BuildTransfer
    PROVE  /\ prod.at = "build" /\ prod'.at = "build"
           /\ Entries(prod'.mints) \cup Entries(prod'.transfers)
                \cup Entries(prod'.txs)
              \subseteq Entries(prod.mints) \cup Entries(prod.transfers)
                          \cup Entries(prod.txs)
           /\ UNCHANGED <<l1Tip, locks, state, head, mempool, chain, pc, sub, target>>
<1>0. prod \in ProducerType
  BY DEF TypeInv, TypeOK
<1>1. /\ prod.mints \in Seq(Mints) /\ prod.transfers \in Seq(Transfers)
      /\ prod.txs \in Seq(Txs)
      /\ DOMAIN prod = {"at", "l1Height", "mints", "transfers", "txs", "working"}
  BY <1>0 DEF ProducerType
<1>2. /\ prod.at = "build" /\ prod'.at = "build"
      /\ UNCHANGED <<l1Tip, locks, state, head, mempool, chain, pc, sub, target>>
  BY <1>1 DEF BuildMint, BuildTransfer, l1Vars, dbVars, reqVars
<1>3. CASE BuildMint
  <2>1. /\ prod.mints # <<>> /\ prod'.mints = Tail(prod.mints)
        /\ prod'.transfers = prod.transfers
        /\ prod'.txs \in {prod.txs, Append(prod.txs, Head(prod.mints))}
    BY <1>1, <1>3 DEF BuildMint
  <2>2. Entries(prod'.txs) \subseteq Entries(prod.txs) \cup {Head(prod.mints)}
    <3>1. \A x : Entries(Append(prod.txs, x)) = Entries(prod.txs) \cup {x}
      BY <1>1, EntriesAre
    <3> QED
      BY <2>1, <3>1
  <2>3. /\ Head(prod.mints) \in Entries(prod.mints)
        /\ Entries(Tail(prod.mints)) \subseteq Entries(prod.mints)
    BY <1>1, <2>1, EntriesAre
  <2> QED
    BY <1>2, <2>1, <2>2, <2>3
<1>4. CASE BuildTransfer
  <2>1. /\ prod.transfers # <<>> /\ prod'.transfers = Tail(prod.transfers)
        /\ prod'.mints = prod.mints
        /\ prod'.txs \in {prod.txs, Append(prod.txs, Head(prod.transfers))}
    BY <1>1, <1>4 DEF BuildTransfer
  <2>2. Entries(prod'.txs) \subseteq Entries(prod.txs) \cup {Head(prod.transfers)}
    <3>1. \A x : Entries(Append(prod.txs, x)) = Entries(prod.txs) \cup {x}
      BY <1>1, EntriesAre
    <3> QED
      BY <2>1, <3>1
  <2>3. /\ Head(prod.transfers) \in Entries(prod.transfers)
        /\ Entries(Tail(prod.transfers)) \subseteq Entries(prod.transfers)
    BY <1>1, <2>1, EntriesAre
  <2> QED
    BY <1>2, <2>1, <2>2, <2>3
<1> QED
  BY <1>3, <1>4

\* Drained: the mempool is empty, and what it held gets into the next block.
LEMMA LateDrain ==
    ASSUME TypeInv, LateInv, SubIsOwn', Drain
    PROVE  LateInv'
<1>1. /\ prod.at = "drain" /\ prod'.at = "build"
      /\ prod'.mints = mempool.mints /\ prod'.transfers = mempool.transfers
      /\ prod'.txs = <<>>
      /\ mempool'.mints = <<>> /\ mempool'.transfers = <<>>
      /\ UNCHANGED <<head, chain, pc, target>>
  BY DEF Drain, TypeInv, TypeOK, ProducerType, EmptyMempool, dbVars, reqVars
<1>2. Entries(<<>>) = {}
  BY EmptySeq, EntriesAre
<1>3. QueuedInTime(mempool.mints)' /\ QueuedInTime(mempool.transfers)'
  BY <1>1, <1>2 DEF QueuedInTime
<1>4. DrainedInTime(prod.mints)' /\ DrainedInTime(prod.transfers)'
      /\ DrainedInTime(prod.txs)'
  BY <1>1, <1>2 DEF LateInv, QueuedInTime, DrainedInTime
<1>5. StoredInTime'
  BY <1>1 DEF LateInv, StoredInTime
<1> QED
  BY <1>1, <1>3, <1>4, <1>5 DEF LateInv, StoreIsNear

\* The block is stored one above the head.
LEMMA LateWrite ==
    ASSUME TypeInv, LateInv, SubIsOwn', WriteBlock
    PROVE  LateInv'
<1> DEFINE n == Len(chain)
<1>1. /\ prod.at = "write" /\ prod'.at = "cursor" /\ head.height + 1 = n
      /\ chain' = Append(chain, NewBlock) /\ NewBlock.txs = prod.txs
      /\ UNCHANGED <<head, mempool, pc, target>>
  BY DEF WriteBlock, HeightIsFree, NewBlock, TypeInv, TypeOK, ProducerType, reqVars
<1>2. /\ chain \in Seq(Block) /\ n \in Nat /\ head.height \in Nat
  BY LenProperties DEF TypeInv, TypeOK
<1>3. /\ Len(chain') = n + 1 /\ chain'[n + 1] = NewBlock
      /\ \A i \in 1..n : chain'[i] = chain[i]
  <2>1. chain \in Seq(Block \cup {NewBlock}) /\ NewBlock \in Block \cup {NewBlock}
    BY <1>2, SeqMonotonic
  <2> QED
    BY <1>1, <2>1, AppendProperties
<1>4. StoredInTime'
  <2> SUFFICES ASSUME NEW i \in 1..(n + 1), NEW e \in Entries(chain'[i].txs),
                      pc[e.by] = "accepted"
               PROVE  i <= target[e.by] + 2
    BY <1>1, <1>3 DEF StoredInTime
  <2>1. CASE i \in 1..n
    BY <1>3, <2>1 DEF LateInv, StoredInTime
  <2>2. CASE i = n + 1
    <3>1. e \in Entries(prod.txs)
      BY <1>1, <1>3, <2>2
    <3>2. head.height <= target[e.by]
      BY <1>1, <3>1 DEF LateInv, DrainedInTime
    <3>3. target[e.by] \in Nat
      BY <3>1, EntriesAreSubmitted DEF TypeInv, TypeOK
    <3> QED
      BY <1>1, <1>2, <2>2, <3>2, <3>3
  <2> QED
    BY <1>2, <2>1, <2>2
<1>5. QueuedInTime(mempool.mints)' /\ QueuedInTime(mempool.transfers)'
  BY <1>1 DEF LateInv, QueuedInTime
<1>6. DrainedInTime(prod.mints)' /\ DrainedInTime(prod.transfers)'
      /\ DrainedInTime(prod.txs)'
  BY <1>1 DEF DrainedInTime
<1>7. StoreIsNear'
  BY <1>1, <1>2, <1>3 DEF StoreIsNear
<1> QED
  BY <1>4, <1>5, <1>6, <1>7 DEF LateInv

\* The head catches up with the store, and the mempool is one block nearer.
LEMMA LatePublish ==
    ASSUME TypeInv, SafeInv, LateInv, SubIsOwn', PublishHead
    PROVE  LateInv'
<1>1. /\ prod.at = "publish" /\ prod'.at = "idle"
      /\ head'.height = head.height + 1 /\ head.height \in Nat
      /\ UNCHANGED <<chain, mempool, pc, target>>
  BY DEF PublishHead, IdleProducer, TypeInv, TypeOK, dbVars, reqVars
<1>2. Len(chain) = head.height + 2
  BY <1>1 DEF SafeInv, HeadIsBehind
<1>3. QueuedInTime(mempool.mints)' /\ QueuedInTime(mempool.transfers)'
  BY <1>1 DEF LateInv, QueuedInTime
<1>4. DrainedInTime(prod.mints)' /\ DrainedInTime(prod.transfers)'
      /\ DrainedInTime(prod.txs)'
  BY <1>1 DEF DrainedInTime
<1>5. StoredInTime' /\ StoreIsNear'
  BY <1>1, <1>2 DEF LateInv, StoredInTime, StoreIsNear
<1> QED
  BY <1>3, <1>4, <1>5 DEF LateInv

\* A crash empties the mempool; what is stored was in time.
LEMMA LateCrash ==
    ASSUME TypeInv, LateInv, SubIsOwn', Crash
    PROVE  LateInv'
<1>1. /\ head'.height = Len(chain) - 1 /\ prod'.at = "idle"
      /\ mempool'.mints = <<>> /\ mempool'.transfers = <<>>
      /\ UNCHANGED <<chain, target>>
      /\ \A r \in Requests : pc'[r] = "accepted" => pc[r] = "accepted"
  BY DEF Crash, ResumedHead, IdleProducer, EmptyMempool, TypeInv, TypeOK, dbVars
<1>2. Entries(<<>>) = {}
  BY EmptySeq, EntriesAre
<1>3. Len(chain) \in Nat
  BY LenProperties DEF TypeInv, TypeOK
<1>4. QueuedInTime(mempool.mints)' /\ QueuedInTime(mempool.transfers)'
  BY <1>1, <1>2 DEF QueuedInTime
<1>5. DrainedInTime(prod.mints)' /\ DrainedInTime(prod.transfers)'
      /\ DrainedInTime(prod.txs)'
  BY <1>1 DEF DrainedInTime
<1>6. StoredInTime'
  BY <1>1, EntriesAreSubmitted DEF LateInv, StoredInTime
<1> QED
  BY <1>1, <1>3, <1>4, <1>5, <1>6 DEF LateInv, StoreIsNear

LEMMA LateStep == TypeInv /\ SafeInv /\ LateInv /\ [Next]_vars => LateInv'
<1> SUFFICES ASSUME TypeInv, SafeInv, LateInv, [Next]_vars
             PROVE  LateInv'
  OBVIOUS
<1>0. SubIsOwn'
  BY OwnKept DEF LateInv
<1>1. CASE L1Step \/ UNCHANGED vars
  <2>1. UNCHANGED <<head, prod, mempool, chain, target, pc>>
    BY <1>1 DEF L1Step, FundLock, ReclaimLock, ReorgLock, vars, procVars, dbVars,
                reqVars
  <2> QED
    BY <1>0, <2>1, LateStays
<1>2. ASSUME NEW r \in Requests,
             \/ ClientStep(r) \/ CheckConsumed(r) \/ AddPending(r) \/ CheckNonce(r)
      PROVE  LateInv'
  <2>1. UNCHANGED <<head, prod, mempool, chain, target>>
    BY <1>2 DEF ClientStep, VerifyMint, QueryNonce, SendTransfer, CheckConsumed,
                AddPending, CheckNonce, procVars, dbVars
  <2>2. \E phase : phase # "accepted" /\ pc' = [pc EXCEPT ![r] = phase]
    BY <1>2 DEF ClientStep, VerifyMint, QueryNonce, SendTransfer, CheckConsumed,
                AddPending, CheckNonce, Goto
  <2>3. \A q \in Requests : pc'[q] = "accepted" => pc[q] = "accepted"
    BY <2>2 DEF TypeInv, TypeOK
  <2> QED
    BY <1>0, <2>1, <2>3, LateStays
<1>3. ASSUME NEW r \in Requests, HandlerStep(r)
      PROVE  LateInv'
  BY <1>0, <1>2, <1>3, LatePush, LateSign DEF HandlerStep
<1>4. CASE ReadL1 \/ Seal \/ WriteFails \/ SetL1Cursor \/ CursorFails
  <2>1. UNCHANGED <<head, mempool, chain, target, pc>>
    BY <1>4 DEF ReadL1, Seal, WriteFails, SetL1Cursor, CursorFails, dbVars, reqVars
  <2>2. \/ prod'.at \in {"idle", "drain"}
        \/ prod.at = "cursor" /\ prod'.at = "publish"
        \/ /\ prod.at = "build" /\ prod'.at = "write"
           /\ prod'.mints = prod.mints /\ prod'.transfers = prod.transfers
           /\ prod'.txs = prod.txs
    <3>1. DOMAIN prod = {"at", "l1Height", "mints", "transfers", "txs", "working"}
      BY DEF TypeInv, TypeOK, ProducerType
    <3>2. CASE ReadL1
      BY <3>1, <3>2 DEF ReadL1
    <3>3. CASE Seal
      BY <3>1, <3>3 DEF Seal
    <3>4. CASE SetL1Cursor
      BY <3>1, <3>4 DEF SetL1Cursor
    <3>5. CASE WriteFails \/ CursorFails
      BY <3>5 DEF WriteFails, CursorFails, IdleProducer
    <3> QED
      BY <1>4, <3>2, <3>3, <3>4, <3>5
  <2> QED
    BY <1>0, <2>1, <2>2, LateStays
<1>5. CASE BuildMint \/ BuildTransfer
  BY <1>0, <1>5, RoundMoves, LateStays
<1> QED
  BY <1>0, <1>1, <1>2, <1>3, <1>4, <1>5, LateDrain, LateWrite, LatePublish, LateCrash
     DEF Next, ProducerStep

\* Where a submission whose receipt promises a height is stored, it is stored
\* there, below, or one block above (api.rs:36-38, producer.rs:100-109).  One that
\* is dropped, or lost in a crash or a failed write, is not stored at all.
THEOREM AcceptedInTime == Spec => []AtMostOneLate
<1>1. Spec => []TypeInv
  BY TypeInit, TypeStep, PTL DEF Spec
<1>2. Spec => []LateInv
  BY <1>1, SafeInvariant, LateInit, LateStep, PTL DEF Spec
<1>3. TypeInv /\ LateInv => AtMostOneLate
  <2> SUFFICES ASSUME TypeInv, LateInv, NEW p \in Positions,
                      pc[TxAt(p).by] = "accepted"
               PROVE  p[1] - 1 <= target[TxAt(p).by] + 1
    BY DEF AtMostOneLate
  <2>1. p[1] \in 1..Len(chain) /\ p[2] \in 1..Len(chain[p[1]].txs)
    BY PositionsAre
  <2>2. TxAt(p) \in Entries(chain[p[1]].txs)
    BY <2>1 DEF TxAt, Entries
  <2>3. p[1] <= target[TxAt(p).by] + 2
    BY <2>1, <2>2 DEF LateInv, StoredInTime
  <2>4. target[TxAt(p).by] \in Nat /\ p[1] \in Nat
    BY SMTT(30), <2>1, <2>2, EntriesAreSubmitted DEF TypeInv, TypeOK
  <2> QED
    BY <2>3, <2>4
<1> QED
  BY <1>1, <1>2, <1>3, PTL
-----------------------------------------------------------------------------
(* Where an accepted mint is.  Failing writes lose no mint that the ledger *)
(* in memory has not executed; crashes, failing calls to bitcoind and a    *)
(* lock that a reorg takes out of L1 and puts back do.                     *)
Undisturbed == ~RpcFaults /\ MaxCrashes = 0 /\ MaxReorgs = 0

\* All that waits, in the mempool or with the producer.
Held == Entries(mempool.mints) \cup Entries(mempool.transfers)
          \cup Entries(prod.mints) \cup Entries(prod.transfers)
          \cup Entries(prod.txs)

\* What waits is what its client sent.
HeldIsSubmitted ==
    \A e \in Held : e.by \in Requests /\ pc[e.by] \in {"pushed", "accepted"}
                    /\ e = sub[e.by]

\* Between blocks the producer holds nothing; once a block is sealed, nothing
\* that the ledger in memory has not executed.
HandsEmpty ==
    /\ prod.at \in {"idle", "drain"} =>
         prod.mints = <<>> /\ prod.transfers = <<>> /\ prod.txs = <<>>
    /\ prod.at \in {"write", "cursor", "publish"} =>
         /\ prod.mints = <<>> /\ prod.transfers = <<>>
         /\ \A e \in Entries(prod.txs) : Known(state, e)

\* Only a transfer comes to the nonce check.
ReadyIsTransfer == \A r \in Requests : pc[r] = "ready" => sub[r].type = "transfer"

\* A mint that went past its verification is worth something, and its lock is
\* or was in L1.
Funded ==
    \A r \in Requests :
        pc[r] \in {"verified", "checked", "pushed", "accepted"} /\ sub[r].type = "mint"
        => /\ sub[r].amount = MintAmount[sub[r].nullifier] /\ sub[r].amount # 0
           /\ locks[sub[r].nullifier] # "unfunded"

\* No two waiting mints of one queue are of one lock, so the block under way
\* takes no lock away from a mint that still waits for it.
DistinctLocks(s) ==
    \A i, j \in 1..Len(s) : s[i].nullifier = s[j].nullifier => i = j
LocksApart ==
    /\ DistinctLocks(mempool.mints) /\ DistinctLocks(prod.mints)
    /\ \A e \in Entries(mempool.mints) : e.nullifier \in mempool.pending
    /\ prod.at = "build" =>
         \A e \in Entries(prod.mints) :
             e.nullifier \in prod.working.consumed => e.nullifier \in state.consumed

Kept ==
    /\ HeldIsSubmitted /\ HandsEmpty /\ ReadyIsTransfer /\ Funded /\ LocksApart
    /\ AcceptedMintNotLost

\* Waiting is being in one of the queues.
LEMMA WaitingIsHeld == \A r : Waiting(r) <=> \E e \in Held : e.by = r
BY DEF Waiting, Held, Entries

\* What is held is typed.
LEMMA HeldIsTyped ==
    ASSUME TypeInv
    PROVE  \A e \in Held : e \in Txs /\ e.by \in Requests
BY EntriesAreSubmitted DEF Held, Txs

\* A step of the producer: what it lets go of has been executed, or L1 has
\* taken its lock away.
LEMMA KeptProducer ==
    ASSUME TypeInv, Kept,
           UNCHANGED <<locks, pc, sub>>, state.consumed \subseteq state'.consumed,
           Held' \subseteq Held, HandsEmpty', LocksApart',
           \A e \in Held \ Held' : e.type = "mint" =>
               e.nullifier \in state'.consumed \/ locks[e.nullifier] # "locked"
    PROVE  Kept'
<1>1. HeldIsSubmitted' /\ Funded' /\ ReadyIsTransfer'
  BY DEF Kept, HeldIsSubmitted, Funded, ReadyIsTransfer
<1>2. ASSUME NEW r \in Requests, pc[r] \in {"pushed", "accepted"},
             sub[r].type = "mint"
      PROVE  \/ Waiting(r)'
             \/ sub[r].nullifier \in state'.consumed
             \/ locks[sub[r].nullifier] # "locked"
  <2>1. CASE Waiting(r)
    <3>1. PICK e \in Held : e.by = r
      BY <2>1, WaitingIsHeld
    <3>2. e = sub[r]
      BY <3>1 DEF Kept, HeldIsSubmitted
    <3>3. CASE e \in Held'
      BY <3>1, <3>3 DEF Waiting, Held, Entries
    <3>4. CASE e \notin Held'
      BY <1>2, <3>2, <3>4
    <3> QED
      BY <3>3, <3>4
  <2>2. CASE ~Waiting(r)
    BY <1>2, <2>2 DEF Kept, AcceptedMintNotLost
  <2> QED
    BY <2>1, <2>2
<1>3. AcceptedMintNotLost'
  BY <1>2 DEF AcceptedMintNotLost
<1> QED
  BY <1>1, <1>3 DEF Kept

\* A step of a client or a handler that pushes nothing.
LEMMA KeptRequest ==
    ASSUME TypeInv, Kept, NEW r \in Requests,
           UNCHANGED <<locks, state, mempool, prod>>,
           \A q \in Requests \ {r} : pc'[q] = pc[q] /\ sub'[q] = sub[q],
           pc'[r] \in {"pushed", "accepted"} <=> pc[r] \in {"pushed", "accepted"},
           pc[r] \in {"pushed", "accepted"} => sub'[r] = sub[r],
           ReadyIsTransfer', Funded'
    PROVE  Kept'
<1>1. Held' = Held /\ HandsEmpty' /\ LocksApart'
  BY DEF Kept, Held, HandsEmpty, LocksApart
<1>2. HeldIsSubmitted'
  BY <1>1 DEF Kept, HeldIsSubmitted
<1>3. \A q \in Requests : Waiting(q)' <=> Waiting(q)
  BY DEF Waiting
<1>4. AcceptedMintNotLost'
  BY <1>3 DEF Kept, AcceptedMintNotLost
<1> QED
  BY <1>1, <1>2, <1>4 DEF Kept
LEMMA KeptInit == Init => Kept
<1> SUFFICES ASSUME Init PROVE Kept
  OBVIOUS
<1>1. Held = {}
  BY DEF Init, Held, Entries, EmptyMempool, IdleProducer
<1>2. /\ prod.at = "idle" /\ prod.mints = <<>> /\ prod.transfers = <<>>
      /\ prod.txs = <<>> /\ mempool.mints = <<>>
      /\ \A r \in Requests : pc[r] = "idle"
  BY DEF Init, EmptyMempool, IdleProducer
<1>3. LocksApart
  BY <1>2 DEF LocksApart, DistinctLocks, Entries
<1>4. HandsEmpty
  BY <1>2 DEF HandsEmpty
<1>5. HeldIsSubmitted
  BY <1>1 DEF HeldIsSubmitted
<1>6. Funded /\ ReadyIsTransfer /\ AcceptedMintNotLost
  BY <1>2 DEF Funded, ReadyIsTransfer, AcceptedMintNotLost
<1> QED
  BY <1>3, <1>4, <1>5, <1>6 DEF Kept

\* A new lock is nobody's yet: a mint that was pushed had found its own in L1.
LEMMA KeptL1 ==
    ASSUME TypeInv, Kept, Undisturbed, L1Step
    PROVE  Kept'
<1>1. PICK n \in Nullifiers : FundLock(n) \/ ReclaimLock(n)
  BY DEF L1Step, ReorgLock, Undisturbed, TypeInv, TypeOK
<1>2. /\ UNCHANGED <<state, mempool, prod, pc, sub>>
      /\ locks'[n] # "unfunded"
      /\ \A m \in Nullifiers \ {n} : locks'[m] = locks[m]
      /\ locks[n] # "unfunded" => locks'[n] # "locked"
  BY <1>1 DEF FundLock, ReclaimLock, TypeInv, TypeOK, procVars, reqVars
<1>3. Held' = Held /\ HandsEmpty' /\ LocksApart'
  BY <1>2 DEF Kept, Held, HandsEmpty, LocksApart
<1>4. HeldIsSubmitted' /\ ReadyIsTransfer'
  BY <1>2, <1>3 DEF Kept, HeldIsSubmitted, ReadyIsTransfer
<1>5. ASSUME NEW r \in Requests, sub[r].type = "mint"
      PROVE  sub[r].nullifier \in Nullifiers
  <2>1. sub[r] \in Mints
    BY <1>5, TxTypes DEF TypeInv, TypeOK, Txs
  <2> QED
    BY <2>1 DEF Mints, MintTx
<1>6. Funded'
  BY <1>2, <1>5 DEF Kept, Funded
<1>7. \A r : Waiting(r)' <=> Waiting(r)
  BY <1>2 DEF Waiting
<1>8. AcceptedMintNotLost'
  BY <1>2, <1>5, <1>7 DEF Kept, Funded, AcceptedMintNotLost
<1> QED
  BY <1>3, <1>4, <1>6, <1>8 DEF Kept

\* What a client sends is not in any queue yet, and a mint goes on only if its
\* lock is in L1.
LEMMA KeptClient ==
    ASSUME TypeInv, Kept, Undisturbed, NEW r \in Requests, ClientStep(r)
    PROVE  Kept'
<1>1. /\ UNCHANGED <<locks, state, mempool, prod>> /\ pc[r] = "idle"
      /\ pc'[r] \in {"verified", "rejected", "queried", "ready"}
      /\ \A q \in Requests \ {r} : pc'[q] = pc[q] /\ sub'[q] = sub[q]
  BY DEF ClientStep, VerifyMint, QueryNonce, SendTransfer, Goto, l1Vars, procVars,
         TypeInv, TypeOK
<1>2. CASE \E in \in MintInputs : VerifyMint(r, in)
  <2>1. PICK in \in MintInputs : VerifyMint(r, in)
    BY <1>2
  <2>2. /\ sub'[r] = MintOf(r, in) /\ pc'[r] \in {"verified", "rejected"}
        /\ pc'[r] = "verified" => WitnessVerifies(in.nullifier)
    BY <2>1 DEF VerifyMint, Goto, TypeInv, TypeOK
  <2>3. ReadyIsTransfer'
    BY <1>1, <2>2 DEF Kept, ReadyIsTransfer
  <2>4. Funded'
    BY <1>1, <2>2 DEF Kept, Funded, MintOf, WitnessVerifies
  <2> QED
    BY <1>1, <2>2, <2>3, <2>4, KeptRequest
<1>3. CASE \E in \in TransferInputs :
             QueryNonce(r, in) \/ \E n \in RawNonces : SendTransfer(r, in, n)
  <2>1. \E in, n : sub'[r] = TransferOf(r, in, n)
    BY <1>3 DEF QueryNonce, SendTransfer, TypeInv, TypeOK
  <2>2. sub'[r].type = "transfer"
    BY <2>1 DEF TransferOf
  <2>3. ReadyIsTransfer' /\ Funded'
    BY <1>1, <2>2 DEF Kept, Funded, ReadyIsTransfer
  <2> QED
    BY <1>1, <2>3, KeptRequest
<1> QED
  BY <1>2, <1>3 DEF ClientStep

\* The steps of a handler before and after the push.
LEMMA KeptHandler ==
    ASSUME TypeInv, Kept, NEW r \in Requests,
           CheckConsumed(r) \/ AddPending(r) \/ CheckNonce(r) \/ SignSoftConf(r)
    PROVE  Kept'
<1>1. /\ UNCHANGED <<locks, state, mempool, prod>>
      /\ \A q \in Requests \ {r} : pc'[q] = pc[q] /\ sub'[q] = sub[q]
      /\ \/ pc[r] = "verified" /\ pc'[r] \in {"rejected", "checked"} /\ sub'[r] = sub[r]
         \/ pc[r] = "queried" /\ pc'[r] = "ready"
         \/ pc[r] = "ready" /\ pc'[r] \in {"rejected", "checked"} /\ sub'[r] = sub[r]
         \/ pc[r] = "pushed" /\ pc'[r] = "accepted" /\ sub'[r] = sub[r]
  BY DEF CheckConsumed, AddPending, CheckNonce, SignSoftConf, Goto, l1Vars, procVars,
         TypeInv, TypeOK
<1>2. pc'[r] = "ready" => sub'[r].type = "transfer"
  <2> SUFFICES ASSUME pc'[r] = "ready" PROVE sub'[r].type = "transfer"
    OBVIOUS
  <2>1. AddPending(r)
    BY <1>1 DEF CheckConsumed, CheckNonce, SignSoftConf
  <2>2. sub[r] \in Transfers
    BY <2>1 DEF AddPending, TypeInv, QueriedIsTransfer
  <2>3. sub'[r] = [sub[r] EXCEPT !.nonce = @ + PendingFrom(sub[r].from)]
    BY <2>1 DEF AddPending, TypeInv, TypeOK
  <2> QED
    BY <2>2, <2>3 DEF Transfers, TransferTx
<1>3. ReadyIsTransfer'
  BY <1>1, <1>2 DEF Kept, ReadyIsTransfer
<1>4. Funded'
  BY <1>1, <1>2 DEF Kept, Funded, ReadyIsTransfer
<1> QED
  BY <1>1, <1>3, <1>4, KeptRequest
\* What DistinctLocks says survives the operations on queues.
LEMMA DistinctLocksKept ==
    ASSUME NEW S, NEW s \in Seq(S), DistinctLocks(s)
    PROVE  /\ \A x : (\A e \in Entries(s) : e.nullifier # x.nullifier)
                       => DistinctLocks(Append(s, x))
           /\ s # <<>> => /\ DistinctLocks(Tail(s))
                          /\ \A e \in Entries(Tail(s)) :
                               e.nullifier # Head(s).nullifier
<1>0. Len(s) \in Nat
  BY LenProperties
<1>1. ASSUME NEW x, \A e \in Entries(s) : e.nullifier # x.nullifier
      PROVE  DistinctLocks(Append(s, x))
  <2>1. s \in Seq(S \cup {x}) /\ x \in S \cup {x}
    BY SeqMonotonic
  <2>2. /\ Len(Append(s, x)) = Len(s) + 1 /\ Append(s, x)[Len(s) + 1] = x
        /\ \A i \in 1..Len(s) : Append(s, x)[i] = s[i]
    BY <2>1, AppendProperties
  <2>3. \A i \in 1..(Len(s) + 1) : i = Len(s) + 1 \/ i \in 1..Len(s)
    BY <1>0
  <2>4. \A i \in 1..Len(s) : s[i].nullifier # x.nullifier
    BY <1>1 DEF Entries
  <2> QED
    BY <2>2, <2>3, <2>4 DEF DistinctLocks
<1>2. ASSUME s # <<>>
      PROVE  /\ DistinctLocks(Tail(s))
             /\ \A e \in Entries(Tail(s)) : e.nullifier # Head(s).nullifier
  <2>1. /\ Head(s) = s[1] /\ Len(s) \in Nat \ {0} /\ Len(Tail(s)) = Len(s) - 1
        /\ \A i \in 1..Len(Tail(s)) : Tail(s)[i] = s[i + 1]
    BY <1>0, <1>2, HeadTailProperties, EmptySeq
  <2>2. \A i \in 1..Len(Tail(s)) : i \in Nat /\ i + 1 \in 1..Len(s) /\ i + 1 # 1
    BY <2>1
  <2>3. 1 \in 1..Len(s)
    BY <2>1
  <2>4. DistinctLocks(Tail(s))
    <3> SUFFICES ASSUME NEW i \in 1..Len(Tail(s)), NEW j \in 1..Len(Tail(s)),
                        Tail(s)[i].nullifier = Tail(s)[j].nullifier
                 PROVE  i = j
      BY DEF DistinctLocks
    <3>1. i + 1 = j + 1
      BY <2>1, <2>2 DEF DistinctLocks
    <3> QED
      BY <2>2, <3>1
  <2>5. ASSUME NEW i \in 1..Len(Tail(s))
        PROVE  Tail(s)[i].nullifier # Head(s).nullifier
    BY <2>1, <2>2, <2>3 DEF DistinctLocks
  <2> QED
    BY <2>4, <2>5 DEF Entries
<1> QED
  BY <1>1, <1>2

\* The pushed mint is the only one of its lock in the mempool.
LEMMA KeptPush ==
    ASSUME TypeInv, SubIsOwn, Kept, NEW r \in Requests,
           PushMint(r) \/ PushTransfer(r)
    PROVE  Kept'
<1>1. /\ UNCHANGED <<locks, state, prod, sub>>
      /\ pc[r] = "checked" /\ pc'[r] \in {"rejected", "pushed"}
      /\ \A q \in Requests \ {r} : pc'[q] = pc[q]
  BY DEF PushMint, PushTransfer, Goto, l1Vars, TypeInv, TypeOK
<1>2. sub[r] # NoTx /\ sub[r].by = r /\ sub[r] \in Txs
  BY TxTypes DEF PushMint, PushTransfer, SubIsOwn, TypeInv, TypeOK
<1>3. /\ mempool.mints \in Seq(Mints) /\ mempool.transfers \in Seq(Transfers)
      /\ DOMAIN mempool = {"mints", "transfers", "pending"}
  BY DEF TypeInv, TypeOK
<1>4. ReadyIsTransfer' /\ Funded' /\ HandsEmpty'
  BY <1>1 DEF Kept, Funded, ReadyIsTransfer, HandsEmpty
<1>5. CASE pc'[r] = "rejected"
  <2>1. UNCHANGED mempool
    BY <1>5 DEF PushMint, PushTransfer, Goto, TypeInv, TypeOK
  <2> QED
    BY <1>1, <1>4, <1>5, <2>1, KeptRequest
<1>6. CASE pc'[r] = "pushed"
  <2>1. \/ /\ sub[r].type = "mint" /\ sub[r].nullifier \notin mempool.pending
           /\ mempool'.mints = Append(mempool.mints, sub[r])
           /\ mempool'.transfers = mempool.transfers
           /\ mempool'.pending = mempool.pending \cup {sub[r].nullifier}
        \/ /\ sub[r].type = "transfer"
           /\ mempool'.transfers = Append(mempool.transfers, sub[r])
           /\ mempool'.mints = mempool.mints
           /\ mempool'.pending = mempool.pending
    BY <1>3, <1>6 DEF PushMint, PushTransfer, Goto, TypeInv, TypeOK
  <2>2. /\ Entries(Append(mempool.mints, sub[r])) = Entries(mempool.mints) \cup {sub[r]}
        /\ Entries(Append(mempool.transfers, sub[r]))
             = Entries(mempool.transfers) \cup {sub[r]}
    BY <1>3, EntriesAre
  <2>3. Held' = Held \cup {sub[r]}
    BY <1>1, <2>1, <2>2 DEF Held
  <2>4. HeldIsSubmitted'
    BY <1>1, <1>2, <1>6, <2>3 DEF Kept, HeldIsSubmitted
  <2>5. LocksApart'
    <3>1. DistinctLocks(mempool'.mints)
      <4>1. /\ DistinctLocks(mempool.mints)
            /\ \A e \in Entries(mempool.mints) : e.nullifier \in mempool.pending
        BY DEF Kept, LocksApart
      <4>2. sub[r].nullifier \notin mempool.pending
              => DistinctLocks(Append(mempool.mints, sub[r]))
        BY <1>3, <4>1, DistinctLocksKept
      <4> QED
        BY <2>1, <4>1, <4>2
    <3>2. \A e \in Entries(mempool'.mints) : e.nullifier \in mempool'.pending
      BY <2>1, <2>2 DEF Kept, LocksApart
    <3> QED
      BY <1>1, <3>1, <3>2 DEF Kept, LocksApart
  <2>6. AcceptedMintNotLost'
    <3>1. \A q : Waiting(q) \/ q = r => Waiting(q)'
      <4>1. \A q : (\E e \in Held' : e.by = q) => Waiting(q)'
        BY DEF Waiting, Held, Entries
      <4> QED
        BY <1>2, <2>3, <4>1, WaitingIsHeld
    <3> QED
      BY <1>1, <3>1 DEF Kept, AcceptedMintNotLost
  <2> QED
    BY <1>4, <2>4, <2>5, <2>6 DEF Kept
<1> QED
  BY <1>1, <1>5, <1>6

\* The queues go over to the producer, whose hands were empty.
LEMMA KeptDrain ==
    ASSUME TypeInv, Kept, Drain
    PROVE  Kept'
<1>1. /\ prod.at = "drain" /\ prod'.at = "build"
      /\ prod'.mints = mempool.mints /\ prod'.transfers = mempool.transfers
      /\ prod'.txs = <<>> /\ prod'.working = state
      /\ mempool' = EmptyMempool
      /\ UNCHANGED <<locks, state, pc, sub>>
  BY DEF Drain, TypeInv, TypeOK, ProducerType, l1Vars, reqVars
<1>2. Entries(<<>>) = {}
  BY EmptySeq, EntriesAre
<1>3. Held' \subseteq Held /\ Held \subseteq Held'
  BY <1>1, <1>2 DEF Kept, HandsEmpty, Held, EmptyMempool
<1>4. HandsEmpty'
  BY <1>1 DEF HandsEmpty
<1>5. LocksApart'
  BY <1>1, <1>2 DEF Kept, LocksApart, DistinctLocks, EmptyMempool
<1> QED
  BY <1>1, <1>3, <1>4, <1>5, KeptProducer
\* A round of the mint loop: with bitcoind answering, a mint is dropped only
\* because its lock has left L1 or has minted already.
LEMMA KeptBuildMint ==
    ASSUME TypeInv, Kept, Undisturbed, BuildMint
    PROVE  Kept'
<1> DEFINE tx == Head(prod.mints)
           ok == WitnessVerifies(tx.nullifier) /\ Applies(prod.working, tx)
<1>0. /\ prod.mints \in Seq(Mints) /\ prod.transfers \in Seq(Transfers)
      /\ prod.txs \in Seq(Txs) /\ prod.working \in LedgerType
      /\ DOMAIN prod = {"at", "l1Height", "mints", "transfers", "txs", "working"}
  BY DEF TypeInv, TypeOK, ProducerType
<1>1. /\ prod.at = "build" /\ prod.mints # <<>>
      /\ UNCHANGED <<locks, state, mempool, pc, sub>>
      /\ Answers = {TRUE}
  BY DEF BuildMint, l1Vars, reqVars, Answers, Undisturbed
<1>2. prod' = [prod EXCEPT
          !.mints = Tail(prod.mints),
          !.txs = IF ok THEN Append(prod.txs, tx) ELSE prod.txs,
          !.working = IF ok THEN Apply(prod.working, tx) ELSE prod.working]
  BY <1>1 DEF BuildMint
<1>3. /\ prod'.at = "build" /\ prod'.mints = Tail(prod.mints)
      /\ prod'.transfers = prod.transfers
      /\ ok => /\ prod'.txs = Append(prod.txs, tx)
               /\ prod'.working = Apply(prod.working, tx)
      /\ ~ok => prod'.txs = prod.txs /\ prod'.working = prod.working
  <2> HIDE DEF tx, ok
  <2> QED
    BY <1>0, <1>1, <1>2
<1>4. /\ tx \in Entries(prod.mints)
      /\ Entries(prod'.mints) \subseteq Entries(prod.mints)
      /\ Entries(prod.mints) \subseteq Entries(prod'.mints) \cup {tx}
      /\ Entries(Append(prod.txs, tx)) = Entries(prod.txs) \cup {tx}
  BY <1>0, <1>1, <1>3, EntriesAre
<1>5. /\ Held' \subseteq Held /\ Held \subseteq Held' \cup {tx}
      /\ ok => Held \subseteq Held'
  <2> HIDE DEF tx, ok
  <2> QED
    BY <1>1, <1>3, <1>4 DEF Held
<1>6. /\ tx \in Mints /\ tx.amount # 0
      /\ MintAmount[tx.nullifier] = tx.amount
  <2>1. tx \in Held /\ tx \in Mints
    BY <1>4, EntriesAreSubmitted DEF Held
  <2>2. tx.by \in Requests /\ tx = sub[tx.by] /\ pc[tx.by] \in {"pushed", "accepted"}
    BY <2>1 DEF Kept, HeldIsSubmitted
  <2> QED
    BY <2>1, <2>2, TxTypes DEF Kept, Funded
<1>7. ~ok => tx.nullifier \in state.consumed \/ locks[tx.nullifier] # "locked"
  <2> SUFFICES ASSUME ~ok, locks[tx.nullifier] = "locked"
               PROVE  tx.nullifier \in state.consumed
    OBVIOUS
  <2>1. ~MintApplies(prod.working, tx)
    BY <1>6, TxTypes DEF WitnessVerifies, Applies
  <2>2. tx.nullifier \in prod.working.consumed
    BY <1>6, <2>1 DEF MintApplies
  <2> QED
    BY <1>1, <1>4, <2>2 DEF Kept, LocksApart
<1>8. HandsEmpty'
  BY <1>3 DEF HandsEmpty
<1>9. LocksApart'
  <2>1. /\ DistinctLocks(prod'.mints)
        /\ \A e \in Entries(prod'.mints) : e.nullifier # tx.nullifier
    <3>1. DistinctLocks(prod.mints)
      BY DEF Kept, LocksApart
    <3> QED
      BY <1>0, <1>1, <1>3, <3>1, DistinctLocksKept
  <2>2. prod'.working.consumed \subseteq prod.working.consumed \cup {tx.nullifier}
    <3>1. tx.type = "mint"
      BY <1>6, TxTypes
    <3>2. AfterMint(prod.working, tx).consumed
            = prod.working.consumed \cup {tx.nullifier}
      BY <1>0 DEF AfterMint, LedgerType
    <3>3. Apply(prod.working, tx) = AfterMint(prod.working, tx)
      BY <3>1 DEF Apply
    <3> HIDE DEF tx, ok
    <3> QED
      BY <1>3, <3>2, <3>3
  <2>3. \A e \in Entries(prod'.mints) :
           e.nullifier \in prod'.working.consumed => e.nullifier \in state.consumed
    BY <1>1, <1>4, <2>1, <2>2 DEF Kept, LocksApart
  <2> QED
    BY <1>1, <2>1, <2>3 DEF Kept, LocksApart
<1> QED
  <2>1. \A e \in Held \ Held' : e.type = "mint" =>
           e.nullifier \in state'.consumed \/ locks[e.nullifier] # "locked"
    BY <1>1, <1>5, <1>7
  <2> QED
    BY <1>1, <1>5, <1>8, <1>9, <2>1, KeptProducer

\* A round of the transfer loop drops no mint.
LEMMA KeptBuildTransfer ==
    ASSUME TypeInv, Kept, BuildTransfer
    PROVE  Kept'
<1> DEFINE tx == Head(prod.transfers)
<1>0. /\ prod.transfers \in Seq(Transfers)
      /\ prod.txs \in Seq(Txs) /\ prod.working \in LedgerType
      /\ DOMAIN prod = {"at", "l1Height", "mints", "transfers", "txs", "working"}
  BY DEF TypeInv, TypeOK, ProducerType
<1>1. /\ prod.at = "build" /\ prod.mints = <<>> /\ prod.transfers # <<>>
      /\ UNCHANGED <<locks, state, mempool, pc, sub>>
  BY DEF BuildTransfer, l1Vars, reqVars
<1>2. /\ prod'.at = "build" /\ prod'.mints = prod.mints
      /\ prod'.transfers = Tail(prod.transfers)
      /\ prod'.txs \in {prod.txs, Append(prod.txs, tx)}
  BY <1>0 DEF BuildTransfer
<1>3. /\ tx \in Entries(prod.transfers)
      /\ Entries(prod'.transfers) \subseteq Entries(prod.transfers)
      /\ Entries(prod.transfers) \subseteq Entries(prod'.transfers) \cup {tx}
      /\ Entries(Append(prod.txs, tx)) = Entries(prod.txs) \cup {tx}
  BY <1>0, <1>1, <1>2, EntriesAre
<1>4. Held' \subseteq Held /\ Held \subseteq Held' \cup {tx}
  <2> HIDE DEF tx
  <2> QED
    BY <1>1, <1>2, <1>3 DEF Held
<1>5. tx.type # "mint"
  BY <1>3, EntriesAreSubmitted, TxTypes
<1>6. HandsEmpty'
  BY <1>2 DEF HandsEmpty
<1>7. LocksApart'
  <2>1. Entries(<<>>) = {}
    BY EmptySeq, EntriesAre
  <2> QED
    BY <1>1, <1>2, <2>1 DEF Kept, LocksApart
<1> QED
  BY <1>1, <1>4, <1>5, <1>6, <1>7, KeptProducer

\* The sealed block is in the ledger of the handlers, stored or not.
LEMMA KeptSeal ==
    ASSUME TypeInv, SafeInv, Kept, Seal
    PROVE  Kept'
<1>1. /\ prod.at = "build" /\ prod'.at = "write" /\ state' = prod.working
      /\ prod'.mints = <<>> /\ prod'.transfers = <<>> /\ prod'.txs = prod.txs
      /\ prod.mints = <<>> /\ prod.transfers = <<>>
      /\ UNCHANGED <<locks, mempool, pc, sub>>
  BY DEF Seal, TypeInv, TypeOK, ProducerType, l1Vars, reqVars
<1>2. state.consumed \subseteq state'.consumed
  BY <1>1 DEF SafeInv, LedgersGrow, Grows
<1>3. \A e \in Entries(prod.txs) : Known(state', e)
  BY <1>1 DEF SafeInv, BuiltIsNew, Building, Entries
<1>4. HandsEmpty'
  BY <1>1, <1>3 DEF HandsEmpty
<1>5. Held' = Held
  BY <1>1 DEF Held
<1>6. LocksApart'
  BY <1>1 DEF Kept, LocksApart
<1> QED
  BY <1>1, <1>2, <1>4, <1>5, <1>6, KeptProducer

\* The other steps of the producer keep what it holds, or drop what the ledger
\* in memory has executed.
LEMMA KeptStore ==
    ASSUME TypeInv, Kept,
           \/ ReadL1 \/ WriteBlock \/ WriteFails \/ SetL1Cursor \/ CursorFails
           \/ PublishHead
    PROVE  Kept'
<1>0. DOMAIN prod = {"at", "l1Height", "mints", "transfers", "txs", "working"}
  BY DEF TypeInv, TypeOK, ProducerType
<1>1. UNCHANGED <<locks, state, mempool, pc, sub>>
  BY DEF ReadL1, WriteBlock, WriteFails, SetL1Cursor, CursorFails, PublishHead,
         l1Vars, reqVars
<1>2. \/ /\ \/ prod.at = "idle" /\ prod'.at = "drain"
            \/ prod.at = "write" /\ prod'.at = "cursor"
            \/ prod.at = "cursor" /\ prod'.at = "publish"
         /\ prod'.mints = prod.mints /\ prod'.transfers = prod.transfers
         /\ prod'.txs = prod.txs
      \/ prod.at \in {"write", "cursor", "publish"} /\ prod' = IdleProducer
  BY <1>0 DEF ReadL1, WriteBlock, WriteFails, SetL1Cursor, CursorFails, PublishHead
<1>3. /\ IdleProducer.at = "idle" /\ IdleProducer.mints = <<>>
      /\ IdleProducer.transfers = <<>> /\ IdleProducer.txs = <<>>
      /\ Entries(<<>>) = {}
  BY EmptySeq, EntriesAre DEF IdleProducer
<1>4. HandsEmpty'
  BY <1>1, <1>2, <1>3 DEF Kept, HandsEmpty
<1>5. LocksApart'
  BY <1>1, <1>2, <1>3 DEF Kept, LocksApart, DistinctLocks
<1>6. /\ Held' \subseteq Held
      /\ \A e \in Held \ Held' : Known(state, e)
  BY <1>1, <1>2, <1>3 DEF Held, Kept, HandsEmpty
<1>7. \A e \in Held \ Held' : e.type = "mint" => e.nullifier \in state'.consumed
  BY <1>1, <1>6 DEF Known
<1> QED
  BY <1>1, <1>4, <1>5, <1>6, <1>7, KeptProducer

LEMMA KeptStep ==
    TypeInv /\ SafeInv /\ SubIsOwn /\ (Undisturbed => Kept) /\ [Next]_vars
      => (Undisturbed => Kept)'
<1> SUFFICES ASSUME TypeInv, SafeInv, SubIsOwn, Kept, [Next]_vars, Undisturbed
             PROVE  Kept'
  BY DEF Undisturbed
<1>1. ~Crash
  BY DEF Crash, Undisturbed, TypeInv, TypeOK
<1>2. CASE ProducerStep
  BY <1>2, KeptDrain, KeptBuildMint, KeptBuildTransfer, KeptSeal, KeptStore
     DEF ProducerStep
<1>3. ASSUME NEW r \in Requests, ClientStep(r) \/ HandlerStep(r)
      PROVE  Kept'
  BY <1>3, KeptClient, KeptHandler, KeptPush DEF HandlerStep
<1>4. CASE UNCHANGED vars
  <2>1. UNCHANGED <<locks, state, mempool, prod, pc, sub>>
    BY <1>4 DEF vars, l1Vars, procVars, reqVars
  <2>2. Held' = Held /\ HandsEmpty' /\ LocksApart'
    BY <2>1 DEF Kept, Held, HandsEmpty, LocksApart
  <2> QED
    BY <2>1, <2>2, KeptProducer
<1> QED
  BY <1>1, <1>2, <1>3, <1>4, KeptL1 DEF Next

\* Where nothing fails but writes, an accepted mint waits in the mempool or in the
\* producer's hands until the ledger in memory (Shared.state) has minted its lock,
\* or the lock has left L1: the producer drops no mint for any other reason
\* (api.rs:175-203, producer.rs:100-146).  A block that executed it and was not
\* written is lost with it all the same (producer.rs:183-193).
THEOREM AcceptedMintIsKept == Spec => [](Undisturbed => AcceptedMintNotLost)
<1>1. Spec => [](TypeInv /\ SafeInv)
  BY TypeInit, TypeStep, SafeInvariant, PTL DEF Spec
<1>2. Spec => []SubIsOwn
  <2>1. Init => SubIsOwn
    BY LateInit DEF LateInv
  <2>2. TypeInv /\ SubIsOwn /\ [Next]_vars => SubIsOwn'
    BY OwnKept
  <2> QED
    BY <1>1, <2>1, <2>2, PTL DEF Spec
<1>3. Init => (Undisturbed => Kept)
  BY KeptInit
<1>4. Spec => [](Undisturbed => Kept)
  BY <1>1, <1>2, <1>3, KeptStep, PTL DEF Spec
<1>5. (Undisturbed => Kept) => (Undisturbed => AcceptedMintNotLost)
  BY DEF Kept
<1> QED
  BY <1>4, <1>5, PTL
-----------------------------------------------------------------------------
(* The supply.  Every ledger there is, in memory, under way or stored, is  *)
(* backed by what was minted in it.                                        *)

SupplyInv ==
    /\ Backed(state) /\ Backed(prod.working)
    /\ \A i \in 1..Len(chain) : Backed(chain[i].snapshot)

\* A balance is at most the supply, and the supply moves with it.
LEMMA SupplyBounds ==
    ASSUME NEW f \in [Addrs -> Amount]
    PROVE  /\ SumFunction(f) \in Nat
           /\ \A a \in Addrs : f[a] \in Nat /\ f[a] <= SumFunction(f)
<1>1. IsFiniteSet(Addrs) /\ f \in [Addrs -> Nat]
  BY SequencerAssumption, LedgerAssumption DEF Amount
<1> QED
  BY <1>1, SumBounds

Moved(e, f, a, v) == e = [f EXCEPT ![a] = v]

LEMMA SupplyMoves ==
    ASSUME NEW f \in [Addrs -> Amount], NEW a \in Addrs, NEW v \in Amount,
           NEW e, Moved(e, f, a, v)
    PROVE  /\ e \in [Addrs -> Amount] /\ SumFunction(e) \in Nat
           /\ SumFunction(e) + f[a] = SumFunction(f) + v
<1>1. IsFiniteSet(Addrs) /\ f \in [Addrs -> Nat]
  BY SequencerAssumption, LedgerAssumption DEF Amount
<1>2. /\ e \in [Addrs -> Amount] /\ e \in [Addrs -> Nat] /\ e[a] = v
      /\ DifferAt(e, f, a, Addrs)
  BY LedgerAssumption DEF Amount, Moved, DifferAt
<1>3. SumFunction(e) + f[a] = SumFunction(f) + e[a]
  BY <1>1, <1>2, SumChanges
<1> QED
  BY <1>2, <1>3, SupplyBounds

LEMMA EmptyBacked == Backed(EmptyLedger)
<1>1. SumFunction([a \in Addrs |-> 0]) = 0
  BY SequencerAssumption, SumOfZeros
<1> QED
  BY <1>1 DEF Backed, Supply, EmptyLedger

\* A mint adds to a balance what it adds to the total, and neither saturates
\* before the total does.
LEMMA MintBacked ==
    ASSUME NEW l \in LedgerType, Backed(l), NEW tx \in Mints
    PROVE  Backed(AfterMint(l, tx))
<1> DEFINE v == SatAdd(l.balance[tx.dest], tx.amount)
           m == SatAdd(l.minted, tx.amount)
           f == [l.balance EXCEPT ![tx.dest] = v]
<1>1. /\ tx.dest \in Addrs /\ tx.amount \in Nat /\ l.minted \in Nat
      /\ l.balance \in [Addrs -> Amount] /\ MaxAtoms \in Nat
      /\ l.balance[tx.dest] \in Amount /\ l.balance[tx.dest] \in Nat
      /\ tx.amount \in Amount
  BY LedgerAssumption DEF Mints, MintTx, LedgerType, Amount
<1>2. AfterMint(l, tx).balance = f /\ AfterMint(l, tx).minted = m
  BY DEF AfterMint, LedgerType
<1>3. v \in Amount
  BY <1>1, SatAddType
<1>4. /\ SumFunction(f) + l.balance[tx.dest] = SumFunction(l.balance) + v
      /\ l.balance[tx.dest] <= SumFunction(l.balance)
      /\ SumFunction(l.balance) \in Nat /\ SumFunction(f) \in Nat
  <2>1. Moved(f, l.balance, tx.dest, v)
    BY DEF Moved
  <2> HIDE DEF v, f
  <2> QED
    BY <1>1, <1>3, <2>1, SupplyBounds, SupplyMoves
<1>5. ASSUME m < MaxAtoms
      PROVE  /\ SumFunction(f) <= m
             /\ FeeAddr # NoFeeAddr => SumFunction(f) = m
  <2>1. m = l.minted + tx.amount /\ l.minted < MaxAtoms
    BY <1>1, <1>5 DEF SatAdd
  <2>2. /\ SumFunction(l.balance) <= l.minted
        /\ FeeAddr # NoFeeAddr => SumFunction(l.balance) = l.minted
    BY <2>1 DEF Backed, Supply
  <2>3. v = l.balance[tx.dest] + tx.amount
    BY <1>1, <1>4, <1>5, <2>1, <2>2 DEF SatAdd
  <2> HIDE DEF v, m, f
  <2> QED
    BY <1>1, <1>4, <2>1, <2>2, <2>3
<1> QED
  BY <1>2, <1>5 DEF Backed, Supply

\* A transfer takes from the sender what it gives to the receiver and the fee
\* address; fees that are burned leave the balances.
LEMMA TransferBacked ==
    ASSUME NEW l \in LedgerType, Backed(l), NEW tx \in Transfers,
           TransferApplies(l, tx)
    PROVE  Backed(AfterTransfer(l, tx))
<1> DEFINE fee == TransferFee(tx.amount)
           cost == TransferCost(tx)
           f0 == l.balance
           f1 == Debited(l, tx)
           f2 == Credited(l, tx)
           f3 == AfterFee(l, tx)
<1>1. /\ tx.from \in Addrs /\ tx.to \in Addrs /\ tx.amount \in Nat
      /\ tx.amount \in Amount /\ l.minted \in Nat /\ MaxAtoms \in Nat
      /\ f0 \in [Addrs -> Amount] /\ f0[tx.from] >= cost
  BY LedgerAssumption DEF Transfers, TransferTx, LedgerType, Amount, TransferApplies
<1>2. fee \in Amount /\ cost \in Amount /\ fee \in Nat /\ cost \in Nat
  BY <1>1, TransferFeeType, TransferCostType DEF Transfers, Amount
<1>3. AfterTransfer(l, tx).balance = f3 /\ AfterTransfer(l, tx).minted = l.minted
  BY DEF AfterTransfer, LedgerType
<1> SUFFICES ASSUME l.minted < MaxAtoms
             PROVE  /\ SumFunction(f3) <= l.minted
                    /\ FeeAddr # NoFeeAddr => SumFunction(f3) = l.minted
  BY <1>3 DEF Backed, Supply
<1>4. /\ SumFunction(f0) <= l.minted /\ SumFunction(f0) \in Nat
      /\ FeeAddr # NoFeeAddr => SumFunction(f0) = l.minted
      /\ f0[tx.from] <= SumFunction(f0) /\ f0[tx.from] \in Nat
  BY <1>1, SupplyBounds DEF Backed, Supply
<1>5. cost = tx.amount + fee
  BY <1>1, <1>2, <1>4 DEF TransferCost, SatAdd
<1>6. f1 \in [Addrs -> Amount] /\ SumFunction(f1) + cost = SumFunction(f0)
      /\ SumFunction(f1) \in Nat
  <2> DEFINE v == f0[tx.from] - cost
  <2>1. v \in Amount /\ v \in Nat
    BY <1>1, <1>2 DEF Amount
  <2>2. Moved(f1, f0, tx.from, v)
    BY DEF Debited, Moved
  <2>3. /\ f1 \in [Addrs -> Amount]
        /\ SumFunction(f1) + f0[tx.from] = SumFunction(f0) + v
    <3> HIDE DEF v, f0, f1
    <3> QED
      BY <1>1, <2>1, <2>2, SupplyMoves
  <2>4. SumFunction(f1) \in Nat
    <3> HIDE DEF f1
    <3> QED
      BY <2>3, SupplyBounds
  <2> HIDE DEF f0, f1, cost
  <2> QED
    BY <1>1, <1>2, <1>4, <2>1, <2>3, <2>4
<1>7. f2 \in [Addrs -> Amount] /\ SumFunction(f2) = SumFunction(f1) + tx.amount
  <2> DEFINE v == SatAdd(f1[tx.to], tx.amount)
  <2>1. f1[tx.to] \in Amount /\ f1[tx.to] \in Nat /\ f1[tx.to] <= SumFunction(f1)
    <3> HIDE DEF f1
    <3> QED
      BY <1>1, <1>6, SupplyBounds
  <2>2. f1[tx.to] + tx.amount <= MaxAtoms
    <3> HIDE DEF f0, f1, cost, fee
    <3> QED
      BY <1>1, <1>2, <1>4, <1>5, <1>6, <2>1
  <2>3. v = f1[tx.to] + tx.amount /\ v \in Amount
    <3> HIDE DEF f1
    <3> QED
      BY <1>1, <2>1, <2>2 DEF SatAdd, Amount
  <2>4. Moved(f2, f1, tx.to, v)
    BY DEF Credited, Moved
  <2>5. /\ f2 \in [Addrs -> Amount]
        /\ SumFunction(f2) + f1[tx.to] = SumFunction(f1) + v
    <3> HIDE DEF v, f1, f2
    <3> QED
      BY <1>1, <1>6, <2>3, <2>4, SupplyMoves
  <2>6. SumFunction(f2) \in Nat
    <3> HIDE DEF f2
    <3> QED
      BY <2>5, SupplyBounds
  <2> HIDE DEF f1, f2, v
  <2> QED
    BY <1>1, <1>6, <2>1, <2>3, <2>5, <2>6
<1>8. CASE FeeAddr = NoFeeAddr
  <2>1. f3 = f2
    BY <1>8 DEF AfterFee
  <2> HIDE DEF f0, f1, f2, f3, cost, fee
  <2> QED
    BY <1>1, <1>2, <1>4, <1>5, <1>6, <1>7, <1>8, <2>1
<1>9. CASE FeeAddr # NoFeeAddr
  <2> DEFINE v == SatAdd(f2[FeeAddr], fee)
  <2>1. FeeAddr \in Addrs
    BY <1>9, LedgerAssumption
  <2>2. /\ f2[FeeAddr] \in Amount /\ f2[FeeAddr] \in Nat
        /\ f2[FeeAddr] <= SumFunction(f2)
    <3> HIDE DEF f2
    <3> QED
      BY <1>7, <2>1, SupplyBounds
  <2>3. f2[FeeAddr] + fee <= MaxAtoms
    <3> HIDE DEF f0, f1, f2, cost, fee
    <3> QED
      BY <1>1, <1>2, <1>4, <1>5, <1>6, <1>7, <2>2
  <2>4. v = f2[FeeAddr] + fee /\ v \in Amount
    <3> HIDE DEF f2, fee
    <3> QED
      BY <1>1, <1>2, <2>2, <2>3 DEF SatAdd, Amount
  <2>5. Moved(f3, f2, FeeAddr, v)
    BY <1>9 DEF AfterFee, Moved
  <2>6. /\ f3 \in [Addrs -> Amount]
        /\ SumFunction(f3) + f2[FeeAddr] = SumFunction(f2) + v
    <3> HIDE DEF v, f2, f3
    <3> QED
      BY <1>7, <2>1, <2>4, <2>5, SupplyMoves
  <2>7. SumFunction(f3) \in Nat
    <3> HIDE DEF f3
    <3> QED
      BY <2>6, SupplyBounds
  <2> HIDE DEF f0, f1, f2, f3, cost, fee, v
  <2> QED
    BY <1>1, <1>2, <1>4, <1>5, <1>6, <1>7, <2>2, <2>4, <2>6, <2>7
<1> QED
  BY <1>8, <1>9
LEMMA ApplyBacked ==
    ASSUME NEW l \in LedgerType, Backed(l), NEW tx \in Txs, Applies(l, tx)
    PROVE  Backed(Apply(l, tx))
<1>1. CASE tx \in Mints
  BY <1>1, MintBacked, TxTypes DEF Apply
<1>2. CASE tx \in Transfers
  BY <1>2, TransferBacked, TxTypes DEF Apply, Applies
<1> QED
  BY <1>1, <1>2 DEF Txs

LEMMA SupplyInit == Init => SupplyInv
<1> SUFFICES ASSUME Init PROVE SupplyInv
  OBVIOUS
<1>1. /\ state = EmptyLedger /\ prod.working = EmptyLedger
      /\ Len(chain) = 1 /\ chain[1].snapshot = EmptyLedger
  BY DEF Init, IdleProducer, GenesisBlock
<1> QED
  BY <1>1, EmptyBacked DEF SupplyInv

\* A round of either loop executes nothing, or a transaction that applies.
LEMMA SupplyRound ==
    ASSUME TypeInv, SupplyInv, BuildMint \/ BuildTransfer
    PROVE  /\ Backed(prod'.working) /\ UNCHANGED <<state, chain>>
<1>0. /\ prod.mints \in Seq(Mints) /\ prod.transfers \in Seq(Transfers)
      /\ prod.working \in LedgerType
      /\ DOMAIN prod = {"at", "l1Height", "mints", "transfers", "txs", "working"}
  BY DEF TypeInv, TypeOK, ProducerType
<1>1. UNCHANGED <<state, chain>>
  BY DEF BuildMint, BuildTransfer, dbVars
<1>2. Backed(prod.working)
  BY DEF SupplyInv
<1>3. CASE BuildMint
  <2> DEFINE tx == Head(prod.mints)
  <2>1. tx \in Txs
    BY <1>0, <1>3, HeadTailProperties DEF BuildMint, Txs
  <2>2. \/ prod'.working = prod.working
        \/ Applies(prod.working, tx) /\ prod'.working = Apply(prod.working, tx)
    BY <1>0, <1>3 DEF BuildMint
  <2> HIDE DEF tx
  <2> QED
    BY <1>0, <1>1, <1>2, <2>1, <2>2, ApplyBacked
<1>4. CASE BuildTransfer
  <2> DEFINE tx == Head(prod.transfers)
  <2>1. tx \in Txs
    BY <1>0, <1>4, HeadTailProperties DEF BuildTransfer, Txs
  <2>2. \/ prod'.working = prod.working
        \/ Applies(prod.working, tx) /\ prod'.working = Apply(prod.working, tx)
    BY <1>0, <1>4 DEF BuildTransfer
  <2> HIDE DEF tx
  <2> QED
    BY <1>0, <1>1, <1>2, <2>1, <2>2, ApplyBacked
<1> QED
  BY <1>3, <1>4

LEMMA SupplyStep == TypeInv /\ SupplyInv /\ [Next]_vars => SupplyInv'
<1> SUFFICES ASSUME TypeInv, SupplyInv, [Next]_vars
             PROVE  SupplyInv'
  OBVIOUS
<1> USE DEF SupplyInv
<1>0. DOMAIN prod = {"at", "l1Height", "mints", "transfers", "txs", "working"}
  BY DEF TypeInv, TypeOK, ProducerType
<1>1. CASE \/ L1Step \/ UNCHANGED vars
           \/ \E r \in Requests : ClientStep(r) \/ HandlerStep(r)
  <2>1. UNCHANGED <<state, prod, chain>>
    BY <1>1 DEF L1Step, FundLock, ReclaimLock, ReorgLock, ClientStep, VerifyMint,
         QueryNonce, SendTransfer, HandlerStep, CheckConsumed, PushMint,
         AddPending, CheckNonce, PushTransfer, SignSoftConf,
         vars, procVars, dbVars
  <2> QED
    BY <2>1
<1>2. CASE ReadL1 \/ SetL1Cursor
  <2>1. UNCHANGED <<state, chain>> /\ prod'.working = prod.working
    BY <1>0, <1>2 DEF ReadL1, SetL1Cursor, dbVars
  <2> QED
    BY <2>1
<1>3. CASE Drain
  <2>1. UNCHANGED <<state, chain>> /\ prod'.working = state
    BY <1>0, <1>3 DEF Drain, dbVars
  <2> QED
    BY <2>1
<1>4. CASE BuildMint \/ BuildTransfer
  BY <1>4, SupplyRound
<1>5. CASE Seal
  <2>1. chain' = chain /\ state' = prod.working /\ prod'.working = prod.working
    BY <1>0, <1>5 DEF Seal, dbVars
  <2> QED
    BY <2>1
<1>6. CASE WriteBlock
  <2> DEFINE n == Len(chain)
  <2>1. /\ state' = state /\ prod'.working = prod.working
        /\ chain' = Append(chain, NewBlock) /\ NewBlock.snapshot = state
    BY <1>0, <1>6 DEF WriteBlock, NewBlock
  <2>2. /\ Len(chain') = n + 1 /\ chain'[n + 1] = NewBlock /\ n \in Nat
        /\ \A i \in 1..n : chain'[i] = chain[i]
    <3>1. chain \in Seq(Block \cup {NewBlock}) /\ NewBlock \in Block \cup {NewBlock}
      BY SeqMonotonic DEF TypeInv, TypeOK
    <3> QED
      BY <2>1, <3>1, AppendProperties, LenProperties
  <2>3. \A i \in 1..(n + 1) : i \in 1..n \/ i = n + 1
    BY <2>2
  <2> QED
    BY <2>1, <2>2, <2>3
<1>7. CASE WriteFails \/ CursorFails \/ PublishHead
  <2>1. UNCHANGED <<state, chain>> /\ prod'.working = EmptyLedger
    BY <1>7 DEF WriteFails, CursorFails, PublishHead, IdleProducer, dbVars
  <2> QED
    BY <2>1, EmptyBacked
<1>8. CASE Crash
  <2>1. /\ chain' = chain /\ state' = LastBlock.snapshot
        /\ prod'.working = EmptyLedger
    BY <1>8 DEF Crash, IdleProducer, dbVars
  <2>2. Len(chain) \in 1..Len(chain)
    BY LastBlockType DEF TypeInv
  <2> QED
    BY <2>1, <2>2, EmptyBacked DEF LastBlock
<1> QED
  BY <1>1, <1>2, <1>3, <1>4, <1>5, <1>6, <1>7, <1>8 DEF Next, ProducerStep

\* No inflation: whatever is submitted, fails or is restarted, balances add up
\* to what was minted, or to less where fees are burned, as long as the u64 of
\* the total has not saturated (state.rs:95-151).
THEOREM SupplyIsConserved == Spec => []SupplyConserved
<1>1. Spec => []TypeInv
  BY TypeInit, TypeStep, PTL DEF Spec
<1>2. Spec => []SupplyInv
  BY <1>1, SupplyInit, SupplyStep, PTL DEF Spec
<1>3. SupplyInv => SupplyConserved
  BY DEF SupplyInv, SupplyConserved
<1> QED
  BY <1>2, <1>3, PTL
-----------------------------------------------------------------------------
(* Replaying.  FoldLeft(Apply, l, s) executes s on l one transaction after *)
(* the other; a block that is replayed meets the ledgers it was built on.  *)

\* FoldLeft is a function of all subsets of positions, and so of ledgers that
\* no execution meets: a closure of LedgerType under Apply.
LedgerClosure ==
    [balance : [Addrs -> Int], nonce : [Addrs -> Nat],
     consumed : SUBSET Nullifiers, minted : Int]

LEMMA ClosureIsClosed ==
    /\ LedgerType \subseteq LedgerClosure
    /\ \A l \in LedgerClosure, tx \in Txs : Apply(l, tx) \in LedgerClosure
<1>1. LedgerType \subseteq LedgerClosure
  BY LedgerAssumption DEF LedgerType, LedgerClosure, Amount
<1> SUFFICES ASSUME NEW l \in LedgerClosure, NEW tx \in Txs
             PROVE  Apply(l, tx) \in LedgerClosure
  BY <1>1
<1>2. /\ l.balance \in [Addrs -> Int] /\ l.nonce \in [Addrs -> Nat]
      /\ l.consumed \in SUBSET Nullifiers /\ l.minted \in Int
      /\ DOMAIN l = {"balance", "nonce", "consumed", "minted"}
  BY DEF LedgerClosure
<1>3. \A a, b \in Int : SatAdd(a, b) \in Int
  BY LedgerAssumption DEF SatAdd
<1>4. CASE tx \in Mints
  <2>1. tx.dest \in Addrs /\ tx.nullifier \in Nullifiers /\ tx.amount \in Int
    BY <1>4, LedgerAssumption DEF Mints, MintTx, Amount
  <2>2. /\ SatAdd(l.balance[tx.dest], tx.amount) \in Int
        /\ SatAdd(l.minted, tx.amount) \in Int
    BY <1>2, <1>3, <2>1
  <2>4. AfterMint(l, tx) \in LedgerClosure
    BY <2>1, <2>2 DEF AfterMint, LedgerClosure
  <2> QED
    BY <1>4, <2>4, TxTypes DEF Apply
<1>5. CASE tx \in Transfers
  <2>1. /\ tx.from \in Addrs /\ tx.to \in Addrs /\ tx.amount \in Int
        /\ tx.amount \in Amount
    BY <1>5, LedgerAssumption DEF Transfers, TransferTx, Amount
  <2>2. TransferFee(tx.amount) \in Int /\ TransferCost(tx) \in Int
    BY <1>5, <2>1, TransferFeeType, TransferCostType, LedgerAssumption
       DEF Transfers, Amount
  <2>3. Debited(l, tx) \in [Addrs -> Int]
    BY <1>2, <2>1, <2>2 DEF Debited
  <2>4. Credited(l, tx) \in [Addrs -> Int]
    BY <1>3, <2>1, <2>3 DEF Credited
  <2>5. AfterFee(l, tx) \in [Addrs -> Int]
    <3>1. CASE FeeAddr = NoFeeAddr
      BY <2>4, <3>1 DEF AfterFee
    <3>2. CASE FeeAddr # NoFeeAddr
      <4>1. SatAdd(Credited(l, tx)[FeeAddr], TransferFee(tx.amount)) \in Int
        BY <1>3, <2>2, <2>4, <3>2, LedgerAssumption
      <4> QED
        BY <2>4, <3>2, <4>1 DEF AfterFee
    <3> QED
      BY <3>1, <3>2
  <2>6. [l.nonce EXCEPT ![tx.from] = @ + 1] \in [Addrs -> Nat]
    BY <1>2, <2>1
  <2>7. AfterTransfer(l, tx) \in LedgerClosure
    BY <2>5, <2>6 DEF AfterTransfer, LedgerClosure
  <2> QED
    BY <1>5, <2>7, TxTypes DEF Apply
<1> QED
  BY <1>4, <1>5 DEF Txs

\* r is the run of s on l.
Runs(r, l, s) ==
    /\ r[0] = l
    /\ \A k \in 1..Len(s) : r[k] = Apply(r[k - 1], s[k])

\* FoldLeft ends where the run does.
LEMMA FoldRuns ==
    ASSUME NEW l \in LedgerClosure, NEW s \in Seq(Txs)
    PROVE  \E r : Runs(r, l, s) /\ FoldLeft(Apply, l, s) = r[Len(s)]
<1> DEFINE n == Len(s)
           S == 1..n
           c == MaxIn(n)
           F == [p \in S \X LedgerClosure |-> Apply(p[2], s[p[1]])]
           Eq(g) == g = [u \in SUBSET S |->
                           IF u = {} THEN l
                           ELSE Apply(g[u \ {Max(u)}], s[Max(u)])]
<1>1. n \in Nat /\ DOMAIN s = S /\ IsFiniteSet(S) /\ Chooses(c, S)
  <2>1. n \in Nat /\ DOMAIN s = S
    BY LenProperties
  <2> HIDE DEF n
  <2> QED
    BY <2>1, FS_Interval, MaxChosen
<1>2. F \in [S \X LedgerClosure -> LedgerClosure]
  <2>1. \A i \in S : s[i] \in Txs
    BY <1>1
  <2> QED
    BY <2>1, ClosureIsClosed
<1>3. PICK g : IsFold(g, S, LedgerClosure, l, F, c)
  <2> HIDE DEF F, c, S
  <2> QED
    BY <1>1, <1>2, FoldExists
<1>4. g \in [SUBSET S -> LedgerClosure]
  BY <1>3 DEF IsFold
<1>5. Eq(g)
  <2>1. ASSUME NEW u \in SUBSET S, u # {}
        PROVE  g[u] = Apply(g[u \ {Max(u)}], s[Max(u)])
    <3>1. c[u] = Max(u) /\ Max(u) \in S
      BY <1>1, <2>1 DEF Chooses, MaxIn
    <3>2. g[u \ {Max(u)}] \in LedgerClosure
      BY <1>4
    <3>3. g[u] = F[<<Max(u), g[u \ {Max(u)}]>>]
      BY <1>3, <2>1, <3>1 DEF IsFold
    <3> QED
      BY <3>1, <3>2, <3>3
  <2>2. g[{}] = l
    BY <1>3 DEF IsFold
  <2> HIDE DEF S
  <2> QED
    BY <1>4, <2>1, <2>2
<1> DEFINE h == CHOOSE h : Eq(h)
<1>6. Eq(h)
  <2> HIDE DEF Eq
  <2> QED
    BY <1>5
<1>7. FoldLeft(Apply, l, s) = h[S]
  BY <1>1 DEF FoldLeft, MapThenFoldSet
<1> DEFINE r == [k \in 0..n |-> h[1..k]]
<1>8. r[0] = l
  <2>1. 1..0 = {} /\ 0 \in 0..n /\ {} \in SUBSET S
    BY <1>1
  <2> HIDE DEF h
  <2> QED
    BY <1>6, <2>1
<1>9. ASSUME NEW k \in 1..n
      PROVE  r[k] = Apply(r[k - 1], s[k])
  <2>1. /\ k \in Nat \ {0} /\ k \in 0..n /\ k - 1 \in 0..n
        /\ 1..k \in SUBSET S
    BY <1>1
  <2>2. Max(1..k) = k /\ (1..k) \ {k} = 1..(k - 1) /\ 1..k # {}
    BY <2>1, MaxOfPrefix
  <2> HIDE DEF h
  <2>3. h[1..k] = Apply(h[(1..k) \ {Max(1..k)}], s[Max(1..k)])
    BY <1>6, <2>1, <2>2
  <2> QED
    BY <2>1, <2>2, <2>3
<1>10. r[n] = h[S]
  BY <1>1
<1> QED
  <2>1. Runs(r, l, s) /\ FoldLeft(Apply, l, s) = r[Len(s)]
    <3> HIDE DEF r, h
    <3> QED
      BY <1>7, <1>8, <1>9, <1>10 DEF Runs
  <2> QED
    BY <2>1
\* Runs of the same transactions meet the same ledgers.
LEMMA RunsAgree ==
    ASSUME NEW l, NEW s, NEW t, NEW q, NEW r, NEW n \in Nat,
           Runs(q, l, s), Runs(r, l, t), n <= Len(s), n <= Len(t),
           Len(s) \in Nat, Len(t) \in Nat, \A k \in 1..n : s[k] = t[k]
    PROVE  q[n] = r[n]
<1> DEFINE G == {k \in Nat : k <= n => q[k] = r[k]}
<1>1. 0 \in G
  BY DEF Runs
<1>2. ASSUME NEW k \in Nat, k \in G
      PROVE  k + 1 \in G
  <2> SUFFICES ASSUME k + 1 <= n PROVE q[k + 1] = r[k + 1]
    OBVIOUS
  <2>1. /\ k + 1 \in 1..Len(s) /\ k + 1 \in 1..Len(t) /\ k + 1 \in 1..n
        /\ (k + 1) - 1 = k /\ k <= n
    OBVIOUS
  <2> QED
    BY <1>2, <2>1 DEF Runs
<1>3. \A k \in Nat : k \in G
  <2> HIDE DEF G
  <2> QED
    BY <1>1, <1>2, SetInduction
<1> QED
  BY <1>3

\* The two laws of replaying.
LEMMA ReplayLaws ==
    ASSUME NEW l \in LedgerClosure, NEW s \in Seq(Txs), NEW tx \in Txs
    PROVE  /\ FoldLeft(Apply, l, <<>>) = l
           /\ FoldLeft(Apply, l, Append(s, tx)) = Apply(FoldLeft(Apply, l, s), tx)
<1>1. FoldLeft(Apply, l, <<>>) = l
  <2>1. <<>> \in Seq(Txs) /\ Len(<<>>) = 0
    BY EmptySeq
  <2>2. PICK r : Runs(r, l, <<>>) /\ FoldLeft(Apply, l, <<>>) = r[Len(<<>>)]
    BY <2>1, FoldRuns
  <2> QED
    BY <2>1, <2>2 DEF Runs
<1>2. FoldLeft(Apply, l, Append(s, tx)) = Apply(FoldLeft(Apply, l, s), tx)
  <2> DEFINE n == Len(s)
             t == Append(s, tx)
  <2>1. /\ t \in Seq(Txs) /\ Len(t) = n + 1 /\ n \in Nat /\ t[n + 1] = tx
        /\ \A k \in 1..n : s[k] = t[k]
    BY AppendProperties, LenProperties
  <2> HIDE DEF t, n
  <2>2. PICK q : Runs(q, l, s) /\ FoldLeft(Apply, l, s) = q[Len(s)]
    BY FoldRuns
  <2>3. PICK r : Runs(r, l, t) /\ FoldLeft(Apply, l, t) = r[Len(t)]
    BY <2>1, FoldRuns
  <2>4. q[n] = r[n]
    <3>1. n <= Len(s) /\ n <= Len(t) /\ Len(s) \in Nat /\ Len(t) \in Nat
      BY <2>1 DEF n
    <3> QED
      BY <2>1, <2>2, <2>3, <3>1, RunsAgree
  <2>5. r[n + 1] = Apply(r[n], tx)
    <3>1. n + 1 \in 1..Len(t) /\ (n + 1) - 1 = n
      BY <2>1
    <3> QED
      BY <2>1, <2>3, <3>1 DEF Runs
  <2> QED
    BY <2>1, <2>2, <2>3, <2>4, <2>5 DEF t, n
<1> QED
  BY <1>1, <1>2

-----------------------------------------------------------------------------
(* Where no write fails, the ledger in memory is the stored one plus the   *)
(* block under way, so whoever replays a block gets its header's root.     *)

Replayed(l) == FoldLeft(Apply, l, prod.txs)

ReplayInv ==
    /\ RootsReplay
    /\ prod.at \in {"idle", "drain", "build", "cursor", "publish"} =>
         state = LastBlock.snapshot
    /\ prod.at = "build" => prod.working = Replayed(state)
    /\ prod.at = "write" =>
         prod.working = state /\ state = Replayed(LastBlock.snapshot)
    /\ prod.at \in {"idle", "drain", "build", "write"} => HeightIsFree

LEMMA ReplayInit == Init => ReplayInv
<1> SUFFICES ASSUME Init PROVE ReplayInv
  OBVIOUS
<1>1. /\ Len(chain) = 1 /\ prod.at = "idle" /\ head.height = 0
      /\ LastBlock.snapshot = EmptyLedger /\ state = EmptyLedger
  BY DEF Init, IdleProducer, LastBlock, GenesisBlock
<1> QED
  BY <1>1 DEF ReplayInv, RootsReplay, HeightIsFree

\* A round of either loop executes the transaction it appends.
LEMMA ReplayRound ==
    ASSUME TypeInv, ReplayInv, BuildMint \/ BuildTransfer
    PROVE  ReplayInv'
<1>0. /\ prod.mints \in Seq(Mints) /\ prod.transfers \in Seq(Transfers)
      /\ prod.txs \in Seq(Txs) /\ state \in LedgerClosure
      /\ DOMAIN prod = {"at", "l1Height", "mints", "transfers", "txs", "working"}
  BY ClosureIsClosed DEF TypeInv, TypeOK, ProducerType
<1>1. /\ UNCHANGED <<state, chain, head>> /\ LastBlock' = LastBlock
      /\ prod.at = "build" /\ prod'.at = "build"
  BY <1>0 DEF BuildMint, BuildTransfer, dbVars, LastBlock
<1>2. \/ prod'.txs = prod.txs /\ prod'.working = prod.working
      \/ \E tx \in Txs : /\ prod'.txs = Append(prod.txs, tx)
                         /\ prod'.working = Apply(prod.working, tx)
  <2>1. CASE BuildMint
    <3> DEFINE tx == Head(prod.mints)
    <3>1. tx \in Txs
      BY <1>0, <2>1, HeadTailProperties DEF BuildMint, Txs
    <3>2. \/ prod'.txs = prod.txs /\ prod'.working = prod.working
          \/ /\ prod'.txs = Append(prod.txs, tx)
             /\ prod'.working = Apply(prod.working, tx)
      BY <1>0, <2>1 DEF BuildMint
    <3> QED
      BY <3>1, <3>2
  <2>2. CASE BuildTransfer
    <3> DEFINE tx == Head(prod.transfers)
    <3>1. tx \in Txs
      BY <1>0, <2>2, HeadTailProperties DEF BuildTransfer, Txs
    <3>2. \/ prod'.txs = prod.txs /\ prod'.working = prod.working
          \/ /\ prod'.txs = Append(prod.txs, tx)
             /\ prod'.working = Apply(prod.working, tx)
      BY <1>0, <2>2 DEF BuildTransfer
    <3> QED
      BY <3>1, <3>2
  <2> QED
    BY <2>1, <2>2
<1>3. prod'.working = FoldLeft(Apply, state, prod'.txs)
  <2>1. prod.working = FoldLeft(Apply, state, prod.txs)
    BY <1>1 DEF ReplayInv, Replayed
  <2>2. CASE prod'.txs = prod.txs /\ prod'.working = prod.working
    BY <2>1, <2>2
  <2>3. ASSUME NEW tx \in Txs, prod'.txs = Append(prod.txs, tx),
               prod'.working = Apply(prod.working, tx)
        PROVE  prod'.working = FoldLeft(Apply, state, prod'.txs)
    <3>1. FoldLeft(Apply, state, Append(prod.txs, tx))
            = Apply(FoldLeft(Apply, state, prod.txs), tx)
      BY <1>0, ReplayLaws
    <3> QED
      BY <2>1, <2>3, <3>1
  <2> QED
    BY <1>2, <2>2, <2>3
<1>4. Replayed(state)' = FoldLeft(Apply, state, prod'.txs)
  BY <1>1 DEF Replayed
<1>5. RootsReplay' /\ HeightIsFree'
  BY <1>1 DEF ReplayInv, RootsReplay, HeightIsFree
<1> QED
  BY <1>1, <1>3, <1>4, <1>5 DEF ReplayInv
\* The block that is stored replays from the snapshot below it.
LEMMA ReplayWrite ==
    ASSUME TypeInv, ReplayInv, WriteBlock
    PROVE  ReplayInv'
<1> DEFINE n == Len(chain)
<1>1. /\ chain' = Append(chain, NewBlock) /\ prod.at = "write"
      /\ state' = state /\ prod'.at = "cursor"
      /\ chain \in Seq(Block) /\ n \in Nat \ {0}
  BY LastBlockType DEF WriteBlock, TypeInv, TypeOK, ProducerType
<1>2. /\ NewBlock.snapshot = state /\ NewBlock.root = Root(state)
      /\ state = FoldLeft(Apply, chain[n].snapshot, NewBlock.txs)
  BY <1>1 DEF NewBlock, ReplayInv, Replayed, LastBlock
<1>3. /\ Len(chain') = n + 1 /\ chain'[n + 1] = NewBlock
      /\ \A i \in 1..n : chain'[i] = chain[i]
  <2>1. chain \in Seq(Block \cup {NewBlock}) /\ NewBlock \in Block \cup {NewBlock}
    BY <1>1, SeqMonotonic
  <2> QED
    BY <1>1, <2>1, AppendProperties
<1>4. LastBlock' = NewBlock
  BY <1>3 DEF LastBlock
<1>5. RootsReplay'
  <2> SUFFICES ASSUME NEW i \in 2..Len(chain')
               PROVE  /\ FoldLeft(Apply, chain'[i - 1].snapshot, chain'[i].txs)
                           = chain'[i].snapshot
                      /\ chain'[i].root
                           = Root(FoldLeft(Apply, chain'[i - 1].snapshot,
                                           chain'[i].txs))
    BY DEF RootsReplay
  <2>1. CASE i \in 2..n
    <3>1. i \in 1..n /\ i - 1 \in 1..n
      BY <1>1, <2>1
    <3>2. chain'[i] = chain[i] /\ chain'[i - 1] = chain[i - 1]
      BY <1>3, <3>1
    <3> QED
      BY <2>1, <3>2 DEF ReplayInv, RootsReplay
  <2>2. CASE i = n + 1
    <3>1. chain'[i] = NewBlock /\ chain'[i - 1] = chain[n]
      BY <1>1, <1>3, <2>2
    <3> QED
      BY <1>2, <3>1
  <2> QED
    BY <1>1, <1>3, <2>1, <2>2
<1> QED
  BY <1>1, <1>2, <1>4, <1>5 DEF ReplayInv

\* The other steps store nothing, so what was stored still replays.
LEMMA ReplayKept ==
    ASSUME TypeInv, SafeInv, ReplayInv, ~StoreFaults, [Next]_vars, ~WriteBlock,
           ~BuildMint, ~BuildTransfer
    PROVE  ReplayInv'
<1>0. /\ DOMAIN prod = {"at", "l1Height", "mints", "transfers", "txs", "working"}
      /\ head.height \in Nat /\ Len(chain) \in Nat \ {0}
      /\ state \in LedgerClosure
  BY LastBlockType, ClosureIsClosed DEF TypeInv, TypeOK, ProducerType
<1>1. chain' = chain
  BY DEF Next, L1Step, FundLock, ReclaimLock, ReorgLock, ClientStep, HandlerStep,
         VerifyMint, QueryNonce, SendTransfer, AddPending, SignSoftConf,
         CheckConsumed, PushMint, CheckNonce, PushTransfer,
         ProducerStep, ReadL1, Drain, Seal, WriteFails, SetL1Cursor, CursorFails,
         PublishHead, Crash, vars, dbVars
<1>2. LastBlock' = LastBlock /\ RootsReplay'
  BY <1>1 DEF LastBlock, ReplayInv, RootsReplay
<1>3. CASE UNCHANGED <<state, prod, head>>
  BY <1>1, <1>2, <1>3 DEF ReplayInv, Replayed, HeightIsFree
<1>4. CASE ReadL1
  <2>1. /\ prod.at = "idle" /\ prod'.at = "drain" /\ UNCHANGED <<state, head>>
    BY <1>0, <1>4 DEF ReadL1
  <2> QED
    BY <1>1, <1>2, <2>1 DEF ReplayInv, HeightIsFree
<1>5. CASE Drain
  <2>1. /\ prod.at = "drain" /\ prod'.at = "build" /\ UNCHANGED <<state, head>>
        /\ prod'.working = state /\ prod'.txs = <<>>
    BY <1>0, <1>5 DEF Drain
  <2>2. Replayed(state)' = state
    <3>1. <<>> \in Seq(Txs) /\ FoldLeft(Apply, state, <<>>) = state
      <4>1. PICK r : Runs(r, state, <<>>)
                     /\ FoldLeft(Apply, state, <<>>) = r[Len(<<>>)]
        BY <1>0, FoldRuns, EmptySeq
      <4> QED
        BY <4>1, EmptySeq DEF Runs
    <3> QED
      BY <2>1, <3>1 DEF Replayed
  <2> QED
    BY <1>1, <1>2, <2>1, <2>2 DEF ReplayInv, HeightIsFree
<1>6. CASE Seal
  <2>1. /\ prod.at = "build" /\ prod'.at = "write" /\ UNCHANGED head
        /\ state' = prod.working /\ prod'.working = prod.working
        /\ prod'.txs = prod.txs
    BY <1>0, <1>6 DEF Seal
  <2> QED
    BY <1>1, <1>2, <2>1 DEF ReplayInv, Replayed, HeightIsFree
<1>7. CASE SetL1Cursor
  <2>1. /\ prod.at = "cursor" /\ prod'.at = "publish" /\ UNCHANGED <<state, head>>
    BY <1>0, <1>7 DEF SetL1Cursor
  <2> QED
    BY <1>1, <1>2, <2>1 DEF ReplayInv, HeightIsFree
<1>8. CASE WriteFails \/ CursorFails
  BY <1>8 DEF WriteFails, CursorFails, ReplayInv
<1>9. CASE PublishHead
  <2>1. /\ prod.at = "publish" /\ prod'.at = "idle" /\ UNCHANGED state
        /\ head'.height = head.height + 1
    BY <1>9 DEF PublishHead, IdleProducer
  <2>2. HeightIsFree'
    BY <1>0, <1>1, <2>1 DEF HeightIsFree, SafeInv, HeadIsBehind
  <2> QED
    BY <1>1, <1>2, <2>1, <2>2 DEF ReplayInv
<1>10. CASE Crash
  <2>1. /\ prod'.at = "idle" /\ state' = LastBlock.snapshot
        /\ head'.height = Len(chain) - 1
    BY <1>10 DEF Crash, IdleProducer, ResumedHead
  <2>2. HeightIsFree'
    BY <1>0, <1>1, <2>1 DEF HeightIsFree
  <2> QED
    BY <1>1, <1>2, <2>1, <2>2 DEF ReplayInv
<1>11. CASE \/ L1Step \/ UNCHANGED vars
            \/ \E r \in Requests : ClientStep(r) \/ HandlerStep(r)
  <2>1. UNCHANGED <<state, prod, head>>
    BY <1>11 DEF L1Step, FundLock, ReclaimLock, ReorgLock, ClientStep, VerifyMint,
         QueryNonce, SendTransfer, HandlerStep, CheckConsumed, PushMint,
         AddPending, CheckNonce, PushTransfer, SignSoftConf, vars, procVars
  <2> QED
    BY <1>3, <2>1
<1> QED
  BY <1>4, <1>5, <1>6, <1>7, <1>8, <1>9, <1>10, <1>11 DEF Next, ProducerStep

\* Where no write to the store fails, every stored block replays: its
\* transactions turn the snapshot below it into its own, whose root its header
\* carries, also across crashes (producer.rs:100-209, follower.rs:180-205).
THEOREM StoredBlocksReplay == Spec => [](~StoreFaults => RootsReplay)
<1>1. Spec => [](TypeInv /\ SafeInv)
  BY TypeInit, TypeStep, SafeInvariant, PTL DEF Spec
<1>2. TypeInv /\ SafeInv /\ (~StoreFaults => ReplayInv) /\ [Next]_vars
        => (~StoreFaults => ReplayInv)'
  BY ReplayWrite, ReplayRound, ReplayKept
<1>3. Init => (~StoreFaults => ReplayInv)
  BY ReplayInit
<1>4. Spec => [](~StoreFaults => ReplayInv)
  BY <1>1, <1>2, <1>3, PTL DEF Spec
<1>5. (~StoreFaults => ReplayInv) => (~StoreFaults => RootsReplay)
  BY DEF ReplayInv
<1> QED
  BY <1>4, <1>5, PTL
=============================================================================
