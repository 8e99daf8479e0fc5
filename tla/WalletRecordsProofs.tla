------------------------- MODULE WalletRecordsProofs -------------------------
(***************************************************************************)
(* Theorems about WalletRecords, for any number of wallets, mints,         *)
(* submissions, blocks, failing commands and crashes: first of addresses   *)
(* and mint records, then of the history, which is a fold of the events of *)
(* the blocks a walk crossed.  What commands that overlap may break        *)
(* (ShownKept, FilesKeepIdentity, HistoryComplete, FileForward) is proved  *)
(* for commands that run one at a time, the rest for both.                 *)
(***************************************************************************)
EXTENDS WalletRecords, SequenceTheorems, Induction, TLAPS

Fields == {"seed", "enc", "next_mint_index", "mints", "head", "booted", "txs"}
MintRec == [index : 0..(MaxKeys - 1), lock : Locks, funded : Nat,
            minted : BOOLEAN, reclaimed : BOOLEAN]

\* What a wallet file has of a record: nothing is said of its history.
IsFile(wf) ==
    /\ DOMAIN wf = Fields /\ wf = [f \in Fields |-> wf[f]]
    /\ wf.seed \in Wallets
    /\ wf.next_mint_index \in Nat
    /\ wf.mints \in Seq(MintRec)

\* Mint records have indices of their own that were allocated, and know the
\* deposits d.
Allocated(wf) ==
    /\ \A j \in 1..Len(wf.mints) : wf.mints[j].index < wf.next_mint_index
    /\ \A j, k \in 1..Len(wf.mints) :
         wf.mints[j].index = wf.mints[k].index => j = k
KnowsDeposits(wf, d) ==
    \A j \in 1..Len(wf.mints) :
        wf.mints[j].funded # 0
        => d[AddressOf(wf, wf.mints[j])] = wf.mints[j].funded
GoodFile(wf, d) == IsFile(wf) /\ Allocated(wf) /\ KnowsDeposits(wf, d)

\* A copy that changed forgets no seed, no key and no mint.
Forward(new, old) ==
    /\ new.seed = old.seed /\ new.enc = old.enc
    /\ old.next_mint_index <= new.next_mint_index
    /\ \A j \in 1..Len(old.mints) :
         /\ j \in 1..Len(new.mints)
         /\ new.mints[j].index = old.mints[j].index
         /\ new.mints[j].lock = old.mints[j].lock

-----------------------------------------------------------------------------
(* What the operations do to a file.                                       *)

\* The record of an index.
LEMMA MintFound ==
    ASSUME NEW wf, IsFile(wf), Allocated(wf), NEW i, HasMint(wf, i)
    PROVE  /\ MintPos(wf, i) \in 1..Len(wf.mints)
           /\ MintAt(wf, i) \in MintRec /\ MintAt(wf, i).index = i
           /\ AddressAt(wf, i) \in Address
<1>1. wf.mints \in Seq(MintRec) /\ DOMAIN wf.mints = 1..Len(wf.mints)
      /\ Len(wf.mints) \in Nat
  BY LenProperties DEF IsFile
<1>2. PICK j \in 1..Len(wf.mints) : wf.mints[j].index = i
  BY <1>1 DEF HasMint, Range
<1>3. \A k \in 1..(j - 1) : wf.mints[k].index # i
  <2> SUFFICES ASSUME NEW k \in 1..(j - 1), wf.mints[k].index = i
               PROVE  FALSE
    OBVIOUS
  <2>1. k \in 1..Len(wf.mints) /\ k # j
    BY <1>1
  <2> QED
    BY <2>1, <1>2 DEF Allocated
<1>4. \E p \in DOMAIN wf.mints :
        /\ wf.mints[p].index = i
        /\ \A k \in 1..(p - 1) : wf.mints[k].index # i
  BY <1>1, <1>2, <1>3
<1>5. /\ MintPos(wf, i) \in DOMAIN wf.mints
      /\ wf.mints[MintPos(wf, i)].index = i
  BY <1>4 DEF MintPos
<1>6. wf.mints[MintPos(wf, i)] \in MintRec
  BY <1>1, <1>5, ElementOfSeq
<1>7. [seed |-> wf.seed, index |-> wf.mints[MintPos(wf, i)].index,
       lock |-> wf.mints[MintPos(wf, i)].lock] \in Address
  BY <1>6 DEF Address, IsFile, MintRec
<1> QED
  BY <1>1, <1>5, <1>6, <1>7 DEF MintAt, AddressAt, AddressOf

\* A record of a file is of an address.
LEMMA AddressType ==
    ASSUME NEW wf, IsFile(wf), NEW j \in 1..Len(wf.mints)
    PROVE  wf.mints[j] \in MintRec /\ AddressOf(wf, wf.mints[j]) \in Address
<1>1. wf.mints[j] \in MintRec
  BY ElementOfSeq DEF IsFile
<1>2. [seed |-> wf.seed, index |-> wf.mints[j].index, lock |-> wf.mints[j].lock]
      \in Address
  BY <1>1 DEF Address, IsFile, MintRec
<1> QED
  BY <1>1, <1>2 DEF AddressOf

\* A file of the same mints, with any history and head.
LEMMA SameMints ==
    ASSUME NEW d, NEW wf, GoodFile(wf, d), NEW new, IsFile(new),
           new.seed = wf.seed, new.enc = wf.enc,
           new.next_mint_index = wf.next_mint_index, new.mints = wf.mints
    PROVE  GoodFile(new, d) /\ Forward(new, wf)
<1>1. \A j : AddressOf(new, new.mints[j]) = AddressOf(wf, wf.mints[j])
  BY DEF AddressOf
<1>2. Forward(new, wf)
  BY DEF Forward, GoodFile, IsFile
<1>3. Allocated(new) /\ KnowsDeposits(new, d)
  BY <1>1 DEF GoodFile, Allocated, KnowsDeposits
<1> QED
  BY <1>2, <1>3 DEF GoodFile

\* A file with one mint changed, whose key stays and whose deposit, if another
\* is entered, is right.
LEMMA OneMint ==
    ASSUME NEW d, NEW wf, GoodFile(wf, d), NEW p \in 1..Len(wf.mints),
           NEW r \in MintRec, NEW new, IsFile(new),
           r.index = wf.mints[p].index, r.lock = wf.mints[p].lock,
           \/ r.funded = wf.mints[p].funded
           \/ r.funded = d[AddressOf(wf, wf.mints[p])],
           new.seed = wf.seed, new.enc = wf.enc,
           new.next_mint_index = wf.next_mint_index,
           new.mints = [wf.mints EXCEPT ![p] = r]
    PROVE  GoodFile(new, d) /\ Forward(new, wf)
<1>0. wf.mints \in Seq(MintRec) /\ Len(wf.mints) \in Nat
  BY LenProperties DEF GoodFile, IsFile
<1>1. /\ Len(new.mints) = Len(wf.mints)
      /\ \A j \in 1..Len(wf.mints) :
           new.mints[j] = IF j = p THEN r ELSE wf.mints[j]
  BY <1>0, ExceptSeq
<1>2. \A j \in 1..Len(wf.mints) :
        /\ new.mints[j].index = wf.mints[j].index
        /\ new.mints[j].lock = wf.mints[j].lock
        /\ AddressOf(new, new.mints[j]) = AddressOf(wf, wf.mints[j])
        /\ \/ new.mints[j].funded = wf.mints[j].funded
           \/ new.mints[j].funded = d[AddressOf(wf, wf.mints[j])]
  BY <1>1 DEF AddressOf
<1>3. Forward(new, wf)
  BY SMTT(30), <1>0, <1>1, <1>2 DEF Forward, GoodFile, IsFile
<1>4. Allocated(new)
  BY <1>1, <1>2 DEF GoodFile, Allocated
<1>5. KnowsDeposits(new, d)
  BY <1>1, <1>2 DEF GoodFile, KnowsDeposits
<1> QED
  BY <1>3, <1>4, <1>5 DEF GoodFile

\* Any other history and head.
LEMMA OtherHistory ==
    ASSUME NEW d, NEW wf, GoodFile(wf, d), NEW t
    PROVE  GoodFile([wf EXCEPT !.txs = t], d) /\ Forward([wf EXCEPT !.txs = t], wf)
<1> DEFINE new == [wf EXCEPT !.txs = t]
<1>1. /\ IsFile(new) /\ new.seed = wf.seed /\ new.enc = wf.enc
      /\ new.next_mint_index = wf.next_mint_index /\ new.mints = wf.mints
  BY DEF GoodFile, IsFile, Fields
<1> HIDE DEF new
<1>2. GoodFile(new, d) /\ Forward(new, wf)
  BY <1>1, SameMints
<1> QED
  BY <1>2 DEF new

LEMMA OtherHead ==
    ASSUME NEW d, NEW wf, GoodFile(wf, d), NEW h, NEW b
    PROVE  LET new == [wf EXCEPT !.head = h, !.booted = b]
           IN  GoodFile(new, d) /\ Forward(new, wf)
<1> DEFINE new == [wf EXCEPT !.head = h, !.booted = b]
<1>1. /\ IsFile(new) /\ new.seed = wf.seed /\ new.enc = wf.enc
      /\ new.next_mint_index = wf.next_mint_index /\ new.mints = wf.mints
  BY DEF GoodFile, IsFile, Fields
<1> HIDE DEF new
<1>2. GoodFile(new, d) /\ Forward(new, wf)
  BY <1>1, SameMints
<1> QED
  BY <1>2 DEF new

\* Changes in a row.
LEMMA ForwardTransitive ==
    ASSUME NEW d, NEW a, GoodFile(a, d), NEW b, GoodFile(b, d), NEW c, GoodFile(c, d),
           Forward(b, a), Forward(c, b)
    PROVE  Forward(c, a)
<1>1. /\ a.next_mint_index \in Nat /\ b.next_mint_index \in Nat
      /\ c.next_mint_index \in Nat
  BY DEF GoodFile, IsFile
<1> QED
  BY <1>1 DEF Forward

LEMMA ForwardReflexive ==
    ASSUME NEW d, NEW a, GoodFile(a, d)
    PROVE  Forward(a, a)
BY DEF Forward, GoodFile, IsFile

\* One more record of history, after a change.
LEMMA AppendTx ==
    ASSUME NEW d, NEW old, GoodFile(old, d), NEW wf, GoodFile(wf, d),
           Forward(wf, old), NEW r
    PROVE  GoodFile(append_tx(wf, r), d) /\ Forward(append_tx(wf, r), old)
<1>1. append_tx(wf, r) = [wf EXCEPT !.txs = Append(wf.txs, r)]
  BY DEF append_tx
<1>2. GoodFile(append_tx(wf, r), d) /\ Forward(append_tx(wf, r), wf)
  BY ZenonT(30), <1>1, OtherHistory
<1> QED
  BY <1>2, ForwardTransitive

\* A field of one mint is set.
LEMMA SetMint ==
    ASSUME NEW d, NEW wf, GoodFile(wf, d), NEW i, HasMint(wf, i),
           NEW r \in MintRec, r.index = i, r.lock = MintAt(wf, i).lock,
           r.funded = MintAt(wf, i).funded \/ r.funded = d[AddressAt(wf, i)]
    PROVE  LET new == [wf EXCEPT !.mints = [wf.mints EXCEPT ![MintPos(wf, i)] = r]]
           IN  GoodFile(new, d) /\ Forward(new, wf)
<1> DEFINE p == MintPos(wf, i)
           ms == [wf.mints EXCEPT ![p] = r]
           new == [wf EXCEPT !.mints = ms]
<1>1. /\ p \in 1..Len(wf.mints) /\ MintAt(wf, i) = wf.mints[p]
      /\ wf.mints[p].index = i
      /\ AddressAt(wf, i) = AddressOf(wf, wf.mints[p])
  BY MintFound DEF GoodFile, MintAt, AddressAt
<1>2. ms \in Seq(MintRec)
  BY <1>1, ExceptSeq DEF GoodFile, IsFile
<1> HIDE DEF ms
<1>3. /\ IsFile(new) /\ new.seed = wf.seed /\ new.enc = wf.enc
      /\ new.next_mint_index = wf.next_mint_index /\ new.mints = ms
  BY <1>2 DEF GoodFile, IsFile, Fields
<1> HIDE DEF new
<1>4. new.mints = [wf.mints EXCEPT ![p] = r]
  BY <1>3 DEF ms
<1> HIDE DEF p
<1>5. GoodFile(new, d) /\ Forward(new, wf)
  BY <1>1, <1>3, <1>4, OneMint
<1> QED
  BY <1>5 DEF new, ms, p

\* Each operation gives a good file that goes forward.
LEMMA MintUtxoFile ==
    ASSUME NEW d, NEW wf, GoodFile(wf, d), NEW lock \in Locks,
           wf.next_mint_index < MaxKeys
    PROVE  LET new == mint_utxo(wf, lock)
           IN  /\ GoodFile(new, d) /\ Forward(new, wf)
               /\ HasMint(new, wf.next_mint_index)
               /\ new.next_mint_index = wf.next_mint_index + 1
<1> DEFINE n == wf.next_mint_index
           r == [index |-> n, lock |-> lock, funded |-> 0, minted |-> FALSE,
                 reclaimed |-> FALSE]
           ms == Append(wf.mints, r)
           new == mint_utxo(wf, lock)
<1>1. r \in MintRec
  BY WalletAssumption DEF MintRec, GoodFile, IsFile
<1>2. wf.mints \in Seq(MintRec) /\ Len(wf.mints) \in Nat /\ n \in Nat
  BY LenProperties DEF GoodFile, IsFile
<1>3. /\ ms \in Seq(MintRec) /\ Len(ms) = Len(wf.mints) + 1
      /\ \A j \in 1..Len(wf.mints) : ms[j] = wf.mints[j]
      /\ ms[Len(wf.mints) + 1] = r
  BY <1>1, <1>2, AppendProperties
<1> HIDE DEF ms
<1>4. new = [[wf EXCEPT !.next_mint_index = n + 1] EXCEPT !.mints = ms]
  <2>1. [wf EXCEPT !.next_mint_index = n + 1].mints = wf.mints
    BY DEF GoodFile, IsFile, Fields
  <2> QED
    BY <2>1 DEF mint_utxo, allocate_mint_keypair, append_mint, MintRecord, ms
<1>5. /\ IsFile(new) /\ new.seed = wf.seed /\ new.enc = wf.enc
      /\ new.next_mint_index = n + 1 /\ new.mints = ms
  <2> DEFINE used == [wf EXCEPT !.next_mint_index = n + 1]
  <2>1. /\ DOMAIN used = Fields /\ used = [f \in Fields |-> used[f]]
        /\ used.seed = wf.seed /\ used.enc = wf.enc
        /\ used.next_mint_index = n + 1 /\ used.seed \in Wallets
    BY DEF GoodFile, IsFile, Fields
  <2> HIDE DEF used
  <2>2. new = [used EXCEPT !.mints = ms]
    BY <1>4 DEF used
  <2> HIDE DEF new
  <2>3. DOMAIN new = Fields /\ new = [f \in Fields |-> new[f]]
    BY <2>1, <2>2
  <2>4. /\ new.seed = wf.seed /\ new.enc = wf.enc
        /\ new.next_mint_index = n + 1 /\ new.mints = ms
    BY <2>1, <2>2 DEF Fields
  <2> HIDE DEF n
  <2>5. n + 1 \in Nat
    BY <1>2
  <2>6. new.seed \in Wallets
    BY <2>1, <2>4
  <2> QED
    BY <1>3, <2>3, <2>4, <2>5, <2>6 DEF IsFile
<1> HIDE DEF new
<1>6. \A j \in 1..Len(wf.mints) :
        /\ j \in 1..Len(new.mints) /\ new.mints[j] = wf.mints[j]
        /\ AddressOf(new, new.mints[j]) = AddressOf(wf, wf.mints[j])
        /\ wf.mints[j].index \in Nat /\ wf.mints[j].index < n
  <2> SUFFICES ASSUME NEW j \in 1..Len(wf.mints)
               PROVE  /\ j \in 1..Len(new.mints) /\ new.mints[j] = wf.mints[j]
                      /\ AddressOf(new, new.mints[j]) = AddressOf(wf, wf.mints[j])
                      /\ wf.mints[j].index \in Nat /\ wf.mints[j].index < n
    OBVIOUS
  <2>1. j \in 1..Len(new.mints) /\ new.mints[j] = wf.mints[j]
    BY <1>2, <1>3, <1>5
  <2>2. AddressOf(new, new.mints[j]) = AddressOf(wf, wf.mints[j])
    BY <1>5, <2>1 DEF AddressOf
  <2>3. wf.mints[j] \in MintRec /\ MaxKeys \in Nat
    BY AddressType, WalletAssumption DEF GoodFile
  <2>4. wf.mints[j].index \in Nat
    BY <2>3 DEF MintRec
  <2>5. wf.mints[j].index < n
    BY DEF GoodFile, Allocated
  <2> QED
    BY <2>1, <2>2, <2>4, <2>5
<1>7. Forward(new, wf)
  BY <1>2, <1>5, <1>6 DEF Forward
<1>8. \A j \in 1..Len(new.mints) : j \in 1..Len(wf.mints) \/ new.mints[j] = r
  BY <1>2, <1>3, <1>5
<1>9. Allocated(new)
  <2>1. \A j \in 1..Len(new.mints) : new.mints[j].index < new.next_mint_index
    BY <1>2, <1>5, <1>6, <1>8 DEF GoodFile, Allocated
  <2>2. ASSUME NEW j \in 1..Len(new.mints), NEW k \in 1..Len(new.mints),
               new.mints[j].index = new.mints[k].index
        PROVE  j = k
    <3>1. \A q \in 1..Len(wf.mints) : new.mints[q].index # n
      BY <1>2, <1>6
    <3>2. \A q \in 1..Len(new.mints) :
            \/ q \in 1..Len(wf.mints)
            \/ (q = Len(wf.mints) + 1 /\ new.mints[q].index = n)
      BY <1>2, <1>3, <1>5
    <3>3. CASE j \in 1..Len(wf.mints) /\ k \in 1..Len(wf.mints)
      BY <2>2, <3>3, <1>6 DEF GoodFile, Allocated
    <3> QED
      BY <2>2, <3>1, <3>2, <3>3
  <2> QED
    BY <2>1, <2>2 DEF Allocated
<1>10. KnowsDeposits(new, d)
  BY <1>6, <1>8 DEF GoodFile, KnowsDeposits
<1>11. HasMint(new, n)
  <2>1. Len(wf.mints) + 1 \in DOMAIN new.mints
    BY <1>2, <1>3, <1>5, LenProperties
  <2> QED
    BY <2>1, <1>3, <1>5 DEF HasMint, Range
<1> QED
  BY <1>5, <1>7, <1>9, <1>10, <1>11 DEF GoodFile, new

LEMMA FundedFile ==
    ASSUME NEW d, NEW wf, GoodFile(wf, d), NEW i, HasMint(wf, i),
           NEW h \in Nat, h = d[AddressAt(wf, i)]
    PROVE  GoodFile(Funded(wf, i, h), d) /\ Forward(Funded(wf, i, h), wf)
<1> DEFINE r == [MintAt(wf, i) EXCEPT !.funded = h]
           known == [wf EXCEPT !.mints = [wf.mints EXCEPT ![MintPos(wf, i)] = r]]
<1>1. MintAt(wf, i) \in MintRec /\ MintAt(wf, i).index = i
  BY MintFound DEF GoodFile
<1>2. /\ r \in MintRec /\ r.index = i /\ r.lock = MintAt(wf, i).lock
      /\ r.funded = h
  BY <1>1 DEF MintRec
<1> HIDE DEF r
<1>3. GoodFile(known, d) /\ Forward(known, wf)
  BY <1>2, SetMint
<1>4. known = [wf EXCEPT !.mints[MintPos(wf, i)].funded = h]
  BY DEF r, MintAt
<1> HIDE DEF known
<1>5. \/ Funded(wf, i, h) = known
      \/ \E x : Funded(wf, i, h) = append_tx(known, x)
  BY <1>4 DEF Funded
<1> QED
  BY <1>3, <1>5, AppendTx

LEMMA MintSentFile ==
    ASSUME NEW d, NEW wf, GoodFile(wf, d), NEW i, HasMint(wf, i), NEW accepted
    PROVE  GoodFile(MintSent(wf, i, accepted), d) /\ Forward(MintSent(wf, i, accepted), wf)
<1> DEFINE r == [MintAt(wf, i) EXCEPT !.minted = TRUE]
           sent == [wf EXCEPT !.mints = [wf.mints EXCEPT ![MintPos(wf, i)] = r]]
<1>1. MintAt(wf, i) \in MintRec /\ MintAt(wf, i).index = i
  BY MintFound DEF GoodFile
<1>2. /\ r \in MintRec /\ r.index = i /\ r.lock = MintAt(wf, i).lock
      /\ r.funded = MintAt(wf, i).funded
  BY <1>1 DEF MintRec
<1> HIDE DEF r
<1>3. GoodFile(sent, d) /\ Forward(sent, wf)
  BY <1>2, SetMint
<1>4. sent = [wf EXCEPT !.mints[MintPos(wf, i)].minted = TRUE]
  BY DEF r, MintAt
<1> HIDE DEF sent
<1>5. \/ \E x : MintSent(wf, i, accepted) = append_tx(wf, x)
      \/ \E x : MintSent(wf, i, accepted) = append_tx(sent, x)
  BY <1>4 DEF MintSent
<1> QED
  BY <1>3, <1>5, AppendTx, ForwardReflexive

LEMMA ReclaimedFile ==
    ASSUME NEW d, NEW wf, GoodFile(wf, d), NEW i, HasMint(wf, i)
    PROVE  GoodFile(Reclaimed(wf, i), d) /\ Forward(Reclaimed(wf, i), wf)
<1> DEFINE r == [MintAt(wf, i) EXCEPT !.reclaimed = TRUE]
           spent == [wf EXCEPT !.mints = [wf.mints EXCEPT ![MintPos(wf, i)] = r]]
<1>1. MintAt(wf, i) \in MintRec /\ MintAt(wf, i).index = i
  BY MintFound DEF GoodFile
<1>2. /\ r \in MintRec /\ r.index = i /\ r.lock = MintAt(wf, i).lock
      /\ r.funded = MintAt(wf, i).funded
  BY <1>1 DEF MintRec
<1> HIDE DEF r
<1>3. GoodFile(spent, d) /\ Forward(spent, wf)
  BY <1>2, SetMint
<1>4. spent = [wf EXCEPT !.mints[MintPos(wf, i)].reclaimed = TRUE]
  BY DEF r, MintAt
<1> HIDE DEF spent
<1> QED
  BY <1>3, <1>4, AppendTx DEF Reclaimed

LEMMA TransferSentFile ==
    ASSUME NEW d, NEW wf, GoodFile(wf, d), NEW body, NEW accepted
    PROVE  /\ GoodFile(TransferSent(wf, body, accepted), d)
           /\ Forward(TransferSent(wf, body, accepted), wf)
BY AppendTx, ForwardReflexive DEF TransferSent

\* A walk and the refresh of the statuses change history and head alone.
LEMMA WalkFile ==
    ASSUME NEW d, NEW wf, GoodFile(wf, d), NEW tip
    PROVE  LET new == finalize_and_refresh(Walk(wf), tip)
           IN  GoodFile(new, d) /\ Forward(new, wf)
<1> DEFINE from == IF wf.head = NoHead THEN bootstrap(wf, Len(blocks)) ELSE wf
           walked == Walk(wf)
           new == finalize_and_refresh(walked, tip)
<1>1. GoodFile(from, d) /\ Forward(from, wf)
  BY OtherHead, ForwardReflexive DEF bootstrap
<1> HIDE DEF from
<1>2. \E t : walked = [from EXCEPT !.txs = t, !.head = Len(blocks)]
  BY DEF Walk, from
<1> HIDE DEF walked
<1>3. PICK t : walked = [from EXCEPT !.txs = t, !.head = Len(blocks)]
  BY <1>2
<1>4. /\ IsFile(walked) /\ walked.seed = from.seed /\ walked.enc = from.enc
      /\ walked.next_mint_index = from.next_mint_index
      /\ walked.mints = from.mints
  BY <1>1, <1>3 DEF GoodFile, IsFile, Fields
<1>5. GoodFile(walked, d) /\ Forward(walked, from)
  BY <1>1, <1>4, SameMints
<1>6. \E u : new = [walked EXCEPT !.txs = u]
  BY DEF finalize_and_refresh
<1> HIDE DEF new
<1>7. GoodFile(new, d) /\ Forward(new, walked)
  BY <1>5, <1>6, OtherHistory
<1>8. Forward(walked, wf)
  BY <1>1, <1>5, ForwardTransitive
<1>9. Forward(new, wf)
  BY <1>5, <1>7, <1>8, ForwardTransitive
<1> QED
  BY <1>7, <1>9 DEF new, walked

-----------------------------------------------------------------------------
(* The invariant.  What holds of commands that overlap: files, and the copies  *)
(* in flight, have mints of their own that know their deposits.                *)

World == l1Tip \in Nat /\ deposit \in [Address -> Nat] /\ refused = FALSE
Files == \A w \in DOMAIN file : w \in Wallets /\ GoodFile(file[w], deposit)
Session == current \in DOMAIN file \cup {NoWallet}

\* The copy of a command, which has the mint the command is about.
InFlight(x, d) ==
    /\ GoodFile(x.wf, d)
    /\ x.step # "save" =>
         /\ x.op \in {"check", "reclaim"} => HasMint(x.wf, x.arg)
         /\ x.op = "mint" => HasMint(x.wf, x.arg[1])
Commands ==
    /\ DOMAIN cmd = Slots
    /\ \A c \in Slots : cmd[c] # Idle => InFlight(cmd[c], deposit)

\* What holds of commands that run one at a time: the copy in flight is the
\* selected file or ahead of it, mint_utxo has taken the file's next index, and
\* an address handed out is of an index its file has used up.
OneAtATime == \A c, e \in Slots : cmd[c] # Idle /\ cmd[e] # Idle => c = e
Ahead(x) ==
    /\ current # NoWallet /\ Forward(x.wf, file[current])
    /\ x.op = "mint_utxo" =>
         /\ x.step = "save"
         /\ x.arg = file[current].next_mint_index
         /\ x.wf.next_mint_index = x.arg + 1
         /\ HasMint(x.wf, x.arg)
HasAddress(wf, a) ==
    /\ a.index < wf.next_mint_index
    /\ \E j \in 1..Len(wf.mints) : AddressOf(wf, wf.mints[j]) = a
Handed ==
    /\ shown \in Seq(Address)
    /\ \A n \in 1..Len(shown) :
         shown[n].seed \in DOMAIN file /\ HasAddress(file[shown[n].seed], shown[n])
    /\ \A n, k \in 1..Len(shown) : shown[n] = shown[k] => n = k
Alone ==
    /\ OneAtATime
    /\ \A c \in Slots : cmd[c] # Idle => Ahead(cmd[c])
    /\ FilesKeepIdentity
    /\ Handed

IInv == World /\ Files /\ Session /\ Commands /\ (Overlap \/ Alone)

-----------------------------------------------------------------------------
(* Steps that change a command, a file or the deposits.                        *)

\* A command starts, takes a step or ends; no other is in flight when it starts.
LEMMA CommandChanges ==
    ASSUME IInv, NEW c \in Slots, NEW x,
           cmd' = [cmd EXCEPT ![c] = x],
           UNCHANGED <<l1Tip, deposit, file, current, shown, refused>>,
           x # Idle => InFlight(x, deposit) /\ (Overlap \/ Ahead(x)),
           x # Idle /\ ~Overlap => \A e \in Slots : e # c => cmd[e] = Idle
    PROVE  IInv'
<1>1. /\ DOMAIN cmd' = Slots
      /\ \A e \in Slots : cmd'[e] = IF e = c THEN x ELSE cmd[e]
  BY DEF IInv, Commands
<1>2. World' /\ Files' /\ Session'
  BY DEF IInv, World, Files, Session
<1>3. Commands'
  BY <1>1 DEF IInv, Commands, InFlight
<1>4. ASSUME ~Overlap
      PROVE  Alone'
  <2>1. OneAtATime'
    BY <1>1, <1>4 DEF IInv, Alone, OneAtATime
  <2>2. \A e \in Slots : cmd'[e] # Idle => Ahead(cmd[e])'
    BY <1>1, <1>4 DEF IInv, Alone, Ahead
  <2>3. FilesKeepIdentity' /\ Handed'
    BY <1>4 DEF IInv, Alone, FilesKeepIdentity, Handed
  <2> QED
    BY <2>1, <2>2, <2>3 DEF Alone
<1> QED
  BY <1>2, <1>3, <1>4 DEF IInv

\* Only a command's copy of the selected file starts.
LEMMA CommandStarts1 ==
    ASSUME IInv, NEW c \in Slots, NEW x, Starts(c, x),
           InFlight(x, deposit), Overlap \/ Ahead(x)
    PROVE  IInv'
BY CommandChanges DEF Starts, CanLoad, MayStart, AllIdle, l1Vars, session, seen

\* The copy that is loaded.
LEMMA Loaded ==
    ASSUME IInv, CanLoad
    PROVE  /\ GoodFile(load_current, deposit) /\ current # NoWallet
           /\ Forward(load_current, file[current])
<1>1. current \in DOMAIN file /\ current # NoWallet
  BY DEF IInv, Session, CanLoad
<1>2. GoodFile(file[current], deposit)
  BY <1>1 DEF IInv, Files
<1> QED
  BY <1>1, <1>2, ForwardReflexive DEF load_current

\* A command that works on its copy, or reads what it needs.
LEMMA CommandWorks ==
    ASSUME IInv, NEW c \in Slots, cmd[c] # Idle, cmd[c].op # "mint_utxo", NEW wf,
           GoodFile(wf, deposit), Forward(wf, cmd[c].wf), Works(c, wf),
           UNCHANGED <<l1Tip, deposit, file, current, shown, refused>>
    PROVE  IInv'
<1> DEFINE x == Command(cmd[c].op, wf, cmd[c].arg, 0, "save")
<1>1. cmd' = [cmd EXCEPT ![c] = x]
  BY DEF Works
<1>2. x.wf = wf /\ x.op = cmd[c].op /\ x.step = "save"
  BY DEF Command
<1> HIDE DEF x
<1>3. InFlight(x, deposit)
  BY <1>2 DEF InFlight
<1>4. ASSUME ~Overlap
      PROVE  Ahead(x) /\ \A e \in Slots : e # c => cmd[e] = Idle
  <2>1. Ahead(cmd[c]) /\ \A e \in Slots : e # c => cmd[e] = Idle
    BY <1>4 DEF IInv, Alone, OneAtATime
  <2>2. GoodFile(file[current], deposit) /\ GoodFile(cmd[c].wf, deposit)
    BY <2>1 DEF IInv, Session, Files, Commands, InFlight, Ahead
  <2>3. Forward(wf, file[current])
    BY <2>1, <2>2, ForwardTransitive DEF Ahead
  <2> QED
    BY <1>2, <2>1, <2>3 DEF Ahead
<1> QED
  BY <1>1, <1>3, <1>4, CommandChanges

LEMMA CommandReads ==
    ASSUME IInv, NEW c \in Slots, cmd[c] # Idle, cmd[c].op # "mint_utxo",
           cmd[c].step # "save", NEW value, Reads(c, value),
           UNCHANGED <<l1Tip, deposit, file, current, shown, refused>>
    PROVE  IInv'
<1> DEFINE x == Command(cmd[c].op, cmd[c].wf, cmd[c].arg, value, "act")
<1>1. cmd' = [cmd EXCEPT ![c] = x]
  BY DEF Reads
<1>2. x.wf = cmd[c].wf /\ x.op = cmd[c].op /\ x.arg = cmd[c].arg /\ x.step = "act"
  BY DEF Command
<1> HIDE DEF x
<1>3. InFlight(x, deposit)
  BY <1>2 DEF IInv, Commands, InFlight
<1>4. ASSUME ~Overlap
      PROVE  Ahead(x) /\ \A e \in Slots : e # c => cmd[e] = Idle
  BY <1>2, <1>4 DEF IInv, Alone, OneAtATime, Ahead
<1> QED
  BY <1>1, <1>3, <1>4, CommandChanges

LEMMA CommandEnds ==
    ASSUME IInv, NEW c \in Slots, Ends(c),
           UNCHANGED <<l1Tip, deposit, file, current, shown, refused>>
    PROVE  IInv'
BY CommandChanges DEF Ends

-----------------------------------------------------------------------------
(* Each action keeps the invariant.                                            *)

LEMMA InitInvariant == Init => IInv
<1> SUFFICES ASSUME Init
             PROVE  IInv
  OBVIOUS
<1>1. World
  BY DEF Init, World
<1>2. DOMAIN file = {} /\ Files /\ Session
  BY DEF Init, Files, Session
<1>3. Commands /\ OneAtATime /\ \A c \in Slots : cmd[c] # Idle => Ahead(cmd[c])
  BY DEF Init, Commands, OneAtATime
<1>4. FilesKeepIdentity
  BY <1>2 DEF FilesKeepIdentity
<1>5. shown = <<>> /\ shown \in Seq(Address) /\ Len(shown) = 0
  BY EmptySeq DEF Init
<1>6. Handed
  BY <1>5 DEF Handed
<1> QED
  BY <1>1, <1>2, <1>3, <1>4, <1>6 DEF IInv, Alone

\* Whatever leaves the deposits, the files and the session alone.
LEMMA Elsewhere ==
    ASSUME IInv, l1Tip' \in Nat,
           UNCHANGED <<deposit, file, current, cmd, shown, refused>>
    PROVE  IInv'
<1>1. World' /\ Files' /\ Session' /\ Commands'
  BY DEF IInv, World, Files, Session, Commands, InFlight
<1>2. Alone => Alone'
  BY DEF Alone, OneAtATime, Ahead, FilesKeepIdentity, Handed
<1> QED
  BY <1>1, <1>2 DEF IInv

\* An address gets its only deposit, of which no file knows.
LEMMA DepositInvariant ==
    ASSUME IInv, NEW a, Deposit(a)
    PROVE  IInv'
<1>1. /\ l1Tip \in Nat /\ deposit[a] = 0
      /\ deposit' = [deposit EXCEPT ![a] = l1Tip + 1] /\ l1Tip' = l1Tip + 1
      /\ UNCHANGED <<file, current, cmd, shown, refused>>
  BY DEF IInv, World, Deposit, session, seen
<1>2. ASSUME NEW wf, GoodFile(wf, deposit)
      PROVE  GoodFile(wf, deposit')
  <2>1. ASSUME NEW j \in 1..Len(wf.mints), wf.mints[j].funded # 0
        PROVE  deposit'[AddressOf(wf, wf.mints[j])] = wf.mints[j].funded
    <3>1. /\ AddressOf(wf, wf.mints[j]) \in Address
          /\ deposit[AddressOf(wf, wf.mints[j])] = wf.mints[j].funded
      BY <1>2, <2>1, AddressType DEF GoodFile, KnowsDeposits
    <3> QED
      BY <1>1, <2>1, <3>1 DEF IInv, World
  <2> QED
    BY <1>2, <2>1 DEF GoodFile, KnowsDeposits
<1>3. World'
  <2>1. deposit \in [Address -> Nat] /\ l1Tip + 1 \in Nat /\ refused = FALSE
    BY <1>1 DEF IInv, World
  <2>2. [deposit EXCEPT ![a] = l1Tip + 1] \in [Address -> Nat]
    BY <2>1
  <2> QED
    BY <1>1, <2>1, <2>2 DEF World
<1>4. Files' /\ Session'
  BY <1>1, <1>2 DEF IInv, Files, Session
<1>5. Commands'
  BY <1>1, <1>2 DEF IInv, Commands, InFlight
<1>6. Alone => Alone'
  BY <1>1 DEF Alone, OneAtATime, Ahead, FilesKeepIdentity, Handed
<1> QED
  BY <1>3, <1>4, <1>5, <1>6 DEF IInv

\* A new wallet, made while none is selected.
LEMMA KeygenInvariant ==
    ASSUME IInv, NEW w \in Wallets, Keygen(w)
    PROVE  IInv'
<1>1. /\ w \notin DOMAIN file /\ DOMAIN file' = DOMAIN file \cup {w}
      /\ \A v \in DOMAIN file : file'[v] = file[v]
      /\ file'[w] = keygen(w) /\ current' = w
      /\ UNCHANGED <<l1Tip, deposit, cmd, shown, refused>>
  BY DEF Keygen, l1Vars, seen
<1>2. GoodFile(keygen(w), deposit) /\ keygen(w).seed = w
      /\ keygen(w).enc = (w \in Encrypted)
  <2> DEFINE wf == keygen(w)
  <2>1. /\ DOMAIN wf = Fields /\ wf = [f \in Fields |-> wf[f]]
        /\ wf.seed = w /\ wf.enc = (w \in Encrypted)
        /\ wf.next_mint_index = 0 /\ wf.mints = <<>>
    BY DEF keygen, Fields
  <2> HIDE DEF wf
  <2>2. wf.mints \in Seq(MintRec) /\ Len(wf.mints) = 0
    BY <2>1, EmptySeq
  <2>3. GoodFile(wf, deposit)
    BY <2>1, <2>2 DEF GoodFile, IsFile, Allocated, KnowsDeposits
  <2> QED
    BY <2>1, <2>3 DEF wf
<1>3. World' /\ Files' /\ Session' /\ Commands'
  BY <1>1, <1>2 DEF IInv, World, Files, Session, Commands, InFlight
<1>4. ASSUME ~Overlap
      PROVE  Alone'
  <2>1. OneAtATime' /\ \A c \in Slots : cmd'[c] = Idle
    BY <1>1, <1>4 DEF Keygen, MayStart, AllIdle, OneAtATime
  <2>2. FilesKeepIdentity'
    BY <1>1, <1>2, <1>4 DEF IInv, Alone, FilesKeepIdentity
  <2>3. Handed'
    BY <1>1, <1>4 DEF IInv, Alone, Handed
  <2> QED
    BY <2>1, <2>2, <2>3 DEF Alone
<1> QED
  BY <1>3, <1>4 DEF IInv

\* Another wallet is selected, or none, while no command is in flight or with
\* commands that may overlap; or the process dies with its commands.
LEMMA SessionChanges ==
    ASSUME IInv, current' \in DOMAIN file \cup {NoWallet},
           UNCHANGED <<l1Tip, deposit, file, shown, refused>>,
           \/ cmd' = cmd /\ MayStart
           \/ cmd' = [c \in Slots |-> Idle]
    PROVE  IInv'
<1>1. World' /\ Files' /\ Session'
  BY DEF IInv, World, Files, Session
<1>2. Commands'
  BY DEF IInv, Commands, InFlight
<1>3. ASSUME ~Overlap
      PROVE  Alone'
  <2>1. \A c \in Slots : cmd'[c] = Idle
    BY <1>3 DEF MayStart, AllIdle
  <2>2. FilesKeepIdentity' /\ Handed'
    BY <1>3 DEF IInv, Alone, FilesKeepIdentity, Handed
  <2> QED
    BY <2>1, <2>2 DEF Alone, OneAtATime
<1> QED
  BY <1>1, <1>2, <1>3 DEF IInv

LEMMA StartsInvariant ==
    ASSUME IInv, NEW c \in Slots, CommandStarts(c)
    PROVE  IInv'
<1>1. ASSUME NEW op \in {"check", "mint", "transfer", "light", "reclaim"}, NEW arg,
             NEW step, CanLoad, Starts(c, Command(op, load_current, arg, 0, step)),
             op \in {"check", "reclaim"} => HasMint(load_current, arg),
             op = "mint" => HasMint(load_current, arg[1])
      PROVE  IInv'
  <2> DEFINE x == Command(op, load_current, arg, 0, step)
  <2>1. /\ x.op = op /\ x.wf = load_current /\ x.arg = arg /\ x.step = step
        /\ Starts(c, x)
    BY <1>1 DEF Command
  <2> HIDE DEF x
  <2>2. InFlight(x, deposit) /\ Ahead(x)
    BY <1>1, <2>1, Loaded DEF InFlight, Ahead
  <2> QED
    BY <2>1, <2>2, CommandStarts1
<1>2. ASSUME NEW lock \in Locks, MintUtxo(c, lock)
      PROVE  IInv'
  <2> DEFINE x == Command("mint_utxo", mint_utxo(load_current, lock),
                          load_current.next_mint_index, 0, "save")
  <2>1. /\ x.op = "mint_utxo" /\ x.wf = mint_utxo(load_current, lock)
        /\ x.arg = load_current.next_mint_index /\ x.step = "save" /\ Starts(c, x)
    BY <1>2 DEF MintUtxo, Command
  <2> HIDE DEF x
  <2>2. CanLoad /\ load_current.next_mint_index < MaxKeys
    BY <1>2 DEF MintUtxo
  <2>3. GoodFile(load_current, deposit) /\ current # NoWallet
    BY <2>2, Loaded
  <2>4. /\ GoodFile(x.wf, deposit) /\ Forward(x.wf, load_current)
        /\ HasMint(x.wf, x.arg) /\ x.wf.next_mint_index = x.arg + 1
    BY <2>1, <2>2, <2>3, MintUtxoFile
  <2>5. InFlight(x, deposit) /\ Ahead(x)
    BY <2>1, <2>3, <2>4 DEF InFlight, Ahead, load_current
  <2> QED
    BY <2>1, <2>5, CommandStarts1
<1>3. ASSUME NEW i, CheckFunding(c, i)
      PROVE  IInv'
  BY <1>1, <1>3 DEF CheckFunding
<1>4. ASSUME NEW i, Reclaim(c, i)
      PROVE  IInv'
  BY <1>1, <1>4 DEF Reclaim
<1>5. ASSUME NEW i, NEW to, MintMessage(c, i, to)
      PROVE  IInv'
  BY <1>1, <1>5 DEF MintMessage
<1>6. ASSUME NEW to, Transfer(c, to)
      PROVE  IInv'
  BY <1>1, <1>6 DEF Transfer
<1>7. ASSUME LightBalance(c)
      PROVE  IInv'
  BY <1>1, <1>7 DEF LightBalance
<1> QED
  BY <1>2, <1>3, <1>4, <1>5, <1>6, <1>7 DEF CommandStarts

\* What a command in flight may use of its copy, which is not that of mint_utxo.
LEMMA Steps ==
    ASSUME IInv, NEW c \in Slots, NEW op, NEW step, At(c, op, step),
           op # "mint_utxo", step # "save"
    PROVE  /\ cmd[c] # Idle /\ cmd[c].op = op /\ cmd[c].op # "mint_utxo"
           /\ cmd[c].step # "save" /\ GoodFile(cmd[c].wf, deposit)
           /\ Forward(cmd[c].wf, cmd[c].wf)
           /\ op \in {"check", "reclaim"} => HasMint(cmd[c].wf, cmd[c].arg)
           /\ op = "mint" => HasMint(cmd[c].wf, cmd[c].arg[1])
<1>1. cmd[c] # Idle /\ cmd[c].op = op /\ cmd[c].step = step
  BY DEF At
<1>2. InFlight(cmd[c], deposit)
  BY <1>1 DEF IInv, Commands
<1> QED
  BY <1>1, <1>2, ForwardReflexive DEF InFlight

LEMMA FundingInvariant ==
    ASSUME IInv, NEW c \in Slots, FundingAnswer(c)
    PROVE  IInv'
<1> DEFINE wf == cmd[c].wf
           i == cmd[c].arg
           h == deposit[AddressAt(wf, i)]
<1>1. /\ cmd[c] # Idle /\ cmd[c].op # "mint_utxo" /\ GoodFile(wf, deposit)
      /\ Forward(wf, wf) /\ HasMint(wf, i)
  BY Steps DEF FundingAnswer
<1>2. UNCHANGED <<l1Tip, deposit, file, current, shown, refused>>
  BY DEF FundingAnswer, l1Vars, session, seen
<1>3. h \in Nat
  BY <1>1, MintFound DEF GoodFile, IInv, World
<1>4. CASE Works(c, wf)
  BY <1>1, <1>2, <1>4, CommandWorks
<1>5. CASE Works(c, Funded(wf, i, h))
  <2>1. GoodFile(Funded(wf, i, h), deposit) /\ Forward(Funded(wf, i, h), wf)
    BY <1>1, <1>3, FundedFile
  <2> QED
    BY <1>1, <1>2, <1>5, <2>1, CommandWorks
<1> QED
  BY <1>4, <1>5 DEF FundingAnswer

LEMMA SubmitInvariant ==
    ASSUME IInv, NEW c \in Slots,
           SubmitMint(c) \/ \E funds \in BOOLEAN : SubmitTransfer(c, funds)
    PROVE  IInv'
<1> DEFINE wf == cmd[c].wf
<1>1. UNCHANGED <<l1Tip, deposit, file, current, shown, refused>>
  BY DEF SubmitMint, SubmitTransfer, l1Vars, session, seen
<1>2. CASE SubmitMint(c)
  <2>1. /\ cmd[c] # Idle /\ cmd[c].op # "mint_utxo" /\ GoodFile(wf, deposit)
        /\ HasMint(wf, cmd[c].arg[1])
    BY <1>2, Steps DEF SubmitMint
  <2>2. \E accepted : Works(c, MintSent(wf, cmd[c].arg[1], accepted))
    BY <1>2 DEF SubmitMint
  <2>3. PICK accepted : Works(c, MintSent(wf, cmd[c].arg[1], accepted))
    BY <2>2
  <2>4. /\ GoodFile(MintSent(wf, cmd[c].arg[1], accepted), deposit)
        /\ Forward(MintSent(wf, cmd[c].arg[1], accepted), wf)
    BY <2>1, MintSentFile
  <2> QED
    BY <1>1, <2>1, <2>3, <2>4, CommandWorks
<1>3. ASSUME NEW funds \in BOOLEAN, SubmitTransfer(c, funds)
      PROVE  IInv'
  <2>1. cmd[c] # Idle /\ cmd[c].op # "mint_utxo" /\ GoodFile(wf, deposit)
    BY <1>3, Steps DEF SubmitTransfer
  <2>2. \E body, accepted : Works(c, TransferSent(wf, body, accepted))
    BY <1>3 DEF SubmitTransfer
  <2>3. PICK body, accepted : Works(c, TransferSent(wf, body, accepted))
    BY <2>2
  <2>4. /\ GoodFile(TransferSent(wf, body, accepted), deposit)
        /\ Forward(TransferSent(wf, body, accepted), wf)
    BY <2>1, TransferSentFile
  <2> QED
    BY <1>1, <2>1, <2>3, <2>4, CommandWorks
<1> QED
  BY <1>2, <1>3

LEMMA WalksInvariant ==
    ASSUME IInv, NEW c \in Slots, Walks(c)
    PROVE  IInv'
<1> DEFINE wf == cmd[c].wf
           new == finalize_and_refresh(Walk(wf), l1Tip)
<1>1. cmd[c] # Idle /\ cmd[c].op # "mint_utxo" /\ GoodFile(wf, deposit)
  BY Steps DEF Walks
<1>2. GoodFile(new, deposit) /\ Forward(new, wf)
  BY <1>1, WalkFile
<1>3. Works(c, new) /\ UNCHANGED <<l1Tip, deposit, file, current, shown, refused>>
  BY DEF Walks, l1Vars, session, seen
<1> HIDE DEF new
<1> QED
  BY <1>1, <1>2, <1>3, CommandWorks

\* The record of a mint with a deposit is right about L1, so that a reclaim the
\* wallet takes for ready is one.
LEMMA ReadyMeansSpendable ==
    ASSUME World, NEW wf, GoodFile(wf, deposit), NEW j \in 1..Len(wf.mints),
           wf.mints[j].funded # 0, ~wf.mints[j].reclaimed
    PROVE  ReclaimStatus(wf.mints[j], l1Tip) = "Ready"
           <=> Spendable(AddressOf(wf, wf.mints[j]))
<1> DEFINE m == wf.mints[j]
           a == AddressOf(wf, m)
<1>1. m \in MintRec /\ deposit[a] = m.funded /\ a.lock = m.lock
  BY AddressType DEF GoodFile, KnowsDeposits, AddressOf
<1>2. m.funded \in Nat /\ m.lock \in Nat /\ l1Tip \in Nat
  BY <1>1, WalletAssumption DEF MintRec, World
<1>3. ReclaimStatus(m, l1Tip) = "Ready" <=> l1Tip + 1 >= m.funded + m.lock
  BY DEF ReclaimStatus
<1>4. Spendable(a) <=> l1Tip + 1 - m.funded >= m.lock
  BY <1>1 DEF Spendable
<1> QED
  BY <1>2, <1>3, <1>4

LEMMA BroadcastInvariant ==
    ASSUME IInv, NEW c \in Slots, Broadcast(c)
    PROVE  IInv'
<1> DEFINE wf == cmd[c].wf
           i == cmd[c].arg
           ready == ReclaimStatus(MintAt(wf, i), l1Tip) = "Ready"
<1>1. /\ cmd[c] # Idle /\ cmd[c].op # "mint_utxo" /\ GoodFile(wf, deposit)
      /\ HasMint(wf, i)
  BY Steps DEF Broadcast
<1>2. ready => Spendable(AddressAt(wf, i))
  <2>1. /\ MintPos(wf, i) \in 1..Len(wf.mints) /\ MintAt(wf, i) = wf.mints[MintPos(wf, i)]
        /\ AddressAt(wf, i) = AddressOf(wf, wf.mints[MintPos(wf, i)])
    BY <1>1, MintFound DEF GoodFile, MintAt, AddressAt
  <2>2. ready => MintAt(wf, i).funded # 0 /\ ~MintAt(wf, i).reclaimed
    <3>1. MintAt(wf, i) \in MintRec
      BY <1>1, MintFound DEF GoodFile
    <3>2. MintAt(wf, i).reclaimed \in BOOLEAN
      BY <3>1 DEF MintRec
    <3> QED
      BY <3>2 DEF ReclaimStatus
  <2> QED
    BY <1>1, <2>1, <2>2, ReadyMeansSpendable DEF IInv
<1>3. refused' = refused
  BY <1>2 DEF Broadcast, IInv, World
<1>4. UNCHANGED <<l1Tip, deposit, file, current, shown, refused>>
  BY <1>3 DEF Broadcast, session
<1>5. CASE Works(c, Reclaimed(wf, i))
  BY <1>1, <1>4, <1>5, ReclaimedFile, CommandWorks
<1>6. CASE Ends(c)
  BY <1>4, <1>6, CommandEnds
<1> QED
  BY <1>5, <1>6 DEF Broadcast

\* A file that goes forward keeps the addresses it has.
LEMMA AddressKept ==
    ASSUME NEW d, NEW old, GoodFile(old, d), NEW new, GoodFile(new, d),
           Forward(new, old), NEW a \in Address, HasAddress(old, a)
    PROVE  HasAddress(new, a)
<1>1. PICK j \in 1..Len(old.mints) : AddressOf(old, old.mints[j]) = a
  BY DEF HasAddress
<1>2. j \in 1..Len(new.mints) /\ AddressOf(new, new.mints[j]) = a
  BY <1>1 DEF Forward, AddressOf
<1>3. a.index \in Nat
  BY WalletAssumption DEF Address
<1>4. a.index < new.next_mint_index
  BY <1>3 DEF HasAddress, Forward, GoodFile, IsFile
<1> QED
  BY <1>2, <1>4 DEF HasAddress

\* The address that mint_utxo hands out is new: its index is the first its file
\* had not used.
LEMMA SaveInvariant ==
    ASSUME IInv, NEW c \in Slots, save_current(c)
    PROVE  IInv'
<1> DEFINE wf == cmd[c].wf
           a == AddressAt(wf, cmd[c].arg)
<1>1. CASE current = NoWallet
  BY <1>1, CommandEnds DEF save_current, l1Vars, session
<1>2. CASE current # NoWallet
  <2>1. /\ cmd[c] # Idle /\ current \in DOMAIN file
        /\ file' = [file EXCEPT ![current] = wf]
        /\ cmd' = [cmd EXCEPT ![c] = Idle]
        /\ shown' = IF cmd[c].op = "mint_utxo" THEN Append(shown, a) ELSE shown
        /\ UNCHANGED <<l1Tip, deposit, current, refused>>
    BY <1>2 DEF save_current, Ends, l1Vars, session, IInv, Session
  <2>2. GoodFile(wf, deposit) /\ GoodFile(file[current], deposit)
    BY <2>1 DEF IInv, Commands, InFlight, Files
  <2>3. /\ DOMAIN file' = DOMAIN file
        /\ \A w \in DOMAIN file : file'[w] = IF w = current THEN wf ELSE file[w]
    BY <2>1
  <2>4. /\ DOMAIN cmd' = Slots
        /\ \A e \in Slots : cmd'[e] = IF e = c THEN Idle ELSE cmd[e]
    BY <2>1 DEF IInv, Commands
  <2>5. World' /\ Files' /\ Session' /\ Commands'
    BY <2>1, <2>2, <2>3, <2>4 DEF IInv, World, Files, Session, Commands, InFlight
  <2>6. ASSUME ~Overlap
        PROVE  Alone'
    <3>1. Ahead(cmd[c]) /\ FilesKeepIdentity /\ Handed /\ OneAtATime
      BY <2>1, <2>6 DEF IInv, Alone
    <3>2. \A e \in Slots : cmd'[e] = Idle
      BY <2>1, <2>4, <3>1 DEF OneAtATime
    <3>3. FilesKeepIdentity'
      BY <2>1, <2>3, <3>1 DEF FilesKeepIdentity, Ahead, Forward
    <3>4. /\ shown \in Seq(Address) /\ Len(shown) \in Nat
          /\ \A n \in 1..Len(shown) : shown[n] \in Address
      BY <3>1, ElementOfSeq, LenProperties DEF Handed
    <3>5. \A n \in 1..Len(shown) :
            /\ shown[n].seed \in DOMAIN file'
            /\ HasAddress(file'[shown[n].seed], shown[n])
      <4> SUFFICES ASSUME NEW n \in 1..Len(shown)
                   PROVE  /\ shown[n].seed \in DOMAIN file'
                          /\ HasAddress(file'[shown[n].seed], shown[n])
        OBVIOUS
      <4>1. shown[n].seed \in DOMAIN file /\ HasAddress(file[shown[n].seed], shown[n])
        BY <3>1 DEF Handed
      <4>2. CASE shown[n].seed = current
        <5>1. HasAddress(wf, shown[n])
          BY <2>2, <3>1, <3>4, <4>1, <4>2, AddressKept DEF Ahead
        <5> QED
          BY <2>3, <4>1, <4>2, <5>1
      <4> QED
        BY <2>3, <4>1, <4>2
    <3>6. CASE cmd[c].op # "mint_utxo"
      <4>1. shown' = shown
        BY <2>1, <3>6
      <4>2. Handed'
        BY <3>1, <3>5, <4>1 DEF Handed
      <4> QED
        BY <3>2, <3>3, <4>2 DEF Alone, OneAtATime
    <3>7. CASE cmd[c].op = "mint_utxo"
      <4>1. /\ cmd[c].arg = file[current].next_mint_index
            /\ wf.next_mint_index = cmd[c].arg + 1 /\ HasMint(wf, cmd[c].arg)
            /\ cmd[c].arg \in Nat
        BY <2>2, <3>1, <3>7 DEF Ahead, GoodFile, IsFile
      <4>2. /\ a \in Address /\ a.index = cmd[c].arg /\ a.seed = current
            /\ HasAddress(wf, a)
        <5>1. /\ MintPos(wf, cmd[c].arg) \in 1..Len(wf.mints)
              /\ MintAt(wf, cmd[c].arg).index = cmd[c].arg /\ a \in Address
          BY <2>2, <4>1, MintFound DEF GoodFile
        <5>2. wf.seed = current
          BY <2>1, <3>1 DEF FilesKeepIdentity, Ahead, Forward
        <5>3. /\ a = AddressOf(wf, wf.mints[MintPos(wf, cmd[c].arg)])
              /\ a.index = cmd[c].arg /\ a.seed = wf.seed
          BY <5>1 DEF AddressAt, AddressOf, MintAt
        <5>4. a.index < wf.next_mint_index
          BY <4>1, <5>3
        <5> QED
          BY <5>1, <5>2, <5>3, <5>4 DEF HasAddress
      <4> HIDE DEF a
      <4>3. \A n \in 1..Len(shown) : shown[n] # a
        <5> SUFFICES ASSUME NEW n \in 1..Len(shown), shown[n] = a
                     PROVE  FALSE
          OBVIOUS
        <5>1. a.index < file[current].next_mint_index
          BY <3>1, <4>2 DEF Handed, HasAddress
        <5> QED
          BY <4>1, <4>2, <5>1
      <4>4. /\ shown' \in Seq(Address) /\ Len(shown') = Len(shown) + 1
            /\ \A n \in 1..Len(shown) : shown'[n] = shown[n]
            /\ shown'[Len(shown) + 1] = a
        BY <2>1, <3>4, <3>7, <4>2, AppendProperties
      <4>5. HasAddress(file'[current], a) /\ current \in DOMAIN file'
        BY <2>1, <2>3, <4>2
      <4>6. \A n \in 1..Len(shown') : n \in 1..Len(shown) \/ n = Len(shown) + 1
        BY <3>4, <4>4
      <4>7. \A n \in 1..Len(shown') :
              /\ shown'[n].seed \in DOMAIN file'
              /\ HasAddress(file'[shown'[n].seed], shown'[n])
        BY <3>5, <4>2, <4>4, <4>5, <4>6
      <4>8. \A n, k \in 1..Len(shown') : shown'[n] = shown'[k] => n = k
        BY <3>1, <4>3, <4>4, <4>6 DEF Handed
      <4>9. Handed'
        BY <4>4, <4>7, <4>8 DEF Handed
      <4> QED
        BY <3>2, <3>3, <4>9 DEF Alone, OneAtATime
    <3> QED
      BY <3>6, <3>7
  <2> QED
    BY <2>5, <2>6 DEF IInv
<1> QED
  BY <1>1, <1>2

LEMMA CommandInvariant ==
    ASSUME IInv, NEW c \in Slots, CommandSteps(c)
    PROVE  IInv'
<1>1. CASE ReadsTip(c)
  <2>1. UNCHANGED <<l1Tip, deposit, file, current, shown, refused>> /\ Reads(c, l1Tip)
    BY <1>1 DEF ReadsTip, l1Vars, session, seen
  <2> QED
    BY <1>1, <2>1, Steps, CommandReads DEF ReadsTip
<1>2. CASE ReadsNonce(c)
  <2>1. /\ UNCHANGED <<l1Tip, deposit, file, current, shown, refused>>
        /\ \E n : Reads(c, n)
    BY <1>2 DEF ReadsNonce, l1Vars, session, seen
  <2> QED
    BY <1>2, <2>1, Steps, CommandReads DEF ReadsNonce
<1>3. CASE Fail(c)
  BY <1>3, CommandEnds DEF Fail, l1Vars, session, seen
<1> QED
  BY <1>1, <1>2, <1>3, FundingInvariant, SubmitInvariant, WalksInvariant,
     BroadcastInvariant, SaveInvariant DEF CommandSteps

LEMMA NextInvariant == IInv /\ [Next]_vars => IInv'
<1> SUFFICES ASSUME IInv, [Next]_vars
             PROVE  IInv'
  OBVIOUS
<1>1. CASE NewL1Block
  <2>1. l1Tip' \in Nat
    BY <1>1 DEF NewL1Block, IInv, World
  <2> QED
    BY <1>1, <2>1, Elsewhere DEF NewL1Block, session, seen
<1>2. CASE \E a \in Range(shown) : Deposit(a)
  BY <1>2, DepositInvariant
<1>3. CASE \E a \in broadcast : ConfirmReclaim(a)
  <2>1. l1Tip' \in Nat
    BY <1>3 DEF ConfirmReclaim, IInv, World
  <2> QED
    BY <1>3, <2>1, Elsewhere DEF ConfirmReclaim, session, seen
<1>4. CASE \E payments : AttestBlock(payments)
  <2>1. l1Tip' \in Nat
    BY <1>4 DEF AttestBlock, l1Vars, IInv, World
  <2> QED
    BY <1>4, <2>1, Elsewhere DEF AttestBlock, l1Vars, session, seen
<1>5. CASE \E w \in Wallets : Keygen(w)
  BY <1>5, KeygenInvariant
<1>6. CASE (\E w \in Wallets : select(w)) \/ deselect \/ Crash
  BY <1>6, SessionChanges DEF select, deselect, Crash, l1Vars, seen
<1>7. CASE \E c \in Slots : CommandStarts(c) \/ CommandSteps(c)
  BY <1>7, StartsInvariant, CommandInvariant
<1>8. CASE UNCHANGED vars
  <2>1. l1Tip' \in Nat
    BY <1>8 DEF vars, l1Vars, IInv, World
  <2> QED
    BY <1>8, <2>1, Elsewhere DEF vars, l1Vars, session, seen
<1> QED
  BY <1>1, <1>2, <1>3, <1>4, <1>5, <1>6, <1>7, <1>8 DEF Next

-----------------------------------------------------------------------------
(* The theorems about addresses and reclaims.                                  *)

\* The strengthening is an invariant.
LEMMA Invariant == Spec => []IInv
BY InitInvariant, NextInvariant, PTL DEF Spec

\* The wallet offers a reclaim exactly when the next L1 block may contain it, and
\* L1 never refuses one as immature, also for commands that overlap (reclaim_mint,
\* list_reclaimable_mints): a copy may be stale, but no copy is wrong about a
\* deposit, for a deposit is final.
THEOREM ReclaimsAreSpendable == Spec => []ReadyIsSpendable
<1>1. IInv => ReadyIsSpendable
  <2> SUFFICES ASSUME IInv
               PROVE  ReadyIsSpendable
    OBVIOUS
  <2>1. ASSUME NEW w \in DOMAIN file, NEW m \in Range(file[w].mints),
               m.funded # 0, ~m.reclaimed
        PROVE  ReclaimStatus(m, l1Tip) = "Ready" <=> Spendable(AddressOf(file[w], m))
    <3>1. GoodFile(file[w], deposit) /\ World
      BY DEF IInv, Files
    <3>2. DOMAIN file[w].mints = 1..Len(file[w].mints)
      BY <3>1, LenProperties DEF GoodFile, IsFile
    <3>3. PICK j \in 1..Len(file[w].mints) : m = file[w].mints[j]
      BY <3>2 DEF Range
    <3> QED
      BY <2>1, <3>1, <3>3, ReadyMeansSpendable
  <2> QED
    BY <2>1 DEF IInv, World, ReadyIsSpendable
<1> QED
  BY Invariant, <1>1, PTL

\* While commands run one at a time, a file keeps the seed it was made with, and
\* a wallet made with a passphrase is never written in the clear (load_with_context,
\* save_current).
THEOREM IdentityKept == Spec => [](~Overlap => FilesKeepIdentity)
<1>1. IInv => (~Overlap => FilesKeepIdentity)
  BY DEF IInv, Alone
<1> QED
  BY Invariant, <1>1, PTL

\* While commands run one at a time, no deposit address handed out is ever lost
\* from its wallet's file or handed out twice (mint_utxo, allocate_mint_keypair),
\* whichever commands fail and whenever the process dies.
THEOREM AddressesKept == Spec => [](~Overlap => ShownKept)
<1>1. IInv => (~Overlap => ShownKept)
  <2> SUFFICES ASSUME IInv, ~Overlap
               PROVE  ShownKept
    OBVIOUS
  <2>1. Handed /\ DOMAIN shown = 1..Len(shown)
    BY LenProperties DEF IInv, Alone, Handed
  <2>2. ASSUME NEW n \in DOMAIN shown
        PROVE  /\ shown[n].seed \in DOMAIN file
               /\ \E m \in Range(file[shown[n].seed].mints) :
                    AddressOf(file[shown[n].seed], m) = shown[n]
    <3> DEFINE wf == file[shown[n].seed]
    <3>1. shown[n].seed \in DOMAIN file /\ HasAddress(wf, shown[n])
      BY <2>1 DEF Handed
    <3>2. DOMAIN wf.mints = 1..Len(wf.mints)
      BY <3>1, LenProperties DEF IInv, Files, GoodFile, IsFile
    <3> QED
      BY <3>1, <3>2 DEF HasAddress, Range
  <2> QED
    BY <2>1, <2>2 DEF ShownKept, Handed
<1> QED
  BY Invariant, <1>1, PTL

-----------------------------------------------------------------------------
(* Sequences of sequences, and sets in some order.                             *)

Elements(s) == {s[i] : i \in 1..Len(s)}

FlattenUpto(f, s, n) ==
    f = [i \in 1..n |-> IF i = 1 THEN s[i] ELSE f[i - 1] \o s[i]]

\* FlattenSeq is defined by recursion along the sequence.
LEMMA FlattenExists ==
    ASSUME NEW s, NEW m \in Nat
    PROVE  \E f : FlattenUpto(f, s, m)
<1> DEFINE S == {n \in Nat : \E f : FlattenUpto(f, s, n)}
<1>1. 0 \in S
  <2> DEFINE f == [i \in 1..0 |-> s[i]]
  <2>1. \A i \in 1..0 : FALSE
    OBVIOUS
  <2>2. f = [i \in 1..0 |-> IF i = 1 THEN s[i] ELSE f[i - 1] \o s[i]]
    BY <2>1
  <2> HIDE DEF f
  <2>3. FlattenUpto(f, s, 0)
    BY <2>2 DEF FlattenUpto
  <2> QED
    BY <2>3
<1>2. ASSUME NEW n \in Nat, n \in S
      PROVE  n + 1 \in S
  <2>1. PICK f : FlattenUpto(f, s, n)
    BY <1>2
  <2> DEFINE g == [i \in 1..(n + 1) |->
                     IF i <= n THEN f[i]
                     ELSE IF i = 1 THEN s[i] ELSE f[i - 1] \o s[i]]
  <2>2. \A i \in 1..n : f[i] = IF i = 1 THEN s[i] ELSE f[i - 1] \o s[i]
    BY <2>1 DEF FlattenUpto
  <2>3. \A i \in 1..(n + 1) :
          g[i] = IF i = 1 THEN s[i] ELSE g[i - 1] \o s[i]
    <3> SUFFICES ASSUME NEW i \in 1..(n + 1)
                 PROVE  g[i] = IF i = 1 THEN s[i] ELSE g[i - 1] \o s[i]
      OBVIOUS
    <3>1. i # 1 => i - 1 \in 1..(n + 1) /\ i - 1 <= n
      OBVIOUS
    <3>2. i # 1 => g[i - 1] = f[i - 1]
      BY <3>1
    <3>3. CASE i <= n
      <4>1. i \in 1..n
        BY <3>3
      <4> QED
        BY <2>2, <3>2, <3>3, <4>1
    <3>4. CASE ~(i <= n)
      BY <3>2, <3>4
    <3> QED
      BY <3>3, <3>4
  <2>4. g = [i \in 1..(n + 1) |-> g[i]]
    OBVIOUS
  <2> HIDE DEF g
  <2>5. FlattenUpto(g, s, n + 1)
    BY <2>3, <2>4 DEF FlattenUpto
  <2> QED
    BY <2>5
<1>3. \A n \in Nat : n \in S
  <2> HIDE DEF S
  <2> QED
    BY <1>1, <1>2, SetInduction
<1> QED
  BY <1>3

\* The elements of sequences put one after the other.
LEMMA ConcatElements ==
    ASSUME NEW T, NEW a \in Seq(T), NEW b \in Seq(T)
    PROVE  a \o b \in Seq(T) /\ Elements(a \o b) = Elements(a) \cup Elements(b)
<1>1. /\ a \o b \in Seq(T) /\ Len(a \o b) = Len(a) + Len(b)
      /\ Len(a) \in Nat /\ Len(b) \in Nat
      /\ \A i \in 1..(Len(a) + Len(b)) :
           (a \o b)[i] = IF i <= Len(a) THEN a[i] ELSE b[i - Len(a)]
  BY ConcatProperties, LenProperties
<1> DEFINE c == a \o b
<1> HIDE DEF c
<1>2. ASSUME NEW x \in Elements(c)
      PROVE  x \in Elements(a) \cup Elements(b)
  <2>1. PICK i \in 1..(Len(a) + Len(b)) : x = c[i]
    BY <1>1 DEF Elements, c
  <2>2. CASE i <= Len(a)
    <3>1. i \in 1..Len(a) /\ x = a[i]
      BY <1>1, <2>1, <2>2 DEF c
    <3> QED
      BY <3>1 DEF Elements
  <2>3. CASE ~(i <= Len(a))
    <3>1. i - Len(a) \in 1..Len(b)
      BY <1>1, <2>3
    <3>2. x = b[i - Len(a)]
      BY <1>1, <2>1, <2>3 DEF c
    <3> QED
      BY <3>1, <3>2 DEF Elements
  <2> QED
    BY <2>2, <2>3
<1>3. ASSUME NEW x \in Elements(a)
      PROVE  x \in Elements(c)
  <2>1. PICK i \in 1..Len(a) : x = a[i]
    BY DEF Elements
  <2>2. i \in 1..(Len(a) + Len(b)) /\ i <= Len(a)
    BY <1>1
  <2>3. x = c[i] /\ i \in 1..Len(c)
    BY <1>1, <2>1, <2>2 DEF c
  <2> QED
    BY <2>3 DEF Elements
<1>4. ASSUME NEW x \in Elements(b)
      PROVE  x \in Elements(c)
  <2>1. PICK i \in 1..Len(b) : x = b[i]
    BY DEF Elements
  <2> DEFINE k == Len(a) + i
  <2>2. k \in 1..(Len(a) + Len(b)) /\ ~(k <= Len(a)) /\ k - Len(a) = i
    BY <1>1
  <2> HIDE DEF k
  <2>3. x = c[k] /\ k \in 1..Len(c)
    BY <1>1, <2>1, <2>2 DEF c
  <2> QED
    BY <2>3 DEF Elements
<1> QED
  BY <1>1, <1>2, <1>3, <1>4 DEF c

LEMMA FlattenElements ==
    ASSUME NEW T, NEW s \in Seq(Seq(T))
    PROVE  /\ FlattenSeq(s) \in Seq(T)
           /\ Elements(FlattenSeq(s)) = UNION {Elements(s[i]) : i \in 1..Len(s)}
<1> DEFINE n == Len(s)
<1>0. n \in Nat /\ \A i \in 1..n : s[i] \in Seq(T)
  BY LenProperties, ElementOfSeq
<1>1. CASE n = 0
  <2>1. FlattenSeq(s) = s
    BY <1>1 DEF FlattenSeq
  <2>2. s = <<>> /\ <<>> \in Seq(T) /\ 1..0 = {}
    BY <1>1, EmptySeq
  <2> QED
    BY <1>1, <2>1, <2>2 DEF Elements
<1>2. CASE n # 0
  <2> DEFINE g == CHOOSE f : FlattenUpto(f, s, n)
  <2>1. FlattenSeq(s) = g[n]
    BY <1>2 DEF FlattenSeq, FlattenUpto
  <2>2. FlattenUpto(g, s, n)
    BY <1>0, FlattenExists
  <2> HIDE DEF g
  <2>3. \A i \in 1..n : g[i] = IF i = 1 THEN s[i] ELSE g[i - 1] \o s[i]
    BY <2>2 DEF FlattenUpto
  <2> DEFINE All(k) == UNION {Elements(s[i]) : i \in 1..k}
             S == {k \in Nat : k + 1 <= n =>
                     g[k + 1] \in Seq(T) /\ Elements(g[k + 1]) = All(k + 1)}
  <2>4. 0 \in S
    <3>1. 1 \in 1..n /\ g[1] = s[1] /\ 0 + 1 = 1 /\ 1..1 = {1}
      BY <1>0, <1>2, <2>3
    <3>2. All(1) = Elements(s[1])
      BY <3>1
    <3>3. g[0 + 1] \in Seq(T) /\ Elements(g[0 + 1]) = All(0 + 1)
      BY <1>0, <3>1, <3>2
    <3> HIDE DEF All, n
    <3> QED
      BY <3>3
  <2>5. ASSUME NEW k \in Nat, k \in S
        PROVE  k + 1 \in S
    <3> SUFFICES ASSUME (k + 1) + 1 <= n
                 PROVE  /\ g[(k + 1) + 1] \in Seq(T)
                        /\ Elements(g[(k + 1) + 1]) = All((k + 1) + 1)
      OBVIOUS
    <3> DEFINE m == k + 1
    <3>1. /\ m + 1 \in 1..n /\ m + 1 # 1 /\ (m + 1) - 1 = m /\ m <= n
          /\ 1..(m + 1) = 1..m \cup {m + 1}
      BY <1>0
    <3>2. g[m] \in Seq(T) /\ Elements(g[m]) = All(m)
      BY <2>5, <3>1
    <3> HIDE DEF m
    <3>3. g[m + 1] = g[m] \o s[m + 1] /\ s[m + 1] \in Seq(T)
      BY <1>0, <2>3, <3>1
    <3>4. g[m + 1] \in Seq(T) /\ Elements(g[m + 1]) = All(m) \cup Elements(s[m + 1])
      BY <3>2, <3>3, ConcatElements
    <3>5. All(m + 1) = All(m) \cup Elements(s[m + 1])
      BY <3>1
    <3> QED
      BY <3>4, <3>5 DEF m
  <2>6. \A k \in Nat : k \in S
    <3> HIDE DEF S
    <3> QED
      BY <2>4, <2>5, SetInduction
  <2>7. n - 1 \in Nat /\ (n - 1) + 1 = n
    BY <1>0, <1>2
  <2>8. n - 1 \in S
    BY <2>6, <2>7
  <2>9. g[n] \in Seq(T) /\ Elements(g[n]) = All(n)
    BY <2>7, <2>8, <1>0
  <2> QED
    BY <2>1, <2>9
<1> QED
  BY <1>1, <1>2

\* A finite set in some order.
LEMMA SetToSeqElements ==
    ASSUME NEW S, IsFiniteSet(S)
    PROVE  SetToSeq(S) \in Seq(S) /\ Elements(SetToSeq(S)) = S
<1> DEFINE n == Cardinality(S)
           s == SetToSeq(S)
<1>1. n \in Nat /\ \E f : ExistsBijection(1..n, S)
  BY FS_CardinalityType
<1>2. \E f \in [1..n -> S] : IsInjective(f)
  <2>1. PICK f : f \in Bijection(1..n, S)
    BY <1>1 DEF ExistsBijection
  <2> QED
    BY <2>1 DEF Bijection, Injection, Surjection, IsInjective
<1>3. s \in [1..n -> S] /\ IsInjective(s)
  BY <1>2 DEF SetToSeq
<1>4. Cardinality(1..n) = n
  BY <1>1, FS_Interval
<1> HIDE DEF n, s
<1>5. s \in Injection(1..n, S)
  BY <1>3 DEF Injection
<1>6. s \in Surjection(1..n, S)
  BY <1>4, <1>5, FS_Injection DEF n
<1>7. s \in Seq(S) /\ Len(s) = n
  BY <1>1, <1>3
<1>8. Elements(s) = S
  BY <1>3, <1>6, <1>7 DEF Elements, Surjection
<1> QED
  BY <1>7, <1>8 DEF s

-----------------------------------------------------------------------------
(* The history.  What a file says of L1 and L2, told of any world, that of now *)
(* or that of the moment a copy was taken.                                     *)

Tx == [type : {"mint"}, key : Address, to : Parties]
      \cup [type : {"transfer"}, key : Body]
Block == [l1 : 0..MaxTip, txs : SUBSET Tx]
IsChain(bl) ==
    /\ bl \in Seq(Block) /\ Len(bl) <= MaxBlocks
    /\ \A h \in 1..Len(bl) : IsFiniteSet(bl[h].txs)

Now == [dep |-> deposit, spent |-> spentAt, bcast |-> broadcast,
        blk |-> blocks, acc |-> Accepted, tip |-> l1Tip]

\* Of a later world: nothing that happened is undone.
Later(v, u) ==
    /\ u.tip <= v.tip /\ u.bcast \subseteq v.bcast /\ u.acc \subseteq v.acc
    /\ \A a \in Address : u.dep[a] # 0 => v.dep[a] = u.dep[a]
    /\ \A a \in Address : u.spent[a] # 0 => v.spent[a] = u.spent[a]
    /\ Len(u.blk) <= Len(v.blk)
    /\ \A h \in 1..Len(u.blk) : v.blk[h] = u.blk[h]
IsWorld(u) ==
    /\ u.tip \in 0..MaxTip /\ IsChain(u.blk)
    /\ u.dep \in [Address -> 0..u.tip] /\ u.spent \in [Address -> 0..u.tip]
    /\ u.bcast \subseteq Address

\* The events of block h for the wallet of seed w, and those of the blocks a
\* file crossed.
Touches(w, t) ==
    IF t.type = "mint"
    THEN IF t.to = w THEN {"Mint"} ELSE {}
    ELSE (IF t.key.to = w THEN {"Received"} ELSE {})
         \cup (IF t.key.from = w THEN {"Sent"} ELSE {})
Event(k, t, h, bl) == [kind |-> k, key |-> t.key, l2 |-> h, l1 |-> bl[h].l1]
Delivered(w, bl, h) ==
    UNION {{Event(k, t, h, bl) : k \in Touches(w, t)} : t \in bl[h].txs}
Since(w, bl, from, to) == UNION {Delivered(w, bl, h) : h \in (from + 1)..to}
Crossed(wf, bl) == Since(wf.seed, bl, wf.booted, wf.head)
Events == [kind : L2Kinds, key : Address \cup Body, l2 : 0..MaxBlocks, l1 : 0..MaxTip]

IsSettled(r) == r.status \in {"InBlock", "Finalized"}
EventOf(r) == [kind |-> r.kind, key |-> r.key, l2 |-> r.l2, l1 |-> r.l1]
SameKey(r, e) == r.kind = e.kind /\ r.key = e.key

\* A history txs of which the events E, and no others, are settled, each by the
\* first record of its key.
Settles(txs, E) ==
    /\ \A e \in E : \E j \in 1..Len(txs) : IsSettled(txs[j]) /\ EventOf(txs[j]) = e
    /\ \A j \in 1..Len(txs) : txs[j].kind \in L2Kinds =>
         /\ IsSettled(txs[j]) => EventOf(txs[j]) \in E
         /\ txs[j].kind = "Received" => IsSettled(txs[j])
         /\ \A k \in 1..Len(txs) :
              IsSettled(txs[j]) /\ SameKey(txs[k], txs[j]) => j <= k

\* A record of L1 is settled at the height L1 has; what is finalized is buried.
Stands(r, u) ==
    /\ r.status = "Mempool" => r.kind = "Reclaim"
    /\ r.kind \in {"Deposit", "Reclaim"} => r.key \in Address
    /\ r.kind = "Deposit" /\ IsSettled(r) => u.dep[r.key] # 0 /\ r.l1 = u.dep[r.key]
    /\ r.kind = "Reclaim" /\ IsSettled(r) => u.spent[r.key] # 0 /\ r.l1 = u.spent[r.key]
    /\ r.status = "Finalized" => u.tip - r.l1 >= FinalityDepth

\* A deposit and a reclaim are booked once, when the mint record says so, and
\* only for indices handed out.
Keyed(txs, kind, key) ==
    {j \in 1..Len(txs) : txs[j].kind = kind /\ txs[j].key = key}
Booked(txs, kind, key, yes) ==
    IF yes THEN \E j \in 1..Len(txs) : Keyed(txs, kind, key) = {j}
    ELSE Keyed(txs, kind, key) = {}
MintSays(m, a, txs, u) ==
    /\ Booked(txs, "Deposit", a, m.funded # 0)
    /\ Booked(txs, "Reclaim", a, m.reclaimed)
    /\ m.minted => \E t \in u.acc : t.type = "mint" /\ t.key = a
    /\ m.reclaimed => a \in u.bcast
HandedOut(r, n) == r.kind \in {"Deposit", "Reclaim"} => r.key.index < n
Books(wf, u) ==
    /\ \A j \in 1..Len(wf.mints) :
         MintSays(wf.mints[j], AddressOf(wf, wf.mints[j]), wf.txs, u)
    /\ \A j \in 1..Len(wf.txs) : HandedOut(wf.txs[j], wf.next_mint_index)

Numbers(wf, u) ==
    /\ wf.enc \in BOOLEAN /\ wf.next_mint_index <= MaxKeys
    /\ wf.head \in NoHead..Len(u.blk) /\ wf.booted \in NoHead..wf.head
    /\ wf.head # NoHead => wf.booted # NoHead
    /\ wf.txs \in Seq(TxRecords)

Told(wf, u) ==
    /\ Numbers(wf, u)
    /\ Settles(wf.txs, Crossed(wf, u.blk))
    /\ \A j \in 1..Len(wf.txs) : Stands(wf.txs[j], u)
    /\ Books(wf, u)

\* No transaction is in two blocks, or in a block and in the pool, because a lock
\* mints once and nonces count up.
SameTx(t, u) == t.type = u.type /\ t.key = u.key
OnChainOnce(bl) ==
    \A h, k \in 1..Len(bl) : \A t \in bl[h].txs, u \in bl[k].txs :
        SameTx(t, u) => h = k
Numbered(t) ==
    t.type = "transfer" =>
    t.key.nonce < IF t.key.from = Ext THEN submits ELSE Nonce(t.key.from)
Once ==
    /\ OnChainOnce(blocks)
    /\ \A h \in 1..Len(blocks) : \A t \in blocks[h].txs, u \in pool : ~SameTx(t, u)
    /\ \A t \in Accepted : Numbered(t)
    /\ \A t \in pool : t.type = "transfer" => t.key.from # Ext
Accounts ==
    /\ IsWorld(Now)
    /\ submits \in 0..MaxSubmits
    /\ pool \in SUBSET Tx /\ IsFiniteSet(Accepted)
    /\ unlocked \subseteq Wallets

\* A copy that changed takes nothing back.
RecordOnward(new, old) ==
    /\ SameKey(new, old)
    /\ Rank(old.status) <= Rank(new.status)
    /\ old.status = "Finalized" => new = old
TxsOnward(new, old) ==
    /\ Len(old) <= Len(new)
    /\ \A j \in 1..Len(old) : RecordOnward(new[j], old[j])
MintOnward(new, old) ==
    /\ old.funded # 0 => new.funded # 0
    /\ old.minted => new.minted
    /\ old.reclaimed => new.reclaimed
Onward(new, old) ==
    /\ old.head <= new.head
    /\ \A j \in 1..Len(old.mints) : MintOnward(new.mints[j], old.mints[j])
    /\ TxsOnward(new.txs, old.txs)

\* What a command was started with, and read.
Inputs(x) ==
    x.step # "save" =>
    /\ x.op = "mint" => x.arg[2] \in Parties
    /\ x.op = "transfer" => x.arg \in Parties /\ (x.step = "act" => x.read \in Nat)

HInv ==
    /\ Accounts /\ Once
    /\ \A w \in DOMAIN file : Told(file[w], Now)
    /\ \A c \in Slots : cmd[c] # Idle =>
         /\ Told(cmd[c].wf, Now) /\ Inputs(cmd[c])
         /\ ~Overlap => Onward(cmd[c].wf, file[current])

-----------------------------------------------------------------------------
(* The events that a walk delivers.                                            *)

LEMMA BlockType ==
    ASSUME NEW bl, IsChain(bl), NEW h \in 1..Len(bl)
    PROVE  /\ bl[h].l1 \in 0..MaxTip /\ bl[h].txs \subseteq Tx
           /\ IsFiniteSet(bl[h].txs) /\ h \in 0..MaxBlocks
<1>1. bl[h] \in Block /\ Len(bl) \in Nat /\ Len(bl) <= MaxBlocks
  BY ElementOfSeq, LenProperties DEF IsChain
<1>2. MaxBlocks \in Nat
  BY WalletAssumption
<1> QED
  BY <1>1, <1>2 DEF Block, IsChain

LEMMA EventType ==
    ASSUME NEW bl, IsChain(bl), NEW h \in 1..Len(bl), NEW w, NEW t \in Tx,
           NEW k \in Touches(w, t)
    PROVE  /\ Event(k, t, h, bl) \in Events
           /\ t.type = IF k = "Mint" THEN "mint" ELSE "transfer"
<1>1. bl[h].l1 \in 0..MaxTip /\ h \in 0..MaxBlocks
  BY BlockType
<1>2. CASE t.type = "mint"
  <2>1. k = "Mint" /\ t.key \in Address
    BY <1>2 DEF Touches, Tx
  <2> QED
    BY <1>1, <1>2, <2>1 DEF Event, Events, L2Kinds
<1>3. CASE t.type # "mint"
  <2>1. k \in {"Received", "Sent"} /\ t.key \in Body /\ t.type = "transfer"
    BY <1>3 DEF Touches, Tx
  <2> QED
    BY <1>1, <2>1 DEF Event, Events, L2Kinds
<1> QED
  BY <1>2, <1>3

LEMMA DeliveredType ==
    ASSUME NEW bl, IsChain(bl), NEW w, NEW h \in 1..Len(bl)
    PROVE  Delivered(w, bl, h) \subseteq Events
<1> SUFFICES ASSUME NEW t \in bl[h].txs, NEW k \in Touches(w, t)
             PROVE  Event(k, t, h, bl) \in Events
  BY DEF Delivered
<1>1. t \in Tx
  BY BlockType
<1> QED
  BY <1>1, EventType

LEMMA SinceType ==
    ASSUME NEW bl, IsChain(bl), NEW w, NEW from \in Nat \cup {NoHead},
           NEW to \in NoHead..Len(bl), from # NoHead \/ to = NoHead
    PROVE  Since(w, bl, from, to) \subseteq Events
<1> SUFFICES ASSUME NEW h \in (from + 1)..to
             PROVE  Delivered(w, bl, h) \subseteq Events
  BY DEF Since
<1>1. Len(bl) \in Nat
  BY LenProperties DEF IsChain
<1>2. h \in 1..Len(bl)
  BY <1>1 DEF NoHead
<1> QED
  BY <1>2, DeliveredType

\* EventsOf lists what touches the wallet.
LEMMA EventsOfElements ==
    ASSUME NEW w, NEW t \in Tx, NEW h \in 1..Len(blocks), IsChain(blocks)
    PROVE  /\ EventsOf(w, t, h) \in Seq(Events)
           /\ Elements(EventsOf(w, t, h)) =
                {Event(k, t, h, blocks) : k \in Touches(w, t)}
<1> DEFINE ev(kind) == Event(kind, t, h, blocks)
<1>0. /\ \A k \in Touches(w, t) : ev(k) \in Events
      /\ <<>> \in Seq(Events) /\ Elements(<<>>) = {}
      /\ \A x \in Events : <<x>> \in Seq(Events) /\ Elements(<<x>>) = {x}
  <2>1. \A k \in Touches(w, t) : ev(k) \in Events
    BY EventType
  <2>2. <<>> \in Seq(Events) /\ Len(<<>>) = 0 /\ 1..0 = {}
    BY EmptySeq
  <2>3. ASSUME NEW x \in Events
        PROVE  <<x>> \in Seq(Events) /\ Elements(<<x>>) = {x}
    <3>1. /\ <<x>> \in Seq(Events) /\ Len(<<x>>) = 1 /\ <<x>>[1] = x /\ 1..1 = {1}
      OBVIOUS
    <3> QED
      BY <3>1 DEF Elements
  <2> QED
    BY <2>1, <2>2, <2>3 DEF Elements
<1>1. CASE t.type = "mint"
  <2>1. CASE t.to = w
    <3>1. EventsOf(w, t, h) = <<ev("Mint")>> /\ Touches(w, t) = {"Mint"}
      BY <1>1, <2>1 DEF EventsOf, Touches, Event
    <3> QED
      BY <1>0, <3>1
  <2>2. CASE t.to # w
    <3>1. EventsOf(w, t, h) = <<>> /\ Touches(w, t) = {}
      BY <1>1, <2>2 DEF EventsOf, Touches
    <3> QED
      BY <1>0, <3>1
  <2> QED
    BY <2>1, <2>2
<1>2. CASE t.type # "mint"
  <2> DEFINE a == IF t.key.to = w THEN <<ev("Received")>> ELSE <<>>
             b == IF t.key.from = w THEN <<ev("Sent")>> ELSE <<>>
             A == IF t.key.to = w THEN {"Received"} ELSE {}
             B == IF t.key.from = w THEN {"Sent"} ELSE {}
  <2>1. EventsOf(w, t, h) = a \o b /\ Touches(w, t) = A \cup B
    BY <1>2 DEF EventsOf, Touches, Event
  <2>2. a \in Seq(Events) /\ Elements(a) = {ev(k) : k \in A}
    BY <1>0, <2>1
  <2>3. b \in Seq(Events) /\ Elements(b) = {ev(k) : k \in B}
    BY <1>0, <2>1
  <2> HIDE DEF a, b, A, B
  <2>4. a \o b \in Seq(Events) /\ Elements(a \o b) = Elements(a) \cup Elements(b)
    BY <2>2, <2>3, ConcatElements
  <2> QED
    BY <2>1, <2>2, <2>3, <2>4
<1> QED
  BY <1>1, <1>2

\* EventsPast lists those of the blocks past a height, in some order.
LEMMA EventsPastElements ==
    ASSUME NEW w, IsChain(blocks), NEW h0 \in 0..Len(blocks)
    PROVE  /\ EventsPast(w, h0) \in Seq(Events)
           /\ Elements(EventsPast(w, h0)) = Since(w, blocks, h0, Len(blocks))
<1> DEFINE n == Len(blocks) - h0
           row(h) == [i \in DOMAIN SetToSeq(blocks[h].txs) |->
                        EventsOf(w, SetToSeq(blocks[h].txs)[i], h)]
           s == [k \in 1..n |-> FlattenSeq(row(h0 + k))]
<1>0. Len(blocks) \in Nat /\ n \in Nat /\ \A k \in 1..n : h0 + k \in 1..Len(blocks)
  BY LenProperties DEF IsChain
<1>1. EventsPast(w, h0) = FlattenSeq(s)
  BY DEF EventsPast
<1>2. ASSUME NEW h \in 1..Len(blocks)
      PROVE  /\ FlattenSeq(row(h)) \in Seq(Events)
             /\ Elements(FlattenSeq(row(h))) = Delivered(w, blocks, h)
  <2> DEFINE txs == SetToSeq(blocks[h].txs)
             r == row(h)
  <2>1. blocks[h].txs \subseteq Tx /\ IsFiniteSet(blocks[h].txs)
    BY BlockType
  <2>2. txs \in Seq(blocks[h].txs) /\ Elements(txs) = blocks[h].txs
    BY <2>1, SetToSeqElements
  <2> HIDE DEF txs
  <2>3. Len(txs) \in Nat /\ DOMAIN txs = 1..Len(txs)
        /\ \A i \in 1..Len(txs) : txs[i] \in blocks[h].txs
    BY <2>2, LenProperties, ElementOfSeq
  <2>4. r = [i \in 1..Len(txs) |-> EventsOf(w, txs[i], h)]
    BY <2>3 DEF txs
  <2> HIDE DEF r
  <2>5. \A i \in 1..Len(txs) :
          /\ EventsOf(w, txs[i], h) \in Seq(Events)
          /\ Elements(EventsOf(w, txs[i], h)) =
               {Event(k, txs[i], h, blocks) : k \in Touches(w, txs[i])}
    <3> SUFFICES ASSUME NEW i \in 1..Len(txs)
                 PROVE  /\ EventsOf(w, txs[i], h) \in Seq(Events)
                        /\ Elements(EventsOf(w, txs[i], h)) =
                             {Event(k, txs[i], h, blocks) : k \in Touches(w, txs[i])}
      OBVIOUS
    <3>1. txs[i] \in Tx
      BY <2>1, <2>3
    <3> QED
      BY <3>1, EventsOfElements
  <2>6. r \in Seq(Seq(Events)) /\ Len(r) = Len(txs)
    BY <2>3, <2>4, <2>5
  <2>7. /\ FlattenSeq(r) \in Seq(Events)
        /\ Elements(FlattenSeq(r)) = UNION {Elements(r[i]) : i \in 1..Len(r)}
    BY <2>6, FlattenElements
  <2>8. UNION {Elements(r[i]) : i \in 1..Len(r)} = Delivered(w, blocks, h)
    <3> DEFINE D(t) == {Event(k, t, h, blocks) : k \in Touches(w, t)}
    <3>1. \A i \in 1..Len(txs) : Elements(r[i]) = D(txs[i])
      BY <2>4, <2>5
    <3>2. Delivered(w, blocks, h) = UNION {D(t) : t \in blocks[h].txs}
      BY DEF Delivered
    <3>3. blocks[h].txs = {txs[i] : i \in 1..Len(txs)}
      BY <2>2 DEF Elements
    <3> HIDE DEF D
    <3> QED
      BY <2>6, <3>1, <3>2, <3>3
  <2> QED
    BY <2>7, <2>8 DEF r
<1>3. s \in Seq(Seq(Events)) /\ Len(s) = n
  <2> HIDE DEF row, n
  <2> QED
    BY <1>0, <1>2
<1>4. \A k \in 1..n : Elements(s[k]) = Delivered(w, blocks, h0 + k)
  <2> HIDE DEF row, n
  <2> QED
    BY <1>0, <1>2
<1> HIDE DEF s
<1>5. /\ FlattenSeq(s) \in Seq(Events)
      /\ Elements(FlattenSeq(s)) = UNION {Elements(s[i]) : i \in 1..Len(s)}
  BY <1>3, FlattenElements
<1>6. UNION {Elements(s[i]) : i \in 1..Len(s)} = Since(w, blocks, h0, Len(blocks))
  <2>1. \A h \in (h0 + 1)..Len(blocks) : h - h0 \in 1..n /\ h0 + (h - h0) = h
    BY <1>0
  <2>2. \A k \in 1..n : h0 + k \in (h0 + 1)..Len(blocks)
    BY <1>0
  <2> HIDE DEF n
  <2>3. {Elements(s[i]) : i \in 1..Len(s)}
        = {Delivered(w, blocks, h) : h \in (h0 + 1)..Len(blocks)}
    <3>1. \A i \in 1..Len(s) :
            h0 + i \in (h0 + 1)..Len(blocks) /\ Elements(s[i]) = Delivered(w, blocks, h0 + i)
      BY <1>3, <1>4, <2>2
    <3>2. ASSUME NEW h \in (h0 + 1)..Len(blocks)
          PROVE  \E i \in 1..Len(s) : Delivered(w, blocks, h) = Elements(s[i])
      <4>1. h - h0 \in 1..Len(s) /\ Elements(s[h - h0]) = Delivered(w, blocks, h0 + (h - h0))
        BY <1>3, <1>4, <2>1
      <4> QED
        BY <2>1, <4>1
    <3> QED
      BY <3>1, <3>2
  <2> QED
    BY <2>3 DEF Since
<1> QED
  BY <1>1, <1>5, <1>6

\* A transaction is delivered once.
LEMMA DeliveredOnce ==
    ASSUME NEW bl, IsChain(bl), OnChainOnce(bl), NEW w, NEW from \in Nat,
           NEW to \in NoHead..Len(bl),
           NEW e \in Since(w, bl, from, to), NEW f \in Since(w, bl, from, to),
           SameKey(e, f)
    PROVE  e = f
<1>0. Len(bl) \in Nat
  BY LenProperties DEF IsChain
<1>1. PICK h \in (from + 1)..to : e \in Delivered(w, bl, h)
  BY DEF Since
<1>2. PICK g \in (from + 1)..to : f \in Delivered(w, bl, g)
  BY DEF Since
<1>3. h \in 1..Len(bl) /\ g \in 1..Len(bl)
  BY <1>0
<1>4. PICK t \in bl[h].txs : \E k \in Touches(w, t) : e = Event(k, t, h, bl)
  BY <1>1 DEF Delivered
<1>5. PICK k \in Touches(w, t) : e = Event(k, t, h, bl)
  BY <1>4
<1>6. PICK u \in bl[g].txs : \E l \in Touches(w, u) : f = Event(l, u, g, bl)
  BY <1>2 DEF Delivered
<1>7. PICK l \in Touches(w, u) : f = Event(l, u, g, bl)
  BY <1>6
<1>8. k = l /\ t.key = u.key
  BY <1>5, <1>7 DEF Event, SameKey
<1>9. t \in Tx /\ u \in Tx
  BY <1>3, BlockType
<1>10. t.type = u.type
  BY <1>3, <1>8, <1>9, EventType
<1>11. h = g
  BY <1>3, <1>8, <1>10 DEF OnChainOnce, SameTx
<1> QED
  BY <1>5, <1>7, <1>8, <1>11 DEF Event

-----------------------------------------------------------------------------
(* Histories.                                                                  *)

Statuses == {"Soft", "Mempool", "InBlock", "Finalized", "Failed"}

LEMMA RankType ==
    ASSUME NEW s \in Statuses
    PROVE  /\ Rank(s) \in 0..2
           /\ s # "Finalized" => Rank(s) <= 1
           /\ s = "InBlock" => Rank(s) = 1
           /\ s = "Finalized" => Rank(s) = 2
           /\ s \notin {"InBlock", "Finalized"} => Rank(s) = 0
BY DEF Rank, Statuses

LEMMA OnwardRecords ==
    ASSUME NEW a \in TxRecords, NEW b \in TxRecords, NEW c \in TxRecords,
           RecordOnward(b, a), RecordOnward(c, b)
    PROVE  RecordOnward(c, a)
<1>1. a.status \in Statuses /\ b.status \in Statuses /\ c.status \in Statuses
  BY DEF TxRecords, Statuses
<1>2. Rank(a.status) \in 0..2 /\ Rank(b.status) \in 0..2 /\ Rank(c.status) \in 0..2
  BY <1>1, RankType
<1>3. Rank(a.status) <= Rank(c.status)
  BY <1>2 DEF RecordOnward
<1> QED
  BY <1>3 DEF RecordOnward, SameKey

LEMMA OnwardRecord ==
    ASSUME NEW a \in TxRecords
    PROVE  RecordOnward(a, a)
<1>1. Rank(a.status) \in 0..2
  BY RankType DEF TxRecords, Statuses
<1> QED
  BY <1>1 DEF RecordOnward, SameKey

LEMMA KeyedAppend ==
    ASSUME NEW txs \in Seq(TxRecords), NEW r \in TxRecords, NEW kind, NEW key
    PROVE  Keyed(Append(txs, r), kind, key) =
             Keyed(txs, kind, key)
             \cup (IF r.kind = kind /\ r.key = key THEN {Len(txs) + 1} ELSE {})
<1> DEFINE n == Len(txs)
           new == Append(txs, r)
<1>1. /\ n \in Nat /\ Len(new) = n + 1 /\ new[n + 1] = r
      /\ \A j \in 1..n : new[j] = txs[j]
  BY AppendProperties, LenProperties
<1>2. 1..(n + 1) = 1..n \cup {n + 1}
  BY <1>1
<1> HIDE DEF new, n
<1> QED
  BY <1>1, <1>2 DEF Keyed, new, n

LEMMA KeyedSame ==
    ASSUME NEW old, NEW new, Len(new) = Len(old),
           \A j \in 1..Len(old) : SameKey(new[j], old[j]), NEW kind, NEW key
    PROVE  Keyed(new, kind, key) = Keyed(old, kind, key)
BY DEF Keyed, SameKey

\* A record that settles no event is added.
LEMMA AppendSettles ==
    ASSUME NEW E, NEW txs \in Seq(TxRecords), Settles(txs, E), NEW r \in TxRecords,
           r.kind \in L2Kinds => ~IsSettled(r) /\ r.kind # "Received"
    PROVE  Settles(Append(txs, r), E)
<1> DEFINE n == Len(txs)
           new == Append(txs, r)
<1>1. /\ n \in Nat /\ Len(new) = n + 1 /\ new[n + 1] = r
      /\ \A j \in 1..n : new[j] = txs[j]
  BY AppendProperties, LenProperties
<1>2. \A j \in 1..(n + 1) : j \in 1..n \/ j = n + 1
  BY <1>1
<1> HIDE DEF new
<1>3. ASSUME NEW e \in E
      PROVE  \E j \in 1..Len(new) : IsSettled(new[j]) /\ EventOf(new[j]) = e
  <2>1. PICK j \in 1..n : IsSettled(txs[j]) /\ EventOf(txs[j]) = e
    BY DEF Settles
  <2>2. j \in 1..Len(new) /\ new[j] = txs[j]
    BY <1>1
  <2> QED
    BY <2>1, <2>2
<1>4. ASSUME NEW j \in 1..Len(new), new[j].kind \in L2Kinds
      PROVE  /\ IsSettled(new[j]) => EventOf(new[j]) \in E
             /\ new[j].kind = "Received" => IsSettled(new[j])
             /\ \A k \in 1..Len(new) :
                  IsSettled(new[j]) /\ SameKey(new[k], new[j]) => j <= k
  <2>1. CASE j \in 1..n
    <3>1. /\ IsSettled(txs[j]) => EventOf(txs[j]) \in E
          /\ txs[j].kind = "Received" => IsSettled(txs[j])
          /\ \A k \in 1..n : IsSettled(txs[j]) /\ SameKey(txs[k], txs[j]) => j <= k
      BY <1>1, <1>4, <2>1 DEF Settles
    <3>2. j <= n + 1
      BY <1>1, <2>1
    <3> QED
      BY <1>1, <1>2, <2>1, <3>1, <3>2
  <2>2. CASE j = n + 1
    BY <1>1, <1>4, <2>2
  <2> QED
    BY <1>1, <1>2, <2>1, <2>2
<1>5. Settles(new, E)
  BY <1>3, <1>4 DEF Settles
<1> QED
  BY <1>5 DEF new

\* The same events are settled by records that changed in nothing else.
LEMMA SameSettles ==
    ASSUME NEW E, E \subseteq Events, NEW old, NEW new, Settles(old, E), Len(new) = Len(old),
           \A j \in 1..Len(old) :
             /\ SameKey(new[j], old[j])
             /\ old[j].kind \in L2Kinds =>
                  /\ IsSettled(new[j]) <=> IsSettled(old[j])
                  /\ EventOf(new[j]) = EventOf(old[j])
    PROVE  Settles(new, E)
<1>1. ASSUME NEW e \in E
      PROVE  \E j \in 1..Len(new) : IsSettled(new[j]) /\ EventOf(new[j]) = e
  <2>1. PICK j \in 1..Len(old) : IsSettled(old[j]) /\ EventOf(old[j]) = e
    BY DEF Settles
  <2>2. old[j].kind \in L2Kinds
    BY <2>1 DEF EventOf, Events
  <2> QED
    BY <2>1, <2>2
<1>2. ASSUME NEW j \in 1..Len(new), new[j].kind \in L2Kinds
      PROVE  /\ IsSettled(new[j]) => EventOf(new[j]) \in E
             /\ new[j].kind = "Received" => IsSettled(new[j])
             /\ \A k \in 1..Len(new) :
                  IsSettled(new[j]) /\ SameKey(new[k], new[j]) => j <= k
  <2>1. old[j].kind \in L2Kinds /\ old[j].kind = new[j].kind /\ old[j].key = new[j].key
    BY <1>2 DEF SameKey
  <2>2. IsSettled(new[j]) <=> IsSettled(old[j])
    BY <2>1
  <2>3. EventOf(new[j]) = EventOf(old[j])
    BY <2>1
  <2>4. \A k \in 1..Len(new) : SameKey(new[k], new[j]) => SameKey(old[k], old[j])
    BY <2>1 DEF SameKey
  <2>5. /\ IsSettled(old[j]) => EventOf(old[j]) \in E
        /\ old[j].kind = "Received" => IsSettled(old[j])
        /\ \A k \in 1..Len(old) : IsSettled(old[j]) /\ SameKey(old[k], old[j]) => j <= k
    BY <2>1 DEF Settles
  <2> QED
    BY <2>1, <2>2, <2>3, <2>4, <2>5
<1> QED
  BY <1>1, <1>2 DEF Settles

\* What the projection of events does to a history.
Further(new, old) ==
    /\ TxsOnward(new, old)
    /\ \A j \in 1..Len(old) : old[j].kind \notin L2Kinds => new[j] = old[j]
    /\ \A j \in (Len(old) + 1)..Len(new) : new[j].kind \in L2Kinds
AllStand(txs, u) == \A j \in 1..Len(txs) : Stands(txs[j], u)

LEMMA FurtherTransitive ==
    ASSUME NEW a \in Seq(TxRecords), NEW b \in Seq(TxRecords), NEW c \in Seq(TxRecords),
           Further(b, a), Further(c, b)
    PROVE  Further(c, a)
<1>0. Len(a) \in Nat /\ Len(b) \in Nat /\ Len(c) \in Nat /\ Len(a) <= Len(b) /\ Len(b) <= Len(c)
  BY LenProperties DEF Further, TxsOnward
<1>1. ASSUME NEW j \in 1..Len(a)
      PROVE  RecordOnward(c[j], a[j]) /\ (a[j].kind \notin L2Kinds => c[j] = a[j])
  <2>1. j \in 1..Len(b) /\ j \in 1..Len(c)
    BY <1>0
  <2>2. a[j] \in TxRecords /\ b[j] \in TxRecords /\ c[j] \in TxRecords
    BY <2>1, ElementOfSeq
  <2>3. RecordOnward(b[j], a[j]) /\ RecordOnward(c[j], b[j])
    BY <2>1 DEF Further, TxsOnward
  <2>4. RecordOnward(c[j], a[j])
    BY <2>2, <2>3, OnwardRecords
  <2>5. a[j].kind \notin L2Kinds => c[j] = a[j]
    BY <2>1 DEF Further
  <2> QED
    BY <2>4, <2>5
<1>2. ASSUME NEW j \in (Len(a) + 1)..Len(c)
      PROVE  c[j].kind \in L2Kinds
  <2>1. CASE j \in 1..Len(b)
    <3>1. j \in (Len(a) + 1)..Len(b)
      BY <1>0, <2>1
    <3>2. b[j].kind \in L2Kinds /\ RecordOnward(c[j], b[j])
      BY <2>1, <3>1 DEF Further, TxsOnward
    <3> QED
      BY <3>2 DEF RecordOnward, SameKey
  <2>2. CASE j \notin 1..Len(b)
    <3>1. j \in (Len(b) + 1)..Len(c)
      BY <1>0, <2>2
    <3> QED
      BY <3>1 DEF Further
  <2> QED
    BY <2>1, <2>2
<1>3. Len(a) <= Len(c)
  BY <1>0
<1> QED
  BY <1>1, <1>2, <1>3 DEF Further, TxsOnward

LEMMA FurtherReflexive ==
    ASSUME NEW a \in Seq(TxRecords)
    PROVE  Further(a, a)
<1>1. Len(a) \in Nat /\ \A j \in 1..Len(a) : a[j] \in TxRecords
  BY LenProperties, ElementOfSeq
<1>2. \A j \in 1..Len(a) : RecordOnward(a[j], a[j])
  BY <1>1, OnwardRecord
<1>3. \A j \in (Len(a) + 1)..Len(a) : FALSE
  BY <1>1
<1> QED
  BY <1>1, <1>2, <1>3 DEF Further, TxsOnward

\* The first of the records that match.
LEMMA FirstExists ==
    ASSUME NEW n \in Nat, NEW T, T \subseteq 1..n, T # {}
    PROVE  \E j \in T : \A k \in T : j <= k
<1>1. T \subseteq Nat
  OBVIOUS
<1>2. PICK x \in T : \A y \in T : <<y, x>> \notin NatLess
  BY <1>1, NatLessWF, WFMin
<1>3. \A y \in T : x <= y
  <2> SUFFICES ASSUME NEW y \in T, ~(x <= y)
               PROVE  FALSE
    OBVIOUS
  <2>1. x \in Nat /\ y \in Nat /\ <<y, x>> \in Nat \X Nat
    BY <1>1
  <2>2. y < x
    BY <2>1
  <2>3. <<y, x>> \in NatLess
    BY <2>1, <2>2 DEF NatLess
  <2> QED
    BY <1>2, <2>3
<1> QED
  BY <1>3

\* One event: its first record is settled, or one is added.
LEMMA EventProjected ==
    ASSUME NEW txs \in Seq(TxRecords), NEW E, E \subseteq Events, NEW ev \in Events,
           Settles(txs, E), \A e \in E : SameKey(e, ev) => e = ev,
           NEW u, AllStand(txs, u)
    PROVE  LET new == project_event(txs, ev)
           IN  /\ new \in Seq(TxRecords) /\ Settles(new, E \cup {ev})
               /\ AllStand(new, u) /\ Further(new, txs)
<1> DEFINE n == Len(txs)
           new == project_event(txs, ev)
           match == Match(txs, ev)
<1>0. /\ n \in Nat /\ DOMAIN txs = 1..n /\ \A j \in 1..n : txs[j] \in TxRecords
      /\ match = {j \in 1..n : SameKey(txs[j], ev)}
      /\ match \subseteq 1..n
  BY LenProperties, ElementOfSeq DEF Match, SameKey
<1>e. /\ ev.kind \in L2Kinds /\ ev.kind \notin {"Deposit", "Reclaim"}
      /\ ev.key \in Address \cup Body /\ ev.l2 \in 0..MaxBlocks /\ ev.l1 \in 0..MaxTip
      /\ ev = [kind |-> ev.kind, key |-> ev.key, l2 |-> ev.l2, l1 |-> ev.l1]
  BY DEF Events, L2Kinds
<1>1. CASE match = {}
  <2> DEFINE r == TxRecord(ev.kind, ev.key, "InBlock", ev.l2, ev.l1)
  <2>1. new = Append(txs, r)
    BY <1>1 DEF project_event
  <2>2. /\ r \in TxRecords /\ r.kind = ev.kind /\ r.key = ev.key
        /\ r.status = "InBlock" /\ EventOf(r) = ev
    BY <1>e DEF TxRecord, TxRecords, EventOf, L2Kinds
  <2> HIDE DEF r
  <2>3. /\ new \in Seq(TxRecords) /\ Len(new) = n + 1 /\ new[n + 1] = r
        /\ \A j \in 1..n : new[j] = txs[j]
    BY <1>0, <2>1, <2>2, AppendProperties
  <2>4. \A j \in 1..(n + 1) : j \in 1..n \/ j = n + 1
    BY <1>0
  <2>5. IsSettled(r) /\ Stands(r, u)
    BY <1>e, <2>2 DEF IsSettled, Stands
  <2> HIDE DEF new
  <2>6. ASSUME NEW e \in E \cup {ev}
        PROVE  \E j \in 1..Len(new) : IsSettled(new[j]) /\ EventOf(new[j]) = e
    <3>1. CASE e \in E
      <4>1. PICK j \in 1..n : IsSettled(txs[j]) /\ EventOf(txs[j]) = e
        BY <3>1 DEF Settles
      <4>2. j \in 1..Len(new) /\ new[j] = txs[j]
        BY <1>0, <2>3
      <4> QED
        BY <4>1, <4>2
    <3>2. CASE e = ev
      <4>1. n + 1 \in 1..Len(new)
        BY <1>0, <2>3
      <4> QED
        BY <2>2, <2>3, <2>5, <3>2, <4>1
    <3> QED
      BY <3>1, <3>2
  <2>7. ASSUME NEW j \in 1..Len(new), new[j].kind \in L2Kinds
        PROVE  /\ IsSettled(new[j]) => EventOf(new[j]) \in E \cup {ev}
               /\ new[j].kind = "Received" => IsSettled(new[j])
               /\ \A k \in 1..Len(new) :
                    IsSettled(new[j]) /\ SameKey(new[k], new[j]) => j <= k
    <3>1. CASE j \in 1..n
      <4>1. /\ IsSettled(txs[j]) => EventOf(txs[j]) \in E
            /\ txs[j].kind = "Received" => IsSettled(txs[j])
            /\ \A k \in 1..n : IsSettled(txs[j]) /\ SameKey(txs[k], txs[j]) => j <= k
        BY <2>3, <2>7, <3>1 DEF Settles
      <4>2. j <= n + 1
        BY <1>0, <3>1
      <4> QED
        BY <2>3, <2>4, <3>1, <4>1, <4>2
    <3>2. CASE j = n + 1
      <4>1. \A k \in 1..n : ~SameKey(txs[k], ev)
        BY <1>0, <1>1
      <4>2. ASSUME NEW k \in 1..Len(new), SameKey(new[k], new[j])
            PROVE  j <= k
        <5>1. SameKey(new[k], ev)
          BY <2>2, <2>3, <3>2, <4>2 DEF SameKey
        <5>2. k \notin 1..n
          BY <2>3, <4>1, <5>1
        <5> QED
          BY <2>3, <2>4, <3>2, <5>2
      <4> QED
        BY <2>2, <2>3, <2>5, <3>2, <4>2
    <3> QED
      BY <2>3, <2>4, <3>1, <3>2
  <2>8. Settles(new, E \cup {ev})
    BY <2>6, <2>7 DEF Settles
  <2>9. AllStand(new, u)
    BY <2>3, <2>4, <2>5 DEF AllStand
  <2>10. Further(new, txs)
    <3>1. \A j \in 1..n : RecordOnward(new[j], txs[j])
      BY <1>0, <2>3, OnwardRecord
    <3>2. \A j \in (n + 1)..Len(new) : new[j].kind \in L2Kinds
      BY <1>0, <1>e, <2>2, <2>3
    <3>3. n <= Len(new)
      BY <1>0, <2>3
    <3> QED
      BY <2>3, <3>1, <3>2, <3>3 DEF Further, TxsOnward
  <2> QED
    BY <2>3, <2>8, <2>9, <2>10 DEF new
<1>2. CASE match # {}
  <2> DEFINE first == CHOOSE j \in match : \A k \in match : j <= k
  <2>1. first \in match /\ \A k \in match : first <= k
    BY <1>0, <1>2, FirstExists
  <2> HIDE DEF first
  <2>2. first \in 1..n /\ SameKey(txs[first], ev) /\ txs[first] \in TxRecords
        /\ txs[first].kind \in L2Kinds
    BY <1>0, <1>e, <2>1 DEF SameKey
  <2>3. IsSettled(txs[first]) => EventOf(txs[first]) = ev /\ ev \in E
    <3>1. IsSettled(txs[first]) => EventOf(txs[first]) \in E
      BY <2>2 DEF Settles
    <3>2. SameKey(EventOf(txs[first]), ev)
      BY <2>2 DEF SameKey, EventOf
    <3> QED
      BY <3>1, <3>2
  <2>4. CASE ev.kind = "Received"
    <3>1. new = txs
      BY <1>2, <2>4 DEF project_event
    <3>2. IsSettled(txs[first])
      BY <2>2, <2>4 DEF Settles, SameKey
    <3>3. E \cup {ev} = E
      BY <2>3, <3>2
    <3> QED
      BY <3>1, <3>3, FurtherReflexive
  <2>5. CASE ev.kind # "Received"
    <3> DEFINE x == Landed(txs[first], ev)
    <3>1. new = [txs EXCEPT ![first] = x]
      BY <1>2, <2>5 DEF project_event, first
    <3>2. /\ x \in TxRecords /\ SameKey(x, ev) /\ x.kind = txs[first].kind
          /\ IsSettled(x) /\ EventOf(x) = ev /\ Stands(x, u)
          /\ RecordOnward(x, txs[first])
      <4>1. CASE txs[first].status = "Finalized"
        <5>1. x = txs[first] /\ IsSettled(x)
          BY <4>1 DEF Landed, IsSettled
        <5> QED
          BY <2>2, <2>3, <5>1, OnwardRecord DEF AllStand
      <4>2. CASE txs[first].status # "Finalized"
        <5>1. x = [txs[first] EXCEPT !.status = "InBlock", !.l2 = ev.l2, !.l1 = ev.l1]
          BY <4>2 DEF Landed
        <5>2. /\ x \in TxRecords /\ x.kind = txs[first].kind /\ x.key = txs[first].key
              /\ x.status = "InBlock" /\ x.l2 = ev.l2 /\ x.l1 = ev.l1
          BY <1>e, <2>2, <5>1 DEF TxRecords
        <5> HIDE DEF x
        <5>3. SameKey(x, ev) /\ EventOf(x) = ev
          BY <1>e, <2>2, <5>2 DEF SameKey, EventOf
        <5>4. IsSettled(x) /\ Stands(x, u)
          BY <1>e, <5>2, <5>3 DEF IsSettled, Stands, SameKey
        <5>5. RecordOnward(x, txs[first])
          <6>1. txs[first].status \in Statuses
            BY <2>2 DEF TxRecords, Statuses
          <6>2. Rank(txs[first].status) <= 1 /\ Rank(x.status) = 1
            BY <4>2, <5>2, <6>1, RankType DEF Statuses
          <6> QED
            BY <4>2, <5>2, <6>2 DEF RecordOnward, SameKey
        <5> QED
          BY <5>2, <5>3, <5>4, <5>5
      <4> QED
        BY <4>1, <4>2
    <3> HIDE DEF x
    <3>3. /\ new \in Seq(TxRecords) /\ Len(new) = n
          /\ \A j \in 1..n : new[j] = IF j = first THEN x ELSE txs[j]
      BY <1>0, <2>2, <3>1, <3>2, ExceptSeq
    <3> HIDE DEF new
    <3>4. \A j \in 1..n : SameKey(new[j], txs[j])
      BY <2>2, <3>2, <3>3 DEF SameKey
    <3>5. ASSUME NEW e \in E \cup {ev}
          PROVE  \E j \in 1..Len(new) : IsSettled(new[j]) /\ EventOf(new[j]) = e
      <4>1. CASE e = ev
        BY <2>2, <3>2, <3>3, <4>1
      <4>2. CASE e # ev
        <5>1. PICK j \in 1..n : IsSettled(txs[j]) /\ EventOf(txs[j]) = e
          BY <4>2 DEF Settles
        <5>2. j # first
          BY <2>3, <4>2, <5>1
        <5> QED
          BY <3>3, <5>1, <5>2
      <4> QED
        BY <4>1, <4>2
    <3>6. ASSUME NEW j \in 1..Len(new), new[j].kind \in L2Kinds
          PROVE  /\ IsSettled(new[j]) => EventOf(new[j]) \in E \cup {ev}
                 /\ new[j].kind = "Received" => IsSettled(new[j])
                 /\ \A k \in 1..Len(new) :
                      IsSettled(new[j]) /\ SameKey(new[k], new[j]) => j <= k
      <4>1. CASE j = first
        <5>1. \A k \in 1..n : SameKey(new[k], new[j]) => k \in match
          BY <1>0, <2>2, <3>2, <3>3, <3>4, <4>1 DEF SameKey
        <5> QED
          BY <2>1, <3>2, <3>3, <4>1, <5>1
      <4>2. CASE j # first
        <5>1. new[j] = txs[j] /\ j \in 1..n
          BY <3>3, <4>2
        <5>2. /\ IsSettled(txs[j]) => EventOf(txs[j]) \in E
              /\ txs[j].kind = "Received" => IsSettled(txs[j])
              /\ \A k \in 1..n : IsSettled(txs[j]) /\ SameKey(txs[k], txs[j]) => j <= k
          BY <3>6, <5>1 DEF Settles
        <5>3. \A k \in 1..n : SameKey(new[k], new[j]) => SameKey(txs[k], txs[j])
          BY <3>4, <5>1 DEF SameKey
        <5> QED
          BY <3>3, <5>1, <5>2, <5>3
      <4> QED
        BY <4>1, <4>2
    <3>7. Settles(new, E \cup {ev})
      BY <3>5, <3>6 DEF Settles
    <3>8. AllStand(new, u)
      BY <3>2, <3>3 DEF AllStand
    <3>9. Further(new, txs)
      <4>1. \A j \in 1..n : RecordOnward(new[j], txs[j])
        BY <1>0, <3>2, <3>3, OnwardRecord
      <4>2. \A j \in 1..n : txs[j].kind \notin L2Kinds => new[j] = txs[j]
        BY <2>2, <3>3
      <4>3. (n + 1)..Len(new) = {} /\ n <= Len(new)
        BY <1>0, <3>3
      <4> QED
        BY <4>1, <4>2, <4>3 DEF Further, TxsOnward
    <3> QED
      BY <3>3, <3>7, <3>8, <3>9 DEF new
  <2> QED
    BY <2>4, <2>5
<1> QED
  BY <1>1, <1>2

\* Whatever the event, what it makes of a history is one.
LEMMA ProjectType ==
    ASSUME NEW txs \in Seq(TxRecords), NEW ev \in Events
    PROVE  project_event(txs, ev) \in Seq(TxRecords)
<1> DEFINE match == Match(txs, ev)
           first == CHOOSE j \in match : \A k \in match : j <= k
<1>0. /\ Len(txs) \in Nat /\ match \subseteq 1..Len(txs)
      /\ \A j \in 1..Len(txs) : txs[j] \in TxRecords
  BY LenProperties, ElementOfSeq DEF Match
<1>e. /\ ev.kind \in L2Kinds /\ ev.key \in Address \cup Body
      /\ ev.l2 \in 0..MaxBlocks /\ ev.l1 \in 0..MaxTip
  BY DEF Events
<1>1. CASE match = {}
  <2> DEFINE r == TxRecord(ev.kind, ev.key, "InBlock", ev.l2, ev.l1)
  <2>1. r \in TxRecords
    BY <1>e DEF TxRecord, TxRecords, L2Kinds
  <2>2. project_event(txs, ev) = Append(txs, r)
    BY <1>1 DEF project_event
  <2> HIDE DEF r
  <2> QED
    BY <2>1, <2>2, AppendProperties
<1>2. CASE match # {}
  <2>1. first \in match
    BY <1>0, <1>2, FirstExists
  <2>2. \/ project_event(txs, ev) = txs
        \/ project_event(txs, ev) = [txs EXCEPT ![first] = Landed(txs[first], ev)]
    BY <1>2 DEF project_event
  <2> HIDE DEF first, match
  <2>3. txs[first] \in TxRecords /\ first \in 1..Len(txs)
    BY <1>0, <2>1
  <2>4. Landed(txs[first], ev) \in TxRecords
    BY <1>e, <2>3 DEF Landed, TxRecords
  <2>5. [txs EXCEPT ![first] = Landed(txs[first], ev)] \in Seq(TxRecords)
    BY <2>3, <2>4, ExceptSeq
  <2> QED
    BY <2>2, <2>5
<1> QED
  BY <1>1, <1>2

\* r is what the events s make of txs, one after the other.
Projects(r, txs, s) ==
    /\ r[0] = txs
    /\ \A k \in 1..Len(s) : r[k] = project_event(r[k - 1], s[k])

\* FoldLeft ends where the events do.
LEMMA FoldProjects ==
    ASSUME NEW txs \in Seq(TxRecords), NEW s \in Seq(Events)
    PROVE  \E r : Projects(r, txs, s) /\ FoldLeft(project_event, txs, s) = r[Len(s)]
<1> DEFINE n == Len(s)
           S == 1..n
           X == Seq(TxRecords)
           c == MaxIn(n)
           F == [p \in S \X X |-> project_event(p[2], s[p[1]])]
           Eq(g) == g = [v \in SUBSET S |->
                           IF v = {} THEN txs
                           ELSE project_event(g[v \ {Max(v)}], s[Max(v)])]
<1>1. n \in Nat /\ DOMAIN s = S /\ IsFiniteSet(S) /\ Chooses(c, S)
  <2>1. n \in Nat /\ DOMAIN s = S
    BY LenProperties
  <2> HIDE DEF n
  <2> QED
    BY <2>1, FS_Interval, MaxChosen
<1>2. F \in [S \X X -> X]
  <2>1. \A i \in S : s[i] \in Events
    BY <1>1
  <2> HIDE DEF S, X
  <2>2. \A t \in X, i \in S : project_event(t, s[i]) \in X
    BY <2>1, ProjectType DEF X
  <2> QED
    BY <2>2
<1>3. PICK g : IsFold(g, S, X, txs, F, c)
  <2> HIDE DEF F, c, S
  <2> QED
    BY <1>1, <1>2, FoldExists
<1>4. g \in [SUBSET S -> X]
  BY <1>3 DEF IsFold
<1>5. Eq(g)
  <2>1. ASSUME NEW v \in SUBSET S, v # {}
        PROVE  g[v] = project_event(g[v \ {Max(v)}], s[Max(v)])
    <3>1. c[v] = Max(v) /\ Max(v) \in S
      BY <1>1, <2>1 DEF Chooses, MaxIn
    <3>2. g[v \ {Max(v)}] \in X
      BY <1>4
    <3>3. g[v] = F[<<Max(v), g[v \ {Max(v)}]>>]
      BY <1>3, <2>1, <3>1 DEF IsFold
    <3> HIDE DEF X
    <3> QED
      BY <3>1, <3>2, <3>3
  <2>2. g[{}] = txs
    BY <1>3 DEF IsFold
  <2> HIDE DEF S
  <2> QED
    BY <1>4, <2>1, <2>2
<1> DEFINE h == CHOOSE h : Eq(h)
<1>6. Eq(h)
  <2> HIDE DEF Eq
  <2> QED
    BY <1>5
<1>7. FoldLeft(project_event, txs, s) = h[S]
  BY <1>1 DEF FoldLeft, MapThenFoldSet
<1> DEFINE r == [k \in 0..n |-> h[1..k]]
<1>8. r[0] = txs
  <2>1. 1..0 = {} /\ 0 \in 0..n /\ {} \in SUBSET S
    BY <1>1
  <2> HIDE DEF h
  <2> QED
    BY <1>6, <2>1
<1>9. ASSUME NEW k \in 1..n
      PROVE  r[k] = project_event(r[k - 1], s[k])
  <2>1. /\ k \in Nat \ {0} /\ k \in 0..n /\ k - 1 \in 0..n
        /\ 1..k \in SUBSET S
    BY <1>1
  <2>2. Max(1..k) = k /\ (1..k) \ {k} = 1..(k - 1) /\ 1..k # {}
    BY <2>1, MaxOfPrefix
  <2> HIDE DEF h
  <2>3. h[1..k] = project_event(h[(1..k) \ {Max(1..k)}], s[Max(1..k)])
    BY <1>6, <2>1, <2>2
  <2> QED
    BY <2>1, <2>2, <2>3
<1>10. r[n] = h[S]
  BY <1>1
<1> QED
  <2>1. Projects(r, txs, s) /\ FoldLeft(project_event, txs, s) = r[Len(s)]
    <3> HIDE DEF r, h
    <3> QED
      BY <1>7, <1>8, <1>9, <1>10 DEF Projects
  <2> QED
    BY <2>1

\* A history that has had the first events of a walk.
FirstOf(E, s, k) == E \cup {s[i] : i \in 1..k}
HasHad(t, E, u, txs) ==
    t \in Seq(TxRecords) /\ Settles(t, E) /\ AllStand(t, u) /\ Further(t, txs)

\* All the events of a walk, of which no two have a key in common.
LEMMA AllProjected ==
    ASSUME NEW txs \in Seq(TxRecords), NEW E, E \subseteq Events, NEW s \in Seq(Events),
           Settles(txs, E), NEW u, AllStand(txs, u),
           \A e, f \in E \cup Elements(s) : SameKey(e, f) => e = f
    PROVE  LET new == FoldLeft(project_event, txs, s)
           IN  /\ new \in Seq(TxRecords) /\ Settles(new, E \cup Elements(s))
               /\ AllStand(new, u) /\ Further(new, txs)
<1> DEFINE n == Len(s)
<1>0. n \in Nat /\ \A i \in 1..n : s[i] \in Events /\ s[i] \in Elements(s)
  BY LenProperties, ElementOfSeq DEF Elements
<1>1. PICK r : Projects(r, txs, s) /\ FoldLeft(project_event, txs, s) = r[n]
  BY FoldProjects
<1> DEFINE S == {k \in Nat : k <= n => HasHad(r[k], FirstOf(E, s, k), u, txs)}
<1>2. 0 \in S
  <2>1. FirstOf(E, s, 0) = E
    BY DEF FirstOf
  <2>2. r[0] = txs
    BY <1>1 DEF Projects
  <2> QED
    BY <2>1, <2>2, FurtherReflexive DEF HasHad
<1>3. ASSUME NEW k \in Nat, k \in S
      PROVE  k + 1 \in S
  <2> SUFFICES ASSUME k + 1 <= n
               PROVE  HasHad(r[k + 1], FirstOf(E, s, k + 1), u, txs)
    OBVIOUS
  <2> DEFINE d == FirstOf(E, s, k)
             ev == s[k + 1]
  <2>1. k <= n /\ k + 1 \in 1..n /\ (k + 1) - 1 = k
    BY <1>0
  <2>2. HasHad(r[k], d, u, txs) /\ r[k + 1] = project_event(r[k], ev)
    BY <1>1, <1>3, <2>1 DEF Projects
  <2>3. /\ d \subseteq Events /\ d \subseteq E \cup Elements(s)
        /\ FirstOf(E, s, k + 1) = d \cup {ev}
    <3>1. \A i \in 1..k : i \in 1..n
      BY <1>0, <2>1
    <3>2. 1..(k + 1) = 1..k \cup {k + 1}
      OBVIOUS
    <3> QED
      BY <1>0, <3>1, <3>2 DEF FirstOf
  <2>4. ev \in Events /\ \A e \in d : SameKey(e, ev) => e = ev
    BY <1>0, <2>1, <2>3
  <2> HIDE DEF d, ev, n
  <2>5. HasHad(r[k + 1], d \cup {ev}, u, r[k])
    <3> DEFINE t == r[k]
    <3>1. t \in Seq(TxRecords) /\ Settles(t, d) /\ AllStand(t, u) /\ d \subseteq Events
      BY <2>2, <2>3 DEF HasHad
    <3> HIDE DEF t
    <3>2. /\ project_event(t, ev) \in Seq(TxRecords)
          /\ Settles(project_event(t, ev), d \cup {ev})
          /\ AllStand(project_event(t, ev), u) /\ Further(project_event(t, ev), t)
      BY <2>4, <3>1, EventProjected
    <3> QED
      BY <2>2, <3>2 DEF HasHad, t
  <2>6. Further(r[k + 1], txs)
    BY <2>2, <2>5, FurtherTransitive DEF HasHad
  <2> QED
    BY <2>3, <2>5, <2>6 DEF HasHad
<1>4. \A k \in Nat : k \in S
  <2> HIDE DEF S
  <2> QED
    BY <1>2, <1>3, SetInduction
<1>5. HasHad(r[n], FirstOf(E, s, n), u, txs)
  BY <1>0, <1>4
<1>6. FirstOf(E, s, n) = E \cup Elements(s)
  BY DEF FirstOf, Elements
<1> QED
  BY <1>1, <1>5, <1>6 DEF HasHad

-----------------------------------------------------------------------------
(* What is told of a file stays true of a later world.                         *)

LEMMA SameBlocks ==
    ASSUME NEW u, NEW v, Later(v, u), NEW w, NEW h \in 1..Len(u.blk)
    PROVE  Delivered(w, v.blk, h) = Delivered(w, u.blk, h)
BY DEF Later, Delivered, Event

LEMMA StandsLater ==
    ASSUME NEW u, IsWorld(u), NEW v, IsWorld(v), Later(v, u),
           NEW r \in TxRecords, Stands(r, u)
    PROVE  Stands(r, v)
<1>1. /\ u.tip \in Int /\ v.tip \in Int /\ u.tip <= v.tip
      /\ r.l1 \in Int /\ FinalityDepth \in Int
  BY WalletAssumption DEF IsWorld, Later, TxRecords
<1>2. r.status = "Finalized" => v.tip - r.l1 >= FinalityDepth
  BY <1>1 DEF Stands
<1>3. r.kind = "Deposit" /\ IsSettled(r) => v.dep[r.key] # 0 /\ r.l1 = v.dep[r.key]
  BY DEF Stands, Later
<1>4. r.kind = "Reclaim" /\ IsSettled(r) => v.spent[r.key] # 0 /\ r.l1 = v.spent[r.key]
  BY DEF Stands, Later
<1> QED
  BY <1>2, <1>3, <1>4 DEF Stands

LEMMA ToldLater ==
    ASSUME NEW wf, NEW u, IsWorld(u), NEW v, IsWorld(v), Later(v, u), Told(wf, u)
    PROVE  Told(wf, v)
<1>0. /\ Len(u.blk) \in Nat /\ Len(v.blk) \in Nat /\ Len(u.blk) <= Len(v.blk)
      /\ wf.txs \in Seq(TxRecords) /\ \A j \in 1..Len(wf.txs) : wf.txs[j] \in TxRecords
  BY LenProperties, ElementOfSeq DEF IsWorld, IsChain, Later, Told, Numbers
<1>1. Numbers(wf, v)
  BY <1>0 DEF Told, Numbers, NoHead
<1>2. Crossed(wf, v.blk) = Crossed(wf, u.blk)
  <2>1. \A h \in (wf.booted + 1)..wf.head : h \in 1..Len(u.blk)
    BY <1>0 DEF Told, Numbers, NoHead
  <2>2. \A h \in (wf.booted + 1)..wf.head :
          Delivered(wf.seed, v.blk, h) = Delivered(wf.seed, u.blk, h)
    BY <2>1, SameBlocks
  <2> QED
    BY <2>2 DEF Crossed, Since
<1>3. \A j \in 1..Len(wf.txs) : Stands(wf.txs[j], v)
  BY <1>0, StandsLater DEF Told
<1>4. Books(wf, v)
  BY DEF Told, Books, MintSays, Later
<1> QED
  BY <1>1, <1>2, <1>3, <1>4 DEF Told

-----------------------------------------------------------------------------
(* What the operations tell.                                                   *)

LEMMA SetMints ==
    ASSUME NEW wf, IsFile(wf), NEW ms
    PROVE  LET n == [wf EXCEPT !.mints = ms]
           IN  /\ n.seed = wf.seed /\ n.enc = wf.enc
               /\ n.next_mint_index = wf.next_mint_index /\ n.mints = ms
               /\ n.head = wf.head /\ n.booted = wf.booted /\ n.txs = wf.txs
               /\ DOMAIN n = Fields
BY DEF IsFile, Fields

LEMMA SetTxs ==
    ASSUME NEW wf, DOMAIN wf = Fields, NEW t
    PROVE  LET n == [wf EXCEPT !.txs = t]
           IN  /\ n.seed = wf.seed /\ n.enc = wf.enc
               /\ n.next_mint_index = wf.next_mint_index /\ n.mints = wf.mints
               /\ n.head = wf.head /\ n.booted = wf.booted /\ n.txs = t
               /\ DOMAIN n = Fields
BY DEF Fields

LEMMA OnwardReflexive ==
    ASSUME NEW wf, NEW u, Told(wf, u)
    PROVE  Onward(wf, wf)
<1>1. /\ wf.txs \in Seq(TxRecords) /\ Len(wf.txs) \in Nat
      /\ \A j \in 1..Len(wf.txs) : wf.txs[j] \in TxRecords
  BY LenProperties, ElementOfSeq DEF Told, Numbers
<1>2. wf.head <= wf.head
  BY DEF Told, Numbers, NoHead
<1>3. TxsOnward(wf.txs, wf.txs)
  BY <1>1, OnwardRecord DEF TxsOnward
<1> QED
  BY <1>2, <1>3 DEF Onward, MintOnward

\* An unsettled record, or one of L1, is added.
LEMMA AppendOnward ==
    ASSUME NEW txs \in Seq(TxRecords), NEW r \in TxRecords
    PROVE  TxsOnward(Append(txs, r), txs)
<1>1. /\ Len(txs) \in Nat /\ Len(Append(txs, r)) = Len(txs) + 1
      /\ \A j \in 1..Len(txs) : Append(txs, r)[j] = txs[j] /\ txs[j] \in TxRecords
  BY AppendProperties, LenProperties, ElementOfSeq
<1> QED
  BY <1>1, OnwardRecord DEF TxsOnward

\* A mint that has its records keeps them.
LEMMA SaysSame ==
    ASSUME NEW m, NEW a, NEW u, NEW txs \in Seq(TxRecords), MintSays(m, a, txs, u),
           NEW r \in TxRecords, r.kind \in {"Deposit", "Reclaim"} => r.key # a
    PROVE  MintSays(m, a, Append(txs, r), u)
<1>1. /\ Keyed(Append(txs, r), "Deposit", a) = Keyed(txs, "Deposit", a)
      /\ Keyed(Append(txs, r), "Reclaim", a) = Keyed(txs, "Reclaim", a)
  <2>1. ASSUME NEW kind \in {"Deposit", "Reclaim"}
        PROVE  Keyed(Append(txs, r), kind, a) = Keyed(txs, kind, a)
    <3>1. ~(r.kind = kind /\ r.key = a)
      OBVIOUS
    <3>2. Keyed(Append(txs, r), kind, a) =
            Keyed(txs, kind, a)
            \cup (IF r.kind = kind /\ r.key = a THEN {Len(txs) + 1} ELSE {})
      BY KeyedAppend
    <3> QED
      BY <3>1, <3>2
  <2> QED
    BY <2>1
<1>2. Len(txs) \in Nat /\ Len(Append(txs, r)) = Len(txs) + 1
  BY AppendProperties, LenProperties
<1>3. \A j \in 1..Len(txs) : j \in 1..Len(Append(txs, r))
  BY <1>2
<1> QED
  BY <1>1, <1>3 DEF MintSays, Booked

\* A file whose mint records changed and which has, at most, one record more.
LEMMA ChangeTold ==
    ASSUME NEW d, NEW wf, GoodFile(wf, d), NEW u, IsWorld(u), Told(wf, u), NEW new,
           new.seed = wf.seed, new.enc = wf.enc,
           new.next_mint_index = wf.next_mint_index,
           new.head = wf.head, new.booted = wf.booted,
           NEW r \in TxRecords, new.txs = wf.txs \/ new.txs = Append(wf.txs, r),
           r.kind \in L2Kinds => ~IsSettled(r) /\ r.kind # "Received",
           Stands(r, u), HandedOut(r, wf.next_mint_index),
           Len(new.mints) = Len(wf.mints),
           \A j \in 1..Len(wf.mints) :
             /\ new.mints[j].index = wf.mints[j].index
             /\ new.mints[j].lock = wf.mints[j].lock
             /\ MintOnward(new.mints[j], wf.mints[j])
             /\ MintSays(new.mints[j], AddressOf(wf, wf.mints[j]), new.txs, u)
    PROVE  Told(new, u) /\ Onward(new, wf)
<1>0. /\ wf.txs \in Seq(TxRecords) /\ Len(wf.txs) \in Nat
      /\ Settles(wf.txs, Crossed(wf, u.blk)) /\ AllStand(wf.txs, u)
  BY LenProperties DEF Told, Numbers, AllStand
<1> DEFINE more == Append(wf.txs, r)
<1>1. /\ more \in Seq(TxRecords) /\ Len(more) = Len(wf.txs) + 1
      /\ \A j \in 1..Len(wf.txs) : more[j] = wf.txs[j]
      /\ more[Len(wf.txs) + 1] = r
  BY <1>0, AppendProperties
<1>2. Settles(more, Crossed(wf, u.blk))
  BY <1>0, AppendSettles
<1>3. TxsOnward(more, wf.txs)
  BY <1>0, AppendOnward
<1> HIDE DEF more
<1>4. \A j \in 1..Len(more) : j \in 1..Len(wf.txs) \/ j = Len(wf.txs) + 1
  BY <1>0, <1>1
<1>5. /\ AllStand(more, u)
      /\ \A j \in 1..Len(more) : HandedOut(more[j], wf.next_mint_index)
  BY <1>0, <1>1, <1>4 DEF AllStand, Told, Books
<1>6. new.txs = wf.txs \/ new.txs = more
  BY DEF more
<1>7. Numbers(new, u)
  BY <1>0, <1>1, <1>6 DEF Told, Numbers
<1>8. Crossed(new, u.blk) = Crossed(wf, u.blk)
  BY DEF Crossed
<1>9. Settles(new.txs, Crossed(new, u.blk)) /\ AllStand(new.txs, u)
  BY <1>0, <1>2, <1>5, <1>6, <1>8
<1>10. Books(new, u)
  <2>1. \A j \in 1..Len(new.mints) :
          AddressOf(new, new.mints[j]) = AddressOf(wf, wf.mints[j])
    BY DEF AddressOf
  <2>2. \A j \in 1..Len(new.txs) : HandedOut(new.txs[j], new.next_mint_index)
    BY <1>5, <1>6 DEF Told, Books
  <2> QED
    BY <2>1, <2>2 DEF Books
<1>11. Onward(wf, wf)
  BY OnwardReflexive
<1>12. Onward(new, wf)
  BY <1>3, <1>6, <1>11 DEF Onward
<1> QED
  BY <1>7, <1>9, <1>10, <1>12 DEF Told, AllStand

\* A submission that is recorded and changes no mint.
LEMMA RecordTold ==
    ASSUME NEW d, NEW wf, GoodFile(wf, d), NEW u, IsWorld(u), Told(wf, u),
           NEW r \in TxRecords, r.kind \in {"Mint", "Sent"},
           r.status \in {"Soft", "Failed"}
    PROVE  Told(append_tx(wf, r), u) /\ Onward(append_tx(wf, r), wf)
<1> DEFINE new == append_tx(wf, r)
<1>1. new = [wf EXCEPT !.txs = Append(wf.txs, r)]
  BY DEF append_tx
<1>2. /\ new.seed = wf.seed /\ new.enc = wf.enc
      /\ new.next_mint_index = wf.next_mint_index /\ new.mints = wf.mints
      /\ new.head = wf.head /\ new.booted = wf.booted
      /\ new.txs = Append(wf.txs, r)
  <2>1. DOMAIN wf = Fields
    BY DEF GoodFile, IsFile
  <2> HIDE DEF new
  <2> QED
    BY <1>1, <2>1, SetTxs
<1> HIDE DEF new
<1>3. /\ r.kind \in L2Kinds => ~IsSettled(r) /\ r.kind # "Received"
      /\ Stands(r, u) /\ HandedOut(r, wf.next_mint_index)
  BY DEF IsSettled, Stands, HandedOut
<1>4. ASSUME NEW j \in 1..Len(wf.mints)
      PROVE  /\ MintOnward(wf.mints[j], wf.mints[j])
             /\ MintSays(wf.mints[j], AddressOf(wf, wf.mints[j]), new.txs, u)
  <2>1. /\ MintSays(wf.mints[j], AddressOf(wf, wf.mints[j]), wf.txs, u)
        /\ wf.txs \in Seq(TxRecords)
    BY DEF Told, Books, Numbers
  <2> QED
    BY <1>2, <2>1, SaysSame DEF MintOnward
<1>5. Told(new, u) /\ Onward(new, wf)
  BY <1>2, <1>3, <1>4, ChangeTold
<1> QED
  BY <1>5 DEF new

\* Other records of the file are of other addresses.
LEMMA OtherAddress ==
    ASSUME NEW d, NEW wf, GoodFile(wf, d), NEW i, HasMint(wf, i),
           NEW j \in 1..Len(wf.mints), j # MintPos(wf, i)
    PROVE  AddressOf(wf, wf.mints[j]) # AddressAt(wf, i)
<1>1. /\ MintPos(wf, i) \in 1..Len(wf.mints)
      /\ wf.mints[MintPos(wf, i)].index = i
      /\ AddressAt(wf, i).index = i
  BY MintFound DEF GoodFile, MintAt, AddressAt, AddressOf
<1>2. wf.mints[j].index # i
  BY <1>1 DEF GoodFile, Allocated
<1> QED
  BY <1>1, <1>2 DEF AddressOf

\* One mint changes, with a record of it or none.
LEMMA MintTold ==
    ASSUME NEW d, NEW wf, GoodFile(wf, d), NEW u, IsWorld(u), Told(wf, u),
           NEW i, HasMint(wf, i),
           NEW m, m.index = i, m.lock = MintAt(wf, i).lock, MintOnward(m, MintAt(wf, i)),
           NEW r \in TxRecords,
           r.kind \in L2Kinds => ~IsSettled(r) /\ r.kind # "Received", Stands(r, u),
           r.kind \in {"Deposit", "Reclaim"} => r.key = AddressAt(wf, i),
           NEW new,
           \/ new = [wf EXCEPT !.mints = [wf.mints EXCEPT ![MintPos(wf, i)] = m]]
           \/ new = append_tx([wf EXCEPT !.mints = [wf.mints EXCEPT ![MintPos(wf, i)] = m]], r),
           MintSays(m, AddressAt(wf, i), new.txs, u)
    PROVE  Told(new, u) /\ Onward(new, wf)
<1> DEFINE p == MintPos(wf, i)
           ms == [wf.mints EXCEPT ![p] = m]
           known == [wf EXCEPT !.mints = ms]
<1>0. /\ IsFile(wf) /\ wf.mints \in Seq(MintRec) /\ wf.txs \in Seq(TxRecords)
      /\ DOMAIN wf.mints = 1..Len(wf.mints)
  BY LenProperties DEF GoodFile, IsFile, Told, Numbers
<1>1. /\ p \in 1..Len(wf.mints) /\ MintAt(wf, i) = wf.mints[p]
      /\ wf.mints[p].index = i /\ AddressAt(wf, i) = AddressOf(wf, wf.mints[p])
      /\ AddressAt(wf, i).index = i /\ i < wf.next_mint_index
  <2>1. p \in 1..Len(wf.mints) /\ MintAt(wf, i) = wf.mints[p] /\ wf.mints[p].index = i
    BY MintFound DEF GoodFile, MintAt
  <2> QED
    BY <2>1 DEF GoodFile, Allocated, AddressAt, AddressOf
<1>2. /\ Len(ms) = Len(wf.mints)
      /\ \A j \in 1..Len(wf.mints) : ms[j] = IF j = p THEN m ELSE wf.mints[j]
  BY <1>0, <1>1
<1> HIDE DEF ms
<1>3. /\ known.seed = wf.seed /\ known.enc = wf.enc
      /\ known.next_mint_index = wf.next_mint_index /\ known.mints = ms
      /\ known.head = wf.head /\ known.booted = wf.booted /\ known.txs = wf.txs
      /\ DOMAIN known = Fields
  BY <1>0, SetMints
<1>4. append_tx(known, r) = [known EXCEPT !.txs = Append(known.txs, r)]
  BY DEF append_tx
<1> HIDE DEF known
<1>5. new = known \/ new = append_tx(known, r)
  BY DEF known, ms
<1>6. /\ new.seed = wf.seed /\ new.enc = wf.enc
      /\ new.next_mint_index = wf.next_mint_index /\ new.mints = ms
      /\ new.head = wf.head /\ new.booted = wf.booted
      /\ new.txs = wf.txs \/ new.txs = Append(wf.txs, r)
  <2>1. CASE new = known
    BY <1>3, <2>1
  <2>2. CASE new = [known EXCEPT !.txs = Append(known.txs, r)]
    <3>1. DOMAIN known = Fields
      BY <1>3
    <3>2. /\ new.seed = known.seed /\ new.enc = known.enc
          /\ new.next_mint_index = known.next_mint_index /\ new.mints = known.mints
          /\ new.head = known.head /\ new.booted = known.booted
          /\ new.txs = Append(known.txs, r)
      BY <2>2, <3>1, SetTxs
    <3> QED
      BY <1>3, <3>2
  <2> QED
    BY <1>4, <1>5, <2>1, <2>2
<1>7. HandedOut(r, wf.next_mint_index)
  BY <1>1 DEF HandedOut
<1>8. ASSUME NEW j \in 1..Len(wf.mints)
      PROVE  /\ new.mints[j].index = wf.mints[j].index
             /\ new.mints[j].lock = wf.mints[j].lock
             /\ MintOnward(new.mints[j], wf.mints[j])
             /\ MintSays(new.mints[j], AddressOf(wf, wf.mints[j]), new.txs, u)
  <2>1. CASE j = p
    BY <1>1, <1>2, <1>6, <2>1
  <2>2. CASE j # p
    <3>1. new.mints[j] = wf.mints[j]
      BY <1>2, <1>6, <2>2
    <3>2. MintSays(wf.mints[j], AddressOf(wf, wf.mints[j]), wf.txs, u)
      BY DEF Told, Books
    <3>3. AddressOf(wf, wf.mints[j]) # AddressAt(wf, i)
      BY <2>2, OtherAddress
    <3>4. MintSays(wf.mints[j], AddressOf(wf, wf.mints[j]), Append(wf.txs, r), u)
      BY <1>0, <3>2, <3>3, SaysSame
    <3> QED
      BY <1>6, <3>1, <3>2, <3>4 DEF MintOnward
  <2> QED
    BY <2>1, <2>2
<1>9. Len(new.mints) = Len(wf.mints)
  BY <1>2, <1>6
<1> QED
  BY <1>6, <1>7, <1>8, <1>9, ChangeTold

\* The mint of an index and its records.
LEMMA MintSaid ==
    ASSUME NEW d, NEW wf, GoodFile(wf, d), NEW u, Told(wf, u), NEW i, HasMint(wf, i)
    PROVE  /\ MintSays(MintAt(wf, i), AddressAt(wf, i), wf.txs, u)
           /\ MintAt(wf, i) \in MintRec /\ MintAt(wf, i).index = i
           /\ AddressAt(wf, i) \in Address
<1>1. /\ MintPos(wf, i) \in 1..Len(wf.mints) /\ MintAt(wf, i) \in MintRec
      /\ MintAt(wf, i).index = i /\ AddressAt(wf, i) \in Address
  BY MintFound DEF GoodFile
<1>2. /\ MintAt(wf, i) = wf.mints[MintPos(wf, i)]
      /\ AddressAt(wf, i) = AddressOf(wf, wf.mints[MintPos(wf, i)])
  BY DEF MintAt, AddressAt
<1> QED
  BY <1>1, <1>2 DEF Told, Books

\* A new booking of an address that had none.
LEMMA BookedNow ==
    ASSUME NEW txs \in Seq(TxRecords), NEW r \in TxRecords, NEW a,
           Booked(txs, r.kind, a, FALSE), r.key = a
    PROVE  /\ Booked(Append(txs, r), r.kind, a, TRUE)
           /\ \A kind : kind # r.kind =>
                \A yes : Booked(txs, kind, a, yes) => Booked(Append(txs, r), kind, a, yes)
<1>1. Len(txs) \in Nat /\ Len(Append(txs, r)) = Len(txs) + 1
  BY AppendProperties, LenProperties
<1>2. Keyed(Append(txs, r), r.kind, a) = Keyed(txs, r.kind, a) \cup {Len(txs) + 1}
  BY KeyedAppend
<1>3. Keyed(txs, r.kind, a) = {}
  BY DEF Booked
<1>4. Booked(Append(txs, r), r.kind, a, TRUE)
  BY <1>1, <1>2, <1>3 DEF Booked
<1>5. ASSUME NEW kind, kind # r.kind
      PROVE  Keyed(Append(txs, r), kind, a) = Keyed(txs, kind, a)
  <2>1. Keyed(Append(txs, r), kind, a) =
          Keyed(txs, kind, a)
          \cup (IF r.kind = kind /\ r.key = a THEN {Len(txs) + 1} ELSE {})
    BY KeyedAppend
  <2> QED
    BY <1>5, <2>1
<1>6. \A j \in 1..Len(txs) : j \in 1..Len(Append(txs, r))
  BY <1>1
<1> QED
  BY <1>4, <1>5, <1>6 DEF Booked

\* check_mint_funding books the deposit it finds once.
LEMMA FundedTold ==
    ASSUME NEW d, NEW wf, GoodFile(wf, d), NEW u, IsWorld(u), Told(wf, u),
           NEW i, HasMint(wf, i),
           NEW h, h # 0, h \in 0..MaxTip, h = u.dep[AddressAt(wf, i)]
    PROVE  Told(Funded(wf, i, h), u) /\ Onward(Funded(wf, i, h), wf)
<1> DEFINE a == AddressAt(wf, i)
           m == [MintAt(wf, i) EXCEPT !.funded = h]
           known == [wf EXCEPT !.mints = [wf.mints EXCEPT ![MintPos(wf, i)] = m]]
           r == TxRecord("Deposit", a, "InBlock", 0, h)
           new == Funded(wf, i, h)
<1>1. /\ MintSays(MintAt(wf, i), a, wf.txs, u) /\ MintAt(wf, i) \in MintRec
      /\ MintAt(wf, i).index = i /\ a \in Address
  BY MintSaid
<1>2. /\ m.index = i /\ m.lock = MintAt(wf, i).lock /\ MintOnward(m, MintAt(wf, i))
      /\ m.funded = h /\ m.minted = MintAt(wf, i).minted
      /\ m.reclaimed = MintAt(wf, i).reclaimed
  BY <1>1 DEF MintRec, MintOnward
<1>3. known = [wf EXCEPT !.mints[MintPos(wf, i)].funded = h]
  BY DEF MintAt
<1>4. /\ r \in TxRecords /\ r.kind = "Deposit" /\ r.key = a /\ Stands(r, u)
      /\ r.kind \notin L2Kinds
  <2>1. 0 \in 0..MaxBlocks
    BY WalletAssumption
  <2> QED
    BY <1>1, <2>1 DEF TxRecord, TxRecords, Stands, IsSettled, L2Kinds
<1>5. wf.txs \in Seq(TxRecords) /\ DOMAIN wf.txs = 1..Len(wf.txs) /\ DOMAIN wf = Fields
  BY LenProperties DEF Told, Numbers, GoodFile, IsFile
<1>6. find_l1_deposit_tx(wf, i) = Keyed(wf.txs, "Deposit", a)
  BY <1>5 DEF find_l1_deposit_tx, Keyed
<1> HIDE DEF m, r
<1>7. known.txs = wf.txs /\ append_tx(known, r).txs = Append(wf.txs, r)
  BY <1>5 DEF append_tx, Fields
<1> HIDE DEF known
<1>8. new = IF find_l1_deposit_tx(wf, i) # {} THEN known ELSE append_tx(known, r)
  BY <1>3 DEF Funded, r
<1> HIDE DEF new
<1>9. MintSays(m, a, new.txs, u)
  <2>1. CASE find_l1_deposit_tx(wf, i) # {}
    <3>1. new.txs = wf.txs
      BY <1>7, <1>8, <2>1
    <3>2. Booked(wf.txs, "Deposit", a, m.funded # 0)
      BY <1>1, <1>2, <1>6, <2>1 DEF MintSays, Booked
    <3> QED
      BY <1>1, <1>2, <3>1, <3>2 DEF MintSays
  <2>2. CASE find_l1_deposit_tx(wf, i) = {}
    <3>1. new.txs = Append(wf.txs, r)
      BY <1>7, <1>8, <2>2
    <3>2. Booked(wf.txs, r.kind, a, FALSE)
      BY <1>4, <1>6, <2>2 DEF Booked
    <3>3. /\ Booked(Append(wf.txs, r), "Deposit", a, TRUE)
          /\ \A yes : Booked(wf.txs, "Reclaim", a, yes)
                      => Booked(Append(wf.txs, r), "Reclaim", a, yes)
      BY <1>4, <1>5, <3>2, BookedNow
    <3>4. (m.funded # 0) = TRUE
      BY <1>2
    <3> QED
      BY <1>1, <1>2, <3>1, <3>3, <3>4 DEF MintSays
  <2> QED
    BY <2>1, <2>2
<1>10. \/ new = [wf EXCEPT !.mints = [wf.mints EXCEPT ![MintPos(wf, i)] = m]]
       \/ new = append_tx([wf EXCEPT !.mints = [wf.mints EXCEPT ![MintPos(wf, i)] = m]], r)
  BY <1>8 DEF known
<1>11. Told(new, u) /\ Onward(new, wf)
  BY <1>2, <1>4, <1>9, <1>10, MintTold
<1> QED
  BY <1>11 DEF new

\* mint_message marks a mint that the sequencer accepted.
LEMMA MintSentTold ==
    ASSUME NEW d, NEW wf, GoodFile(wf, d), NEW u, IsWorld(u), Told(wf, u),
           NEW i, HasMint(wf, i), NEW accepted \in BOOLEAN,
           accepted => \E t \in u.acc : t.type = "mint" /\ t.key = AddressAt(wf, i)
    PROVE  Told(MintSent(wf, i, accepted), u) /\ Onward(MintSent(wf, i, accepted), wf)
<1> DEFINE a == AddressAt(wf, i)
           new == MintSent(wf, i, accepted)
<1>0. 0 \in 0..MaxBlocks /\ 0 \in 0..MaxTip
  BY WalletAssumption
<1>1. /\ MintSays(MintAt(wf, i), a, wf.txs, u) /\ MintAt(wf, i) \in MintRec
      /\ MintAt(wf, i).index = i /\ a \in Address
  BY MintSaid
<1>2. CASE accepted
  <2> DEFINE m == [MintAt(wf, i) EXCEPT !.minted = TRUE]
             known == [wf EXCEPT !.mints = [wf.mints EXCEPT ![MintPos(wf, i)] = m]]
             r == TxRecord("Mint", a, "Soft", 0, 0)
  <2>1. /\ m.index = i /\ m.lock = MintAt(wf, i).lock /\ MintOnward(m, MintAt(wf, i))
        /\ m.funded = MintAt(wf, i).funded /\ m.reclaimed = MintAt(wf, i).reclaimed
    BY <1>1 DEF MintRec, MintOnward
  <2>2. /\ r \in TxRecords /\ r.kind = "Mint" /\ ~IsSettled(r) /\ Stands(r, u)
    BY <1>0, <1>1 DEF TxRecord, TxRecords, IsSettled, Stands
  <2>3. known = [wf EXCEPT !.mints[MintPos(wf, i)].minted = TRUE]
    BY DEF MintAt
  <2> HIDE DEF m, r
  <2>4. wf.txs \in Seq(TxRecords) /\ append_tx(known, r).txs = Append(wf.txs, r)
    BY DEF append_tx, Fields, Told, Numbers, GoodFile, IsFile
  <2> HIDE DEF known
  <2>5. new = append_tx(known, r)
    BY <1>2, <2>3 DEF MintSent, r
  <2> HIDE DEF new
  <2>6. MintSays(MintAt(wf, i), a, new.txs, u)
    BY <1>1, <2>2, <2>4, <2>5, SaysSame
  <2>7. MintSays(m, a, new.txs, u)
    BY <1>2, <2>1, <2>6 DEF MintSays
  <2>8. new = append_tx([wf EXCEPT !.mints = [wf.mints EXCEPT ![MintPos(wf, i)] = m]], r)
    BY <2>5 DEF known
  <2>9. Told(new, u) /\ Onward(new, wf)
    BY <2>1, <2>2, <2>7, <2>8, MintTold
  <2> QED
    BY <2>9 DEF new
<1>3. CASE ~accepted
  <2> DEFINE r == TxRecord("Mint", NoNullifier, "Failed", 0, 0)
  <2>1. r \in TxRecords /\ r.kind = "Mint" /\ r.status = "Failed"
    BY <1>0 DEF TxRecord, TxRecords
  <2>2. new = append_tx(wf, r)
    BY <1>3 DEF MintSent
  <2> HIDE DEF r
  <2> QED
    BY <2>1, <2>2, RecordTold
<1> QED
  BY <1>2, <1>3

LEMMA TransferSentTold ==
    ASSUME NEW d, NEW wf, GoodFile(wf, d), NEW u, IsWorld(u), Told(wf, u),
           NEW body \in Body, NEW accepted \in BOOLEAN
    PROVE  /\ Told(TransferSent(wf, body, accepted), u)
           /\ Onward(TransferSent(wf, body, accepted), wf)
<1> DEFINE r == TxRecord("Sent", body, IF accepted THEN "Soft" ELSE "Failed", 0, 0)
<1>0. 0 \in 0..MaxBlocks /\ 0 \in 0..MaxTip
  BY WalletAssumption
<1>1. r \in TxRecords /\ r.kind = "Sent" /\ r.status \in {"Soft", "Failed"}
  BY <1>0 DEF TxRecord, TxRecords
<1>2. TransferSent(wf, body, accepted) = append_tx(wf, r)
  BY DEF TransferSent
<1> HIDE DEF r
<1> QED
  BY <1>1, <1>2, RecordTold

\* reclaim_mint books the reclaim of a mint that had none.
LEMMA ReclaimedTold ==
    ASSUME NEW d, NEW wf, GoodFile(wf, d), NEW u, IsWorld(u), Told(wf, u),
           NEW i, HasMint(wf, i), ~MintAt(wf, i).reclaimed, AddressAt(wf, i) \in u.bcast
    PROVE  Told(Reclaimed(wf, i), u) /\ Onward(Reclaimed(wf, i), wf)
<1> DEFINE a == AddressAt(wf, i)
           new == Reclaimed(wf, i)
           m == [MintAt(wf, i) EXCEPT !.reclaimed = TRUE]
           known == [wf EXCEPT !.mints = [wf.mints EXCEPT ![MintPos(wf, i)] = m]]
           r == TxRecord("Reclaim", a, "Mempool", 0, 0)
<1>0. 0 \in 0..MaxBlocks /\ 0 \in 0..MaxTip
  BY WalletAssumption
<1>1. /\ MintSays(MintAt(wf, i), a, wf.txs, u) /\ MintAt(wf, i) \in MintRec
      /\ MintAt(wf, i).index = i /\ a \in Address
  BY MintSaid
<1>2. /\ m.index = i /\ m.lock = MintAt(wf, i).lock /\ MintOnward(m, MintAt(wf, i))
      /\ m.funded = MintAt(wf, i).funded /\ m.minted = MintAt(wf, i).minted
      /\ m.reclaimed = TRUE
  BY <1>1 DEF MintRec, MintOnward
<1>3. /\ r \in TxRecords /\ r.kind = "Reclaim" /\ r.key = a /\ Stands(r, u)
      /\ r.kind \notin L2Kinds
  BY <1>0, <1>1 DEF TxRecord, TxRecords, IsSettled, Stands, L2Kinds
<1>4. known = [wf EXCEPT !.mints[MintPos(wf, i)].reclaimed = TRUE]
  BY DEF MintAt
<1> HIDE DEF m, r
<1>5. wf.txs \in Seq(TxRecords) /\ append_tx(known, r).txs = Append(wf.txs, r)
  BY DEF append_tx, Fields, Told, Numbers, GoodFile, IsFile
<1> HIDE DEF known
<1>6. new = append_tx(known, r)
  BY <1>4 DEF Reclaimed, r
<1> HIDE DEF new
<1>7. Booked(wf.txs, r.kind, a, FALSE)
  BY <1>1, <1>3 DEF MintSays, Booked
<1>8. /\ Booked(Append(wf.txs, r), "Reclaim", a, TRUE)
      /\ \A yes : Booked(wf.txs, "Deposit", a, yes)
                  => Booked(Append(wf.txs, r), "Deposit", a, yes)
  BY <1>3, <1>5, <1>7, BookedNow
<1>9. MintSays(m, a, new.txs, u)
  BY <1>1, <1>2, <1>5, <1>6, <1>8 DEF MintSays
<1>10. new = append_tx([wf EXCEPT !.mints = [wf.mints EXCEPT ![MintPos(wf, i)] = m]], r)
  BY <1>6 DEF known
<1>11. Told(new, u) /\ Onward(new, wf)
  BY <1>2, <1>3, <1>9, <1>10, MintTold
<1> QED
  BY <1>11 DEF new

\* mint_utxo takes an index of which no record tells.
LEMMA MintUtxoTold ==
    ASSUME NEW d, NEW wf, GoodFile(wf, d), NEW u, IsWorld(u), Told(wf, u),
           NEW lock \in Locks, wf.next_mint_index < MaxKeys
    PROVE  Told(mint_utxo(wf, lock), u) /\ Onward(mint_utxo(wf, lock), wf)
<1> DEFINE n == wf.next_mint_index
           r == MintRecord(n, lock)
           ms == Append(wf.mints, r)
           used == [wf EXCEPT !.next_mint_index = n + 1]
           new == mint_utxo(wf, lock)
<1>0. /\ DOMAIN wf = Fields /\ wf.mints \in Seq(MintRec) /\ n \in Nat /\ MaxKeys \in Nat
      /\ wf.txs \in Seq(TxRecords) /\ Len(wf.mints) \in Nat
  BY LenProperties, WalletAssumption DEF GoodFile, IsFile, Told, Numbers
<1>1. /\ r \in MintRec /\ r.index = n /\ r.funded = 0 /\ r.minted = FALSE
      /\ r.reclaimed = FALSE
  BY <1>0 DEF MintRec, MintRecord
<1>2. /\ Len(ms) = Len(wf.mints) + 1 /\ ms[Len(wf.mints) + 1] = r
      /\ \A j \in 1..Len(wf.mints) : ms[j] = wf.mints[j]
  BY <1>0, <1>1, AppendProperties
<1>3. /\ used.seed = wf.seed /\ used.enc = wf.enc /\ used.next_mint_index = n + 1
      /\ used.head = wf.head /\ used.booted = wf.booted /\ used.txs = wf.txs
      /\ used.mints = wf.mints /\ DOMAIN used = Fields
  BY <1>0 DEF Fields
<1> HIDE DEF r, ms
<1>4. new = [used EXCEPT !.mints = ms]
  BY <1>3 DEF mint_utxo, allocate_mint_keypair, append_mint, r, ms
<1> HIDE DEF used, new
<1>5. /\ new.seed = wf.seed /\ new.enc = wf.enc /\ new.next_mint_index = n + 1
      /\ new.head = wf.head /\ new.booted = wf.booted /\ new.txs = wf.txs
      /\ new.mints = ms
  BY <1>3, <1>4 DEF Fields
<1>6. Numbers(new, u)
  BY <1>0, <1>5 DEF Told, Numbers
<1>7. Crossed(new, u.blk) = Crossed(wf, u.blk)
  BY <1>5 DEF Crossed
<1>8. \A j \in 1..Len(wf.txs) :
        /\ HandedOut(wf.txs[j], n) /\ wf.txs[j] \in TxRecords /\ Stands(wf.txs[j], u)
        /\ wf.txs[j].kind \in {"Deposit", "Reclaim"} => wf.txs[j].key.index \in Int
  <2> SUFFICES ASSUME NEW j \in 1..Len(wf.txs)
               PROVE  /\ HandedOut(wf.txs[j], n) /\ wf.txs[j] \in TxRecords
                      /\ Stands(wf.txs[j], u)
                      /\ wf.txs[j].kind \in {"Deposit", "Reclaim"}
                         => wf.txs[j].key.index \in Int
    OBVIOUS
  <2>1. HandedOut(wf.txs[j], n) /\ Stands(wf.txs[j], u)
    BY DEF Told, Books
  <2>2. wf.txs[j] \in TxRecords
    BY <1>0, ElementOfSeq
  <2>3. wf.txs[j].kind \in {"Deposit", "Reclaim"} => wf.txs[j].key \in Address
    BY <2>1 DEF Stands
  <2> QED
    BY <1>0, <2>1, <2>2, <2>3 DEF Address
<1>9. ASSUME NEW a, a.index = n, NEW kind \in {"Deposit", "Reclaim"}
      PROVE  Keyed(wf.txs, kind, a) = {}
  <2> SUFFICES ASSUME NEW j \in 1..Len(wf.txs), wf.txs[j].kind = kind, wf.txs[j].key = a
               PROVE  FALSE
    BY DEF Keyed
  <2>1. wf.txs[j].key.index < n /\ wf.txs[j].key.index \in Int
    BY <1>8 DEF HandedOut
  <2> QED
    BY <1>0, <1>9, <2>1
<1>10. Books(new, u)
  <2>1. ASSUME NEW j \in 1..Len(new.mints)
        PROVE  MintSays(new.mints[j], AddressOf(new, new.mints[j]), new.txs, u)
    <3>1. CASE j \in 1..Len(wf.mints)
      <4>1. new.mints[j] = wf.mints[j]
        BY <1>2, <1>5, <3>1
      <4>2. MintSays(wf.mints[j], AddressOf(wf, wf.mints[j]), wf.txs, u)
        BY <3>1 DEF Told, Books
      <4> QED
        BY <1>5, <4>1, <4>2 DEF AddressOf
    <3>2. CASE j \notin 1..Len(wf.mints)
      <4>1. j = Len(wf.mints) + 1
        BY <1>0, <1>2, <1>5, <3>2
      <4>2. new.mints[j] = r
        BY <1>2, <1>5, <4>1
      <4> DEFINE a == AddressOf(new, new.mints[j])
      <4>3. a.index = n
        BY <1>1, <4>2 DEF AddressOf
      <4> HIDE DEF a
      <4>4. Keyed(wf.txs, "Deposit", a) = {} /\ Keyed(wf.txs, "Reclaim", a) = {}
        BY <1>9, <4>3
      <4>5. MintSays(r, a, wf.txs, u)
        BY <1>1, <4>4 DEF MintSays, Booked
      <4> QED
        BY <1>5, <4>2, <4>5 DEF a
    <3> QED
      BY <3>1, <3>2
  <2>2. \A j \in 1..Len(new.txs) : HandedOut(new.txs[j], new.next_mint_index)
    <3> SUFFICES ASSUME NEW j \in 1..Len(wf.txs)
                 PROVE  HandedOut(wf.txs[j], n + 1)
      BY <1>5
    <3>1. wf.txs[j].kind \in {"Deposit", "Reclaim"}
          => wf.txs[j].key.index \in Int /\ wf.txs[j].key.index < n
      BY <1>8 DEF HandedOut
    <3> QED
      BY <1>0, <3>1 DEF HandedOut
  <2> QED
    BY <2>1, <2>2 DEF Books
<1>11. Told(new, u)
  BY <1>5, <1>6, <1>7, <1>10 DEF Told
<1>12. Onward(wf, wf)
  BY OnwardReflexive
<1>13. Onward(new, wf)
  BY <1>2, <1>5, <1>12 DEF Onward
<1> QED
  BY <1>11, <1>13 DEF new

LEMMA KeygenTold ==
    ASSUME NEW w \in Wallets, NEW u, IsWorld(u)
    PROVE  Told(keygen(w), u)
<1> DEFINE wf == keygen(w)
<1>1. /\ wf.seed = w /\ wf.enc \in BOOLEAN /\ wf.next_mint_index = 0
      /\ wf.mints = <<>> /\ wf.head = NoHead /\ wf.booted = NoHead /\ wf.txs = <<>>
  BY DEF keygen
<1> HIDE DEF wf
<1>2. Len(u.blk) \in Nat /\ MaxKeys \in Nat
  BY LenProperties, WalletAssumption DEF IsWorld, IsChain
<1>3. wf.txs \in Seq(TxRecords) /\ Len(wf.txs) = 0 /\ Len(wf.mints) = 0
  BY <1>1, EmptySeq
<1>4. Numbers(wf, u)
  BY <1>1, <1>2, <1>3 DEF Numbers, NoHead
<1>5. Crossed(wf, u.blk) = {}
  <2>1. (wf.booted + 1)..wf.head = {}
    BY <1>1 DEF NoHead
  <2> QED
    BY <2>1 DEF Crossed, Since
<1>6. Settles(wf.txs, Crossed(wf, u.blk)) /\ Books(wf, u)
  BY <1>3, <1>5 DEF Settles, Books
<1> QED
  BY <1>3, <1>4, <1>6 DEF Told, wf

\* finalize_and_refresh advances what L1 confirmed and buried.
LEMMA Refreshed ==
    ASSUME IsWorld(Now), NEW r \in TxRecords, Stands(r, Now)
    PROVE  LET new == Buried(Promoted(r), l1Tip)
           IN  /\ new \in TxRecords /\ RecordOnward(new, r) /\ Stands(new, Now)
               /\ r.kind \in L2Kinds =>
                    /\ IsSettled(new) <=> IsSettled(r)
                    /\ EventOf(new) = EventOf(r)
<1> DEFINE p == Promoted(r)
           new == Buried(p, l1Tip)
<1>0. /\ Now.tip = l1Tip /\ Now.spent = spentAt /\ Now.dep = deposit
      /\ l1Tip \in 0..MaxTip /\ spentAt \in [Address -> 0..l1Tip]
      /\ MaxTip \in Nat /\ FinalityDepth \in Nat
  BY WalletAssumption DEF Now, IsWorld
<1>r. r.status \in Statuses /\ r.l1 \in 0..MaxTip
  BY DEF TxRecords, Statuses
<1>1. /\ p \in TxRecords /\ RecordOnward(p, r) /\ Stands(p, Now)
      /\ r.kind \in L2Kinds => p = r
  <2>1. CASE r.status = "Mempool" /\ spentAt[r.key] # 0
    <3>1. r.kind = "Reclaim" /\ r.key \in Address
      BY <2>1 DEF Stands
    <3>2. p = [r EXCEPT !.status = "InBlock", !.l1 = spentAt[r.key]]
      BY <2>1 DEF Promoted
    <3>3. spentAt[r.key] \in 0..MaxTip
      <4>1. spentAt[r.key] \in 0..l1Tip
        BY <1>0, <3>1
      <4> QED
        BY <1>0, <4>1
    <3>4. /\ p \in TxRecords /\ p.kind = r.kind /\ p.key = r.key
          /\ p.status = "InBlock" /\ p.l1 = spentAt[r.key]
      BY <3>2, <3>3 DEF TxRecords
    <3> HIDE DEF p
    <3>5. Rank(r.status) = 0 /\ Rank(p.status) = 1
      BY <2>1, <3>4 DEF Rank
    <3>6. RecordOnward(p, r)
      BY <2>1, <3>4, <3>5 DEF RecordOnward, SameKey
    <3>7. Stands(p, Now)
      BY <1>0, <2>1, <3>1, <3>4 DEF Stands
    <3> QED
      BY <3>1, <3>4, <3>6, <3>7 DEF L2Kinds
  <2>2. CASE ~(r.status = "Mempool" /\ spentAt[r.key] # 0)
    <3>1. p = r
      BY <2>2 DEF Promoted
    <3> QED
      BY <3>1, OnwardRecord
  <2> QED
    BY <2>1, <2>2
<1> HIDE DEF p
<1>2. /\ new \in TxRecords /\ RecordOnward(new, p) /\ Stands(new, Now)
      /\ IsSettled(new) <=> IsSettled(p)
      /\ EventOf(new) = EventOf(p)
  <2>1. CASE p.status = "InBlock" /\ l1Tip - p.l1 >= FinalityDepth
    <3>1. new = [p EXCEPT !.status = "Finalized"]
      BY <2>1 DEF Buried
    <3>2. /\ new \in TxRecords /\ new.kind = p.kind /\ new.key = p.key
          /\ new.status = "Finalized" /\ new.l1 = p.l1 /\ new.l2 = p.l2
      BY <1>1, <3>1 DEF TxRecords
    <3> HIDE DEF new
    <3>3. Rank(p.status) = 1 /\ Rank(new.status) = 2
      BY <2>1, <3>2 DEF Rank
    <3>4. RecordOnward(new, p)
      BY <2>1, <3>2, <3>3 DEF RecordOnward, SameKey
    <3>5. Stands(new, Now)
      BY <1>0, <1>1, <2>1, <3>2 DEF Stands, IsSettled
    <3> QED
      BY <2>1, <3>2, <3>4, <3>5 DEF IsSettled, EventOf
  <2>2. CASE ~(p.status = "InBlock" /\ l1Tip - p.l1 >= FinalityDepth)
    <3>1. new = p
      BY <2>2 DEF Buried
    <3> QED
      BY <1>1, <3>1, OnwardRecord
  <2> QED
    BY <2>1, <2>2
<1> HIDE DEF new
<1>3. RecordOnward(new, r)
  BY <1>1, <1>2, OnwardRecords
<1> QED
  BY <1>1, <1>2, <1>3 DEF new, p

\* Records of L1 stay where they are.
LEMMA KeyedFurther ==
    ASSUME NEW old \in Seq(TxRecords), NEW new \in Seq(TxRecords), Further(new, old),
           NEW kind \in {"Deposit", "Reclaim"}, NEW key
    PROVE  Keyed(new, kind, key) = Keyed(old, kind, key)
<1>1. Len(old) \in Nat /\ Len(new) \in Nat /\ Len(old) <= Len(new)
  BY LenProperties DEF Further, TxsOnward
<1>2. ASSUME NEW j \in 1..Len(new), new[j].kind = kind
      PROVE  j \in 1..Len(old)
  <2> SUFFICES ASSUME j \notin 1..Len(old)
               PROVE  FALSE
    OBVIOUS
  <2>1. j \in (Len(old) + 1)..Len(new)
    BY <1>1
  <2> QED
    BY <1>2, <2>1 DEF Further, L2Kinds
<1>3. \A j \in 1..Len(old) :
        j \in 1..Len(new) /\ new[j].kind = old[j].kind /\ new[j].key = old[j].key
  BY <1>1 DEF Further, TxsOnward, RecordOnward, SameKey
<1> QED
  BY <1>2, <1>3 DEF Keyed

\* A walk settles the events of the blocks it crosses, and no others.
LEMMA WalkTold ==
    ASSUME NEW d, NEW wf, GoodFile(wf, d), IsWorld(Now), OnChainOnce(blocks), Told(wf, Now)
    PROVE  LET new == finalize_and_refresh(Walk(wf), l1Tip)
           IN  Told(new, Now) /\ Onward(new, wf)
<1> DEFINE w == wf.seed
           from == IF wf.head = NoHead THEN bootstrap(wf, Len(blocks)) ELSE wf
           past == EventsPast(w, from.head)
           E == Crossed(from, blocks)
           n == Len(blocks)
           walked == Walk(wf)
           new == finalize_and_refresh(walked, l1Tip)
<1>0. /\ Now.blk = blocks /\ Now.tip = l1Tip /\ IsChain(blocks) /\ n \in Nat
      /\ DOMAIN wf = Fields /\ wf.txs \in Seq(TxRecords) /\ AllStand(wf.txs, Now)
      /\ wf.head \in NoHead..n /\ wf.booted \in NoHead..wf.head
      /\ wf.head # NoHead => wf.booted # NoHead
      /\ Settles(wf.txs, Crossed(wf, blocks))
  <2>1. Now.blk = blocks /\ Now.tip = l1Tip
    BY DEF Now
  <2>2. IsChain(blocks)
    BY <2>1 DEF IsWorld
  <2> QED
    BY <2>1, <2>2, LenProperties
       DEF IsChain, GoodFile, IsFile, Told, Numbers, AllStand
<1>1. /\ from.seed = w /\ from.enc = wf.enc /\ from.mints = wf.mints
      /\ from.next_mint_index = wf.next_mint_index /\ from.txs = wf.txs
      /\ DOMAIN from = Fields
      /\ from.head = IF wf.head = NoHead THEN n ELSE wf.head
      /\ from.booted = IF wf.head = NoHead THEN n ELSE wf.booted
  BY <1>0 DEF bootstrap, Fields
<1>2. walked = [from EXCEPT !.txs = FoldLeft(project_event, from.txs, past), !.head = n]
  BY <1>1 DEF Walk
<1> HIDE DEF from
<1>3. /\ from.head \in 0..n /\ from.booted \in 0..from.head
      /\ wf.head <= n
  BY <1>0, <1>1 DEF NoHead
<1>4. E = Crossed(wf, blocks)
  <2>1. CASE wf.head = NoHead
    <3>1. /\ (from.booted + 1)..from.head = {}
          /\ (wf.booted + 1)..wf.head = {}
      BY <1>0, <1>1, <2>1 DEF NoHead
    <3> QED
      BY <3>1 DEF Crossed, Since
  <2>2. CASE wf.head # NoHead
    BY <1>1, <2>2 DEF Crossed
  <2> QED
    BY <2>1, <2>2
<1>5. past \in Seq(Events) /\ Elements(past) = Since(w, blocks, from.head, n)
  BY <1>0, <1>3, EventsPastElements
<1>6. E \cup Elements(past) = Since(w, blocks, from.booted, n)
  <2>1. (from.booted + 1)..n = (from.booted + 1)..from.head \cup (from.head + 1)..n
    BY <1>0, <1>3
  <2>2. E = Since(w, blocks, from.booted, from.head)
    BY <1>1 DEF Crossed
  <2> HIDE DEF E, n, past
  <2> QED
    BY <1>5, <2>1, <2>2 DEF Since
<1>7. Since(w, blocks, from.booted, n) \subseteq Events
  BY <1>0, <1>3, SinceType DEF NoHead
<1>8. \A e, f \in E \cup Elements(past) : SameKey(e, f) => e = f
  <2>1. from.booted \in Nat /\ n \in NoHead..Len(blocks)
    BY <1>0, <1>3 DEF NoHead
  <2> HIDE DEF E, past, n
  <2> QED
    BY <1>0, <1>6, <2>1, DeliveredOnce
<1> DEFINE t == FoldLeft(project_event, wf.txs, past)
<1>9. /\ t \in Seq(TxRecords) /\ Settles(t, E \cup Elements(past))
      /\ AllStand(t, Now) /\ Further(t, wf.txs)
  <2> HIDE DEF E, past
  <2> QED
    BY <1>0, <1>4, <1>5, <1>6, <1>7, <1>8, AllProjected
<1>10. walked = [from EXCEPT !.txs = t, !.head = n]
  BY <1>1, <1>2
<1> HIDE DEF E, past, t, walked
<1>11. /\ walked.seed = w /\ walked.enc = wf.enc /\ walked.mints = wf.mints
       /\ walked.next_mint_index = wf.next_mint_index /\ walked.txs = t
       /\ DOMAIN walked = Fields /\ walked.head = n /\ walked.booted = from.booted
  BY <1>1, <1>10 DEF Fields
<1> DEFINE s == [j \in DOMAIN t |-> Buried(Promoted(t[j]), l1Tip)]
<1>12. new = [walked EXCEPT !.txs = s]
  BY <1>11 DEF finalize_and_refresh
<1>13. Len(t) \in Nat /\ DOMAIN t = 1..Len(t) /\ \A j \in 1..Len(t) : t[j] \in TxRecords
  BY <1>9, LenProperties, ElementOfSeq
<1>14. \A j \in 1..Len(t) :
         /\ s[j] \in TxRecords /\ RecordOnward(s[j], t[j]) /\ Stands(s[j], Now)
         /\ t[j].kind \in L2Kinds =>
              /\ IsSettled(s[j]) <=> IsSettled(t[j])
              /\ EventOf(s[j]) = EventOf(t[j])
  <2> SUFFICES ASSUME NEW j \in 1..Len(t)
               PROVE  LET x == Buried(Promoted(t[j]), l1Tip)
                      IN  /\ x \in TxRecords /\ RecordOnward(x, t[j]) /\ Stands(x, Now)
                          /\ t[j].kind \in L2Kinds =>
                               /\ IsSettled(x) <=> IsSettled(t[j])
                               /\ EventOf(x) = EventOf(t[j])
    BY <1>13
  <2>1. t[j] \in TxRecords /\ Stands(t[j], Now)
    BY <1>9, <1>13 DEF AllStand
  <2> QED
    BY <2>1, Refreshed
<1>15. s \in Seq(TxRecords) /\ Len(s) = Len(t)
  <2> s = [j \in 1..Len(t) |-> s[j]] /\ \A j \in 1..Len(t) : s[j] \in TxRecords
    BY <1>13, <1>14
  <2> HIDE DEF s
  <2> QED
    BY <1>13
<1> HIDE DEF s, new
<1>16. /\ new.seed = w /\ new.enc = wf.enc /\ new.mints = wf.mints
       /\ new.next_mint_index = wf.next_mint_index /\ new.txs = s
       /\ new.head = n /\ new.booted = from.booted
  BY <1>11, <1>12, SetTxs
<1>17. \A j \in 1..Len(t) : SameKey(s[j], t[j])
  BY <1>14 DEF RecordOnward
<1>18. Settles(s, E \cup Elements(past))
  <2>1. E \cup Elements(past) \subseteq Events
    BY <1>6, <1>7
  <2> QED
    BY <1>9, <1>14, <1>15, <1>17, <2>1, SameSettles
<1>19. Crossed(new, blocks) = E \cup Elements(past)
  BY <1>6, <1>16 DEF Crossed
<1>20. Numbers(new, Now)
  <2>1. n \in NoHead..n /\ from.booted \in NoHead..n /\ from.booted # NoHead
    BY <1>0, <1>3 DEF NoHead
  <2> QED
    BY <1>0, <1>15, <1>16, <2>1 DEF Numbers, Told
<1>21. \A kind \in {"Deposit", "Reclaim"} : \A key :
         Keyed(s, kind, key) = Keyed(wf.txs, kind, key)
  <2> SUFFICES ASSUME NEW kind \in {"Deposit", "Reclaim"}, NEW key
               PROVE  Keyed(s, kind, key) = Keyed(wf.txs, kind, key)
    OBVIOUS
  <2>1. Keyed(s, kind, key) = Keyed(t, kind, key)
    BY <1>15, <1>17, KeyedSame
  <2>2. Keyed(t, kind, key) = Keyed(wf.txs, kind, key)
    BY <1>0, <1>9, KeyedFurther
  <2> QED
    BY <2>1, <2>2
<1>22. Len(wf.txs) \in Nat /\ Len(wf.txs) <= Len(s)
  BY <1>0, <1>9, <1>15, LenProperties DEF Further, TxsOnward
<1>23. Books(new, Now)
  <2>1. ASSUME NEW j \in 1..Len(new.mints)
        PROVE  MintSays(new.mints[j], AddressOf(new, new.mints[j]), new.txs, Now)
    <3> DEFINE m == wf.mints[j]
               a == AddressOf(wf, m)
    <3>1. new.mints[j] = m /\ AddressOf(new, new.mints[j]) = a /\ new.txs = s
      BY <1>16 DEF AddressOf
    <3>2. MintSays(m, a, wf.txs, Now)
      BY <1>16 DEF Told, Books
    <3> HIDE DEF m, a
    <3>3. Keyed(s, "Deposit", a) = Keyed(wf.txs, "Deposit", a)
          /\ Keyed(s, "Reclaim", a) = Keyed(wf.txs, "Reclaim", a)
      BY <1>21
    <3>4. \A j1 \in 1..Len(wf.txs) : j1 \in 1..Len(s)
      BY <1>15, <1>13, <1>22
    <3>5. MintSays(m, a, s, Now)
      BY <3>2, <3>3, <3>4 DEF MintSays, Booked
    <3> QED
      BY <3>1, <3>5
  <2>2. \A j \in 1..Len(s) : HandedOut(s[j], wf.next_mint_index)
    <3> SUFFICES ASSUME NEW j \in 1..Len(s), s[j].kind \in {"Deposit", "Reclaim"}
                 PROVE  s[j].key.index < wf.next_mint_index
      BY DEF HandedOut
    <3>1. j \in Keyed(s, s[j].kind, s[j].key)
      BY DEF Keyed
    <3>2. j \in Keyed(wf.txs, s[j].kind, s[j].key)
      BY <1>21, <3>1
    <3>3. j \in 1..Len(wf.txs) /\ wf.txs[j].kind = s[j].kind /\ wf.txs[j].key = s[j].key
      BY <3>2 DEF Keyed
    <3> QED
      BY <3>3 DEF Told, Books, HandedOut
  <2> QED
    BY <1>16, <2>1, <2>2 DEF Books
<1>24. Told(new, Now)
  <2>1. \A j \in 1..Len(new.txs) : Stands(new.txs[j], Now)
    BY <1>14, <1>15, <1>16
  <2> QED
    BY <1>0, <1>16, <1>18, <1>19, <1>20, <1>23, <2>1 DEF Told
<1>25. Onward(new, wf)
  <2>1. TxsOnward(s, wf.txs)
    <3>1. ASSUME NEW j \in 1..Len(wf.txs)
          PROVE  RecordOnward(s[j], wf.txs[j])
      <4>1. j \in 1..Len(t)
        BY <1>15, <1>13, <1>22
      <4>2. wf.txs[j] \in TxRecords /\ t[j] \in TxRecords /\ s[j] \in TxRecords
        BY <1>0, <1>13, <1>14, <4>1, ElementOfSeq
      <4>3. RecordOnward(t[j], wf.txs[j]) /\ RecordOnward(s[j], t[j])
        BY <1>9, <1>14, <4>1 DEF Further, TxsOnward
      <4> QED
        BY <4>2, <4>3, OnwardRecords
    <3> QED
      BY <1>22, <3>1 DEF TxsOnward
  <2> QED
    BY <1>3, <1>16, <2>1 DEF Onward, MintOnward
<1> QED
  BY <1>24, <1>25 DEF new, walked

-----------------------------------------------------------------------------
(* Bitcoin and the sequencer: the world goes on.                               *)

LEMMA PoolAccepted == pool \subseteq Accepted
BY DEF Accepted

\* What is in a block was accepted.
LEMMA BlockAccepted ==
    ASSUME IsChain(blocks), NEW h \in 1..Len(blocks), NEW t \in blocks[h].txs
    PROVE  t \in Accepted
<1>1. DOMAIN blocks = 1..Len(blocks)
  BY LenProperties DEF IsChain
<1> QED
  BY <1>1 DEF Accepted

LEMMA AcceptedType ==
    ASSUME Accounts, NEW t \in Accepted
    PROVE  t \in Tx
<1>1. IsChain(blocks) /\ pool \subseteq Tx
  BY DEF Accounts, IsWorld, Now
<1>2. DOMAIN blocks = 1..Len(blocks)
  BY <1>1, LenProperties DEF IsChain
<1>3. \A h \in 1..Len(blocks) : blocks[h].txs \subseteq Tx
  BY <1>1, BlockType
<1> QED
  BY <1>1, <1>2, <1>3 DEF Accepted

\* The transfers that count for a nonce.
TransfersOf(w) == {t \in Accepted : t.type = "transfer" /\ t.key.from = w}

LEMMA NonceType ==
    ASSUME IsFiniteSet(Accepted), NEW w
    PROVE  Nonce(w) \in Nat /\ Nonce(w) = Cardinality(TransfersOf(w))
           /\ IsFiniteSet(TransfersOf(w))
<1>1. IsFiniteSet(TransfersOf(w))
  BY FS_Subset DEF TransfersOf
<1>2. Nonce(w) = Cardinality(TransfersOf(w))
  BY DEF Nonce, TransfersOf
<1> QED
  BY <1>1, <1>2, FS_CardinalityType

\* Nonces do not change when a step accepts no transfer of a wallet, and count
\* up with the one it accepts.
LEMMA NonceGrows ==
    ASSUME IsFiniteSet(Accepted), NEW t, Accepted' = Accepted \cup {t}, t \notin Accepted,
           NEW w
    PROVE  /\ IsFiniteSet(Accepted')
           /\ Nonce(w) \in Nat
           /\ t.type = "transfer" /\ t.key.from = w => Nonce(w)' = Nonce(w) + 1
           /\ ~(t.type = "transfer" /\ t.key.from = w) => Nonce(w)' = Nonce(w)
<1>1. Nonce(w) \in Nat /\ Nonce(w) = Cardinality(TransfersOf(w))
      /\ IsFiniteSet(TransfersOf(w))
  BY NonceType
<1>2. IsFiniteSet(Accepted')
  BY FS_AddElement
<1>3. Nonce(w)' = Cardinality(TransfersOf(w)')
  BY DEF Nonce, TransfersOf
<1>4. ASSUME t.type = "transfer", t.key.from = w
      PROVE  Nonce(w)' = Nonce(w) + 1
  <2>1. TransfersOf(w)' = TransfersOf(w) \cup {t}
    BY <1>4 DEF TransfersOf
  <2>2. t \notin TransfersOf(w)
    BY DEF TransfersOf
  <2> QED
    BY <1>1, <1>3, <2>1, <2>2, FS_AddElement
<1>5. ASSUME ~(t.type = "transfer" /\ t.key.from = w)
      PROVE  Nonce(w)' = Nonce(w)
  <2>1. TransfersOf(w)' = TransfersOf(w)
    BY <1>5 DEF TransfersOf
  <2> QED
    BY <1>1, <1>3, <2>1
<1> QED
  BY <1>1, <1>2, <1>4, <1>5

\* A new transaction, whose nonce, if it has one, is the next; what is accepted
\* keeps its number.
LEMMA StillNumbered ==
    ASSUME Accounts, NEW t, Accepted' = Accepted \cup {t}, t \notin Accepted,
           submits' \in Nat, submits <= submits',
           \A v \in Accepted : Numbered(v),
           t.type = "transfer" =>
             t.key.nonce = IF t.key.from = Ext THEN submits ELSE Nonce(t.key.from),
           t.type = "transfer" /\ t.key.from = Ext => submits' = submits + 1,
           \A v \in Accepted \cup {t} : v.type = "transfer" => v.key.nonce \in Nat
    PROVE  \A v \in Accepted' : Numbered(v)'
<1>0. IsFiniteSet(Accepted) /\ submits \in Nat /\ MaxSubmits \in Nat
  BY WalletAssumption DEF Accounts
<1>1. \A w : /\ Nonce(w) \in Nat
             /\ t.type = "transfer" /\ t.key.from = w => Nonce(w)' = Nonce(w) + 1
             /\ ~(t.type = "transfer" /\ t.key.from = w) => Nonce(w)' = Nonce(w)
  <2> SUFFICES ASSUME NEW w
               PROVE  /\ Nonce(w) \in Nat
                      /\ t.type = "transfer" /\ t.key.from = w => Nonce(w)' = Nonce(w) + 1
                      /\ ~(t.type = "transfer" /\ t.key.from = w) => Nonce(w)' = Nonce(w)
    OBVIOUS
  <2> QED
    BY <1>0, NonceGrows
<1>2. ASSUME NEW v \in Accepted, v.type = "transfer"
      PROVE  v.key.nonce < IF v.key.from = Ext THEN submits' ELSE Nonce(v.key.from)'
  <2>1. v.key.nonce < IF v.key.from = Ext THEN submits ELSE Nonce(v.key.from)
    BY <1>2 DEF Numbered
  <2>2. v.key.nonce \in Nat
    BY <1>2
  <2>3. Nonce(v.key.from) \in Nat
    BY <1>1
  <2>4. \/ Nonce(v.key.from)' = Nonce(v.key.from) + 1
        \/ Nonce(v.key.from)' = Nonce(v.key.from)
    BY <1>1
  <2> QED
    BY <1>0, <2>1, <2>2, <2>3, <2>4
<1>3. ASSUME t.type = "transfer"
      PROVE  t.key.nonce < IF t.key.from = Ext THEN submits' ELSE Nonce(t.key.from)'
  <2>1. Nonce(t.key.from)' = Nonce(t.key.from) + 1 /\ Nonce(t.key.from) \in Nat
    BY <1>1, <1>3
  <2> QED
    BY <1>0, <1>3, <2>1
<1>4. \A v \in Accepted' :
        v.type = "transfer" =>
        v.key.nonce < IF v.key.from = Ext THEN submits' ELSE Nonce(v.key.from)'
  BY <1>2, <1>3
<1> QED
  BY <1>4 DEF Numbered

\* A world of which L1 alone went on, or a reclaim was broadcast.
LEMMA L1Goes ==
    ASSUME Accounts, Once, UNCHANGED <<pool, blocks, unlocked>>,
           submits' \in 0..MaxSubmits, submits <= submits',
           l1Tip' \in 0..MaxTip, l1Tip <= l1Tip',
           deposit' \in [Address -> 0..l1Tip'], spentAt' \in [Address -> 0..l1Tip'],
           \A a \in Address : deposit[a] # 0 => deposit'[a] = deposit[a],
           \A a \in Address : spentAt[a] # 0 => spentAt'[a] = spentAt[a],
           broadcast \subseteq broadcast', broadcast' \subseteq Address
    PROVE  Accounts' /\ Once' /\ Later(Now', Now)
<1>1. Accepted' = Accepted
  BY DEF Accepted
<1>2. \A w : Nonce(w)' = Nonce(w)
  BY <1>1 DEF Nonce
<1>3. /\ IsFiniteSet(Accepted) /\ pool \in SUBSET Tx /\ unlocked \subseteq Wallets
      /\ IsChain(blocks) /\ Len(blocks) \in Nat /\ submits \in Nat
  BY LenProperties DEF Accounts, IsWorld, IsChain, Now
<1>4. IsWorld(Now)'
  BY <1>3 DEF IsWorld, Now
<1>5. Accounts'
  BY <1>1, <1>3, <1>4 DEF Accounts
<1>6. \A t \in Accepted' : Numbered(t)'
  <2> SUFFICES ASSUME NEW t \in Accepted, t.type = "transfer"
               PROVE  t.key.nonce < IF t.key.from = Ext THEN submits'
                                    ELSE Nonce(t.key.from)
    BY <1>1, <1>2 DEF Numbered
  <2>1. t.key.nonce < IF t.key.from = Ext THEN submits ELSE Nonce(t.key.from)
    BY DEF Once, Numbered
  <2>2. t.key.nonce \in Nat
    BY AcceptedType DEF Tx, Body
  <2> QED
    BY <1>3, <2>1, <2>2
<1>7. Once'
  BY <1>6 DEF Once, OnChainOnce
<1>8. Later(Now', Now)
  BY <1>1, <1>3 DEF Later, Now
<1> QED
  BY <1>5, <1>7, <1>8

\* Nothing of the world changed.
LEMMA WorldStays ==
    ASSUME Accounts, Once, unlocked' \subseteq Wallets,
           UNCHANGED <<l1Tip, deposit, broadcast, spentAt, pool, blocks, submits>>
    PROVE  Accounts' /\ Once' /\ Now' = Now /\ Later(Now', Now)
<1>1. Accepted' = Accepted
  BY DEF Accepted
<1>2. Now' = Now
  BY <1>1 DEF Now
<1>3. Accounts'
  BY <1>1, <1>2 DEF Accounts
<1>4. \A w : Nonce(w)' = Nonce(w)
  BY <1>1 DEF Nonce
<1>5. Once'
  BY <1>1, <1>4 DEF Once, OnChainOnce, Numbered
<1>6. Later(Now', Now)
  BY <1>2, LenProperties DEF Later, Accounts, IsWorld, IsChain, Now
<1> QED
  BY <1>2, <1>3, <1>5, <1>6

\* The sequencer accepts a new transaction.
LEMMA Accepts ==
    ASSUME Accounts, Once, NEW t \in Tx, pool' = pool \cup {t},
           \A v \in Accepted : ~SameTx(v, t),
           t.type = "transfer" => t.key.from # Ext /\ t.key.nonce = Nonce(t.key.from),
           submits' = submits + 1, submits' <= MaxSubmits,
           UNCHANGED <<l1Tip, deposit, broadcast, spentAt, blocks, unlocked>>
    PROVE  Accounts' /\ Once' /\ Later(Now', Now) /\ t \in Accepted'
<1>1. Accepted' = Accepted \cup {t} /\ t \notin Accepted
  BY DEF Accepted, SameTx
<1>3. /\ IsFiniteSet(Accepted) /\ pool \in SUBSET Tx /\ unlocked \subseteq Wallets
      /\ IsChain(blocks) /\ Len(blocks) \in Nat /\ submits \in Nat /\ MaxSubmits \in Nat
      /\ IsWorld(Now)
  BY LenProperties, WalletAssumption DEF Accounts, IsWorld, IsChain, Now
<1>4. IsWorld(Now)' /\ Later(Now', Now)
  BY <1>1, <1>3 DEF IsWorld, Now, Later
<1>5. Accounts'
  BY <1>1, <1>3, <1>4, FS_AddElement DEF Accounts
<1>6. \A v \in Accepted \cup {t} : v.type = "transfer" => v.key.nonce \in Nat
  BY AcceptedType DEF Tx, Body
<1>7. \A v \in Accepted : Numbered(v)
  BY DEF Once
<1>8. \A v \in Accepted' : Numbered(v)'
  BY <1>1, <1>3, <1>6, <1>7, StillNumbered
<1>9. OnChainOnce(blocks')
  BY DEF Once
<1>10. \A h \in 1..Len(blocks) : \A v \in blocks[h].txs, u \in pool' : ~SameTx(v, u)
  BY <1>3, BlockAccepted DEF Once
<1>11. \A v \in pool' : v.type = "transfer" => v.key.from # Ext
  BY DEF Once
<1>12. Once'
  BY <1>8, <1>9, <1>10, <1>11 DEF Once
<1> QED
  BY <1>1, <1>4, <1>5, <1>12

\* L1 attests a block of what was accepted, and perhaps of a payment, which no
\* one made before.
LEMMA Attests ==
    ASSUME Accounts, Once, NEW P, P = {} \/ \E w \in Wallets : P = {PayIn(w)},
           AttestBlock(P)
    PROVE  Accounts' /\ Once' /\ Later(Now', Now)
<1> DEFINE b == [l1 |-> l1Tip, txs |-> pool \cup P]
<1>1. /\ blocks' = Append(blocks, b) /\ pool' = {}
      /\ submits' = submits + Cardinality(P) /\ submits + Cardinality(P) <= MaxSubmits
      /\ Len(blocks) < MaxBlocks
      /\ UNCHANGED <<l1Tip, deposit, broadcast, spentAt, unlocked>>
  BY DEF AttestBlock, l1Vars, session
<1>2. /\ IsFiniteSet(Accepted) /\ pool \in SUBSET Tx /\ unlocked \subseteq Wallets
      /\ IsChain(blocks) /\ Len(blocks) \in Nat /\ submits \in Nat
      /\ MaxSubmits \in Nat /\ MaxBlocks \in Nat /\ IsWorld(Now)
      /\ l1Tip \in 0..MaxTip
  BY LenProperties, WalletAssumption DEF Accounts, IsWorld, IsChain, Now
<1>3. ASSUME NEW t \in P
      PROVE  /\ P = {t} /\ t \in Tx /\ t.type = "transfer" /\ t.key.from = Ext
             /\ t.key.nonce = submits /\ Cardinality(P) = 1
             /\ \A v \in Accepted : ~SameTx(v, t)
  <2>1. PICK w \in Wallets : P = {PayIn(w)}
    BY <1>3
  <2>2. t = PayIn(w) /\ P = {t}
    BY <2>1
  <2>3. /\ t.type = "transfer" /\ t.key = [from |-> Ext, to |-> w, nonce |-> submits]
        /\ t = [type |-> "transfer", key |-> [from |-> Ext, to |-> w, nonce |-> submits]]
    BY <2>2 DEF PayIn, TransferOf
  <2>4. t.key.from = Ext /\ t.key.nonce = submits
    BY <2>3
  <2>5. t \in Tx
    BY <1>2, <2>3 DEF Tx, Body, Parties
  <2>6. ASSUME NEW v \in Accepted, SameTx(v, t)
        PROVE  FALSE
    <3>1. v.type = "transfer" /\ v.key.from = Ext /\ v.key.nonce = submits
      BY <2>3, <2>4, <2>6 DEF SameTx
    <3>2. v.key.nonce < submits
      BY <3>1 DEF Once, Numbered
    <3> QED
      BY <1>2, <3>1, <3>2
  <2>7. Cardinality(P) = 1
    BY <2>2, FS_Singleton
  <2> QED
    BY <2>2, <2>3, <2>4, <2>5, <2>6, <2>7
<1>4. P = {} => Cardinality(P) = 0
  BY FS_EmptySet
<1>5. submits' \in 0..MaxSubmits /\ submits <= submits' /\ submits' \in Nat
  BY <1>1, <1>2, <1>3, <1>4
<1>6. pool \cup P \subseteq Tx /\ IsFiniteSet(pool \cup P)
  <2>1. IsFiniteSet(pool)
    BY <1>2, PoolAccepted, FS_Subset
  <2>2. IsFiniteSet(P)
    BY FS_EmptySet, FS_Singleton
  <2> QED
    BY <1>2, <1>3, <2>1, <2>2, FS_Union
<1>7. b \in Block
  BY <1>2, <1>6 DEF Block
<1>8. /\ blocks' \in Seq(Block) /\ Len(blocks') = Len(blocks) + 1
      /\ \A h \in 1..Len(blocks) : blocks'[h] = blocks[h]
      /\ blocks'[Len(blocks) + 1] = b
  BY <1>1, <1>2, <1>7, AppendProperties DEF IsChain
<1>9. \A h \in 1..Len(blocks') : h \in 1..Len(blocks) \/ h = Len(blocks) + 1
  BY <1>2, <1>8
<1>10. b.txs = pool \cup P
  OBVIOUS
<1> HIDE DEF b
<1>11. IsChain(blocks')
  <2>1. Len(blocks') <= MaxBlocks
    BY <1>1, <1>2, <1>8
  <2>2. \A h \in 1..Len(blocks) : IsFiniteSet(blocks[h].txs)
    BY <1>2 DEF IsChain
  <2>3. \A h \in 1..Len(blocks') : IsFiniteSet(blocks'[h].txs)
    BY <1>6, <1>8, <1>9, <1>10, <2>2
  <2> QED
    BY <1>8, <2>1, <2>3 DEF IsChain
<1>12. Accepted' = Accepted \cup P
  <2>1. DOMAIN blocks = 1..Len(blocks) /\ DOMAIN blocks' = 1..Len(blocks')
    BY <1>2, <1>8, LenProperties DEF IsChain
  <2>2. ASSUME NEW x
        PROVE  x \in Accepted' <=> x \in Accepted \/ x \in P
    <3>1. x \in Accepted' <=> \E h \in 1..Len(blocks') : x \in blocks'[h].txs
      BY <1>1, <2>1 DEF Accepted
    <3>2. x \in Accepted <=> x \in pool \/ \E h \in 1..Len(blocks) : x \in blocks[h].txs
      BY <2>1 DEF Accepted
    <3>3. Len(blocks) + 1 \in 1..Len(blocks')
          /\ \A h \in 1..Len(blocks) : h \in 1..Len(blocks')
      BY <1>2, <1>8
    <3> QED
      BY <1>8, <1>9, <1>10, <3>1, <3>2, <3>3
  <2> QED
    BY <2>2
<1>13. IsFiniteSet(Accepted')
  <2>1. IsFiniteSet(P)
    BY FS_EmptySet, FS_Singleton
  <2> QED
    BY <1>2, <1>12, <2>1, FS_Union
<1>14. IsWorld(Now)' /\ Later(Now', Now)
  BY <1>1, <1>2, <1>8, <1>11, <1>12 DEF IsWorld, Now, Later
<1>15. Accounts'
  BY <1>1, <1>2, <1>5, <1>13, <1>14 DEF Accounts
<1>16. \A v \in Accepted' : Numbered(v)'
  <2>1. \A v \in Accepted : Numbered(v)
    BY DEF Once
  <2>2. \A v \in Accepted : v.type = "transfer" => v.key.nonce \in Nat
    BY AcceptedType DEF Tx, Body
  <2>3. CASE P = {}
    <3>1. Accepted' = Accepted /\ submits' = submits
      BY <1>1, <1>2, <1>4, <1>12, <2>3
    <3>2. \A w : Nonce(w)' = Nonce(w)
      BY <3>1 DEF Nonce
    <3> QED
      BY <2>1, <3>1, <3>2 DEF Numbered
  <2>4. CASE P # {}
    <3>1. PICK t : t \in P
      BY <2>4
    <3>2. /\ P = {t} /\ t.type = "transfer" /\ t.key.from = Ext /\ t.key.nonce = submits
          /\ submits' = submits + 1 /\ \A v \in Accepted : ~SameTx(v, t)
      BY <1>1, <1>3, <3>1
    <3>3. t \notin Accepted /\ Accepted' = Accepted \cup {t}
      BY <1>12, <3>2 DEF SameTx
    <3>4. \A v \in Accepted \cup {t} : v.type = "transfer" => v.key.nonce \in Nat
      BY <1>2, <2>2, <3>2
    <3> QED
      BY <1>5, <2>1, <3>2, <3>3, <3>4, StillNumbered
  <2> QED
    BY <2>3, <2>4
<1>17. OnChainOnce(blocks')
  <2> SUFFICES ASSUME NEW h \in 1..Len(blocks'), NEW k \in 1..Len(blocks'),
                      NEW t \in blocks'[h].txs, NEW u \in blocks'[k].txs,
                      SameTx(t, u)
               PROVE  h = k
    BY DEF OnChainOnce
  <2>1. ASSUME NEW i \in 1..Len(blocks), NEW v \in blocks[i].txs, NEW x \in b.txs
        PROVE  ~SameTx(v, x)
    BY <1>2, <1>3, <1>10, BlockAccepted DEF Once
  <2>2. SameTx(u, t)
    BY DEF SameTx
  <2>3. CASE h \in 1..Len(blocks) /\ k \in 1..Len(blocks)
    BY <1>8, <2>3 DEF Once, OnChainOnce
  <2>4. CASE h \in 1..Len(blocks) /\ k = Len(blocks) + 1
    BY <1>8, <2>1, <2>4
  <2>5. CASE h = Len(blocks) + 1 /\ k \in 1..Len(blocks)
    BY <1>8, <2>1, <2>2, <2>5
  <2> QED
    BY <1>9, <2>3, <2>4, <2>5
<1>18. Once'
  BY <1>1, <1>16, <1>17 DEF Once
<1> QED
  BY <1>14, <1>15, <1>18

-----------------------------------------------------------------------------
(* The history is an invariant.                                                *)

LEMMA OnwardTransitive ==
    ASSUME NEW u, NEW a, NEW b, NEW c, Told(a, u), Told(b, u), NEW v, Told(c, v),
           Forward(b, a), Onward(b, a), Onward(c, b)
    PROVE  Onward(c, a)
<1>1. /\ a.txs \in Seq(TxRecords) /\ b.txs \in Seq(TxRecords) /\ c.txs \in Seq(TxRecords)
      /\ Len(a.txs) \in Nat /\ Len(b.txs) \in Nat /\ Len(c.txs) \in Nat
      /\ a.head \in Int /\ b.head \in Int /\ c.head \in Int
  BY LenProperties DEF Told, Numbers, NoHead
<1>2. a.head <= c.head
  BY <1>1 DEF Onward
<1>3. \A j \in 1..Len(a.mints) : MintOnward(c.mints[j], a.mints[j])
  <2> SUFFICES ASSUME NEW j \in 1..Len(a.mints)
               PROVE  MintOnward(c.mints[j], a.mints[j])
    OBVIOUS
  <2>1. MintOnward(b.mints[j], a.mints[j]) /\ j \in 1..Len(b.mints)
    BY DEF Onward, Forward
  <2>2. MintOnward(c.mints[j], b.mints[j])
    BY <2>1 DEF Onward
  <2> QED
    BY <2>1, <2>2 DEF MintOnward
<1>4. TxsOnward(c.txs, a.txs)
  <2>1. Len(a.txs) <= Len(b.txs) /\ Len(b.txs) <= Len(c.txs)
    BY DEF Onward, TxsOnward
  <2>2. ASSUME NEW j \in 1..Len(a.txs)
        PROVE  RecordOnward(c.txs[j], a.txs[j])
    <3>1. j \in 1..Len(b.txs) /\ j \in 1..Len(c.txs)
      BY <1>1, <2>1
    <3>2. a.txs[j] \in TxRecords /\ b.txs[j] \in TxRecords /\ c.txs[j] \in TxRecords
      BY <1>1, <3>1, ElementOfSeq
    <3>3. RecordOnward(b.txs[j], a.txs[j]) /\ RecordOnward(c.txs[j], b.txs[j])
      BY <3>1 DEF Onward, TxsOnward
    <3> QED
      BY <3>2, <3>3, OnwardRecords
  <2> QED
    BY <1>1, <2>1, <2>2 DEF TxsOnward
<1> QED
  BY <1>2, <1>3, <1>4 DEF Onward

\* The world goes on, the files stay, and commands may die.
LEMMA HistoryGoes ==
    ASSUME HInv, Accounts', Once', Later(Now', Now), file' = file,
           \A c \in Slots : cmd'[c] = cmd[c] \/ cmd'[c] = Idle,
           current' = current \/ Overlap \/ \A c \in Slots : cmd'[c] = Idle
    PROVE  HInv'
<1>1. IsWorld(Now) /\ IsWorld(Now')
  BY DEF HInv, Accounts
<1>2. \A wf : Told(wf, Now) => Told(wf, Now')
  BY <1>1, ToldLater
<1>3. \A w \in DOMAIN file' : Told(file'[w], Now')
  BY <1>2 DEF HInv
<1>4. ASSUME NEW c \in Slots, cmd'[c] # Idle
      PROVE  /\ Told(cmd'[c].wf, Now') /\ Inputs(cmd'[c])
             /\ ~Overlap => Onward(cmd'[c].wf, file'[current'])
  <2>1. cmd'[c] = cmd[c] /\ cmd[c] # Idle
    BY <1>4
  <2>2. ~Overlap => current' = current
    BY <1>4
  <2> QED
    BY <1>2, <2>1, <2>2 DEF HInv
<1> QED
  BY <1>3, <1>4 DEF HInv, Inputs

\* A command starts, takes a step or ends.
LEMMA HistoryWorks ==
    ASSUME IInv, HInv, NEW c \in Slots, NEW x, cmd' = [cmd EXCEPT ![c] = x],
           UNCHANGED <<file, current>>, Accounts', Once', Later(Now', Now),
           x # Idle => /\ Told(x.wf, Now') /\ Inputs(x)
                       /\ ~Overlap => Onward(x.wf, file[current])
    PROVE  HInv'
<1>1. IsWorld(Now) /\ IsWorld(Now')
  BY DEF HInv, Accounts
<1>2. \A wf : Told(wf, Now) => Told(wf, Now')
  BY <1>1, ToldLater
<1>3. \A w \in DOMAIN file' : Told(file'[w], Now')
  BY <1>2 DEF HInv
<1>4. \A e \in Slots : cmd'[e] = IF e = c THEN x ELSE cmd[e]
  BY DEF IInv, Commands
<1>5. ASSUME NEW e \in Slots, cmd'[e] # Idle
      PROVE  /\ Told(cmd'[e].wf, Now') /\ Inputs(cmd'[e])
             /\ ~Overlap => Onward(cmd'[e].wf, file'[current'])
  <2>1. CASE e = c
    BY <1>4, <1>5, <2>1
  <2>2. CASE e # c
    BY <1>2, <1>4, <1>5, <2>2 DEF HInv
  <2> QED
    BY <2>1, <2>2
<1> QED
  BY <1>3, <1>5 DEF HInv, Inputs

\* The copy of a command in flight.
LEMMA CopyTold ==
    ASSUME IInv, HInv, NEW c \in Slots, cmd[c] # Idle
    PROVE  /\ Told(cmd[c].wf, Now) /\ GoodFile(cmd[c].wf, deposit)
           /\ ~Overlap => /\ current \in DOMAIN file /\ Told(file[current], Now)
                          /\ Forward(cmd[c].wf, file[current])
                          /\ Onward(cmd[c].wf, file[current])
<1>1. Told(cmd[c].wf, Now) /\ GoodFile(cmd[c].wf, deposit)
  BY DEF IInv, HInv, Commands, InFlight
<1>2. ASSUME ~Overlap
      PROVE  /\ current \in DOMAIN file /\ Told(file[current], Now)
             /\ Forward(cmd[c].wf, file[current])
             /\ Onward(cmd[c].wf, file[current])
  <2>1. Ahead(cmd[c])
    BY <1>2 DEF IInv, Alone
  <2>2. current \in DOMAIN file
    BY <2>1 DEF IInv, Session, Ahead
  <2> QED
    BY <1>2, <2>1, <2>2 DEF HInv, Ahead
<1> QED
  BY <1>1, <1>2

\* A command that changed its copy.
LEMMA CopyWorks ==
    ASSUME IInv, HInv, NEW c \in Slots, cmd[c] # Idle, NEW wf, Works(c, wf),
           Told(wf, Now'), Onward(wf, cmd[c].wf),
           UNCHANGED <<file, current>>, Accounts', Once', Later(Now', Now)
    PROVE  HInv'
<1> DEFINE x == Command(cmd[c].op, wf, cmd[c].arg, 0, "save")
<1>1. cmd' = [cmd EXCEPT ![c] = x]
  BY DEF Works
<1>2. x.wf = wf /\ x.step = "save"
  BY DEF Command
<1> HIDE DEF x
<1>3. Inputs(x)
  BY <1>2 DEF Inputs
<1>4. ASSUME ~Overlap
      PROVE  Onward(wf, file[current])
  BY <1>4, CopyTold, OnwardTransitive
<1> QED
  BY <1>1, <1>2, <1>3, <1>4, HistoryWorks

\* A command that works on a copy it loads.
LEMMA CopyLoads ==
    ASSUME IInv, HInv, NEW c \in Slots, NEW x, Starts(c, x), Inputs(x),
           Told(x.wf, Now), Onward(x.wf, load_current)
    PROVE  HInv'
<1>1. /\ UNCHANGED <<l1Tip, deposit, broadcast, spentAt, pool, blocks, submits,
                     file, current, unlocked>>
      /\ cmd' = [cmd EXCEPT ![c] = x]
  BY DEF Starts, l1Vars, seqVars, session
<1>2. Accounts' /\ Once' /\ Now' = Now /\ Later(Now', Now)
  BY <1>1, WorldStays DEF HInv, Accounts
<1>3. Told(x.wf, Now')
  BY <1>2
<1> QED
  BY <1>1, <1>2, <1>3, HistoryWorks DEF load_current

LEMMA InitHistory == Init => HInv
<1> SUFFICES ASSUME Init
             PROVE  HInv
  OBVIOUS
<1>1. /\ blocks = <<>> /\ blocks \in Seq(Block) /\ Len(blocks) = 0
  BY EmptySeq DEF Init
<1>2. Accepted = {}
  <2>1. DOMAIN blocks = {} /\ pool = {}
    BY <1>1, LenProperties DEF Init
  <2> QED
    BY <2>1 DEF Accepted
<1>3. {MaxTip, MaxBlocks, MaxSubmits} \subseteq Nat
  BY WalletAssumption
<1>4. IsWorld(Now)
  <2>1. IsChain(blocks)
    BY <1>1, <1>3 DEF IsChain
  <2> QED
    BY <1>3, <2>1 DEF Init, IsWorld, Now
<1>5. Accounts
  BY <1>2, <1>3, <1>4, FS_EmptySet DEF Init, Accounts
<1>6. Once
  BY <1>1, <1>2 DEF Init, Once, OnChainOnce
<1>7. DOMAIN file = {} /\ \A c \in Slots : cmd[c] = Idle
  BY DEF Init
<1> QED
  BY <1>5, <1>6, <1>7 DEF HInv

LEMMA StartsHistory ==
    ASSUME IInv, HInv, NEW c \in Slots, CommandStarts(c)
    PROVE  HInv'
<1>0. ASSUME CanLoad
      PROVE  /\ GoodFile(load_current, deposit) /\ Told(load_current, Now)
             /\ Onward(load_current, load_current)
  <2>1. GoodFile(load_current, deposit) /\ current # NoWallet
    BY <1>0, Loaded
  <2>2. current \in DOMAIN file
    BY <2>1 DEF IInv, Session
  <2>3. Told(load_current, Now)
    BY <2>2 DEF HInv, load_current
  <2> QED
    BY <2>1, <2>3, OnwardReflexive
<1>1. ASSUME NEW op \in {"check", "mint", "transfer", "light", "reclaim"}, NEW arg,
             NEW step \in {"ask", "save"}, CanLoad,
             Starts(c, Command(op, load_current, arg, 0, step)),
             op = "mint" => arg[2] \in Parties,
             op = "transfer" => arg \in Parties
      PROVE  HInv'
  <2> DEFINE x == Command(op, load_current, arg, 0, step)
  <2>1. /\ x.op = op /\ x.wf = load_current /\ x.arg = arg /\ x.step = step
        /\ Starts(c, x)
    BY <1>1 DEF Command
  <2> HIDE DEF x
  <2>2. Inputs(x)
    BY <1>1, <2>1 DEF Inputs
  <2>3. Told(x.wf, Now) /\ Onward(x.wf, load_current)
    BY <1>0, <1>1, <2>1
  <2> QED
    BY <2>1, <2>2, <2>3, CopyLoads
<1>2. ASSUME NEW lock \in Locks, MintUtxo(c, lock)
      PROVE  HInv'
  <2> DEFINE x == Command("mint_utxo", mint_utxo(load_current, lock),
                          load_current.next_mint_index, 0, "save")
  <2>1. /\ x.wf = mint_utxo(load_current, lock) /\ x.step = "save" /\ Starts(c, x)
    BY <1>2 DEF MintUtxo, Command
  <2> HIDE DEF x
  <2>2. CanLoad /\ load_current.next_mint_index < MaxKeys
    BY <1>2 DEF MintUtxo
  <2>3. Told(x.wf, Now) /\ Onward(x.wf, load_current)
    BY <1>0, <2>1, <2>2, MintUtxoTold DEF HInv, Accounts
  <2>4. Inputs(x)
    BY <2>1 DEF Inputs
  <2> QED
    BY <2>1, <2>3, <2>4, CopyLoads
<1>3. ASSUME NEW i, CheckFunding(c, i)
      PROVE  HInv'
  BY <1>1, <1>3 DEF CheckFunding
<1>4. ASSUME NEW i, Reclaim(c, i)
      PROVE  HInv'
  BY <1>1, <1>4 DEF Reclaim
<1>5. ASSUME NEW i, NEW to \in Dests, MintMessage(c, i, to)
      PROVE  HInv'
  <2>1. <<i, to>>[2] = to /\ to \in Parties
    BY WalletAssumption DEF Parties
  <2> QED
    BY <1>1, <1>5, <2>1 DEF MintMessage
<1>6. ASSUME NEW to \in Dests, Transfer(c, to)
      PROVE  HInv'
  <2>1. to \in Parties
    BY WalletAssumption DEF Parties
  <2> QED
    BY <1>1, <1>6, <2>1 DEF Transfer
<1>7. ASSUME LightBalance(c)
      PROVE  HInv'
  BY <1>1, <1>7 DEF LightBalance
<1> QED
  BY <1>2, <1>3, <1>4, <1>5, <1>6, <1>7 DEF CommandStarts

\* A command reads, works or ends, and the world stays.
LEMMA ReadsHistory ==
    ASSUME IInv, HInv, NEW c \in Slots, ReadsTip(c) \/ ReadsNonce(c)
    PROVE  HInv'
<1>1. UNCHANGED <<l1Tip, deposit, broadcast, spentAt, pool, blocks, submits,
                  file, current, unlocked>>
  BY DEF ReadsTip, ReadsNonce, l1Vars, seqVars, session
<1>2. Accounts' /\ Once' /\ Now' = Now /\ Later(Now', Now)
  BY <1>1, WorldStays DEF HInv, Accounts
<1>3. /\ cmd[c] # Idle /\ cmd[c].step = "ask"
      /\ \/ cmd[c].op = "mint" /\ Reads(c, l1Tip)
         \/ cmd[c].op = "transfer" /\ Reads(c, Nonce(cmd[c].wf.seed))
  BY DEF ReadsTip, ReadsNonce, At
<1>4. PICK value : /\ Reads(c, value)
                   /\ cmd[c].op = "transfer" => value = Nonce(cmd[c].wf.seed)
  BY <1>3
<1>5. cmd[c].op = "transfer" => value \in Nat
  BY <1>4, NonceType DEF HInv, Accounts
<1> DEFINE x == Command(cmd[c].op, cmd[c].wf, cmd[c].arg, value, "act")
<1>6. cmd' = [cmd EXCEPT ![c] = x]
  BY <1>4 DEF Reads
<1>7. x.op = cmd[c].op /\ x.wf = cmd[c].wf /\ x.arg = cmd[c].arg /\ x.read = value
  BY DEF Command
<1> HIDE DEF x
<1>8. Inputs(x)
  BY <1>3, <1>5, <1>7 DEF HInv, Inputs
<1>9. Told(x.wf, Now') /\ (~Overlap => Onward(x.wf, file[current]))
  BY <1>2, <1>3, <1>7, CopyTold
<1> QED
  BY <1>1, <1>2, <1>6, <1>8, <1>9, HistoryWorks

LEMMA FundingHistory ==
    ASSUME IInv, HInv, NEW c \in Slots, FundingAnswer(c)
    PROVE  HInv'
<1> DEFINE wf == cmd[c].wf
           i == cmd[c].arg
           h == deposit[AddressAt(wf, i)]
<1>1. /\ cmd[c] # Idle /\ GoodFile(wf, deposit) /\ HasMint(wf, i)
  BY Steps DEF FundingAnswer
<1>2. UNCHANGED <<l1Tip, deposit, broadcast, spentAt, pool, blocks, submits,
                  file, current, unlocked>>
  BY DEF FundingAnswer, l1Vars, seqVars, session
<1>3. Accounts' /\ Once' /\ Now' = Now /\ Later(Now', Now)
  BY <1>2, WorldStays DEF HInv, Accounts
<1>4. Told(wf, Now) /\ Onward(wf, wf)
  BY <1>1, CopyTold, OnwardReflexive
<1>5. CASE Works(c, wf)
  BY <1>1, <1>2, <1>3, <1>4, <1>5, CopyWorks
<1>6. CASE h # 0 /\ Works(c, Funded(wf, i, h))
  <2>1. h \in 0..MaxTip /\ Now.dep = deposit /\ IsWorld(Now)
    <3>1. AddressAt(wf, i) \in Address
      BY <1>1, MintFound DEF GoodFile
    <3>2. /\ deposit \in [Address -> 0..l1Tip] /\ l1Tip \in 0..MaxTip
          /\ Now.dep = deposit /\ IsWorld(Now) /\ MaxTip \in Nat
      BY WalletAssumption DEF HInv, Accounts, IsWorld, Now
    <3>3. h \in 0..l1Tip
      BY <3>1, <3>2
    <3> QED
      BY <3>2, <3>3
  <2> HIDE DEF h
  <2>2. h = Now.dep[AddressAt(wf, i)]
    BY <2>1 DEF h
  <2>3. Told(Funded(wf, i, h), Now) /\ Onward(Funded(wf, i, h), wf)
    BY <1>1, <1>4, <1>6, <2>1, <2>2, FundedTold
  <2> QED
    BY <1>1, <1>2, <1>3, <1>6, <2>3, CopyWorks
<1> QED
  BY <1>5, <1>6 DEF FundingAnswer

LEMMA WalksHistory ==
    ASSUME IInv, HInv, NEW c \in Slots, Walks(c)
    PROVE  HInv'
<1> DEFINE wf == cmd[c].wf
           new == finalize_and_refresh(Walk(wf), l1Tip)
<1>1. cmd[c] # Idle /\ GoodFile(wf, deposit)
  BY Steps DEF Walks
<1>2. UNCHANGED <<l1Tip, deposit, broadcast, spentAt, pool, blocks, submits,
                  file, current, unlocked>> /\ Works(c, new)
  BY DEF Walks, l1Vars, seqVars, session
<1>3. Accounts' /\ Once' /\ Now' = Now /\ Later(Now', Now)
  BY <1>2, WorldStays DEF HInv, Accounts
<1>4. Told(new, Now) /\ Onward(new, wf)
  BY <1>1, CopyTold, WalkTold DEF HInv, Accounts, Once
<1> HIDE DEF new
<1> QED
  BY <1>1, <1>2, <1>3, <1>4, CopyWorks

LEMMA SubmitsAnyway ==
    ASSUME HInv, submits' = submits + 1, submits < MaxSubmits,
           UNCHANGED <<l1Tip, deposit, broadcast, spentAt, pool, blocks, unlocked>>
    PROVE  Accounts' /\ Once' /\ Later(Now', Now)
<1>1. /\ submits \in Nat /\ MaxSubmits \in Nat /\ l1Tip \in 0..MaxTip
      /\ deposit \in [Address -> 0..l1Tip] /\ spentAt \in [Address -> 0..l1Tip]
      /\ broadcast \subseteq Address /\ Accounts /\ Once
  BY WalletAssumption DEF HInv, Accounts, IsWorld, Now
<1>2. submits' \in 0..MaxSubmits /\ submits <= submits' /\ l1Tip <= l1Tip
  BY <1>1
<1> QED
  BY <1>1, <1>2, L1Goes

LEMMA SubmitMintHistory ==
    ASSUME IInv, HInv, NEW c \in Slots, SubmitMint(c)
    PROVE  HInv'
<1> DEFINE wf == cmd[c].wf
           i == cmd[c].arg[1]
           a == AddressAt(wf, i)
           t == MintOf(a, cmd[c].arg[2])
           accepted == /\ \A v \in Accepted : v.type = "mint" => v.key # a
                       /\ spentAt[a] = 0
                       /\ cmd[c].read < deposit[a] + a.lock
<1>1. /\ cmd[c] # Idle /\ cmd[c].op = "mint" /\ cmd[c].step # "save"
      /\ GoodFile(wf, deposit) /\ HasMint(wf, i)
  BY Steps DEF SubmitMint
<1>2. /\ submits < MaxSubmits /\ submits' = submits + 1
      /\ pool' = IF accepted THEN pool \cup {t} ELSE pool
      /\ Works(c, MintSent(wf, i, accepted))
      /\ UNCHANGED <<l1Tip, deposit, broadcast, spentAt, blocks, file, current, unlocked>>
  BY DEF SubmitMint, l1Vars, session
<1>3. accepted => \A v \in Accepted : v.type = "mint" => v.key # a
  OBVIOUS
<1>4. accepted \in BOOLEAN
  OBVIOUS
<1> HIDE DEF accepted
<1>5. /\ Told(wf, Now) /\ cmd[c].arg[2] \in Parties
      /\ a \in Address /\ submits \in Nat /\ MaxSubmits \in Nat
  <2>1. Inputs(cmd[c])
    BY <1>1 DEF HInv
  <2> QED
    BY <1>1, <2>1, CopyTold, MintFound, WalletAssumption
    DEF Inputs, GoodFile, HInv, Accounts
<1>6. /\ Accounts' /\ Once' /\ Later(Now', Now)
      /\ accepted => t \in Accepted'
  <2>1. CASE accepted
    <3>1. t \in Tx /\ t.type = "mint" /\ t.key = a
      BY <1>5 DEF MintOf, Tx
    <3>2. \A v \in Accepted : ~SameTx(v, t)
      BY <1>3, <2>1, <3>1 DEF SameTx
    <3>3. pool' = pool \cup {t} /\ submits' <= MaxSubmits
      BY <1>2, <1>5, <2>1
    <3> HIDE DEF t
    <3> QED
      BY <1>2, <3>1, <3>2, <3>3, Accepts DEF HInv
  <2>2. CASE ~accepted
    BY <1>2, <2>2, SubmitsAnyway
  <2> QED
    BY <2>1, <2>2
<1>7. IsWorld(Now) /\ IsWorld(Now')
  BY <1>6 DEF HInv, Accounts
<1>8. Told(wf, Now')
  BY <1>5, <1>6, <1>7, ToldLater
<1>9. accepted => \E v \in Now'.acc : v.type = "mint" /\ v.key = a
  <2>1. Now'.acc = Accepted' /\ t.type = "mint" /\ t.key = a
    BY DEF Now, MintOf
  <2> QED
    BY <1>6, <2>1
<1>10. /\ Told(MintSent(wf, i, accepted), Now')
       /\ Onward(MintSent(wf, i, accepted), wf)
  BY <1>1, <1>4, <1>7, <1>8, <1>9, MintSentTold
<1> QED
  BY <1>1, <1>2, <1>6, <1>10, CopyWorks

LEMMA SubmitTransferHistory ==
    ASSUME IInv, HInv, NEW c \in Slots, NEW funds \in BOOLEAN, SubmitTransfer(c, funds)
    PROVE  HInv'
<1> DEFINE wf == cmd[c].wf
           body == [from |-> wf.seed, to |-> cmd[c].arg, nonce |-> cmd[c].read]
           t == TransferOf(body)
           accepted == funds /\ body.nonce = Nonce(wf.seed)
<1>1. /\ cmd[c] # Idle /\ cmd[c].op = "transfer" /\ cmd[c].step = "act"
      /\ GoodFile(wf, deposit)
  BY Steps DEF SubmitTransfer, At
<1>2. /\ submits < MaxSubmits /\ submits' = submits + 1
      /\ pool' = IF accepted THEN pool \cup {t} ELSE pool
      /\ Works(c, TransferSent(wf, body, accepted))
      /\ UNCHANGED <<l1Tip, deposit, broadcast, spentAt, blocks, file, current, unlocked>>
  BY DEF SubmitTransfer, l1Vars, session
<1>3. accepted => cmd[c].read = Nonce(wf.seed)
  OBVIOUS
<1>4. accepted \in BOOLEAN
  OBVIOUS
<1> HIDE DEF accepted
<1>5. /\ Told(wf, Now) /\ cmd[c].arg \in Parties /\ cmd[c].read \in Nat
      /\ wf.seed \in Wallets /\ submits \in Nat /\ MaxSubmits \in Nat
      /\ Accounts /\ Once
  <2>1. Inputs(cmd[c])
    BY <1>1 DEF HInv
  <2> QED
    BY <1>1, <2>1, CopyTold, WalletAssumption
    DEF Inputs, GoodFile, IsFile, HInv, Accounts
<1>6. body \in Body /\ wf.seed # Ext
  BY <1>5, WalletAssumption DEF Body, Parties
<1>7. Accounts' /\ Once' /\ Later(Now', Now)
  <2>1. CASE accepted
    <3>1. /\ t \in Tx /\ t.type = "transfer" /\ t.key = body /\ t.key.from = wf.seed
          /\ t.key.nonce = cmd[c].read
      BY <1>6 DEF TransferOf, Tx
    <3> HIDE DEF t, body
    <3>2. ASSUME NEW v \in Accepted, SameTx(v, t)
          PROVE  FALSE
      <4>1. v.type = "transfer" /\ v.key.from = wf.seed /\ v.key.nonce = cmd[c].read
        BY <3>1, <3>2 DEF SameTx
      <4>2. v.key.nonce < Nonce(wf.seed)
        BY <1>5, <1>6, <4>1 DEF Once, Numbered
      <4> QED
        BY <1>3, <1>5, <2>1, <4>1, <4>2
    <3>3. pool' = pool \cup {t} /\ submits' <= MaxSubmits
      BY <1>2, <1>5, <2>1
    <3>4. t.key.from # Ext /\ t.key.nonce = Nonce(t.key.from)
      BY <1>3, <1>6, <2>1, <3>1
    <3> QED
      BY <1>2, <1>5, <3>1, <3>2, <3>3, <3>4, Accepts
  <2>2. CASE ~accepted
    BY <1>2, <2>2, SubmitsAnyway
  <2> QED
    BY <2>1, <2>2
<1>8. IsWorld(Now) /\ IsWorld(Now')
  BY <1>7 DEF HInv, Accounts
<1>9. Told(wf, Now')
  BY <1>5, <1>7, <1>8, ToldLater
<1> HIDE DEF body
<1>10. /\ Told(TransferSent(wf, body, accepted), Now')
       /\ Onward(TransferSent(wf, body, accepted), wf)
  BY <1>1, <1>4, <1>6, <1>8, <1>9, TransferSentTold
<1> QED
  BY <1>1, <1>2, <1>7, <1>10, CopyWorks

LEMMA BroadcastHistory ==
    ASSUME IInv, HInv, NEW c \in Slots, Broadcast(c)
    PROVE  HInv'
<1> DEFINE wf == cmd[c].wf
           i == cmd[c].arg
           a == AddressAt(wf, i)
<1>1. /\ cmd[c] # Idle /\ GoodFile(wf, deposit) /\ HasMint(wf, i)
  BY Steps DEF Broadcast
<1>2. UNCHANGED <<l1Tip, deposit, spentAt, pool, blocks, submits, file, current, unlocked>>
  BY DEF Broadcast, seqVars, session
<1>3. \/ UNCHANGED broadcast /\ Ends(c)
      \/ /\ ReclaimStatus(MintAt(wf, i), l1Tip) = "Ready"
         /\ broadcast' = broadcast \cup {a} /\ Works(c, Reclaimed(wf, i))
  BY DEF Broadcast
<1>4. /\ l1Tip \in 0..MaxTip /\ l1Tip <= l1Tip /\ submits <= submits
      /\ submits \in 0..MaxSubmits
      /\ deposit \in [Address -> 0..l1Tip] /\ spentAt \in [Address -> 0..l1Tip]
      /\ broadcast \subseteq Address /\ Accounts /\ Once /\ MaxSubmits \in Nat
      /\ Told(wf, Now) /\ a \in Address
  BY <1>1, CopyTold, MintFound, WalletAssumption
  DEF HInv, Accounts, IsWorld, Now, GoodFile
<1>5. broadcast \subseteq broadcast' /\ broadcast' \subseteq Address
  BY <1>3, <1>4
<1>6. Accounts' /\ Once' /\ Later(Now', Now)
  BY <1>2, <1>4, <1>5, L1Goes
<1>7. IsWorld(Now) /\ IsWorld(Now')
  BY <1>6 DEF HInv, Accounts
<1>8. Told(wf, Now')
  BY <1>4, <1>6, <1>7, ToldLater
<1>9. CASE Ends(c)
  BY <1>2, <1>6, <1>9, HistoryWorks DEF Ends
<1>10. CASE /\ ReclaimStatus(MintAt(wf, i), l1Tip) = "Ready"
            /\ broadcast' = broadcast \cup {a} /\ Works(c, Reclaimed(wf, i))
  <2>1. ~MintAt(wf, i).reclaimed
    BY <1>10 DEF ReclaimStatus
  <2>2. a \in Now'.bcast
    BY <1>10 DEF Now
  <2>3. Told(Reclaimed(wf, i), Now') /\ Onward(Reclaimed(wf, i), wf)
    BY <1>1, <1>7, <1>8, <2>1, <2>2, ReclaimedTold
  <2> QED
    BY <1>1, <1>2, <1>6, <1>10, <2>3, CopyWorks
<1> QED
  BY <1>3, <1>9, <1>10

LEMMA SaveHistory ==
    ASSUME IInv, HInv, NEW c \in Slots, save_current(c)
    PROVE  HInv'
<1>1. /\ cmd[c] # Idle /\ cmd' = [cmd EXCEPT ![c] = Idle]
      /\ UNCHANGED <<l1Tip, deposit, broadcast, spentAt, pool, blocks, submits,
                     current, unlocked>>
      /\ \/ file' = file
         \/ current # NoWallet /\ file' = [file EXCEPT ![current] = cmd[c].wf]
  BY DEF save_current, Ends, l1Vars, seqVars, session
<1>2. Accounts' /\ Once' /\ Now' = Now /\ Later(Now', Now)
  BY <1>1, WorldStays DEF HInv, Accounts
<1>3. \A e \in Slots : cmd'[e] = IF e = c THEN Idle ELSE cmd[e]
  BY <1>1 DEF IInv, Commands
<1>4. \A w \in DOMAIN file' : Told(file'[w], Now')
  <2>1. \A w \in DOMAIN file' : w \in DOMAIN file /\ file'[w] \in {file[w], cmd[c].wf}
    BY <1>1
  <2> QED
    BY <1>1, <1>2, <2>1, CopyTold DEF HInv
<1>5. ASSUME NEW e \in Slots, cmd'[e] # Idle
      PROVE  /\ Told(cmd'[e].wf, Now') /\ Inputs(cmd'[e])
             /\ ~Overlap => Onward(cmd'[e].wf, file'[current'])
  <2>1. e # c /\ cmd'[e] = cmd[e] /\ cmd[e] # Idle
    BY <1>3, <1>5
  <2>2. Overlap
    BY <1>1, <2>1 DEF IInv, Alone, OneAtATime
  <2> QED
    BY <1>2, <2>1, <2>2 DEF HInv
<1> QED
  BY <1>2, <1>4, <1>5 DEF HInv, Inputs

LEMMA KeygenHistory ==
    ASSUME IInv, HInv, NEW w \in Wallets, Keygen(w)
    PROVE  HInv'
<1>1. /\ UNCHANGED <<l1Tip, deposit, broadcast, spentAt, pool, blocks, submits, cmd>>
      /\ DOMAIN file' = DOMAIN file \cup {w} /\ MayStart
      /\ \A v \in DOMAIN file' : file'[v] = IF v = w THEN keygen(w) ELSE file[v]
      /\ unlocked' = unlocked \cup {w} \/ unlocked' = unlocked
  BY DEF Keygen, l1Vars, seqVars
<1>2. Accounts' /\ Once' /\ Now' = Now /\ Later(Now', Now)
  <2>1. unlocked' \subseteq Wallets
    BY <1>1 DEF HInv, Accounts
  <2> QED
    BY <1>1, <2>1, WorldStays DEF HInv
<1>3. Told(keygen(w), Now)
  BY KeygenTold DEF HInv, Accounts
<1>4. \A v \in DOMAIN file' : Told(file'[v], Now')
  BY <1>1, <1>2, <1>3 DEF HInv
<1>5. ASSUME NEW e \in Slots, cmd'[e] # Idle
      PROVE  /\ Told(cmd'[e].wf, Now') /\ Inputs(cmd'[e])
             /\ ~Overlap => Onward(cmd'[e].wf, file'[current'])
  BY <1>1, <1>2, <1>5 DEF HInv, MayStart, AllIdle
<1> QED
  BY <1>2, <1>4, <1>5 DEF HInv, Inputs

LEMMA SessionHistory ==
    ASSUME IInv, HInv, (\E w \in Wallets : select(w)) \/ deselect \/ Crash
    PROVE  HInv'
<1>1. /\ UNCHANGED <<l1Tip, deposit, broadcast, spentAt, pool, blocks, submits, file>>
      /\ \A c \in Slots : cmd'[c] = cmd[c] \/ cmd'[c] = Idle
      /\ Overlap \/ \A c \in Slots : cmd'[c] = Idle
  BY DEF select, deselect, Crash, l1Vars, seqVars, MayStart, AllIdle
<1>2. unlocked' \subseteq Wallets
  BY DEF select, deselect, evict, Crash, HInv, Accounts
<1>3. Accounts' /\ Once' /\ Later(Now', Now)
  BY <1>1, <1>2, WorldStays DEF HInv
<1> QED
  BY <1>1, <1>3, HistoryGoes

LEMMA L1History ==
    ASSUME IInv, HInv,
           \/ NewL1Block
           \/ \E a \in Range(shown) : Deposit(a)
           \/ \E a \in broadcast : ConfirmReclaim(a)
    PROVE  HInv'
<1>1. /\ l1Tip \in 0..MaxTip /\ MaxTip \in Nat
      /\ deposit \in [Address -> 0..l1Tip] /\ spentAt \in [Address -> 0..l1Tip]
      /\ broadcast \subseteq Address /\ submits \in 0..MaxSubmits /\ submits <= submits
      /\ MaxSubmits \in Nat /\ Accounts /\ Once
  BY WalletAssumption DEF HInv, Accounts, IsWorld, Now
<1>2. /\ UNCHANGED <<pool, blocks, unlocked, submits, broadcast, file, current, cmd>>
      /\ l1Tip' = l1Tip + 1 /\ l1Tip < MaxTip
  BY DEF NewL1Block, Deposit, ConfirmReclaim, seqVars, session
<1>3. l1Tip' \in 0..MaxTip /\ l1Tip <= l1Tip' /\ l1Tip' \in 0..l1Tip'
  BY <1>1, <1>2
<1>4. \A n \in 0..l1Tip : n \in 0..l1Tip'
  BY <1>1, <1>2
<1>5. /\ deposit' \in [Address -> 0..l1Tip']
      /\ \A a \in Address : deposit[a] # 0 => deposit'[a] = deposit[a]
  <2>1. \/ deposit' = deposit
        \/ \E a : deposit[a] = 0 /\ deposit' = [deposit EXCEPT ![a] = l1Tip']
    BY <1>2 DEF NewL1Block, Deposit, ConfirmReclaim
  <2> QED
    BY <1>1, <1>3, <1>4, <2>1
<1>6. /\ spentAt' \in [Address -> 0..l1Tip']
      /\ \A a \in Address : spentAt[a] # 0 => spentAt'[a] = spentAt[a]
  <2>1. \/ spentAt' = spentAt
        \/ \E a : spentAt[a] = 0 /\ spentAt' = [spentAt EXCEPT ![a] = l1Tip']
    BY <1>2 DEF NewL1Block, Deposit, ConfirmReclaim
  <2> QED
    BY <1>1, <1>3, <1>4, <2>1
<1>7. Accounts' /\ Once' /\ Later(Now', Now)
  BY <1>1, <1>2, <1>3, <1>5, <1>6, L1Goes
<1> QED
  BY <1>2, <1>7, HistoryGoes

LEMMA NextHistory == IInv /\ HInv /\ [Next]_vars => HInv'
<1> SUFFICES ASSUME IInv, HInv, [Next]_vars
             PROVE  HInv'
  OBVIOUS
<1>1. CASE NewL1Block \/ (\E a \in Range(shown) : Deposit(a))
           \/ (\E a \in broadcast : ConfirmReclaim(a))
  BY <1>1, L1History
<1>2. ASSUME NEW P, P = {} \/ \E w \in Wallets : P = {PayIn(w)}, AttestBlock(P)
      PROVE  HInv'
  <2>1. Accounts' /\ Once' /\ Later(Now', Now)
    BY <1>2, Attests DEF HInv
  <2>2. UNCHANGED <<file, cmd, current>>
    BY <1>2 DEF AttestBlock, session
  <2> QED
    BY <2>1, <2>2, HistoryGoes
<1>3. CASE \E w \in Wallets : Keygen(w)
  BY <1>3, KeygenHistory
<1>4. CASE (\E w \in Wallets : select(w)) \/ deselect \/ Crash
  BY <1>4, SessionHistory
<1>5. ASSUME NEW c \in Slots, CommandSteps(c)
      PROVE  HInv'
  <2>1. ASSUME Fail(c)
        PROVE  HInv'
    <3>1. /\ UNCHANGED <<l1Tip, deposit, broadcast, spentAt, pool, blocks, submits,
                         file, current, unlocked>>
          /\ cmd' = [cmd EXCEPT ![c] = Idle]
      BY <2>1 DEF Fail, Ends, l1Vars, seqVars, session
    <3>2. Accounts' /\ Once' /\ Later(Now', Now)
      BY <3>1, WorldStays DEF HInv, Accounts
    <3> QED
      BY <3>1, <3>2, HistoryWorks
  <2> QED
    BY <1>5, <2>1, FundingHistory, ReadsHistory, SubmitMintHistory, SubmitTransferHistory,
       WalksHistory, BroadcastHistory, SaveHistory DEF CommandSteps
<1>6. CASE UNCHANGED vars
  <2>1. /\ UNCHANGED <<l1Tip, deposit, broadcast, spentAt, pool, blocks, submits,
                       file, current, unlocked>> /\ cmd' = cmd
    BY <1>6 DEF vars, l1Vars, seqVars, session
  <2>2. Accounts' /\ Once' /\ Later(Now', Now)
    BY <2>1, WorldStays DEF HInv, Accounts
  <2> QED
    BY <2>1, <2>2, HistoryGoes
<1>7. CASE \E c \in Slots : CommandStarts(c)
  BY <1>7, StartsHistory
<1> QED
  BY <1>1, <1>2, <1>3, <1>4, <1>5, <1>6, <1>7 DEF Next

\* The history of the files, too, is an invariant.
LEMMA History == Spec => [](IInv /\ HInv)
<1>1. Init => IInv /\ HInv
  BY InitInvariant, InitHistory
<1>2. (IInv /\ HInv) /\ [Next]_vars => (IInv /\ HInv)'
  BY NextInvariant, NextHistory
<1> QED
  BY <1>1, <1>2, PTL DEF Spec

-----------------------------------------------------------------------------
(* The theorems about the history.                                             *)

\* Files, and the copies in flight, have their types: no index is beyond the
\* bound, and no head beyond the blocks L1 attested.
LEMMA FileTyped ==
    ASSUME HInv, NEW wf, GoodFile(wf, deposit), Told(wf, Now)
    PROVE  IsWalletFile(wf) /\ wf.head <= Len(blocks)
<1>1. /\ deposit \in [Address -> 0..l1Tip] /\ l1Tip \in 0..MaxTip /\ MaxTip \in Nat
      /\ Now.blk = blocks /\ IsChain(blocks) /\ MaxBlocks \in Nat
      /\ Len(blocks) \in Nat /\ Len(blocks) <= MaxBlocks
  BY LenProperties, WalletAssumption DEF HInv, Accounts, IsWorld, IsChain, Now
<1>2. /\ wf.txs \in Seq(TxRecords) /\ wf.mints \in Seq(MintRec)
      /\ DOMAIN wf.mints = 1..Len(wf.mints) /\ DOMAIN wf.txs = 1..Len(wf.txs)
  BY LenProperties DEF Told, Numbers, GoodFile, IsFile
<1>3. Range(wf.txs) \subseteq TxRecords
  BY <1>2, ElementOfSeq DEF Range
<1>4. Range(wf.mints) \subseteq MintRecords
  <2>1. ASSUME NEW j \in 1..Len(wf.mints)
        PROVE  wf.mints[j] \in MintRecords
    <3>1. wf.mints[j] \in MintRec /\ AddressOf(wf, wf.mints[j]) \in Address
      BY AddressType DEF GoodFile
    <3>2. wf.mints[j].funded # 0 => wf.mints[j].funded \in 0..l1Tip
      BY <1>1, <3>1 DEF GoodFile, KnowsDeposits
    <3>3. wf.mints[j].funded \in 0..MaxTip
      BY <1>1, <3>2
    <3> QED
      BY <3>1, <3>3 DEF MintRec, MintRecords
  <2> QED
    BY <1>2, <2>1 DEF Range
<1>5. /\ wf.head \in NoHead..Len(blocks) /\ wf.booted \in NoHead..wf.head
      /\ wf.enc \in BOOLEAN
  BY <1>1 DEF Told, Numbers
<1>6. wf.head \in NoHead..MaxBlocks /\ wf.head <= Len(blocks)
  BY <1>1, <1>5 DEF NoHead
<1>7. wf.next_mint_index \in 0..MaxKeys
  BY WalletAssumption DEF Told, Numbers, GoodFile, IsFile
<1>8. wf.seed \in Wallets
  BY DEF GoodFile, IsFile
<1> QED
  BY <1>3, <1>4, <1>5, <1>6, <1>7, <1>8 DEF IsWalletFile

\* Every file, and every copy a command works on, is a wallet file of the types
\* the wallet gives it, at a head that is a block L1 attested (wallet.rs).
THEOREM RecordsTyped == Spec => []TypeOK
<1>1. IInv /\ HInv => TypeOK
  <2> SUFFICES ASSUME IInv, HInv
               PROVE  TypeOK
    OBVIOUS
  <2>1. /\ l1Tip \in 0..MaxTip /\ MaxTip \in Nat /\ broadcast \subseteq Address
        /\ deposit \in [Address -> 0..l1Tip] /\ spentAt \in [Address -> 0..l1Tip]
        /\ submits \in 0..MaxSubmits /\ unlocked \subseteq Wallets
    BY WalletAssumption DEF HInv, Accounts, IsWorld, Now
  <2>2. deposit \in [Address -> 0..MaxTip] /\ spentAt \in [Address -> 0..MaxTip]
    <3>1. \A n \in 0..l1Tip : n \in 0..MaxTip
      BY <2>1
    <3> QED
      BY <2>1, <3>1
  <2>3. \A w \in DOMAIN file : w \in Wallets /\ IsWalletFile(file[w])
                               /\ file[w].head <= Len(blocks)
    BY FileTyped DEF IInv, HInv, Files
  <2>4. \A c \in Slots : cmd[c] = Idle \/ IsWalletFile(cmd[c].wf)
    BY FileTyped DEF IInv, HInv, Commands, InFlight
  <2>5. current \in Wallets \cup {NoWallet} /\ refused \in BOOLEAN
    BY <2>3 DEF IInv, Session, World
  <2> QED
    BY <2>1, <2>2, <2>3, <2>4, <2>5 DEF TypeOK
<1> QED
  BY History, <1>1, PTL

LEMMA CountBooked ==
    ASSUME NEW wf, wf.txs \in Seq(TxRecords), NEW kind, NEW a, NEW yes,
           Booked(wf.txs, kind, a, yes)
    PROVE  Count(wf, kind, a) = IF yes THEN 1 ELSE 0
<1>1. Count(wf, kind, a) = Cardinality(Keyed(wf.txs, kind, a))
  <2>1. DOMAIN wf.txs = 1..Len(wf.txs)
    BY LenProperties
  <2> QED
    BY <2>1 DEF Count, Keyed
<1> QED
  BY <1>1, FS_Singleton, FS_EmptySet DEF Booked

\* What a mint record of a file says is so, also when commands overlap: its
\* deposit is where L1 has it, a mint marked minted was accepted, one marked
\* reclaimed was broadcast, and the deposit and the reclaim are booked once
\* (check_mint_funding, mint_message, reclaim_mint), whichever calls failed.
THEOREM RecordsTrue == Spec => []MintRecordsTrue
<1>1. IInv /\ HInv => MintRecordsTrue
  <2> SUFFICES ASSUME IInv, HInv, NEW w \in DOMAIN file, NEW m \in Range(file[w].mints)
               PROVE  LET a == AddressOf(file[w], m)
                      IN  /\ m.funded # 0 => m.funded = deposit[a]
                          /\ Count(file[w], "Deposit", a) = IF m.funded # 0 THEN 1 ELSE 0
                          /\ m.minted => \E t \in Accepted : t.type = "mint" /\ t.key = a
                          /\ m.reclaimed => a \in broadcast
                          /\ Count(file[w], "Reclaim", a) = IF m.reclaimed THEN 1 ELSE 0
    BY DEF MintRecordsTrue
  <2> DEFINE wf == file[w]
             a == AddressOf(wf, m)
  <2>1. GoodFile(wf, deposit) /\ Told(wf, Now)
    BY DEF IInv, HInv, Files
  <2> HIDE DEF wf
  <2>2. DOMAIN wf.mints = 1..Len(wf.mints) /\ wf.txs \in Seq(TxRecords)
    BY <2>1, LenProperties DEF GoodFile, IsFile, Told, Numbers
  <2>3. PICK j \in 1..Len(wf.mints) : m = wf.mints[j]
    BY <2>2 DEF Range, wf
  <2>4. MintSays(m, a, wf.txs, Now)
    BY <2>1, <2>3 DEF Told, Books
  <2>5. m.funded # 0 => m.funded = deposit[a]
    BY <2>1, <2>3 DEF GoodFile, KnowsDeposits
  <2>6. Now.acc = Accepted /\ Now.bcast = broadcast
    BY DEF Now
  <2> HIDE DEF a
  <2>7. /\ m.minted => \E t \in Accepted : t.type = "mint" /\ t.key = a
        /\ m.reclaimed => a \in broadcast
    BY <2>4, <2>6 DEF MintSays
  <2>8. /\ Count(wf, "Deposit", a) = IF m.funded # 0 THEN 1 ELSE 0
        /\ Count(wf, "Reclaim", a) = IF m.reclaimed THEN 1 ELSE 0
    <3>1. Booked(wf.txs, "Deposit", a, m.funded # 0) /\ Booked(wf.txs, "Reclaim", a, m.reclaimed)
      BY <2>4 DEF MintSays
    <3>2. Count(wf, "Deposit", a) = IF m.funded # 0 THEN 1 ELSE 0
      BY <2>2, <3>1, CountBooked
    <3> QED
      BY <2>2, <3>1, <3>2, CountBooked
  <2> QED
    BY <2>5, <2>7, <2>8 DEF a, wf
<1> QED
  BY History, <1>1, PTL

\* A deposit or a reclaim that a file calls finalized is buried below the block
\* that holds it, also when commands overlap (finalize_and_refresh).
THEOREM FinalizedBuried == Spec => []FinalizedIsBuried
<1>1. IInv /\ HInv => FinalizedIsBuried
  <2> SUFFICES ASSUME IInv, HInv, NEW w \in DOMAIN file, NEW j \in DOMAIN file[w].txs,
                      file[w].txs[j].kind \in {"Deposit", "Reclaim"},
                      file[w].txs[j].status = "Finalized"
               PROVE  LET r == file[w].txs[j]
                          height == IF r.kind = "Deposit" THEN deposit[r.key]
                                    ELSE spentAt[r.key]
                      IN  height # 0 /\ l1Tip - height >= FinalityDepth
    BY DEF FinalizedIsBuried
  <2> DEFINE wf == file[w]
             r == wf.txs[j]
  <2>1. GoodFile(wf, deposit) /\ Told(wf, Now)
    BY DEF IInv, HInv, Files
  <2>2. j \in 1..Len(wf.txs)
    BY <2>1, LenProperties DEF Told, Numbers
  <2>3. IsSettled(r) /\ Stands(r, Now)
    BY <2>1, <2>2 DEF Told, IsSettled
  <2>4. l1Tip - r.l1 >= FinalityDepth
    BY <2>3 DEF Stands, Now
  <2>5. r.kind = "Deposit" => r.l1 = deposit[r.key] /\ deposit[r.key] # 0
    BY <2>3 DEF Stands, Now
  <2>6. r.kind = "Reclaim" => r.l1 = spentAt[r.key] /\ spentAt[r.key] # 0
    BY <2>3 DEF Stands, Now
  <2> QED
    BY <2>4, <2>5, <2>6
<1> QED
  BY History, <1>1, PTL

LEMMA EventsInDelivered ==
    ASSUME IsChain(blocks), NEW w, NEW h \in 1..Len(blocks)
    PROVE  EventsIn(w, h) = Delivered(w, blocks, h)
<1>1. \A t \in blocks[h].txs : t \in Tx
  BY BlockType
<1>2. \A t \in blocks[h].txs :
        Range(EventsOf(w, t, h)) = {Event(k, t, h, blocks) : k \in Touches(w, t)}
  <2> SUFFICES ASSUME NEW t \in blocks[h].txs
               PROVE  Range(EventsOf(w, t, h))
                        = {Event(k, t, h, blocks) : k \in Touches(w, t)}
    OBVIOUS
  <2> DEFINE s == EventsOf(w, t, h)
  <2>1. /\ s \in Seq(Events)
        /\ Elements(s) = {Event(k, t, h, blocks) : k \in Touches(w, t)}
    BY <1>1, EventsOfElements
  <2> HIDE DEF s
  <2>2. Range(s) = Elements(s)
    BY <2>1, LenProperties DEF Range, Elements
  <2> QED
    BY <2>1, <2>2 DEF s
<1> QED
  BY <1>2 DEF EventsIn, Delivered

\* An event the history settles is settled by one record.
LEMMA OneSettles ==
    ASSUME NEW wf, wf.txs \in Seq(TxRecords), NEW E, E \subseteq Events,
           Settles(wf.txs, E), NEW ev \in E
    PROVE  \E j \in DOMAIN wf.txs :
             /\ Settled(wf, ev) = {j}
             /\ wf.txs[j].l2 = ev.l2 /\ wf.txs[j].l1 = ev.l1
<1>1. DOMAIN wf.txs = 1..Len(wf.txs) /\ Len(wf.txs) \in Nat
  BY LenProperties
<1>2. PICK j \in 1..Len(wf.txs) : IsSettled(wf.txs[j]) /\ EventOf(wf.txs[j]) = ev
  BY DEF Settles
<1>3. /\ wf.txs[j].kind = ev.kind /\ wf.txs[j].key = ev.key
      /\ wf.txs[j].l2 = ev.l2 /\ wf.txs[j].l1 = ev.l1 /\ ev.kind \in L2Kinds
  BY <1>2 DEF EventOf, Events
<1>4. ASSUME NEW k \in 1..Len(wf.txs), wf.txs[k].kind = ev.kind,
             wf.txs[k].key = ev.key, IsSettled(wf.txs[k])
      PROVE  k = j
  <2>1. SameKey(wf.txs[k], wf.txs[j]) /\ SameKey(wf.txs[j], wf.txs[k])
    BY <1>3, <1>4 DEF SameKey
  <2>2. j <= k
    BY <1>2, <1>3, <2>1 DEF Settles
  <2>3. k <= j
    BY <1>3, <1>4, <2>1 DEF Settles
  <2> QED
    BY <2>2, <2>3
<1>5. Settled(wf, ev) = {j}
  BY <1>1, <1>2, <1>3, <1>4 DEF Settled, Match, IsSettled
<1> QED
  BY <1>1, <1>3, <1>5

\* While commands run one at a time, the history of a file agrees with the blocks
\* its wallet crossed: each of its own transactions in them has exactly one
\* settled record, with the heights of its block, and nothing else is settled
\* (light_balance, project_events), whatever calls failed or lost their answer and
\* whenever the process dies.
THEOREM HistoryAgrees == Spec => [](~Overlap => HistoryComplete)
<1>1. IInv /\ HInv => (~Overlap => HistoryComplete)
  <2> SUFFICES ASSUME IInv, HInv, ~Overlap, NEW w \in DOMAIN file
               PROVE  LET wf == file[w]
                          crossed == UNION {EventsIn(w, h) : h \in (wf.booted + 1)..wf.head}
                      IN  /\ \A ev \in crossed :
                               \E j \in DOMAIN wf.txs :
                                   /\ Settled(wf, ev) = {j}
                                   /\ wf.txs[j].l2 = ev.l2 /\ wf.txs[j].l1 = ev.l1
                          /\ \A j \in DOMAIN wf.txs :
                               (wf.txs[j].kind \in L2Kinds
                                  /\ wf.txs[j].status \in {"InBlock", "Finalized"})
                               => \E ev \in crossed : j \in Settled(wf, ev)
    BY DEF HistoryComplete
  <2> DEFINE wf == file[w]
             crossed == UNION {EventsIn(w, h) : h \in (wf.booted + 1)..wf.head}
  <2>1. Told(wf, Now) /\ wf.seed = w /\ IsChain(blocks) /\ Now.blk = blocks
    BY DEF IInv, HInv, Alone, FilesKeepIdentity, Accounts, IsWorld, Now
  <2> HIDE DEF wf
  <2>2. /\ wf.txs \in Seq(TxRecords) /\ DOMAIN wf.txs = 1..Len(wf.txs)
        /\ wf.head \in NoHead..Len(blocks) /\ wf.booted \in NoHead..wf.head
        /\ wf.head # NoHead => wf.booted # NoHead
        /\ Settles(wf.txs, Crossed(wf, blocks)) /\ Len(blocks) \in Nat
    BY <2>1, LenProperties DEF Told, Numbers, IsChain
  <2>3. crossed = Crossed(wf, blocks)
    <3>1. \A h \in (wf.booted + 1)..wf.head : h \in 1..Len(blocks)
      BY <2>2 DEF NoHead
    <3>2. \A h \in (wf.booted + 1)..wf.head : EventsIn(w, h) = Delivered(w, blocks, h)
      BY <2>1, <3>1, EventsInDelivered
    <3> QED
      BY <2>1, <3>2 DEF Crossed, Since
  <2> HIDE DEF crossed
  <2>4. crossed \subseteq Events
    <3>1. /\ wf.booted \in Nat \cup {NoHead} /\ wf.head \in NoHead..Len(blocks)
          /\ wf.booted # NoHead \/ wf.head = NoHead
      BY <2>2 DEF NoHead
    <3> QED
      BY <2>1, <2>3, <3>1, SinceType DEF Crossed
  <2>5. \A ev \in crossed :
          \E j \in DOMAIN wf.txs :
              /\ Settled(wf, ev) = {j}
              /\ wf.txs[j].l2 = ev.l2 /\ wf.txs[j].l1 = ev.l1
    BY <2>2, <2>3, <2>4, OneSettles
  <2>6. ASSUME NEW j \in DOMAIN wf.txs, wf.txs[j].kind \in L2Kinds,
               wf.txs[j].status \in {"InBlock", "Finalized"}
        PROVE  \E ev \in crossed : j \in Settled(wf, ev)
    <3>1. EventOf(wf.txs[j]) \in crossed
      BY <2>2, <2>3, <2>6 DEF Settles, IsSettled
    <3>2. j \in Settled(wf, EventOf(wf.txs[j]))
      BY <2>6 DEF Settled, Match, EventOf
    <3> QED
      BY <3>1, <3>2
  <2> QED
    BY <2>5, <2>6 DEF wf, crossed
<1> QED
  BY History, <1>1, PTL

\* What a file that goes forward and onward has kept.
LEMMA NothingTakenBack ==
    ASSUME NEW u, NEW old, GoodFile(old, deposit), Told(old, u),
           NEW new, GoodFile(new, deposit), Told(new, u), Forward(new, old), Onward(new, old)
    PROVE  TakesNothingBack(new, old)
<1>1. /\ DOMAIN old.mints = 1..Len(old.mints)
      /\ DOMAIN old.txs = 1..Len(old.txs) /\ DOMAIN new.txs = 1..Len(new.txs)
      /\ Len(old.txs) \in Nat /\ Len(new.txs) \in Nat
  BY LenProperties DEF GoodFile, IsFile, Told, Numbers
<1>2. ASSUME NEW j \in DOMAIN old.mints
      PROVE  /\ old.mints[j].index = new.mints[j].index
             /\ old.mints[j].funded # 0 => new.mints[j].funded # 0
             /\ old.mints[j].minted => new.mints[j].minted
             /\ old.mints[j].reclaimed => new.mints[j].reclaimed
  BY <1>1 DEF Forward, Onward, MintOnward
<1>3. ASSUME NEW j \in DOMAIN old.txs
      PROVE  /\ j \in DOMAIN new.txs
             /\ old.txs[j].kind = new.txs[j].kind
             /\ old.txs[j].key = new.txs[j].key
             /\ Rank(old.txs[j].status) <= Rank(new.txs[j].status)
             /\ old.txs[j].status = "Finalized" => new.txs[j] = old.txs[j]
  <2>1. Len(old.txs) <= Len(new.txs) /\ RecordOnward(new.txs[j], old.txs[j])
    BY <1>1 DEF Onward, TxsOnward
  <2> QED
    BY <1>1, <2>1 DEF RecordOnward, SameKey
<1>4. old.next_mint_index <= new.next_mint_index /\ old.head <= new.head
  BY DEF Forward, Onward
<1> QED
  BY <1>2, <1>3, <1>4 DEF TakesNothingBack

\* A step that makes a file or writes one writes it forward and onward.
LEMMA FilesOnward ==
    ASSUME IInv, HInv, [Next]_vars, ~Overlap, file' # file, NEW w \in DOMAIN file
    PROVE  /\ w \in DOMAIN file'
           /\ GoodFile(file'[w], deposit) /\ Told(file'[w], Now)
           /\ Forward(file'[w], file[w]) /\ Onward(file'[w], file[w])
<1>0. /\ GoodFile(file[w], deposit) /\ Told(file[w], Now)
      /\ Forward(file[w], file[w]) /\ Onward(file[w], file[w])
  BY ForwardReflexive, OnwardReflexive DEF IInv, HInv, Files
<1>1. \/ \E v \in Wallets : Keygen(v)
      \/ \E c \in Slots : save_current(c)
  BY DEF Next, vars, NewL1Block, Deposit, ConfirmReclaim, AttestBlock, select, deselect,
     Crash, CommandStarts, MintUtxo, CheckFunding, Reclaim, MintMessage, Transfer,
     LightBalance, Starts, CommandSteps, FundingAnswer, ReadsTip, SubmitMint, ReadsNonce,
     SubmitTransfer, Walks, Broadcast, Fail
<1>2. CASE \E v \in Wallets : Keygen(v)
  <2>1. w \in DOMAIN file' /\ file'[w] = file[w]
    BY <1>2 DEF Keygen
  <2> QED
    BY <1>0, <2>1
<1>3. ASSUME NEW c \in Slots, save_current(c)
      PROVE  /\ w \in DOMAIN file'
             /\ GoodFile(file'[w], deposit) /\ Told(file'[w], Now)
             /\ Forward(file'[w], file[w]) /\ Onward(file'[w], file[w])
  <2>1. /\ cmd[c] # Idle /\ file' = [file EXCEPT ![current] = cmd[c].wf]
    BY <1>3 DEF save_current
  <2>2. /\ GoodFile(cmd[c].wf, deposit) /\ Told(cmd[c].wf, Now)
        /\ Forward(cmd[c].wf, file[current]) /\ Onward(cmd[c].wf, file[current])
    BY <2>1, CopyTold
  <2>3. w \in DOMAIN file' /\ file'[w] = IF w = current THEN cmd[c].wf ELSE file[w]
    BY <2>1
  <2> QED
    BY <1>0, <2>2, <2>3
<1> QED
  BY <1>1, <1>2, <1>3

\* While commands run one at a time, no save takes a file back: records stay,
\* their statuses only advance and a finalized one never changes; no index, mint
\* flag or head is forgotten (save_current writes a copy made from the file).
THEOREM FilesGoForward ==
    ASSUME ~Overlap
    PROVE  Spec => FileForward
<1>1. IInv /\ HInv /\ [Next]_vars =>
        [\A w \in DOMAIN file :
           w \in DOMAIN file' /\ TakesNothingBack(file'[w], file[w])]_file
  <2> SUFFICES ASSUME IInv, HInv, [Next]_vars, file' # file, NEW w \in DOMAIN file
               PROVE  w \in DOMAIN file' /\ TakesNothingBack(file'[w], file[w])
    OBVIOUS
  <2>1. /\ w \in DOMAIN file' /\ GoodFile(file'[w], deposit) /\ Told(file'[w], Now)
        /\ Forward(file'[w], file[w]) /\ Onward(file'[w], file[w])
    BY FilesOnward
  <2>2. GoodFile(file[w], deposit) /\ Told(file[w], Now)
    BY DEF IInv, HInv, Files
  <2> QED
    BY <2>1, <2>2, NothingTakenBack
<1> QED
  BY History, <1>1, PTL DEF Spec, FileForward
=============================================================================
