---------------------------- MODULE WalletRecords ----------------------------
(***************************************************************************)
(* The files of hodl-wallet and the commands that change them: the mint    *)
(* records and transaction history of wallet.rs, the operations of ops.rs, *)
(* and the session of the desktop (state.rs, commands.rs), where a command *)
(* loads the selected wallet's file, works on that copy while it awaits L1 *)
(* and the sequencer, and saves the copy.  Commands of the desktop run on  *)
(* a pool of threads, and those of the CLI in processes of their own.      *)
(*                                                                         *)
(* The verification of blocks behind light_balance is LightWallet; here a  *)
(* walk delivers the events of the blocks it crossed.  L1 does not reorg.  *)
(***************************************************************************)
EXTENDS Integers, FiniteSets, SequencesExt

CONSTANTS
    Wallets,        \* names of wallet files; also the seed each was made with
    Encrypted,      \* those given a passphrase when they were made
    Ext,            \* everybody else on L2
    Dests,          \* the destinations the user mints and transfers to
    NoWallet, Idle, NoNullifier,
    Slots,          \* the commands that may be in flight at once
    Overlap,        \* whether a command starts while another is in flight
    Locks,          \* lock durations asked for
    MaxLockBlocks,  \* consensus::MAX_LOCK_BLOCKS
    FinalityDepth,  \* REORG_FINALITY_DEPTH
    MaxKeys,        \* bound on the mint addresses of a wallet
    MaxSubmits,     \* bound on mints and transfers submitted, by others too
    MaxDeposits,    \* bound on deposits
    MaxTip,         \* bound on the L1 height
    MaxBlocks       \* bound on the L2 height

ASSUME WalletAssumption ==
    /\ Encrypted \subseteq Wallets
    /\ Ext \notin Wallets /\ NoWallet \notin Wallets
    /\ Dests \subseteq Wallets \cup {Ext}
    /\ Overlap \in BOOLEAN
    /\ Locks \subseteq Nat
    /\ {MaxLockBlocks, FinalityDepth, MaxKeys, MaxSubmits, MaxDeposits,
        MaxTip, MaxBlocks} \subseteq Nat

\* Bitcoin and the sequencer.
VARIABLES
    l1Tip,
    deposit,        \* of each mint address: the height of its output, or 0
    broadcast,      \* the mint addresses whose output a reclaim spends
    spentAt,        \* of each: the height that reclaim confirmed at, or 0
    pool,           \* accepted by the sequencer, in no attested block yet
    blocks          \* the attested L2 blocks: [l1, txs]

\* Disk and desktop process.
VARIABLES
    file,           \* of each wallet made: its <name>.json
    current,        \* the wallet selected
    unlocked,       \* the wallets whose key is cached
    cmd             \* of each slot: the command in flight, or Idle

\* What the user has seen, and counters for the bounds.
VARIABLES
    shown,          \* the deposit addresses handed out, in order
    refused,        \* whether L1 refused a reclaim that was not mature
    submits

l1Vars   == <<l1Tip, deposit, broadcast, spentAt>>
seqVars  == <<pool, blocks>>
session  == <<current, unlocked>>
seen     == <<shown, refused>>
vars == <<l1Vars, seqVars, file, session, cmd, seen, submits>>

-----------------------------------------------------------------------------
(* Data.                                                                   *)

\* A deposit address, which its seed, bip32_index and lock_blocks determine.
Address == [seed : Wallets, index : 0..(MaxKeys - 1), lock : Locks]
Parties == Wallets \cup {Ext}

\* What the sequencer takes: a mint, known by its nullifier, the outpoint at
\* its address; a transfer, known by its sighash, its whole body.
Body == [from : Parties, to : Parties, nonce : Nat]
MintOf(a, to) == [type |-> "mint", key |-> a, to |-> to]
TransferOf(body) == [type |-> "transfer", key |-> body]

Accepted == pool \cup UNION {blocks[h].txs : h \in DOMAIN blocks}
Nonce(w) == Cardinality({t \in Accepted : t.type = "transfer" /\ t.key.from = w})

\* MintRecord, TxRecord and WalletFile.  funded is the height of the deposit
\* found, which comes with its outpoint and value.  booted, the L2 height the
\* head was bootstrapped at, is kept for the properties only.
MintRecord(i, lock) ==
    [index |-> i, lock |-> lock, funded |-> 0,
     minted |-> FALSE, reclaimed |-> FALSE]
TxRecord(kind, key, status, l2, l1) ==
    [kind |-> kind, key |-> key, status |-> status, l2 |-> l2, l1 |-> l1]
NoHead == -1
keygen(w) ==
    [seed |-> w, enc |-> w \in Encrypted, next_mint_index |-> 0, mints |-> <<>>,
     head |-> NoHead, booted |-> NoHead, txs |-> <<>>]

append_tx(wf, r) == [wf EXCEPT !.txs = Append(@, r)]

\* allocate_mint_keypair: the index, and the file that has used it.  Mutant: the
\* index is not used up.
allocate_mint_keypair_Unused(wf) == [index |-> wf.next_mint_index, wf |-> wf]
allocate_mint_keypair(wf) ==
    [index |-> wf.next_mint_index, wf |-> [wf EXCEPT !.next_mint_index = @ + 1]]
append_mint(wf, m) == [wf EXCEPT !.mints = Append(@, m)]

\* find_mint_by_index: the first of that index.
HasMint(wf, i) == \E m \in Range(wf.mints) : m.index = i
MintPos(wf, i) ==
    CHOOSE j \in DOMAIN wf.mints :
        /\ wf.mints[j].index = i
        /\ \A k \in 1..(j - 1) : wf.mints[k].index # i
MintAt(wf, i) == wf.mints[MintPos(wf, i)]
AddressOf(wf, m) == [seed |-> wf.seed, index |-> m.index, lock |-> m.lock]
AddressAt(wf, i) == AddressOf(wf, MintAt(wf, i))

-----------------------------------------------------------------------------
(* What the operations do to a file.                                       *)

\* mint_utxo, for a lock_blocks that passes validate_lock_blocks.
ValidLock(lock) == lock \in 1..MaxLockBlocks
mint_utxo(wf, lock) ==
    LET fresh == allocate_mint_keypair(wf)
    IN  append_mint(fresh.wf, MintRecord(fresh.index, lock))

\* check_mint_funding that finds the deposit, in the L1 block at height h.
find_l1_deposit_tx(wf, i) ==
    {j \in DOMAIN wf.txs : /\ wf.txs[j].kind = "Deposit"
                           /\ wf.txs[j].key = AddressAt(wf, i)}
Funded(wf, i, h) ==
    LET known == [wf EXCEPT !.mints[MintPos(wf, i)].funded = h]
    IN  IF find_l1_deposit_tx(wf, i) # {} THEN known
        ELSE append_tx(known, TxRecord("Deposit", AddressAt(wf, i), "InBlock", 0, h))

\* mint_message: a rejected mint is recorded without its nullifier.  Mutants: it
\* is recorded like an accepted one; a rejection takes the flag back.
MintSent_Always(wf, i, accepted) ==
    append_tx([wf EXCEPT !.mints[MintPos(wf, i)].minted = TRUE],
              TxRecord("Mint", AddressAt(wf, i), "Soft", 0, 0))
MintSent_Resets(wf, i, accepted) ==
    append_tx([wf EXCEPT !.mints[MintPos(wf, i)].minted = accepted],
              TxRecord("Mint", NoNullifier, "Failed", 0, 0))
MintSent(wf, i, accepted) ==
    IF accepted
    THEN append_tx([wf EXCEPT !.mints[MintPos(wf, i)].minted = TRUE],
                   TxRecord("Mint", AddressAt(wf, i), "Soft", 0, 0))
    ELSE append_tx(wf, TxRecord("Mint", NoNullifier, "Failed", 0, 0))

TransferSent(wf, body, accepted) ==
    append_tx(wf, TxRecord("Sent", body, IF accepted THEN "Soft" ELSE "Failed", 0, 0))

\* list_reclaimable_mints and the guard of reclaim_mint, at an L1 tip.  Mutant:
\* the CSV is compared with the tip instead of the block after it.
ReclaimStatus_Late(m, tip) ==
    CASE m.reclaimed -> "Reclaimed"
      [] ~m.reclaimed /\ m.funded = 0 -> "Pending"
      [] ~m.reclaimed /\ m.funded # 0 /\ tip >= m.funded + m.lock -> "Ready"
      [] OTHER -> "Locked"
ReclaimStatus(m, tip) ==
    CASE m.reclaimed -> "Reclaimed"
      [] ~m.reclaimed /\ m.funded = 0 -> "Pending"
      [] ~m.reclaimed /\ m.funded # 0 /\ tip + 1 >= m.funded + m.lock -> "Ready"
      [] OTHER -> "Locked"
Reclaimed(wf, i) ==
    append_tx([wf EXCEPT !.mints[MintPos(wf, i)].reclaimed = TRUE],
              TxRecord("Reclaim", AddressAt(wf, i), "Mempool", 0, 0))

\* The events of block h that touch the wallet of seed w (verify.rs).
EventsOf(w, t, h) ==
    LET ev(kind) == [kind |-> kind, key |-> t.key, l2 |-> h, l1 |-> blocks[h].l1]
    IN  IF t.type = "mint"
        THEN IF t.to = w THEN <<ev("Mint")>> ELSE <<>>
        ELSE (IF t.key.to = w THEN <<ev("Received")>> ELSE <<>>)
             \o (IF t.key.from = w THEN <<ev("Sent")>> ELSE <<>>)

\* Those of the blocks past h0, whose transactions come in some order.
EventsPast(w, h0) ==
    FlattenSeq([k \in 1..(Len(blocks) - h0) |->
        LET txs == SetToSeq(blocks[h0 + k].txs)
        IN  FlattenSeq([i \in DOMAIN txs |-> EventsOf(w, txs[i], h0 + k)])])

\* project_events, for one event.  Mutant: a record of any kind matches.
Match_AnyKind(txs, ev) == {j \in DOMAIN txs : txs[j].key = ev.key}
Match(txs, ev) == {j \in DOMAIN txs : txs[j].kind = ev.kind /\ txs[j].key = ev.key}
Landed(r, ev) ==
    IF r.status = "Finalized" THEN r
    ELSE [r EXCEPT !.status = "InBlock", !.l2 = ev.l2, !.l1 = ev.l1]
project_event(txs, ev) ==
    LET match == Match(txs, ev)
        first == CHOOSE j \in match : \A k \in match : j <= k
    IN  IF match = {}
        THEN Append(txs, TxRecord(ev.kind, ev.key, "InBlock", ev.l2, ev.l1))
        ELSE IF ev.kind = "Received" THEN txs
        ELSE [txs EXCEPT ![first] = Landed(@, ev)]

\* finalize_and_refresh: promote what L1 confirmed, then finalize.  Mutant: the
\* depth counts the block itself.
Promoted(r) ==
    IF r.status = "Mempool" /\ spentAt[r.key] # 0
    THEN [r EXCEPT !.status = "InBlock", !.l1 = spentAt[r.key]]
    ELSE r
Buried_Early(r, tip) ==
    IF r.status = "InBlock" /\ tip + 1 - r.l1 >= FinalityDepth
    THEN [r EXCEPT !.status = "Finalized"]
    ELSE r
Buried(r, tip) ==
    IF r.status = "InBlock" /\ tip - r.l1 >= FinalityDepth
    THEN [r EXCEPT !.status = "Finalized"]
    ELSE r
finalize_and_refresh(wf, tip) ==
    [wf EXCEPT !.txs = [j \in DOMAIN @ |-> Buried(Promoted(@[j]), tip)]]

-----------------------------------------------------------------------------
Init ==
    /\ l1Tip = 0
    /\ deposit = [a \in Address |-> 0]
    /\ broadcast = {}
    /\ spentAt = [a \in Address |-> 0]
    /\ pool = {} /\ blocks = <<>>
    /\ file = [w \in {} |-> keygen(w)]
    /\ current = NoWallet /\ unlocked = {}
    /\ cmd = [c \in Slots |-> Idle]
    /\ shown = <<>> /\ refused = FALSE
    /\ submits = 0

(* Bitcoin and the sequencer.                                              *)

NewL1Block ==
    /\ l1Tip < MaxTip
    /\ l1Tip' = l1Tip + 1
    /\ UNCHANGED <<deposit, broadcast, spentAt, seqVars, file, session, cmd,
                   seen, submits>>

\* The user pays to an address handed out, and the payment is mined.
Deposit(a) ==
    /\ deposit[a] = 0
    /\ Cardinality({b \in Address : deposit[b] # 0}) < MaxDeposits
    /\ l1Tip < MaxTip
    /\ l1Tip' = l1Tip + 1
    /\ deposit' = [deposit EXCEPT ![a] = l1Tip + 1]
    /\ UNCHANGED <<broadcast, spentAt, seqVars, file, session, cmd, seen, submits>>

ConfirmReclaim(a) ==
    /\ a \in broadcast /\ spentAt[a] = 0
    /\ l1Tip < MaxTip
    /\ l1Tip' = l1Tip + 1
    /\ spentAt' = [spentAt EXCEPT ![a] = l1Tip + 1]
    /\ UNCHANGED <<deposit, broadcast, seqVars, file, session, cmd, seen, submits>>

\* The sequencer builds a block at the tip from what it accepted, and perhaps
\* from a payment of somebody else to one of the wallets; L1 attests it.
PayIn(w) == TransferOf([from |-> Ext, to |-> w, nonce |-> submits])
AttestBlock(payments) ==
    /\ Len(blocks) < MaxBlocks
    /\ pool \cup payments # {}
    /\ submits + Cardinality(payments) <= MaxSubmits
    /\ submits' = submits + Cardinality(payments)
    /\ blocks' = Append(blocks, [l1 |-> l1Tip, txs |-> pool \cup payments])
    /\ pool' = {}
    /\ UNCHANGED <<l1Vars, file, session, cmd, seen>>

-----------------------------------------------------------------------------
(* The session.                                                            *)

AllIdle == \A c \in Slots : cmd[c] = Idle
MayStart == Overlap \/ AllIdle

\* Commands that await nothing run on the main thread, one after the other.
MainThreadFree == \A c \in Slots : cmd[c] # Idle => cmd[c].op # "mint_utxo"

\* The keygen command of the desktop, which selects what it makes; from the
\* picker, where no wallet is selected.
Keygen(w) ==
    /\ MayStart /\ MainThreadFree
    /\ current = NoWallet
    /\ w \notin DOMAIN file
    /\ file' = [v \in DOMAIN file \cup {w} |-> IF v = w THEN keygen(w) ELSE file[v]]
    /\ unlocked' = IF w \in Encrypted THEN unlocked \cup {w} ELSE unlocked
    /\ current' = w
    /\ UNCHANGED <<l1Vars, seqVars, cmd, seen, submits>>

select(w) ==
    /\ MayStart /\ MainThreadFree
    /\ current = NoWallet
    /\ w \in DOMAIN file
    /\ unlocked' = IF file[w].enc THEN unlocked \cup {w} ELSE unlocked
    /\ current' = w
    /\ UNCHANGED <<l1Vars, seqVars, file, cmd, seen, submits>>

\* deselect forgets the key of the wallet it leaves.
evict == unlocked \ {current}
deselect ==
    /\ MayStart /\ MainThreadFree
    /\ current # NoWallet
    /\ unlocked' = evict
    /\ current' = NoWallet
    /\ UNCHANGED <<l1Vars, seqVars, file, cmd, seen, submits>>

\* The process dies; wallet files survive.
Crash ==
    /\ current' = NoWallet /\ unlocked' = {}
    /\ cmd' = [c \in Slots |-> Idle]
    /\ UNCHANGED <<l1Vars, seqVars, file, seen, submits>>

-----------------------------------------------------------------------------
(* Commands.                                                               *)

\* load_current: the copy a command works on.  An encrypted file needs the key
\* of the selected wallet in the cache, and the copy keeps that key.  Mutant: it
\* does not.
load_current_DropsKey == [file[current] EXCEPT !.enc = FALSE]
load_current == file[current]
CanLoad ==
    /\ MayStart
    /\ current # NoWallet
    /\ file[current].enc => current \in unlocked

Command(op, wf, arg, read, step) ==
    [op |-> op, wf |-> wf, arg |-> arg, read |-> read, step |-> step]
Starts(c, command) ==
    /\ cmd[c] = Idle
    /\ CanLoad
    /\ cmd' = [cmd EXCEPT ![c] = command]
    /\ UNCHANGED <<l1Vars, seqVars, file, session, seen, submits>>

\* Command c is about to take that step.
At(c, op, step) == cmd[c] # Idle /\ cmd[c].op = op /\ cmd[c].step = step
Reads(c, value) ==
    cmd' = [cmd EXCEPT ![c] = Command(@.op, @.wf, @.arg, value, "act")]
Works(c, wf) ==
    cmd' = [cmd EXCEPT ![c] = Command(@.op, wf, @.arg, 0, "save")]
Ends(c) == cmd' = [cmd EXCEPT ![c] = Idle]

\* A call fails, its answer is lost or a write fails: the command returns the
\* error and does not save.
Fail(c) ==
    /\ cmd[c] # Idle
    /\ Ends(c)
    /\ UNCHANGED <<l1Vars, seqVars, file, session, seen, submits>>

\* save_current, and the command's answer: the path is that of the wallet
\* selected now.  The rename of <name>.json.tmp makes the write atomic.
save_current(c) ==
    /\ cmd[c] # Idle /\ cmd[c].step = "save"
    /\ IF current = NoWallet
       THEN UNCHANGED <<file, shown>>
       ELSE /\ file' = [file EXCEPT ![current] = cmd[c].wf]
            /\ shown' = IF cmd[c].op = "mint_utxo"
                        THEN Append(shown, AddressAt(cmd[c].wf, cmd[c].arg))
                        ELSE shown
    /\ Ends(c)
    /\ UNCHANGED <<l1Vars, seqVars, session, refused, submits>>

\* mint_utxo awaits nothing.
MintUtxo(c, lock) ==
    /\ ValidLock(lock)
    /\ MainThreadFree
    /\ CanLoad
    /\ load_current.next_mint_index < MaxKeys
    /\ Starts(c, Command("mint_utxo", mint_utxo(load_current, lock),
                         load_current.next_mint_index, 0, "save"))

\* check_mint_funding: what is already known is not asked again.
CheckFunding(c, i) ==
    /\ CanLoad
    /\ HasMint(load_current, i)
    /\ Starts(c, Command("check", load_current, i, 0,
                    IF MintAt(load_current, i).funded # 0 THEN "save" ELSE "ask"))
FundingAnswer(c) ==
    /\ At(c, "check", "ask")
    /\ LET wf == cmd[c].wf
           i == cmd[c].arg
           h == deposit[AddressAt(wf, i)]
       IN  Works(c, IF h = 0 \/ spentAt[AddressAt(wf, i)] # 0 THEN wf
                    ELSE Funded(wf, i, h))
    /\ UNCHANGED <<l1Vars, seqVars, file, session, seen, submits>>

\* mint_message: read the L1 tip, sign it, submit.
MintMessage(c, i, to) ==
    /\ CanLoad
    /\ submits < MaxSubmits
    /\ HasMint(load_current, i) /\ MintAt(load_current, i).funded # 0
    /\ Starts(c, Command("mint", load_current, <<i, to>>, 0, "ask"))
ReadsTip(c) ==
    /\ At(c, "mint", "ask")
    /\ Reads(c, l1Tip)
    /\ UNCHANGED <<l1Vars, seqVars, file, session, seen, submits>>
SubmitMint(c) ==
    /\ At(c, "mint", "act")
    /\ submits < MaxSubmits
    /\ submits' = submits + 1
    /\ LET wf == cmd[c].wf
           i == cmd[c].arg[1]
           a == AddressAt(wf, i)
           accepted == /\ \A t \in Accepted : t.type = "mint" => t.key # a
                       /\ spentAt[a] = 0
                       /\ cmd[c].read < deposit[a] + a.lock
       IN  /\ pool' = IF accepted
                      THEN pool \cup {MintOf(a, cmd[c].arg[2])}
                      ELSE pool
           /\ Works(c, MintSent(wf, i, accepted))
    /\ UNCHANGED <<l1Vars, blocks, file, session, seen>>

\* transfer: read effective_nonce, sign, submit.  The sequencer may refuse for
\* want of funds.
Transfer(c, to) ==
    /\ submits < MaxSubmits
    /\ CanLoad
    /\ Starts(c, Command("transfer", load_current, to, 0, "ask"))
ReadsNonce(c) ==
    /\ At(c, "transfer", "ask")
    /\ Reads(c, Nonce(cmd[c].wf.seed))
    /\ UNCHANGED <<l1Vars, seqVars, file, session, seen, submits>>
SubmitTransfer(c, funds) ==
    /\ At(c, "transfer", "act")
    /\ submits < MaxSubmits
    /\ submits' = submits + 1
    /\ LET wf == cmd[c].wf
           body == [from |-> wf.seed, to |-> cmd[c].arg, nonce |-> cmd[c].read]
           accepted == funds /\ body.nonce = Nonce(wf.seed)
       IN  /\ pool' = IF accepted THEN pool \cup {TransferOf(body)}
                      ELSE pool
           /\ Works(c, TransferSent(wf, body, accepted))
    /\ UNCHANGED <<l1Vars, blocks, file, session, seen>>

\* light_balance: bootstrap at the last attested block, or at genesis, when
\* there is no head; cross the attested blocks past it, then refresh the
\* statuses against the L1 tip.  Mutant of Walk: the head is one block ahead.
LightBalance(c) ==
    /\ CanLoad
    /\ Starts(c, Command("light", load_current, 0, 0, "ask"))
bootstrap(wf, h) == [wf EXCEPT !.head = h, !.booted = h]
Walk_Ahead(wf) ==
    LET from == IF wf.head = NoHead THEN bootstrap(wf, Len(blocks)) ELSE wf
    IN  [from EXCEPT !.txs = FoldLeft(project_event, @, EventsPast(wf.seed, from.head)),
                     !.head = Len(blocks) + 1]
Walk(wf) ==
    LET from == IF wf.head = NoHead THEN bootstrap(wf, Len(blocks)) ELSE wf
    IN  [from EXCEPT !.txs = FoldLeft(project_event, @, EventsPast(wf.seed, from.head)),
                     !.head = Len(blocks)]
Walks(c) ==
    /\ At(c, "light", "ask")
    /\ Works(c, finalize_and_refresh(Walk(cmd[c].wf), l1Tip))
    /\ UNCHANGED <<l1Vars, seqVars, file, session, seen, submits>>

\* reclaim_mint: check the CSV against the tip, which L1 only raises, then
\* broadcast.
Reclaim(c, i) ==
    /\ CanLoad
    /\ HasMint(load_current, i)
    /\ MintAt(load_current, i).funded # 0 /\ ~MintAt(load_current, i).reclaimed
    /\ Starts(c, Command("reclaim", load_current, i, 0, "ask"))
\* Whether the next L1 block may spend the output at a (BIP68, BIP112).
Spendable(a) == deposit[a] # 0 /\ l1Tip + 1 - deposit[a] >= a.lock
Broadcast(c) ==
    /\ At(c, "reclaim", "ask")
    /\ LET wf == cmd[c].wf
           i == cmd[c].arg
           a == AddressAt(wf, i)
           ready == ReclaimStatus(MintAt(wf, i), l1Tip) = "Ready"
       IN  /\ refused' = (refused \/ (ready /\ ~Spendable(a)))
           /\ IF ready /\ Spendable(a) /\ a \notin broadcast
              THEN broadcast' = broadcast \cup {a} /\ Works(c, Reclaimed(wf, i))
              ELSE UNCHANGED broadcast /\ Ends(c)
    /\ UNCHANGED <<l1Tip, deposit, spentAt, seqVars, file, session, shown, submits>>

-----------------------------------------------------------------------------
CommandStarts(c) ==
    \/ \E lock \in Locks : MintUtxo(c, lock)
    \/ \E i \in 0..(MaxKeys - 1) : CheckFunding(c, i) \/ Reclaim(c, i)
    \/ \E i \in 0..(MaxKeys - 1), to \in Dests : MintMessage(c, i, to)
    \/ \E to \in Dests : Transfer(c, to)
    \/ LightBalance(c)
CommandSteps(c) ==
    \/ FundingAnswer(c)
    \/ ReadsTip(c) \/ SubmitMint(c)
    \/ ReadsNonce(c) \/ \E funds \in BOOLEAN : SubmitTransfer(c, funds)
    \/ Walks(c)
    \/ Broadcast(c)
    \/ save_current(c)
    \/ Fail(c)

Next ==
    \/ NewL1Block
    \/ \E a \in Range(shown) : Deposit(a)
    \/ \E a \in broadcast : ConfirmReclaim(a)
    \/ AttestBlock({})
    \/ \E w \in Wallets : AttestBlock({PayIn(w)}) \/ Keygen(w) \/ select(w)
    \/ deselect
    \/ Crash
    \/ \E c \in Slots : CommandStarts(c) \/ CommandSteps(c)

Spec == Init /\ [][Next]_vars

-----------------------------------------------------------------------------
(* Properties.                                                             *)

MintRecords == [index : 0..(MaxKeys - 1), lock : Locks, funded : 0..MaxTip,
                minted : BOOLEAN, reclaimed : BOOLEAN]
TxRecords == [kind : {"Deposit", "Mint", "Sent", "Received", "Reclaim"},
              key : Address \cup {NoNullifier} \cup Body,
              status : {"Soft", "Mempool", "InBlock", "Finalized", "Failed"},
              l2 : 0..MaxBlocks, l1 : 0..MaxTip]
IsWalletFile(wf) ==
    /\ wf.seed \in Wallets /\ wf.enc \in BOOLEAN
    /\ wf.next_mint_index \in 0..MaxKeys
    /\ wf.head \in NoHead..MaxBlocks /\ wf.booted \in NoHead..wf.head
    /\ Range(wf.mints) \subseteq MintRecords /\ Range(wf.txs) \subseteq TxRecords

\* The variables keep their types, and the head of a file is a block of the
\* chain.
TypeOK ==
    /\ l1Tip \in 0..MaxTip
    /\ DOMAIN file \subseteq Wallets
    /\ deposit \in [Address -> 0..MaxTip] /\ spentAt \in [Address -> 0..MaxTip]
    /\ broadcast \subseteq Address
    /\ current \in Wallets \cup {NoWallet} /\ unlocked \subseteq Wallets
    /\ \A w \in DOMAIN file : IsWalletFile(file[w]) /\ file[w].head <= Len(blocks)
    /\ \A c \in Slots : cmd[c] = Idle \/ IsWalletFile(cmd[c].wf)
    /\ refused \in BOOLEAN
    /\ submits \in 0..MaxSubmits

\* A file keeps the seed it was made with, and a wallet made with a passphrase
\* is never written in the clear (save_current, load_with_context).
FilesKeepIdentity ==
    \A w \in DOMAIN file : file[w].seed = w /\ file[w].enc = (w \in Encrypted)

\* Every deposit address handed out is in the file of its wallet, and no two
\* mint_utxo calls hand out the same one: a deposit is never unknown to the
\* wallet that must mint and reclaim it.
ShownKept ==
    /\ \A n \in DOMAIN shown :
         LET wf == file[shown[n].seed]
         IN  /\ shown[n].seed \in DOMAIN file
             /\ \E m \in Range(wf.mints) : AddressOf(wf, m) = shown[n]
    /\ \A n, k \in DOMAIN shown : shown[n] = shown[k] => n = k

Count(wf, kind, key) ==
    Cardinality({j \in DOMAIN wf.txs : wf.txs[j].kind = kind /\ wf.txs[j].key = key})

\* What a mint record says happened: the deposit is where L1 has it and booked
\* once, a mint marked minted was accepted, a mint marked reclaimed was broadcast
\* and booked once, whichever calls failed in between.
MintRecordsTrue ==
    \A w \in DOMAIN file : \A m \in Range(file[w].mints) :
        LET a == AddressOf(file[w], m)
        IN  /\ m.funded # 0 => m.funded = deposit[a]
            /\ Count(file[w], "Deposit", a) = IF m.funded # 0 THEN 1 ELSE 0
            /\ m.minted => \E t \in Accepted : t.type = "mint" /\ t.key = a
            /\ m.reclaimed => a \in broadcast
            /\ Count(file[w], "Reclaim", a) = IF m.reclaimed THEN 1 ELSE 0

L2Kinds == {"Mint", "Sent", "Received"}
Settled(wf, ev) ==
    {j \in Match(wf.txs, ev) : wf.txs[j].status \in {"InBlock", "Finalized"}}
EventsIn(w, h) == UNION {Range(EventsOf(w, t, h)) : t \in blocks[h].txs}

\* The history of a wallet agrees with the blocks it crossed: each of its own
\* transactions in them has exactly one settled record, with the heights of its
\* block, whatever records its submissions left or lost; and nothing else is
\* settled.
HistoryComplete ==
    \A w \in DOMAIN file :
        LET wf == file[w]
            crossed == UNION {EventsIn(w, h) : h \in (wf.booted + 1)..wf.head}
        IN  /\ \A ev \in crossed :
                 \E j \in DOMAIN wf.txs :
                     /\ Settled(wf, ev) = {j}
                     /\ wf.txs[j].l2 = ev.l2 /\ wf.txs[j].l1 = ev.l1
            /\ \A j \in DOMAIN wf.txs :
                 (wf.txs[j].kind \in L2Kinds
                    /\ wf.txs[j].status \in {"InBlock", "Finalized"})
                 => \E ev \in crossed : j \in Settled(wf, ev)

\* A deposit or a reclaim that is finalized is FinalityDepth below the tip, from
\* the L1 block that really holds it (wallet.rs:337-338).  Nothing of the kind
\* holds of records of L2: what finalize_and_refresh counts from is the height
\* their block was built at, and the block is anchored later.
FinalizedIsBuried ==
    \A w \in DOMAIN file : \A j \in DOMAIN file[w].txs :
        LET r == file[w].txs[j]
            height == IF r.kind = "Deposit" THEN deposit[r.key] ELSE spentAt[r.key]
        IN  r.kind \in {"Deposit", "Reclaim"} /\ r.status = "Finalized"
            => height # 0 /\ l1Tip - height >= FinalityDepth

\* The wallet offers a reclaim exactly when the next L1 block may contain it,
\* and L1 never refuses one as immature.
ReadyIsSpendable ==
    /\ ~refused
    /\ \A w \in DOMAIN file : \A m \in Range(file[w].mints) :
         (m.funded # 0 /\ ~m.reclaimed)
         => (ReclaimStatus(m, l1Tip) = "Ready" <=> Spendable(AddressOf(file[w], m)))

Rank(status) ==
    CASE status \in {"Soft", "Mempool", "Failed"} -> 0
      [] status = "InBlock" -> 1
      [] status = "Finalized" -> 2

TakesNothingBack(new, old) ==
    /\ old.next_mint_index <= new.next_mint_index
    /\ old.head <= new.head
    /\ \A j \in DOMAIN old.mints :
         /\ old.mints[j].index = new.mints[j].index
         /\ old.mints[j].funded # 0 => new.mints[j].funded # 0
         /\ old.mints[j].minted => new.mints[j].minted
         /\ old.mints[j].reclaimed => new.mints[j].reclaimed
    /\ \A j \in DOMAIN old.txs :
         /\ j \in DOMAIN new.txs
         /\ old.txs[j].kind = new.txs[j].kind
         /\ old.txs[j].key = new.txs[j].key
         /\ Rank(old.txs[j].status) <= Rank(new.txs[j].status)
         /\ old.txs[j].status = "Finalized" => new.txs[j] = old.txs[j]

\* No save takes a file back: records stay, their statuses only advance and a
\* finalized one never changes; no index, mint flag or head is forgotten.
FileForward ==
    [][\A w \in DOMAIN file :
         w \in DOMAIN file' /\ TakesNothingBack(file'[w], file[w])]_file
=============================================================================
