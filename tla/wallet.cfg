SPECIFICATION Spec
CONSTANTS
  w1 = w1
  c1 = c1
  Ext = Ext
  NoWallet = NoWallet
  Idle = Idle
  NoNullifier = NoNullifier
  Wallets = {w1}
  Dests = {w1}
  Encrypted = {w1}
  Slots = {c1}
  Overlap = FALSE
  Locks = {2}
  MaxLockBlocks = 3
  FinalityDepth = 1
  MaxKeys = 2
  MaxSubmits = 2
  MaxDeposits = 1
  MaxTip = 3
  MaxBlocks = 2
CHECK_DEADLOCK FALSE
INVARIANTS TypeOK FilesKeepIdentity ShownKept MintRecordsTrue HistoryComplete FinalizedIsBuried ReadyIsSpendable
PROPERTIES FileForward
