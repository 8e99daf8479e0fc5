SPECIFICATION FairSpec
CONSTANTS
  alice = alice
  bob = bob
  seq = seq
  n1 = n1
  n2 = n2
  Addrs <- MCAddrs
  Nullifiers = {n1, n2}
  Outpoints = {n1, n2}
  FeeAddr = seq
  NoFeeAddr = NoFeeAddr
  MaxAtoms = 15
  MinFee = 1
  FeeBps = 1
  BpsDenominator = 2
  TreeDepth = 2
  Bits <- MCBits
  MaxLockBlocks = 3
  MaxL1Height = 7
  MintFn <- MCMintFn
  Own = alice
  Targets = {alice}
  Early = {n1}
  LockOf <- MCLockOf
  Transfers <- MCTransfers
  BadMints = {n1}
  MaxL1Tip = 4
  MaxHeight = 2
  MaxTxs = 1
  MaxAtts = 2
  MaxLies = 0
  MaxTorn = 2
  MaxMoves = 1
  MaxFaults = 1
CHECK_DEADLOCK FALSE

PROPERTIES CatchesUp
INVARIANTS HonestNeverRejected
