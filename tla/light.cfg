SPECIFICATION Spec
CONSTANTS
  alice = alice
  bob = bob
  seq = seq
  n1 = n1
  n2 = n2
  Addrs <- MCAddrs
  Nullifiers = {n1, n2}
  Outpoints = {n1, n2}
  FeeAddr = seq
  NoFeeAddr = NoFeeAddr
  MaxAtoms = 15
  MinFee = 1
  FeeBps = 1
  BpsDenominator = 2
  TreeDepth = 2
  Bits <- MCBits
  MaxLockBlocks = 3
  MaxL1Height = 7
  MintFn <- MCMintFn
  Own = alice
  Targets = {alice, bob}
  Early = {n1, n2}
  LockOf <- MCLockOf
  Transfers <- MCTransfers
  BadMints = {n1}
  MaxL1Tip = 1
  MaxHeight = 2
  MaxTxs = 2
  MaxAtts = 2
  MaxLies = 1
  MaxTorn = 0
  MaxMoves = 0
  MaxFaults = 0
CHECK_DEADLOCK FALSE
INVARIANTS TypeOK HeadCommits VerifiedIsValid HeadIsAttested HistoryExact ShownIsTrue
PROPERTIES NeverBack
