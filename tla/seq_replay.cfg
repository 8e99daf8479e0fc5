SPECIFICATION Spec
CONSTANTS
  alice = alice
  bob = bob
  seq = seq
  n1 = n1
  n2 = n2
  r1 = r1
  r2 = r2
  r3 = r3
  Addrs <- MCAddrs
  Nullifiers <- MCNullifiers
  FeeAddr = seq
  NoFeeAddr = NoFeeAddr
  MaxAtoms = 15
  MinFee = 1
  FeeBps = 1
  BpsDenominator = 2
  Requests = {r1, r2, r3}
  MintAmount <- MCMintAmount
  MintInputs <- MCMintInputs
  TransferInputs <- MCTransferInputs
  RawNonces = {0}
  FundedBefore = {n1}
  StoreFaults = TRUE
  RpcFaults = FALSE
  MaxBuilds = 1
  MaxCrashes = 0
  MaxReorgs = 0
  MaxL1Tip = 1
CHECK_DEADLOCK FALSE
INVARIANTS RootsReplay
