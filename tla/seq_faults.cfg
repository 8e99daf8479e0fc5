SPECIFICATION Spec
CONSTANTS
  alice = alice
  bob = bob
  seq = seq
  n1 = n1
  n2 = n2
  r1 = r1
  r2 = r2
  r3 = r3
  Addrs <- MCAddrs
  Nullifiers <- MCNullifiers
  FeeAddr = seq
  NoFeeAddr = NoFeeAddr
  MaxAtoms = 15
  MinFee = 1
  FeeBps = 1
  BpsDenominator = 2
  Requests = {r1, r2, r3}
  MintAmount <- MCMintAmount
  MintInputs <- MCMintInputs
  TransferInputs <- MCTransferInputs
  RawNonces = {}
  FundedBefore = {n1, n2}
  StoreFaults = TRUE
  RpcFaults = TRUE
  MaxBuilds = 1
  MaxCrashes = 1
  MaxReorgs = 1
  MaxL1Tip = 0
SYMMETRY MCSymmetry
CHECK_DEADLOCK FALSE
INVARIANTS
  TypeOK MintedOnce TransferredOnce ChainLinked HeadIsStored AtMostOneLate
  SupplyConserved
