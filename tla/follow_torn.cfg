SPECIFICATION FairSpec
CONSTANTS
  Txs = {m}
  Mints = {m}
  FinalityDepth = 2
  TornAt = {"anchor"}
  MaxL1Tip = 2
  MaxHeight = 2
  MaxReorgs = 0
  MaxFaults = 0
  MaxTorn = 1
PROPERTIES LoopEnds
CHECK_DEADLOCK FALSE
