SPECIFICATION FairSpec
CONSTANTS
  Txs = {m}
  Mints = {m}
  FinalityDepth = 2
  TornAt = {"bootAnchor", "store", "anchor", "record"}
  MaxL1Tip = 3
  MaxHeight = 3
  MaxReorgs = 1
  MaxFaults = 1
  MaxTorn = 1
INVARIANTS
  TypeOK AnchorIsApplied NothingSkipped WalkReachesAnchor RejectedLeavesNoTrace
  StoredReplays
PROPERTIES CatchesUp
CHECK_DEADLOCK FALSE
