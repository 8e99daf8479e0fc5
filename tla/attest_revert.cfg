SPECIFICATION FairSpec
CONSTANTS
  FinalityDepth = 2
  ReorgDepth = 1
  MaxL1Tip = 4
  MaxEvictions = 1
  MaxErrors = 0
  MaxBreaks = 0
PROPERTIES AnchorAlwaysRecovers
