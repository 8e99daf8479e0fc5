SPECIFICATION FairSpec
CONSTANTS
  FinalityDepth = 2
  ReorgDepth = 1
  MaxL1Tip = 4
  MaxEvictions = 1
  MaxErrors = 1
  MaxBreaks = 1
INVARIANTS TypeOK ForgottenIsFinal
PROPERTIES ImplementsChain AnchorRecovers EveryAdvanceAttested
