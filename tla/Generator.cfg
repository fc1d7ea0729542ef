SPECIFICATION GenFairSpec
CONSTANTS
  LowDraws <- MCLow
  OtherSizes <- MCOther
  Probs <- MCProbs
  Wanted = 6
  locality_range_ = 2
  ShiftNum = 2
  ShiftDen = 3
  NoScan = NoScan
  DummyKey = DummyKey
INVARIANTS GenTypeOK IndexInBounds ScanIsOneLap
PROPERTIES ScanAdvances GenReturns
