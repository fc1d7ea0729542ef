SPECIFICATION DriverSpec
CONSTANTS
  LowDraws <- MCLow
  OtherSizes <- MCOther
  Probs <- MCProbs
  Wanted = 0
  locality_range_ = 1
  ShiftNum = 1
  ShiftDen = 2
  NoScan = NoScan
  DummyKey = DummyKey
  Durations <- MCDurations
  WarmSizes <- MCWarmSizes
  IntMax = 1995
  Garbage = Garbage
  MaxReq = 2
INVARIANTS LatencyIsMeasured
