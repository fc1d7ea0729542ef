SPECIFICATION FairSpec
CONSTANTS
  noname = noname
  k1 = k1
  k2 = k2
  v1 = v1
  v2 = v2
  Callers = {t1}
  Keys <- MCKeys
  EmptyKey = noname
  Values <- MCValues
  Sizes <- MCSizes
  Null = Null
  Absent = Absent
  MaxMem = 4
  Word = 16
  MaxTouches = 3
PROPERTIES EverySetReturns
