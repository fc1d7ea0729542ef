SPECIFICATION ServerSpec
CONSTANTS
  noname = noname
  k1 = k1
  v1 = v1
  v2 = v2
  c1 = c1
  c2 = c2
  Callers = {t1}
  Conns <- MCConns
  Keys <- MCKeys
  EmptyKey = noname
  Values <- MCValues
  Sizes <- MCSizes
  SizeOf <- MCSizeOf
  Null = Null
  Absent = Absent
  MaxMem = 5
  Word = 16
  MaxRequests = 3
  MaxTouches = 6
SYMMETRY ConnSymmetry
INVARIANTS ServerTypeOK NoStaleValue
PROPERTIES PutStoresItsValue ValueKeptUntilRoomNeeded
