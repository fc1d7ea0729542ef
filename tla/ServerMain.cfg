SPECIFICATION MainFairSpec
CONSTANTS
  noname = noname
  k1 = k1
  v1 = v1
  v2 = v2
  v3 = v3
  c1 = c1
  s1 = s1
  s2 = s2
  Callers = {t1, t2}
  Udp = Udp
  Senders = {s1, s2}
  Traffic <- MCTraffic
  Garbage <- MCGarbage
  Conns <- MCConns
  Keys <- MCKeys
  EmptyKey = noname
  Values <- MCValues
  Sizes <- MCSizes
  SizeOf <- MCSizeOf
  Null = Null
  Absent = Absent
  MaxMem = 4
  Word = 16
  MaxRequests = 3
  MaxTouches = 6
CHECK_DEADLOCK FALSE
INVARIANTS MainTypeOK OneThreadPerSession HandlingHasThread AnswerGoesToAsker SpinsForCause
PROPERTIES UdpKeepsAnswering EveryRequestServed
