SPECIFICATION ClientFairSpec
CONSTANTS
  c1 = c1
  c2 = c2
  a = a
  b = b
  Slash = Slash
  Chars <- MCChars
  MaxLen = 3
  Callers = {t1}
  Conns <- MCConns
  CallKeys <- MCCallKeys
  CallValues <- MCCallValues
  CallsMade <- MCCallsMade
  Garbage = Garbage
  Keys <- MCKeys
  EmptyKey <- MCEmptyKey
  Values <- MCValues
  Sizes <- MCSizes
  SizeOf <- MCSizeOf
  Null = Null
  Absent = Absent
  MaxMem = 2
  Word = 16
  MaxRequests = 2
  MaxTouches = 4
INVARIANTS ClientTypeOK AnswerBelongsToCall CallIsMoving RequestSaysCall
PROPERTIES CallReturns
