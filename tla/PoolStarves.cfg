CONSTANTS
  r1 = r1
  r2 = r2
  r3 = r3
  a = a
  b = b
  None = None
  Requests = {r1, r2}
  Keys = {a, b}
  Conns = {1, 2}
  Groups = {1, 2}
  Protos <- OnlyH2
  Raced = {a, b}
  Covers <- NoCover
  Modes = {"pooled"}
  KeepAlive = TRUE
  Attempts = 1
  SpareBeforePreface = FALSE
  MaxConnsPerHost = 1
  MaxIdleConns = 1
  MaxFaults = 0
  Faulty = {}
SPECIFICATION FairSpec
CHECK_DEADLOCK FALSE
PROPERTIES
  EveryRequestServed
