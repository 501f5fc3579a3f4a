CONSTANTS
  r1 = r1
  r2 = r2
  r3 = r3
  a = a
  b = b
  None = None
  Requests = {r1, r2}
  Keys = {a}
  Conns = {1, 2}
  Groups = {1, 2}
  Protos <- OnlyH2
  Raced = {a}
  Covers <- NoCover
  Modes = {"pooled"}
  KeepAlive = TRUE
  Attempts = 2
  SpareBeforePreface = TRUE
  MaxConnsPerHost = 1
  MaxIdleConns = 2
  MaxFaults = 0
  Faulty = {}
SPECIFICATION Spec
CHECK_DEADLOCK FALSE
INVARIANTS
  NobodyElsesCancel
