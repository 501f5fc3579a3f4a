CONSTANTS
  r1 = r1
  r2 = r2
  r3 = r3
  a = a
  b = b
  None = None
  Requests = {r1, r2, r3}
  Keys = {a}
  Conns = {1, 2}
  Groups = {1, 2}
  Protos <- OnlyH2
  Raced = {a}
  Covers <- NoCover
  Modes = {"pooled"}
  KeepAlive = TRUE
  Attempts = 1
  SpareBeforePreface = FALSE
  MaxConnsPerHost = 1
  MaxIdleConns = 2
  MaxFaults = 1
  Faulty = {"server"}
SPECIFICATION Spec
SYMMETRY Symmetric
CHECK_DEADLOCK FALSE
INVARIANTS
  NeighbourNotCut
