CONSTANTS
  r1 = r1
  r2 = r2
  r3 = r3
  a = a
  b = b
  None = None
  Requests = {r1, r2}
  Keys = {a, b}
  Conns = {1, 2}
  Groups = {1, 2}
  Protos <- EitherA
  Raced = {a, b}
  Covers <- ACoversB
  Modes = {"pooled", "pinned"}
  KeepAlive = TRUE
  Attempts = 2
  SpareBeforePreface = FALSE
  MaxConnsPerHost = 1
  MaxIdleConns = 1
  MaxFaults = 1
  Faulty = {"dial", "server", "clock"}
SPECIFICATION Spec
SYMMETRY Symmetric
CHECK_DEADLOCK FALSE
INVARIANTS
  H1Exclusive
  RightConnection
  PoolBooks
