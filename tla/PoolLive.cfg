CONSTANTS
  r1 = r1
  r2 = r2
  r3 = r3
  a = a
  b = b
  None = None
  Requests = {r1, r2}
  Keys = {a, b}
  Conns = {1, 2, 3}
  Groups = {1, 2}
  Protos <- MixedKeys
  Raced = {a, b}
  Covers <- NoCover
  Modes = {"pooled"}
  KeepAlive = TRUE
  Attempts = 2
  SpareBeforePreface = TRUE
  MaxConnsPerHost = 1
  MaxIdleConns = 2
  MaxFaults = 1
  Faulty = {"dial"}
SPECIFICATION FairSpec
CHECK_DEADLOCK FALSE
INVARIANTS
  NoLeakedSocket
  NoStrandedWaiter
  OnePreface
  ClosedStaysEmpty
PROPERTIES
  EveryRequestServed
  CloseDrains
