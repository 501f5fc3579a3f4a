CONSTANTS
  c1 = c1
  c2 = c2
  Calls = {c1, c2}
  Opening = {c1}
  WithInterims = {c2}
  Outcomes <- AnyOutcome
  QueueCap = 1
  MaxInterim = 1
  NoCall = NoCall
SPECIFICATION CompletionsSpec
CHECK_DEADLOCK FALSE
INVARIANTS
  WaiterIsReachable
