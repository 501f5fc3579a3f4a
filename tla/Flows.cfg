CONSTANTS
  Parts = {"h3", "h1", "body", "qpack", "request", "async"}
  H3Requests = {1, 2}
  H3MaxConns = 1
  H3MaxStreams = 2
  H1Last = 3
  BpThreads = {1, 2, 3}
  QpStreams = {1, 2}
  QpCapacity = 2
  QpMaxInserts = 4
  Requests = {1}
  Attempts = 1
  Listed = TRUE
  MaxHops = 1
  MaxKept = 0
  MaxLate = 1
  Kinds = {"post"}
  Records = {TRUE}
  Critical = FALSE
  Troubles = {"deadline"}
  Calls = {1, 2}
  Opening = {1}
  WithInterims = {2}
  Outcomes <- PythonOk
  QueueCap = 1
  MaxInterim = 1
  NoCall = NoCall
SPECIFICATION FairSpec
CHECK_DEADLOCK FALSE
INVARIANTS
  FlowsTypeOK
  OwnAnswer
  SectionDecodes
  NothingIsLost
PROPERTIES
  GoneAwayCloses
  CancelReaches
  WriterReturns
  BlockedWakes
  EveryRequestEnds
  OneCallOneResult
  ResultsArrive
  EveryAwaitSettles
