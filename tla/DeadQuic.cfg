CONSTANTS
  Parts = {"h3"}
  H3Requests = {1, 2}
  H3MaxConns = 1
  H3MaxStreams = 2
  H1Last = 3
  BpThreads = {1, 2, 3}
  QpStreams = {1, 2}
  QpCapacity = 2
  QpMaxInserts = 4
  Requests = {1}
  Attempts = 1
  Listed = TRUE
  MaxHops = 1
  MaxKept = 1
  MaxLate = 1
  Kinds = {"get"}
  Records = {TRUE}
  Critical = FALSE
  Troubles = {}
  Calls = {1, 2}
  Opening = {1}
  WithInterims = {2}
  Outcomes <- PythonOk
  QueueCap = 1
  MaxInterim = 1
  NoCall = NoCall
SPECIFICATION Spec
CHECK_DEADLOCK FALSE
PROPERTIES
  RetryDialsAnew
