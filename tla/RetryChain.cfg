CONSTANTS
  r1 = r1
  Requests = {r1}
  Kinds = {"post"}
  Attempts = 1
  Listed = TRUE
  MaxHops = 1
  Records = {FALSE}
  Critical = FALSE
  MaxKept = 0
  MaxLate = 1
  Troubles = {}
SPECIFICATION RPSpec
CHECK_DEADLOCK FALSE
INVARIANTS
  RetryOnlyUnprocessed
