SPECIFICATION ObjectFairSpec
CONSTANTS
  Window = 1
  PipeCapacity = 1
  Failures = {}
  MaxIssued = 2
  MaxProduced = 2
  Threads = {user}
  user = user
  Platforms = {TRUE}
  Polls = 1
  SendKinds = {"OTHER"}
  MaxResets = 1
PROPERTY ResetReturns
CHECK_DEADLOCK FALSE
