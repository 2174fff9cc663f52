SPECIFICATION ObjectSpec
CONSTANTS
  Window = 1
  PipeCapacity = 2
  Failures = {}
  MaxIssued = 3
  MaxProduced = 2
  Threads = {user}
  user = user
  Platforms = {TRUE}
  Polls = 2
  SendKinds = {"OTHER"}
  MaxResets = 1
INVARIANTS
  NoStaleCommand
  AnsweredByOwnReply
CHECK_DEADLOCK FALSE
