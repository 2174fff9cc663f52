SPECIFICATION ObjectSpec
CONSTANTS
  Window = 1
  PipeCapacity = 2
  Failures = {"fin", "rst", "exc", "setup", "lost", "interrupt"}
  MaxIssued = 2
  MaxProduced = 1
  Threads = {user}
  user = user
  Platforms = {TRUE, FALSE}
  Polls = 1
  SendKinds = {"OTHER", "RESET"}
  MaxResets = 1
INVARIANTS
  StatusTracksProcess
  CommandsInOrder
CHECK_DEADLOCK FALSE
