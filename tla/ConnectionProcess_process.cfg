SPECIFICATION FairSpec
CONSTANTS
  Window = 1
  PipeCapacity = 1
  Failures = {"fin", "rst", "exc", "setup", "lost", "interrupt"}
  MaxIssued = 2
  MaxProduced = 2
INVARIANTS
  TypeOK
  AcksInOrder
PROPERTIES
  ImplementsLifecycle
  AbortStopsReader
  AbortEndsCommandLoop
  ResetEndsProcess
CHECK_DEADLOCK FALSE
