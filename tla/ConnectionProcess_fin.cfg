SPECIFICATION FairSpec
CONSTANTS
  Window = 2
  PipeCapacity = 2
  Failures = {"fin"}
  MaxIssued = 1
  MaxProduced = 1
PROPERTY PeerCloseNoticed
CHECK_DEADLOCK FALSE
