SPECIFICATION StreamSpec
CONSTANTS
  HeaderLen = 6
  RecvMax = 4096
  DataLens = {0, 6, 13}
  WholeSegments = FALSE
  MaxSent = 2
INVARIANT OnlyWholeMessages
CHECK_DEADLOCK FALSE
