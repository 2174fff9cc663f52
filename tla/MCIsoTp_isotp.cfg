SPECIFICATION IsoTpSpec
CONSTANTS
  Base = 3
  Lengths <- MCLengths
  Requests <- MCRequests
  EcuLengths = {3, 15}
  MaxMessages = 2
  MaxCalls = 3
  MaxStray = 1
  MaxLost = 2
  MaxLate = 1
INVARIANTS
  CollectsPrefix
  CompleteAtTheEnd
  RoundTrip
  RequestsAreReadable
  OneWholeMessage
  ReceivedInOrder
  NoErrorWithoutFault
CHECK_DEADLOCK FALSE
