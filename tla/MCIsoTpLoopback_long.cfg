SPECIFICATION LoopbackSpec
CONSTANT Lengths <- LongLengths
INVARIANT RoundTrip
CHECK_DEADLOCK FALSE
