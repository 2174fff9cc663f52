--------------------------- MODULE MCIsoTpLoopback --------------------------
EXTENDS IsoTpLoopback

\* Every length that needs at most 14 consecutive frames.
ShortLengths == 0..104

\* The lengths around the next multiple of 7, and the longest one.
LongLengths == 100..112 \cup {MaxPayload}
=============================================================================
