SPECIFICATION FairSpec
CONSTANTS
  N = 3
  Lane = {l1}
  MaxAtt = 3
  MaxMint = 3
  Versions = {2}
  Streamed = FALSE
  PreCap = 2
  MaxRounds = 3
  Bounds <- Faults
CHECK_DEADLOCK FALSE
INVARIANTS OneSender SkippedIsDurable ReceivedIsDurable CancelledStaysCancelled
PROPERTIES Settles Implements
