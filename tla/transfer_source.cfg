SPECIFICATION Spec
CONSTANTS
  N = 2
  Lane = {l1}
  MaxAtt = 2
  MaxMint = 2
  Versions = {2}
  Streamed = FALSE
  PreCap = 2
  MaxRounds = 3
  Bounds <- Drops
CHECK_DEADLOCK FALSE
PROPERTIES SourceKept
