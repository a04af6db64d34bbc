SPECIFICATION FairSpec
CONSTANTS
  N = 3
  Lane = {l1, l2}
  MaxAtt = 2
  MaxMint = 2
  Versions = {1, 2}
  Streamed = TRUE
  PreCap = 2
  MaxRounds = 3
  Bounds <- LaneTimers
CHECK_DEADLOCK FALSE
INVARIANTS NoEarlyPayload CompleteIsDelivered NoHoles
PROPERTIES NotLostSilently
