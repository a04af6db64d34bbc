SPECIFICATION FairSpec
CONSTANTS
  c1 = c1
  c2 = c2
  c3 = c3
  p1 = p1
  p2 = p2
  ip = ip
  Cid = {c1, c2}
  NoCid = NoCid
  Principal = {p1, p2}
  PrincipalOf <- MCPrincipalOf
  Ip = {ip}
  IpOf <- MCIpOf
  MaxRid = 3
  Limit = 3
  MaxIssue = 3
  IpBytes = 4
  Cap = 2
  Strikes = 2
  Caller = {"abuse", "sweep", "lock", "stop"}
  Torn = Torn
  Bounds <- Mixes
CHECK_DEADLOCK FALSE
INVARIANTS TypeOK DenialIsDurable ToldLockIsDurable LiveIsOnTheBooks ReservedIsCounted KillSwitchTrips CleanExitKeepsBooks
PROPERTIES BannedGetsNothing UsageIsKept FlushersAnswered
