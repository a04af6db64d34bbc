SPECIFICATION Spec
CONSTANTS
  Ip = {i1}
  Node = {n1}
  Sid = {s1, s2}
  Conn = {c1, c2, c3}
  Req = {r1}
  Qr = {}
  Pass = {p1}
  MaxAttempts = 1
  FreezeThreshold = 1
  MaxNodes = 2
  MaxPerIp = 2
  MaxBlocked = 1
  MaxGen = 1
  LateFrames = FALSE
  Slowable = {}
  Misuse = TRUE
  NoSid = NoSid
  NoConn = NoConn
  NoReq = NoReq
  NoQr = NoQr
  NoSession = NoSession
  NoInv = NoInv
SYMMETRY SocketSymmetry
INVARIANTS ProofIndexExact SocketIndexExact ChannelExact NoGhostPeers BlockedNotTold
PROPERTIES LateCloseSparesReconnect
