SPECIFICATION Spec
CONSTANTS
  Ip = {i1}
  Node = {n1}
  Sid = {s1}
  Conn = {c1}
  Req = {r1}
  Qr = {}
  Pass = {p1}
  MaxAttempts = 1
  FreezeThreshold = 1
  MaxNodes = 1
  MaxPerIp = 1
  MaxBlocked = 0
  MaxGen = 0
  LateFrames = TRUE
  Slowable = {}
  Misuse = FALSE
  NoSid = NoSid
  NoConn = NoConn
  NoReq = NoReq
  NoQr = NoQr
  NoSession = NoSession
  NoInv = NoInv
INVARIANTS ChannelExact
