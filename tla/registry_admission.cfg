SPECIFICATION Spec
CONSTANTS
  Ip = {i1, i2}
  Node = {n1}
  Sid = {s1, s2, s3}
  Conn = {}
  Req = {r1, r2}
  Qr = {q1}
  Pass = {p1, p2}
  MaxAttempts = 1
  FreezeThreshold = 1
  MaxNodes = 2
  MaxPerIp = 1
  MaxBlocked = 0
  MaxGen = 0
  LateFrames = FALSE
  Slowable = {}
  Misuse = FALSE
  NoSid = NoSid
  NoConn = NoConn
  NoReq = NoReq
  NoQr = NoQr
  NoSession = NoSession
  NoInv = NoInv
SYMMETRY AdmissionSymmetry
INVARIANTS OneIdentityPerNode WithinCapacity GrantAdmitsOnce
PROPERTY ImplementsAdmission
