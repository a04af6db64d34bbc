SPECIFICATION Spec
CONSTANTS
  MaxSid = 4
  MaxVer = 2
  Node = {n1, n2}
  NoNode = NoNode
  Proofs = {TRUE, FALSE}
  Bounds <- Single
CHECK_DEADLOCK FALSE
PROPERTIES RenewalKeepsEpoch
