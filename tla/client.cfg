SPECIFICATION Spec
CONSTANTS
  MaxSid = 4
  MaxVer = 2
  Node = {n1, n2}
  NoNode = NoNode
  Proofs = {TRUE, FALSE}
  Bounds <- Triples
CHECK_DEADLOCK FALSE
INVARIANTS SpeaksForSession LockFreedAtRest StaysLoggedOut
PROPERTIES ComesOnline
