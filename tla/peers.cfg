SPECIFICATION Spec
CONSTANTS
    a = a
    b = b
    Side = {a, b}
    Polite = a
    MaxRestarts = 1
    Bounds <- Mixes
INVARIANTS TypeOK NoLeak LockOwned MakingEnds BothOnline
PROPERTIES Settles
CHECK_DEADLOCK FALSE
