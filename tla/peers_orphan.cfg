SPECIFICATION Spec
CONSTANTS
    a = a
    b = b
    Side = {a, b}
    Polite = a
    MaxRestarts = 1
    Bounds <- Socket
INVARIANT NeverOrphaned
CHECK_DEADLOCK FALSE
