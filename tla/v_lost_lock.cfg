SPECIFICATION Spec
CONSTANTS
    Clients = {k1}
    Paths = {a, b}
    Env = {"breaks"}
    Patience = 2
    MaxConns = 2
    MaxWire = 1
CHECK_DEADLOCK FALSE
INVARIANTS ResentLockHeld
