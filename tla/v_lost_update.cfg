SPECIFICATION Spec
CONSTANTS
    Paths = {a}
    Env = {"overlap"}
    MaxId = 3
    MaxHandles = 1
    MaxQueue = 1
    MaxWire = 2
CHECK_DEADLOCK FALSE
INVARIANTS NoLostUpdate
