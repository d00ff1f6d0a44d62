SPECIFICATION Spec
CONSTANTS
    Paths = {a}
    Env = {"remote", "unlink", "truncate"}
    MaxId = 6
    MaxHandles = 1
    MaxQueue = 2
    MaxWire = 3
CHECK_DEADLOCK FALSE
INVARIANTS NoLostUpdate CacheCoherent TurnInv
PROPERTY ImplementsSavedFiles
