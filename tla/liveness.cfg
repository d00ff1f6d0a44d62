SPECIFICATION FairSpec
CONSTANTS
    Paths = {a}
    Env = {"overlap", "reopen", "truncate"}
    MaxId = 3
    MaxHandles = 2
    MaxQueue = 1
    MaxWire = 2
CHECK_DEADLOCK FALSE
INVARIANTS DirtyHasOwner CheckedSnapshotIsCurrent
PROPERTY DirtyIsSynced
