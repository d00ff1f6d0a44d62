SPECIFICATION Spec
CONSTANTS
    Paths = {a}
    Env = {"overlap", "reopen", "remote", "remoteSetattr", "unlink", "truncate", "evict", "resubscribe"}
    MaxId = 3
    MaxHandles = 1
    MaxQueue = 1
    MaxWire = 2
CHECK_DEADLOCK FALSE
INVARIANTS TypeOK DirtyHasOwner CheckedSnapshotIsCurrent
PROPERTY DirtyCopyKept
