SPECIFICATION Spec
CONSTANTS
    Paths = {a, b}
    Env = {"remote", "unlink", "evict"}
    MaxId = 4
    MaxHandles = 1
    MaxQueue = 2
    MaxWire = 2
SYMMETRY PathSymmetry
CHECK_DEADLOCK FALSE
INVARIANTS NoLostUpdate CacheCoherent NoUnlockedDirty LockInv
PROPERTIES DirtyCopyKept ImplementsSavedFiles
