SPECIFICATION FairSpec
CONSTANTS
    Paths = {a, b}
    MaxFile = 3
    MaxSize = 2
CHECK_DEADLOCK FALSE
INVARIANTS TypeOK TotalIsSum CopyAccounted OverLimitOnlyDirty
PROPERTIES NewestGoesLast EvictionEnds
