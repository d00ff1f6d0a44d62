SPECIFICATION Spec
CONSTANTS
    a = a
    b = b
    f = f
    Order <- MCOrder
    Nodes <- MCNodes
    Objects = {o1}
    MaxInodes = 3
    MaxHandles = 1
    MaxDirty = 1
CONSTRAINTS ListedAlone Hopeful
VIEW View
CHECK_DEADLOCK FALSE
INVARIANTS TypeOK TablesAgree ListingFaithful
PROPERTIES LockedFileStays ChangeIsAnnounced
