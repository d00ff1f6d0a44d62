SPECIFICATION FairSpec
CONSTANTS
    Clients = {k1}
    Paths = {a}
    Env = {"breaks", "refused", "quit"}
    Patience = 2
    MaxConns = 3
    MaxWire = 1
CHECK_DEADLOCK FALSE
INVARIANTS TypeOK LockHasHolder CountExact
PROPERTIES LostLocksGo DesertedDaemonLeaves
