SPECIFICATION Spec
CONSTANTS
    Daemons = {d1}
    Restores = {r1}
    NoDaemon = NoDaemon
    Env = {}
    MaxMounts = 1
INVARIANTS RestoreNotCut
