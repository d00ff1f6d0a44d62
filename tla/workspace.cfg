SPECIFICATION Spec
CONSTANTS
    Daemons = {d1, d2}
    Restores = {r1, r2}
    NoDaemon = NoDaemon
    Env = {}
    MaxMounts = 2
SYMMETRY ProcessSymmetry
INVARIANTS TypeOK DataKept
PROPERTY RestoreCompletes
