SPECIFICATION OverlapSpec
CONSTANTS
    Daemons = {d1, d2}
    Restores = {r1, r2}
    NoDaemon = NoDaemon
    Env = {"restores", "starts", "unmountFails", "bareUse"}
    MaxMounts = 2
PROPERTY OnlyCrossedHarm
