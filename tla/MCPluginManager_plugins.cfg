SPECIFICATION FairSpec
CONSTANTS
    a = a
    b = b
    u = u
    m1 = m1
    o1 = o1
    o2 = o2
    Name <- TwoNames
    URL <- OneURL
    NoURL = NoURL
    BaseName <- Base
    Module <- OneModule
    NoModule = NoModule
    NoEntry = NoEntry
    NoRepo = NoRepo
    Op <- TwoOps
    Idle = Idle
    Manifests <- MCManifests
    MaxRestarts = 1
INVARIANTS OneAtATime IndexServes ModulesLoaded EntriesOnDisk
PROPERTY OperationsEnd
CONSTRAINTS NoRace OneAfterRestart
CHECK_DEADLOCK FALSE
