SPECIFICATION Spec
CONSTANTS
    NPROC = 3
    Cpus = 1
    Times = {2}
    Naps = {1}
    MaxInt = 9
    MaxPid = 4
    MaxTicks = 2
    Loads <- MCLoads
INVARIANTS
    TypeOK
    WaitersCanBeWoken
    SharersCounted
PROPERTIES
    ShortestRuns
    ForkChildFirst
    NapLasts
    IdleEnds
    NapEnds
    TreeSpec
