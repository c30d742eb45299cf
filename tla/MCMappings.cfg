SPECIFICATION Spec
CONSTANTS
    Procs = {1, 2}
    First = 1
    PGSIZE = 2
    HPSIZE = 4
    KERNBASE = 12
    AddrSpace = 24
    PhysFrames = 16
    Frames = 11
    DevFrame = 14
    HugeStart = 8
    HugeEnd = 12
    Deltas <- MCDeltas
    Programs <- MCPrograms
    IoArgs <- MCIoArgs
    HpArgs <- MCHpArgs
CHECK_DEADLOCK FALSE
INVARIANTS
    TypeOK
    FramesAccounted
    KernelKept
PROPERTIES
    MemoryStaysBelow
