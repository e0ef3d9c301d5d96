SPECIFICATION Spec
CONSTANTS
    Ids = {r1}
    NoId = NoId
    BlockCounts = {1, 3}
    DMA_BOUNCE_BLOCKS = 2
    BootCtl <- AnyCtl
    BootClocks <- AnyClocks
    Faults = {"map", "reset", "inhibit", "cmd", "writecmd", "ocr", "reject", "data", "busy", "foreign", "gate", "cut"}
    MaxFaults = 2
INVARIANTS
    FramesOnRpmbPartition
    CacheCoherent
    FaultsOnlyWhenCut
    ProgrammingAwaited
    IInv
