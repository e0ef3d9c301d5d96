SPECIFICATION NativeSpec
CONSTANTS
    Ids = {r1, r2, r3}
    NoId = NoId
    BlockCounts = {1}
    DMA_BOUNCE_BLOCKS = 2
    BootCtl <- UBootCtl
    BootClocks <- UBootClocks
    Faults = {"map", "reset", "inhibit", "cmd", "writecmd", "ocr", "reject", "data", "busy", "foreign", "gate", "cut", "alloc"}
    MaxFaults = 2
    CFG_RPMB_WRITE_KEY = TRUE
    MaxBoots = 1
INVARIANTS
    KeyProgrammedOnce
PROPERTY KeepsPromise
SYMMETRY Symmetry
