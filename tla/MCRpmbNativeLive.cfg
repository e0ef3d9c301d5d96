SPECIFICATION NativeFairSpec
CONSTANTS
    Ids = {r1, r2, r3}
    NoId = NoId
    BlockCounts = {1}
    DMA_BOUNCE_BLOCKS = 2
    BootCtl <- UBootCtl
    BootClocks <- UBootClocks
    Faults = {"map", "reset", "inhibit", "cmd", "ocr", "reject", "data", "busy", "foreign", "gate", "alloc"}
    MaxFaults = 1
    CFG_RPMB_WRITE_KEY = FALSE
    MaxBoots = 1
INVARIANTS
    NativeInv
PROPERTIES
    ProbeEnds
    AnswersAgain
