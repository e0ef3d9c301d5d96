SPECIFICATION FairSpec
CONSTANTS
    Ids = {r1}
    NoId = NoId
    BlockCounts = {1}
    DMA_BOUNCE_BLOCKS = 2
    BootCtl <- AnyCtl
    BootClocks <- AnyClocks
    Faults = {"writecmd"}
    MaxFaults = 1
PROPERTY Recovers
