SPECIFICATION Spec
CONSTANTS
    Ids = {r1}
    NoId = NoId
    BlockCounts = {1}
    DMA_BOUNCE_BLOCKS = 2
    BootCtl <- UBootCtl
    BootClocks <- UBootClocks
    Faults = {"data"}
    MaxFaults = 1
INVARIANT NextCommandWaits
