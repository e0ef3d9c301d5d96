SPECIFICATION FairSpec
CONSTANTS
    Hosts = {h1, h2}
    NoHost = NoHost
    sec_size = 2
    CoordLens = {1, 2}
    BlobLens = {1, 2}
    ConvertSize = 1
CHECK_DEADLOCK FALSE
INVARIANTS
    KeyTravelsWhole
    FlushIsOwn
    KeysFreed
PROPERTY HostsEnd
