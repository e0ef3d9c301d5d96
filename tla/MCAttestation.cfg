SPECIFICATION MCSpec
CONSTANTS
    Hosts = {h1, h2}
    Sessions = {s1, s2}
    NoSession = NoSession
    Args <- MCArgs
    MaxReboots = 1
INVARIANTS
    EvidenceAnswersSession
    AffirmedIsFresh
    LoggedIsOwn
    TempFilesRemoved
    HandlesReleased
    SignerMatchesInstance
    IInv
PROPERTY HostEnds
CHECK_DEADLOCK FALSE
