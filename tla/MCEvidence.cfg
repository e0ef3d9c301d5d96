SPECIFICATION Spec
CONSTANTS
    NonceLens <- MCNonceLens
    OutLens <- MCOutLens
    VersionLens <- MCVersionLens
    Layouts <- MCLayouts
    SrkWords = 2
    MaxBlown = 2
INVARIANTS
    TypeOK
    ResourcesReleased
    LifecycleNotBehindSigner
    MeasurementStable
    NonceFits
CHECK_DEADLOCK FALSE
