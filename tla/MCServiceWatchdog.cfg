SPECIFICATION FairSpec
CONSTANTS
    monitor = monitor
    None = None
    specs <- MCSpecs
    Request = {1, 2, 3}
    MaxAttempts = 2
    Window = 3
    Suppression = 4
    ReadLimit = 2
    MaxLag = 1
INVARIANTS
    RecordedRepairsBounded
PROPERTIES
    DownIsRepaired
    RequestIsServed
