SPECIFICATION Spec
CONSTANTS
    f1 = f1
    f2 = f2
    Fingerprint = {f1, f2}
    Kind <- AllKinds
    NotificationCapacity = 2
    ProtectedCapacity = 1
    MaxActive = 1
    RetentionLimit = 1
    SummaryThresholds = {3}
    MaxEvents = 3
INVARIANTS
    TypeOK
    AggregateMatchesLedger
    OneFirstNotification
    NotableIsAccounted
    ReserveLeft
    FirstAndLatestRaw
PROPERTIES
    ResolvedUntilReopened
    LedgerAppendOnly
