SPECIFICATION Spec
CONSTANTS
    MaxCrashes = 2
INVARIANTS
    TypeOK
    LeaseTellsTruth
    IntentBeforeSignal
