SPECIFICATION FairSpec
CONSTANTS
    Capacity = 2
    MaxSeq = 3
INVARIANTS
    TypeOK
    MessageOwnedOnce
    NoLostWakeup
    AtMostOneDrainQueued
    EventsConserved
    LossIsFlagged
PROPERTIES
    EveryNumberAccounted
    ReportsMonotone
    ImplementsChannel
    AcceptedIsDrained
    ShutdownTerminates
    ProbeTerminates
