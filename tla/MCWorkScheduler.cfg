SPECIFICATION FairSpec
CONSTANTS
    t1 = t1
    t2 = t2
    t3 = t3
    k = k
    None = None
    Task = {t1, t2, t3}
    Key = {k}
    KeyOf <- MCKeyOf
    PriorityOf <- MCPriorityOf
    Background = {t1, t3}
    MaxConcurrent = 2
    MaxHistory = 1
INVARIANTS
    WithinBudget
    KeyGivenBack
    ShutdownReachesAll
PROPERTIES
    QueuedIsStarted
    ShutdownCompletes
CHECK_DEADLOCK FALSE
