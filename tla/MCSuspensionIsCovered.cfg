SPECIFICATION Spec
CONSTANTS
    MaxCrashes = 1
INVARIANTS
    SuspensionIsCovered
