SPECIFICATION FairSpec
CONSTANTS
    k1 = k1
    k2 = k2
    k3 = k3
    k4 = k4
    v1 = v1
    v2 = v2
    Keys <- MCKeys
    Values <- MCTwoValues
    HashLow <- MCHashLow
    HashHigh <- MCHashHigh
    FitSizes <- MCFitSizes
    MaxSlots = 16
INVARIANTS
    StoredIsFound
    ProbeSucceeds
PROPERTIES
    ImplementsMap
    ResizeTerminates
