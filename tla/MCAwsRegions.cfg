CONSTANTS
    b1 = b1
    b2 = b2
    b3 = b3
    r1 = r1
    r2 = r2
    Buckets <- MCOneBucket
    Excluded = {}
    Regions <- MCTwoRegions
    Audited <- MCTwoRegions
    RollbackRegion = r1
    Controls <- MCOtherControls
    Modes <- MCModes
    FlowLogDestination = FALSE
    Workers = 2
    InitialConfigs <- MCInitialConfigs
    Faults <- MCFaults
    MaxFaults = 1
    MaxRuns = 1
    MaxRollbacks = 2
SPECIFICATION Spec
PROPERTIES ExitZeroMeansRestored
CHECK_DEADLOCK FALSE
