CONSTANTS
    b1 = b1
    b2 = b2
    b3 = b3
    r1 = r1
    r2 = r2
    Buckets <- MCBuckets
    Excluded <- MCExcluded
    Regions <- MCRegions
    Audited <- MCRegions
    RollbackRegion = r1
    Controls <- MCControls
    Modes <- MCModes
    FlowLogDestination = TRUE
    Workers = 2
    InitialConfigs <- MCInitialConfigs
    Faults <- MCFaults
    MaxFaults = 1
    MaxRuns = 2
    MaxRollbacks = 2
SPECIFICATION Spec
INVARIANTS PassIsTrue ApplyConverges
PROPERTIES EvidenceComplete  OnlyApplyMutates PlanPredictsApply NearsItsEnd ExitZeroMeansRestored
CHECK_DEADLOCK FALSE
