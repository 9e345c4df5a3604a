SPECIFICATION Spec
CONSTANTS
    MaxRuns = 2
    MaxFaults = 2
INVARIANTS TypeOK ReportHolds ApplyRepairs
CHECK_DEADLOCK FALSE
