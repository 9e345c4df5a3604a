SPECIFICATION Spec
CONSTANTS
    Hosts <- AllHosts
    MaxRuns = 3
    MaxFaults = 1
INVARIANTS ShutOutOnlyThere OriginalKept ApplyHardens
PROPERTY RestoredIsTrue
CHECK_DEADLOCK FALSE
