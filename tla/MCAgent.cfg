CONSTANTS
    aws = aws
    gcp = gcp
    bucket = bucket
    Providers <- MCProviders
    Keys <- MCKeys
    ProviderOf <- MCProviderOf
    MaxHistory = 2
    TooLarge <- MCTooLarge
    Faults <- MCFaults
    MaxFaults = 2
    MaxChanges = 2
    MaxStops = 1
    MaxCycles = 3
SPECIFICATION FairSpec
INVARIANTS Accounted 
PROPERTIES GracefulStop HistoryKeepsLatest ShutdownHonoured
CHECK_DEADLOCK FALSE
