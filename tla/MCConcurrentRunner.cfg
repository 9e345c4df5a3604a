CONSTANTS
    NTasks = 4
    MaxWorkers = 2
    CanExpire = TRUE
SPECIFICATION FairSpec
INVARIANTS OneResultPerTask NothingLeftRunning
PROPERTIES CallEnds ImplementsGather
CHECK_DEADLOCK FALSE
