CONSTANTS
    t1 = t1
    t2 = t2
    Threads <- MCThreads
    NoThread = NoThread
    Burst = 1
    Period = 2
    Timeout = 2
    MaxCalls = 2
    MaxTime = 5
SPECIFICATION Spec
INVARIANT AcquireAnswers
CHECK_DEADLOCK FALSE
