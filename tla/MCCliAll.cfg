CONSTANTS
    Calls <- MCCalls
    Results <- MCResults
    MaxFaults = 1
SPECIFICATION FairSpec
INVARIANTS FailedNotSkipped
CHECK_DEADLOCK FALSE
