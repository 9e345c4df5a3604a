CONSTANTS
    Calls <- MCCalls
    Results <- MCResults
    MaxFaults = 1
SPECIFICATION FairSpec
INVARIANTS WaivedBecomesSkip
CHECK_DEADLOCK FALSE
