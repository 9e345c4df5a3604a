CONSTANTS
    Calls <- MCCalls
    Results <- MCResults
    MaxFaults = 1
SPECIFICATION FairSpec
INVARIANTS ExitTellsTruth NothingHidden AlertFollowsReport SinksIsolated
PROPERTIES RunEnds ImplementsDelivery
CHECK_DEADLOCK FALSE
