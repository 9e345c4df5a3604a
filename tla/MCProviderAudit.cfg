CONSTANTS
    Table <- MCTable
    Starts <- MCStarts
    Items = {1, 2}
    MaxChanges = 1
    MaxFaults = 1
    Absent = Absent
SPECIFICATION Spec
INVARIANTS Answered ErrorsSurface
PROPERTIES NothingMissed FailIsReal FoundStays
CHECK_DEADLOCK FALSE
