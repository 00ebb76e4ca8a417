\* Two handlers and a cleaner over rotations and a change of day.
CONSTANTS
    Handlers = {h1, h2}
    Cleaners = {gc}
    Readers = {}
    MaxSize = 1
    Keep = 0
    QueryDays = 1
    DayLength = 2
    MaxPerSecond = 1
    MaxTime = 3
    MaxRecords = 5
    MaxFaults = 1
    Live <- MCLive
    Gone = Gone
    Torn = Torn
CHECK_DEADLOCK FALSE
SYMMETRY HandlerSymmetry
SPECIFICATION Spec
INVARIANT KeptWithinRetention
INVARIANT FilesBounded
