\* A query next to handlers and a cleaner, and what becomes of old files.
CONSTANTS
    Handlers = {h1, h2}
    Cleaners = {gc}
    Readers = {tail}
    MaxSize = 1
    Keep = 0
    QueryDays = 1
    DayLength = 2
    MaxPerSecond = 1
    MaxTime = 2
    MaxRecords = 3
    MaxFaults = 1
    Live <- MCLive
    Gone = Gone
    Torn = Torn
SPECIFICATION FairSpec
PROPERTY OldFilesGo
INVARIANT QueryComplete
INVARIANT QueryOnce
