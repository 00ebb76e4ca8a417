\* Two handlers at once, answers of one token and of none, under fairness: usage
\* noted during a flush and at an exit, and flushed whatever the clients do.
CONSTANTS
    Requests = {r1, r2}
    Keys = {k1}
    MaxInFlight = 2
    Quota = 1
    MaxUsed = 1
SPECIFICATION FairSpec
INVARIANT UsageAddsUp
PROPERTY CleanExit
PROPERTY UsageReachesFile
