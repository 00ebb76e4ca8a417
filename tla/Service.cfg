SPECIFICATION MCSpec
CONSTANTS
    Calls = {page}
    CronRun = cron
    Slots = {1, 2, 3}
    Ports = {"p1", "p2"}
    Vers = {"v1", "v2"}
    BadVer = "bad"
    Settings <- MCSettings
    MaxCalls = 1
    MaxFaults = 1
    MaxCommands = 1
    MaxRules = 2
INVARIANTS StopLeavesNothing SubmitInForce
PROPERTY ServiceReturns
CHECK_DEADLOCK FALSE
