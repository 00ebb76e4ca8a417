SPECIFICATION PartsSpec
CONSTANTS
    Renderers = {p, q}
    Settings <- MCSettings
    Edits <- MCEdits
    IntMax = 63
    Exact = 8
    Float <- MCFloat
    Bad = Bad
    Off = Off
    Requests = {p, q}
    Keys = {"k1", "k2"}
    Addresses = {"a", "b"}
    NoAddress = "-"
    Nets = {"lan", "host", "junk"}
    Covers <- MCCovers
    Policies <- MCPolicies
    MaxIPs <- MCMaxIPs
    IPAllow <- MCIPAllow
    Window = 1
    MaxTime = 2
    Size = 4
    Bytes = {"u", "s", "{", "}"}
    Marker <- MCMarker
    Open = "{"
    Close = "}"
    Nul = "0"
    MaxStream = 7
    Days = {1, 2}
    KeyIds = {"k1", "k2"}
    Models = {"m"}
    NoModel = ""
    Statuses = {200, 403}
    Credits <- MCCredits
    Shown = 2
    Anything = Anything
    MaxRecords = 3
    Posts = {p, q}
    Actions = {"poll", "remove", "signin"}
    Accounts = {"u"}
    MaxRuns = 3
INVARIANTS RenderedAsMeant
INVARIANTS AddressesBounded JudgedByFile
INVARIANTS RingHoldsTail UsageOfAnswer
INVARIANTS TailShowsNewest StatAddsUp
INVARIANTS OwnResult FreshResult PoolFollows
PROPERTIES BrokenKept UnknownKept KnownAddressStays
SYMMETRY MCSymmetry
CHECK_DEADLOCK FALSE
