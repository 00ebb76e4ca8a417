\* Two requests for one slot, a key saved and reloaded at any moment.
CONSTANTS
    Requests = {r1, r2}
    Keys = {k1}
    MaxInFlight = 1
    Quota = 1
    MaxUsed = 1
SYMMETRY RequestSymmetry
SPECIFICATION Spec
INVARIANT TypeOK
INVARIANT SlotsAccounted
INVARIANT ReloadMissesNothing
INVARIANT NoStaleForward
