\* Paths typed with and without a slash at the end.
CONSTANTS
    Places = {jffs, usb}
    Files = {keys, audit}
    Needed = {keys}
    Appended = {audit}
    Slashes = {TRUE, FALSE}
    MaxUpdates = 2
    MaxRuns = 2
    MaxLosses = 0
CHECK_DEADLOCK FALSE
SPECIFICATION Spec
INVARIANT MigrationsKeepAll
SYMMETRY AnyPlace
