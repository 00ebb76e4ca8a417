\* Two migrations in a row next to a running service and one power loss.
CONSTANTS
    Places = {jffs, usb}
    Files = {keys, audit}
    Needed = {keys}
    Appended = {audit}
    Slashes = {TRUE, FALSE}
    MaxUpdates = 2
    MaxRuns = 2
    MaxLosses = 1
CHECK_DEADLOCK FALSE
SPECIFICATION Spec
INVARIANT NothingLeftBehind
INVARIANT RunsWhereConfigured
PROPERTY DeletesOnlyCopied
SYMMETRY AnyPlace
