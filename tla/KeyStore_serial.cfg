\* Commands and flushes one after the other, two keys.
CONSTANTS
    Keys = {k1, k2}
    Cmds = {c1}
    Flusher = flusher
    StoreSize <- MCStoreSize
    InitStores <- MCInitStores
    MaxBilled = 1
    Inodes = {i1, i2, i3, i4}
    NoInode = NoInode
    Junk = Junk
SYMMETRY MCSymmetry
SPECIFICATION Spec
CONSTRAINT Serial
INVARIANT UsageExact
INVARIANT CommandsStick
