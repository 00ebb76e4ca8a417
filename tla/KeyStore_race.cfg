\* Commands and flushes that overlap in every way, one key.
CONSTANTS
    Keys = {k1}
    Cmds = {c1}
    Flusher = flusher
    StoreSize <- MCStoreSize
    InitStores <- MCInitStores
    MaxBilled = 1
    Inodes = {i1, i2, i3, i4}
    NoInode = NoInode
    Junk = Junk
SYMMETRY MCSymmetry
VIEW RaceView
SPECIFICATION Spec
INVARIANT TypeOK
INVARIANT NeverOverbilled
