\* One writer at a time: the register of AtomicFile.
CONSTANTS
    Writers = {w1}
    short = short
    long = long
    Docs = {short, long}
    Size <- MCSize
    Inodes = {i1, i2, i3}
    NoInode = NoInode
    Junk = Junk
SPECIFICATION Spec
INVARIANT NeverHalfAFile
PROPERTY AtomicForOneWriter
