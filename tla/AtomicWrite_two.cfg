\* Two processes that save the same path.
CONSTANTS
    Writers = {w1, w2}
    short = short
    long = long
    Docs = {short, long}
    Size <- MCSize
    Inodes = {i1, i2, i3, i4}
    NoInode = NoInode
    Junk = Junk
SYMMETRY InodeSymmetry
SPECIFICATION Spec
INVARIANT TypeOK
INVARIANT IntactUnlessCrowded
PROPERTY OkMeansPublished
