--------------------------- MODULE MCAtomicWrite ---------------------------
(* Small instances of AtomicWrite for TLC. *)
EXTENDS AtomicWrite, TLC
CONSTANTS short, long

\* Two documents of different length: the shorter written over the longer
\* leaves a tail.
MCSize(d) == IF d = short THEN 1 ELSE 2

\* Inodes are told apart by the names and descriptors that hold them only.
InodeSymmetry == Permutations(Inodes)
=============================================================================
