\* Three processes (holder, late waiter, newcomer); an inode for every
\* descriptor and a fresh one.
SPECIFICATION Spec
CONSTANTS
    Proc = {p1, p2, p3}
    Inode = {i1, i2, i3}
    None = None
    TRIES = 2
INVARIANTS
    TypeOK
    ExclusionUnlessStale
    HolderIsNamed
PROPERTIES
    UnlinksOwnFile
    LockAttemptEnds
