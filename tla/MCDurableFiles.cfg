\* Two calls at a time, two contents of two pieces, three files.
CONSTANTS
    Process = {p1, p2}
    Inode = {i1, i2, i3}
    Body = {b1, b2}
    Chunks = 2
    None = None
SPECIFICATION Spec
SYMMETRY Symmetry
INVARIANTS
    PublishedWhole
    WriteTellsTruth
    NoLeftovers
PROPERTY
    NeverReplaced
CHECK_DEADLOCK FALSE
