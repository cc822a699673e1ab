SPECIFICATION Spec
CONSTANTS
    p1 = p1
    p2 = p2
    b1 = b1
    b2 = b2
    Proc = {p1, p2}
    Block = {b1, b2}
    File <- One
    NoFile = NoFile
    VERSIONS = 2
    LOGSIZE = 5
    MAXOPBLOCKS = 2
    NBUF = 2
    Syncers = {p1, p2}
SYMMETRY Perms
INVARIANTS OnlyQuietCommits
