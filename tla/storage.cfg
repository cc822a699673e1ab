SPECIFICATION StorageSpec
CONSTANTS
    Proc = {p1, p2}
    Block = {b1, b2, b3}
    Value <- Contents
    Observed = b1
    Buf = {u1, u2}
    PINNED = 1
    None = None
    DIRECTS = 1
    BWORDS = 3
    FILEBLOCKS = 62
    BPB = 20
    MAXOPBLOCKS = 10
    Roots <- RootWords
    Starts <- StartWords
    Reads = {1, 105}
    Writes = {2, 11}
    FILECALLS = 4
    foo = foo
    bar = bar
    Name = {foo, bar}
    Dot = dot
    DotDot = dotdot
    NoName = noname
    Path <- Paths
    Modes <- OpenModes
    Sizes = {4}
    NINODES = 4
    NINODE = 4
    NBLOCK = 9
    BSIZE = 3
    NDIRECT = 1
    NFILE = 2
    NOFILE = 2
    MAXCHUNK = 3
    CALLMAX = 5
    CRASHMAX = 1
CHECK_DEADLOCK FALSE
INVARIANTS BuffersSound BlocksKept FilesKept DiskKept TreeKept
PROPERTIES OneCopy
