SPECIFICATION LiveSpec
CONSTANTS
    p1 = p1
    p2 = p2
    b1 = b1
    b2 = b2
    b3 = b3
    Proc = {p1, p2}
    Block = {b1, b2, b3}
    File <- Files
    NoFile = NoFile
    VERSIONS = 3
    LOGSIZE = 6
    MAXOPBLOCKS = 3
INVARIANTS LogSound IdleDurable
PROPERTIES AtomicOps SleeperWoken
