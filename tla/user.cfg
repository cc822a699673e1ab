SPECIFICATION UserSpec
CONSTANTS
    Proc = {1, 2}
    NTABLE = 4
    MAXPAGE = 3
    Frames = {7, 9, 11, 13, 15, 17, 20}
    Programs = {1, 2}
    Stacks = {1, 2}
    Requests <- Sizes
    Limits = {0, 8, 12}
    None = None
    PAGE = 16
    BYTE = 16
    KERNEL = 128
    PAGES = 7
    ARGMAX = 3
    Execs <- Executables
    Vectors <- ArgumentLists
    Grow <- Changes
    HSIZE = 2
    UINT = 64
    PAGEUNITS = 3
    MINCORE = 3
    START = 3
    TOP = 12
    Wanted = {1, 3, 21, 30, 50, 60, 62, 63}
    Word = {"a", "f", "g", "no"}
    MAXARGS = 3
    Lines <- Typed
    Missing = {"no"}
    SLOTS = 6
    MAXLINES = 2
    Nobody = nobody
    Nothing = nothing
    Keys <- Keyboard104
    Normal <- NormalMap
    Shifted <- ShiftMap
    Control <- CtlMap
    Letters <- Cases
    BUFFER = 3
    FINGERS = 2
    Cpu = {1, 2}
    Keyer = 1
    COLS = 2
    LINES = 2
    INPUT = 2
    Texts <- Messages
    Panics <- LastWords
    Numbers <- Negative
    INT = 32
    Torn = {7}
    MAXJOBS = 3
    NoCpu = 0
    MAXTOKENS = 5
CHECK_DEADLOCK FALSE
INVARIANTS FramesExact SpaceSound ImageKept HeapKept LinesKept ConsoleKept
