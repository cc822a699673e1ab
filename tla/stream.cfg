\* A shell that runs "cat | cat", with as many processes, files and pages as one
\* pipeline needs, so that the leftovers of a broken one run them out.
CONSTANTS
    NPROC = 5
    NOFILE = 5
    NFILE = 3
    NPIPE = 1
    PIPESIZE = 1
    INPUT_BUF = 2
    BUFSIZE = 2
    UINT = 4
    MAXTYPED = 2
    MAXFAULTS = 1
SPECIFICATION Spec
CHECK_DEADLOCK FALSE
INVARIANTS StreamSound
PROPERTIES PromptReturns ConsoleIsQueue
