SPECIFICATION Spec
CONSTANTS
    s1 = s1
    s2 = s2
    s3 = s3
    s4 = s4
    Slot = {s1, s2, s3, s4}
    init = s1
    MAXTHREAD = 3
    Lost = Lost
    MAXPID = 5
    None = None
SYMMETRY Perms
CHECK_DEADLOCK FALSE
INVARIANTS ThreadsSound WaitersWoken
