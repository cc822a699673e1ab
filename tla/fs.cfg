SPECIFICATION Spec
CONSTANTS
    p1 = p1
    p2 = p2
    a = a
    b = b
    Proc = {p1, p2}
    NINODE = 3
    NINODES = 3
    Name = {a, b}
    Path <- Paths
    Calls <- Roles
    LOSTMAX = 1
    None = None
CHECK_DEADLOCK FALSE
INVARIANTS CacheExact NamesExact
