SPECIFICATION MachineSpec
CONSTANTS
    SECTSIZE = 2
    MEG = 8
    Memory <- Addresses
    BOOT = 2
    Magic = 9
    HEADER = 4
    Page = 4
    Files <- Disks
    a = a
    b = b
    c = c
    p1 = p1
    p2 = p2
    p3 = p3
    p4 = p4
    p5 = p5
    p6 = p6
    p7 = p7
    q1 = q1
    Processor = {a, b, c}
    Bsp = a
    Table <- BootsSecond
    ApicId <- Ids
    MAXCPU = 4
    Low = {p1, p2, p3, p4, p5, p6, p7}
    High = {q1}
    NoPage = nopage
    KPAGES = 1
    Serial = TRUE
    NCPU = 2
    NPROC = 3
    TICKS = 2
    Naps = {1}
    Calls <- Roles
    Preempt = {"copy"}
INVARIANTS KernelSound ReapersWoken StartSound
