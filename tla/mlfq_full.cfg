SPECIFICATION Spec
CONSTANTS
  init = init
  p1 = p1
  p2 = p2
  None = None
  Proc = {init, p1, p2}
  InitProc = init
  QUESIZE = 6
  QBASE = 1
  QSTEP = 0
  BOOST = 4
  Sleepers = {p1}
  Lockers = {p1}
  Priorities = {0}
  Victims = {p1}
  SLOWFORK = TRUE
  NOMEMORY = TRUE
CHECK_DEADLOCK FALSE
INVARIANTS TypeOK OneRunning LockHeld Quanta NoLostWakeup
PROPERTIES LockedCpu
