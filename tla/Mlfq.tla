-------------------------------- MODULE Mlfq --------------------------------
(***************************************************************************)
(* The scheduler of project1: processes, the multi-level feedback queue,   *)
(* the scheduler lock and the timer, on the single CPU the makefile builds *)
(* for.  ptable.lock is held with interrupts off, so each of its sections  *)
(* is one action.  Between two of them a process running kernel code can   *)
(* be taken off the CPU by the timer; pc says where it then stands.        *)
(***************************************************************************)
EXTENDS MlfqQueues

CONSTANTS
    None,          \* the null process pointer
    InitProc,      \* initproc
    BOOST,         \* ticks between two boosts (100 in the code)
    Sleepers,      \* processes that sleep on devices
    Lockers,       \* processes that call schedulerLock with the password
    Priorities,    \* the priorities processes give setPriority
    Victims,       \* processes somebody may kill
    SLOWFORK,      \* the timer may tick while a fork is under way
    NOMEMORY       \* the kernel may be out of memory

ASSUME MlfqConstants ==
    /\ InitProc \in Proc
    /\ None \notin Proc
    /\ BOOST \in Nat /\ BOOST > 2
    /\ Sleepers \subseteq Proc
    /\ Lockers \subseteq Proc
    /\ Victims \subseteq Proc
    /\ Priorities \subseteq Priority
    /\ SLOWFORK \in BOOLEAN
    /\ NOMEMORY \in BOOLEAN

VARIABLES
    state,           \* proc.state
    parent,          \* proc.parent
    killed,          \* proc.killed
    pc,              \* where the process stands in the kernel
    np,              \* the local variable np of fork
    mlfq,            \* schedmlfq.mlfql and proc.isinmlfq
    nowproc,         \* schedmlfq.nowproc
    cur,             \* schedmlfq.quelevel, priority and timequantum
    islock,          \* schedmlfq.islock: 1 locked, -1 being unlocked
    lockproc,        \* schedmlfq.lockproc
    isTimeinterrupt, \* schedmlfq.isTimeinterrupt
    ticks,           \* schedmlfq.ticks
    cpu              \* cpu.proc, None while scheduler() itself runs

procs == <<state, parent, killed>>
sched == <<nowproc, cur, islock, lockproc, isTimeinterrupt, ticks>>
vars  == <<state, parent, killed, pc, np, mlfq, nowproc, cur, islock,
           lockproc, isTimeinterrupt, ticks, cpu>>

\* "user" stands for user mode and for the system calls that change nothing
\* here; "dev" for a process asleep on some device, pipe or timer, "wait" for
\* one inside the loop of wait, asleep on its own proc or woken from it.
Place == {"user", "wait", "dev", "fork", "lock1", "lock2", "unlock1",
          "unlock2", "yield"}

\* The bound below which the quantum of a CPU left idle, or held under the
\* scheduler lock, is not counted down any further.
TQMIN == -1
Floor(tq) == IF tq < TQMIN THEN TQMIN ELSE tq

-----------------------------------------------------------------------------

\* userinit: the first process is queued as EMBRYO, then made RUNNABLE.
Init ==
    /\ state = [p \in Proc |-> IF p = InitProc THEN "RUNNABLE" ELSE "UNUSED"]
    /\ parent = [p \in Proc |-> None]
    /\ killed = [p \in Proc |-> FALSE]
    /\ pc = [p \in Proc |-> "user"]
    /\ np = [p \in Proc |-> None]
    /\ mlfq = Push([q     |-> [l \in Lists |-> << >>],
                    isin  |-> [p \in Proc |-> FALSE],
                    panic |-> FALSE], Fresh(InitProc))
    /\ nowproc = None
    /\ cur = [lvl |-> 0, prio |-> 0, tq |-> 0]
    /\ islock = 0
    /\ lockproc = None
    /\ isTimeinterrupt = FALSE
    /\ ticks = 1
    /\ cpu = None

Running(p, place) == ~mlfq.panic /\ cpu = p /\ pc[p] = place

\* sched(): the running process leaves the CPU in state s.
LeaveCpu(p, s) ==
    /\ state' = [state EXCEPT ![p] = s]
    /\ cpu' = None

-----------------------------------------------------------------------------
(* scheduler(), one turn of its loop *)

\* A turn that was not caused by the timer costs a tick of the quantum.
Charged == IF isTimeinterrupt THEN cur.tq ELSE cur.tq - 1

Alive(p) == state[p] \in {"RUNNABLE", "SLEEPING"}

\* Lines 424-455 with the scheduler not locked: pop what runs next, or find
\* nothing and turn again.
Dispatch(m) ==
    /\ isTimeinterrupt' = FALSE
    /\ IF CanPop(m, state)
       THEN LET e == Popped(m, state) IN
            /\ mlfq' = Pop(m, state)
            /\ cur' = [lvl |-> e.lvl, prio |-> e.prio, tq |-> e.tq]
            /\ nowproc' = e.proc
            /\ cpu' = e.proc
            /\ state' = [state EXCEPT ![e.proc] = "RUNNING"]
       ELSE /\ mlfq' = m
            /\ cur' = [cur EXCEPT !.tq = Floor(Charged)]
            /\ UNCHANGED <<nowproc, cpu, state>>
    /\ UNCHANGED <<parent, killed, pc, np>>

\* Mutants: the quantum is tested one tick late; leaving early refills it.
RequeuedLate ==
    IF nowproc = None \/ ~Alive(nowproc) THEN mlfq
    ELSE IF Charged < 0 THEN Push(mlfq, Demoted(nowproc, cur.lvl, cur.prio))
    ELSE Push(mlfq, Wrap(nowproc, cur.lvl, cur.prio, Charged))

RequeuedRefilled ==
    IF nowproc = None \/ ~Alive(nowproc) THEN mlfq
    ELSE IF Charged = 0 THEN Push(mlfq, Demoted(nowproc, cur.lvl, cur.prio))
    ELSE Push(mlfq, Wrap(nowproc, cur.lvl, cur.prio, Quantum(cur.lvl)))

\* Lines 372-398: nowproc back into the queue it deserves.
Requeued ==
    IF nowproc = None \/ ~Alive(nowproc) THEN mlfq
    ELSE IF Charged = 0 THEN Push(mlfq, Demoted(nowproc, cur.lvl, cur.prio))
    ELSE LET e == Wrap(nowproc, cur.lvl, cur.prio, Charged) IN
         IF cur.lvl = 2 /\ isTimeinterrupt THEN HeadPush(mlfq, e)
                                           ELSE Push(mlfq, e)

InScheduler == ~mlfq.panic /\ cpu = None
BoostDue    == ticks % BOOST = 0

\* Mutant: the lock is not looked at.
ScheduleNextAnyway ==
    /\ InScheduler /\ ~BoostDue
    /\ Dispatch(Requeued)
    /\ UNCHANGED <<islock, lockproc, ticks>>

ScheduleNext ==
    /\ InScheduler /\ ~BoostDue /\ islock = 0
    /\ Dispatch(Requeued)
    /\ UNCHANGED <<islock, lockproc, ticks>>

\* Mutants: a boost that frees only one half of the lock.
ScheduleBoostKeepsLock ==
    /\ InScheduler /\ BoostDue
    /\ Dispatch(Boost(mlfq, state, islock # 0, nowproc))
    /\ lockproc' = None /\ ticks' = 1
    /\ UNCHANGED islock

ScheduleBoostKeepsOwner ==
    /\ InScheduler /\ BoostDue
    /\ Dispatch(Boost(Push(mlfq, Fresh(nowproc)), state, islock # 0, nowproc))
    /\ islock' = 0 /\ ticks' = 1
    /\ UNCHANGED lockproc

\* Lines 357-365.
ScheduleBoost ==
    /\ InScheduler /\ BoostDue
    /\ LET m == IF nowproc # None /\ Alive(nowproc)
                THEN Push(mlfq, Wrap(nowproc, cur.lvl, cur.prio, Charged))
                ELSE mlfq
       IN  Dispatch(Boost(m, state, islock # 0, nowproc))
    /\ islock' = 0
    /\ lockproc' = None
    /\ ticks' = 1

\* Lines 368-371: the process that unlocked goes to the head of L0.
ScheduleUnlocked ==
    /\ InScheduler /\ ~BoostDue /\ islock = -1
    /\ Dispatch(HeadPush(mlfq, Fresh(nowproc)))
    /\ islock' = 0
    /\ UNCHANGED <<lockproc, ticks>>

\* Lines 402-412: exiting or going to sleep gives the lock up.
ScheduleGivenUp ==
    /\ InScheduler /\ ~BoostDue /\ islock = 1
    /\ state[nowproc] \in {"ZOMBIE", "SLEEPING"}
    /\ Dispatch(IF state[nowproc] = "SLEEPING"
                THEN HeadPush(mlfq, Fresh(nowproc)) ELSE mlfq)
    /\ islock' = 0
    /\ lockproc' = None
    /\ UNCHANGED ticks

\* Lines 413-417: a yield under the lock is ignored, its tick given back.
ScheduleLocked ==
    /\ InScheduler /\ ~BoostDue /\ islock = 1
    /\ state[nowproc] \notin {"ZOMBIE", "SLEEPING"}
    /\ cur' = [cur EXCEPT !.tq = Floor(Charged + 1)]
    /\ isTimeinterrupt' = FALSE
    /\ cpu' = nowproc
    /\ state' = [state EXCEPT ![nowproc] = "RUNNING"]
    /\ UNCHANGED <<parent, killed, pc, np, mlfq, nowproc, islock, lockproc,
                   ticks>>

Schedule == ScheduleNext \/ ScheduleBoost \/ ScheduleUnlocked
            \/ ScheduleGivenUp \/ ScheduleLocked

-----------------------------------------------------------------------------
(* The timer (trap, lines 92-159) *)

\* A killed process exits when the interrupt finds it in user mode, before
\* the tick is counted.
Counted(p) ==
    /\ ~mlfq.panic /\ cpu = p
    /\ ~(killed[p] /\ pc[p] = "user")
    /\ pc[p] = "fork" => SLOWFORK
    /\ ticks' = ticks + 1
    /\ cur' = [cur EXCEPT !.tq = Floor(@ - 1)]
    /\ UNCHANGED <<parent, killed, pc, np, mlfq, nowproc, islock, lockproc>>

\* Under the lock only the tick of a boost takes the CPU away.
TickYields == (ticks + 1) % BOOST = 0 \/ islock < 1

TimerYield(p) ==
    /\ TickYields
    /\ Counted(p)
    /\ isTimeinterrupt' = TRUE
    /\ LeaveCpu(p, "RUNNABLE")

TimerLocked(p) ==
    /\ ~TickYields
    /\ Counted(p)
    /\ UNCHANGED <<isTimeinterrupt, state, cpu>>

TimerTick(p) == TimerYield(p) \/ TimerLocked(p)

-----------------------------------------------------------------------------
(* System calls of a running process *)

Idle(p) == Running(p, "user") /\ ~killed[p]

MyYield(p) ==
    /\ Idle(p)
    /\ LeaveCpu(p, "RUNNABLE")
    /\ UNCHANGED <<parent, killed, pc, np, mlfq, sched>>

\* sleep() on anything but a child.
SleepDev(p) ==
    /\ Idle(p)
    /\ pc' = [pc EXCEPT ![p] = "dev"]
    /\ LeaveCpu(p, "SLEEPING")
    /\ UNCHANGED <<parent, killed, np, mlfq, sched>>

\* wakeup(): from an interrupt handler or from the running process. The
\* sleeper will return to user mode.
WakeDev(p) ==
    /\ ~mlfq.panic
    /\ state[p] = "SLEEPING" /\ pc[p] = "dev"
    /\ state' = [state EXCEPT ![p] = "RUNNABLE"]
    /\ pc' = [pc EXCEPT ![p] = "user"]
    /\ UNCHANGED <<parent, killed, np, mlfq, sched, cpu>>

SetPriority(p, prio) ==
    /\ Idle(p)
    /\ cur' = [cur EXCEPT !.prio = prio]
    /\ UNCHANGED <<procs, pc, np, mlfq, nowproc, islock, lockproc,
                   isTimeinterrupt, ticks, cpu>>

\* Mutant: kill makes its victim runnable whatever it is doing.
KillWakesAll(p, victim) ==
    /\ Idle(p)
    /\ state[victim] # "UNUSED"
    /\ killed' = [killed EXCEPT ![victim] = TRUE]
    /\ state' = [state EXCEPT ![victim] = "RUNNABLE"]
    /\ pc' = [pc EXCEPT ![victim] = IF @ = "dev" THEN "user" ELSE @]
    /\ UNCHANGED <<parent, np, mlfq, sched, cpu>>

Kill(p, victim) ==
    /\ Idle(p)
    /\ state[victim] # "UNUSED"
    /\ killed' = [killed EXCEPT ![victim] = TRUE]
    /\ state' = [state EXCEPT ![victim] =
                    IF @ = "SLEEPING" THEN "RUNNABLE" ELSE @]
    /\ pc' = [pc EXCEPT ![victim] = IF @ = "dev" THEN "user" ELSE @]
    /\ UNCHANGED <<parent, np, mlfq, sched, cpu>>

-----------------------------------------------------------------------------
(* fork, exit, wait *)

\* allocproc under ptable.lock. Page 0 of the caller is mapped, so a null
\* entry met by clearmlfq may or may not end in a fault.
ForkAlloc(p, c, faults) ==
    /\ Idle(p)
    /\ state[c] = "UNUSED"
    /\ state' = [state EXCEPT ![c] = "EMBRYO"]
    /\ mlfq' = NewProc(mlfq, state', c, faults)
    /\ np' = [np EXCEPT ![p] = c]
    /\ pc' = [pc EXCEPT ![p] = "fork"]
    /\ UNCHANGED <<parent, killed, sched, cpu>>

ForkDone(p) ==
    /\ Running(p, "fork")
    /\ parent' = [parent EXCEPT ![np[p]] = p]
    /\ state' = [state EXCEPT ![np[p]] = "RUNNABLE"]
    /\ pc' = [pc EXCEPT ![p] = "user", ![np[p]] = "user"]
    /\ np' = [np EXCEPT ![p] = None]
    /\ UNCHANGED <<killed, mlfq, sched, cpu>>

\* kalloc or copyuvm failed: the slot is given back, its queue entry is not.
ForkFailed(p) ==
    /\ NOMEMORY
    /\ Running(p, "fork")
    /\ state' = [state EXCEPT ![np[p]] = "UNUSED"]
    /\ pc' = [pc EXCEPT ![p] = "user"]
    /\ np' = [np EXCEPT ![p] = None]
    /\ UNCHANGED <<parent, killed, mlfq, sched, cpu>>

\* Mutant: exit wakes init only, which inherits its zombies.
ExitForgetsParent(p) ==
    /\ Running(p, "user")
    /\ p # InitProc
    /\ parent' = [c \in Proc |-> IF parent[c] = p THEN InitProc ELSE parent[c]]
    /\ state' = [c \in Proc |->
                    IF c = p THEN "ZOMBIE"
                    ELSE IF c = InitProc /\ pc[c] = "wait"
                            /\ state[c] = "SLEEPING" THEN "RUNNABLE"
                    ELSE state[c]]
    /\ cpu' = None
    /\ UNCHANGED <<killed, pc, np, mlfq, sched>>

\* exit(), also reached by a wrong password and by a killed process. Its
\* parent is woken, its children go to init, which is woken for a zombie.
Exit(p) ==
    /\ Running(p, "user")
    /\ p # InitProc
    /\ LET orphans == {c \in Proc : parent[c] = p}
           woken   == {parent[p]} \cup
                      (IF \E c \in orphans : state[c] = "ZOMBIE"
                       THEN {InitProc} ELSE {})
       IN  /\ parent' = [c \in Proc |-> IF c \in orphans THEN InitProc
                                        ELSE parent[c]]
           /\ state' = [c \in Proc |->
                          IF c = p THEN "ZOMBIE"
                          ELSE IF c \in woken /\ pc[c] = "wait"
                                  /\ state[c] = "SLEEPING" THEN "RUNNABLE"
                          ELSE state[c]]
    /\ cpu' = None
    /\ UNCHANGED <<killed, pc, np, mlfq, sched>>

\* init returns from a failed fork or is killed: panic("init exiting").
InitExit ==
    /\ Running(InitProc, "user")
    /\ killed[InitProc] \/ NOMEMORY
    /\ mlfq' = [mlfq EXCEPT !.panic = TRUE]
    /\ UNCHANGED <<procs, pc, np, sched, cpu>>

Children(p) == {c \in Proc : parent[c] = p}
Dead(p)     == {c \in Children(p) : state[c] = "ZOMBIE"}

\* wait(): entered from user mode, or resumed inside its loop after a sleep.
Waiting(p) == Idle(p) \/ Running(p, "wait")

WaitReap(p, c) ==
    /\ Waiting(p)
    /\ c \in Dead(p)
    /\ state' = [state EXCEPT ![c] = "UNUSED"]
    /\ parent' = [parent EXCEPT ![c] = None]
    /\ killed' = [killed EXCEPT ![c] = FALSE]
    /\ pc' = [pc EXCEPT ![p] = "user"]
    /\ UNCHANGED <<np, mlfq, sched, cpu>>

WaitNone(p) ==
    /\ Running(p, "wait")
    /\ Dead(p) = {}
    /\ Children(p) = {} \/ killed[p]
    /\ pc' = [pc EXCEPT ![p] = "user"]
    /\ UNCHANGED <<procs, np, mlfq, sched, cpu>>

WaitSleep(p) ==
    /\ Waiting(p)
    /\ Dead(p) = {} /\ Children(p) # {} /\ ~killed[p]
    /\ pc' = [pc EXCEPT ![p] = "wait"]
    /\ LeaveCpu(p, "SLEEPING")
    /\ UNCHANGED <<parent, killed, np, mlfq, sched>>

-----------------------------------------------------------------------------
(* The scheduler lock, one action per shared store a tick may come between *)

LockCheck(p) ==
    /\ Idle(p)
    /\ islock = 0 /\ lockproc = None
    /\ pc' = [pc EXCEPT ![p] = "lock1"]
    /\ UNCHANGED <<procs, np, mlfq, sched, cpu>>

LockTake(p) ==
    /\ Running(p, "lock1")
    /\ islock' = 1
    /\ pc' = [pc EXCEPT ![p] = "lock2"]
    /\ UNCHANGED <<procs, np, mlfq, nowproc, cur, lockproc, isTimeinterrupt,
                   ticks, cpu>>

LockOwn(p) ==
    /\ Running(p, "lock2")
    /\ ticks' = 1
    /\ lockproc' = nowproc
    /\ pc' = [pc EXCEPT ![p] = "user"]
    /\ UNCHANGED <<procs, np, mlfq, nowproc, cur, islock, isTimeinterrupt,
                   cpu>>

UnlockCheck(p) ==
    /\ Idle(p)
    /\ islock = 1 /\ lockproc = nowproc
    /\ pc' = [pc EXCEPT ![p] = "unlock1"]
    /\ UNCHANGED <<procs, np, mlfq, sched, cpu>>

UnlockStart(p) ==
    /\ Running(p, "unlock1")
    /\ islock' = -1
    /\ pc' = [pc EXCEPT ![p] = "unlock2"]
    /\ UNCHANGED <<procs, np, mlfq, nowproc, cur, lockproc, isTimeinterrupt,
                   ticks, cpu>>

UnlockDisown(p) ==
    /\ Running(p, "unlock2")
    /\ lockproc' = None
    /\ pc' = [pc EXCEPT ![p] = "yield"]
    /\ UNCHANGED <<procs, np, mlfq, nowproc, cur, islock, isTimeinterrupt,
                   ticks, cpu>>

UnlockYield(p) ==
    /\ Running(p, "yield")
    /\ pc' = [pc EXCEPT ![p] = "user"]
    /\ LeaveCpu(p, "RUNNABLE")
    /\ UNCHANGED <<parent, killed, np, mlfq, sched>>

-----------------------------------------------------------------------------

Lock(p) == LockCheck(p) \/ LockTake(p) \/ LockOwn(p) \/ UnlockCheck(p)
           \/ UnlockStart(p) \/ UnlockDisown(p) \/ UnlockYield(p)

Next ==
    \/ Schedule
    \/ InitExit
    \/ \E p \in Proc :
         \/ TimerTick(p)
         \/ MyYield(p)
         \/ p \in Sleepers /\ SleepDev(p)
         \/ WakeDev(p)
         \/ \E prio \in Priorities : SetPriority(p, prio)
         \/ \E v \in Victims : Kill(p, v)
         \/ \E c \in Proc, faults \in BOOLEAN : ForkAlloc(p, c, faults)
         \/ ForkDone(p) \/ ForkFailed(p)
         \/ Exit(p)
         \/ \E c \in Proc : WaitReap(p, c)
         \/ WaitNone(p) \/ WaitSleep(p)
         \/ p \in Lockers /\ Lock(p)

Spec == Init /\ [][Next]_vars

\* The scheduler loop turns; the timer is periodic, so a CPU that runs
\* processes again and again is interrupted again and again; code in the
\* kernel finishes, and a killed process meets a trap.
InKernel(p) == ForkDone(p) \/ ForkFailed(p) \/ (killed[p] /\ Exit(p))

\* ENABLED <<Schedule>>_vars, spelt out: a turn of an idle CPU that finds
\* nothing and has nothing left to count changes nothing.
CanSchedule ==
    /\ InScheduler
    /\ \/ BoostDue \/ islock # 0 \/ isTimeinterrupt
       \/ CanPop(Requeued, state) \/ Requeued # mlfq
       \/ Floor(Charged) # cur.tq

Fairness ==
    /\ []<>~CanSchedule \/ []<><<Schedule>>_vars   \* WF_vars(Schedule)
    /\ SF_vars(\E p \in Proc : TimerTick(p))
    /\ WF_vars(\E p \in Proc : InKernel(p))

LiveSpec == Spec /\ Fairness
=============================================================================
