--------------------------------- MODULE Smp ---------------------------------
(***************************************************************************)
(* Several processors and the processes they run, as project3 has them:    *)
(* spin locks and pushcli (spinlock.c), the scheduler, sleep, fork, wait,  *)
(* exit and kill (proc.c), the clock interrupt (trap.c) and sys_sleep.     *)
(* Every kernel thread -- a process or the scheduler of a processor -- has *)
(* a sequence of operations still to do; an interrupt puts its handler in  *)
(* front of it.  What is done under a lock and the release are one step:   *)
(* only the holder looks at what the lock guards.                          *)
(***************************************************************************)
EXTENDS Integers, FiniteSets, Sequences, SequencesExt

CONSTANTS
    NCPU, NPROC,
    TICKS,       \* ticks are counted modulo this
    Naps,        \* what sleep is called with
    Calls,       \* the system calls that a process makes
    Preempt      \* where the clock interrupts a process in the kernel outside locks

ASSUME SmpConstants ==
    /\ NCPU \in Nat \ {0} /\ NPROC \in Nat \ {0} /\ TICKS \in Nat \ {0}
    /\ Naps \subseteq 0..TICKS - 1
    /\ Calls \in [1..NPROC -> SUBSET {"fork", "exit", "wait", "kill", "sleep"}]

VARIABLES
    cpus,        \* of each processor: IF, ncli, intena, proc, and the thread it runs
    locked,      \* the processor that has a spin lock, or -1
    code,        \* what a thread has still to do; a process with nothing is in user mode
    ptable,      \* state, parent, chan and killed of a process
    scan,        \* where the scheduler of a processor is in the table
    ticks,
    panic        \* "none", or the message

vars == <<cpus, locked, code, ptable, scan, ticks, panic>>

Cpu == 0..NCPU - 1
Proc == 1..NPROC
initproc == 1
Sched(c) == NPROC + 1 + c          \* the thread of the scheduler
Thread == Proc \cup {Sched(c) : c \in Cpu}
Locks == {"ptable", "tickslock"}
Free == -1
NoProc == 0
TickChan == 0                      \* &ticks; wait sleeps on the process itself
NoChan == -1

Unused == [state |-> "UNUSED", parent |-> NoProc, chan |-> NoChan, killed |-> FALSE]

T(c) == cpus[c].thread
Todo(c) == code[T(c)]
At(c, what) == panic = "none" /\ Todo(c) # <<>> /\ Head(Todo(c))[1] = what
Arg(c) == Head(Todo(c))[2]
Myproc(c) == cpus[c].proc
State(p) == ptable[p].state
Do(c, ops) == code' = [code EXCEPT ![T(c)] = ops \o Tail(@)]
Done(c) == Do(c, <<>>)
Panic(what) == panic' = what /\ UNCHANGED <<cpus, locked, code, ptable, scan, ticks>>

Acquire(l) == <<"acquire", l>>
Release(l) == <<"release", l>>

\* The routines, as the operations they consist of.
Loop == <<Acquire("ptable"), <<"pick">>>>
Yield == <<Acquire("ptable"), <<"yield">>, Release("ptable")>>
Wakeup(chan) == <<Acquire("ptable"), <<"wakeup1", chan>>>>
\* Mutant: sleep takes its lock back before it lets the table go.
SleepCrossed(chan) ==
    <<Acquire("ptable"), Release("tickslock"), <<"sleep", chan>>,
      Acquire("tickslock"), Release("ptable")>>
Sleep(chan) ==
    <<Acquire("ptable"), Release("tickslock"), <<"sleep", chan>>,
      Release("ptable"), Acquire("tickslock")>>
ForkRet == <<Release("ptable"), <<"iret">>>>
Exit == <<Acquire("ptable"), <<"exit">>>>
Syscall(call) ==
    CASE call = "fork" -> <<Acquire("ptable"), <<"allocproc">>>>
      [] call = "wait" -> <<Acquire("ptable"), <<"wait">>>>
      [] call = "kill" -> <<Acquire("ptable"), <<"kill">>>>
      [] call = "sleep" -> <<Acquire("tickslock"), <<"nap">>>>
      [] call = "exit" -> Exit
Clock(c, user) ==
    (IF c = 0 THEN <<Acquire("tickslock"), <<"tick">>>> \o Wakeup(TickChan)
                   \o <<Release("tickslock")>> ELSE <<>>)
    \o (IF user THEN <<<<"killed">>>> ELSE <<>>)
    \o <<<<"clock">>>>
    \o (IF user THEN <<<<"killed">>>> ELSE <<>>)
    \o <<<<"iret">>>>

Init ==
    /\ cpus = [c \in Cpu |-> [if |-> TRUE, ncli |-> 0, intena |-> FALSE,
                              proc |-> NoProc, thread |-> Sched(c)]]
    /\ locked = [l \in Locks |-> Free]
    /\ code = [t \in Thread |-> IF t = initproc THEN ForkRet
                                ELSE IF t \in Proc THEN <<>> ELSE Loop]
    /\ ptable = [p \in Proc |-> IF p = initproc THEN [Unused EXCEPT !.state = "RUNNABLE"]
                                ELSE Unused]
    /\ scan = [c \in Cpu |-> 1]
    /\ ticks = 0
    /\ panic = "none"

-----------------------------------------------------------------------------
(* spinlock.c                                                              *)

holding(c, l) == locked[l] = c

\* Mutant: the interrupt flag is noted every time.
pushcliAlways(cpu) ==
    [cpu EXCEPT !.if = FALSE, !.ncli = @ + 1, !.intena = cpu.if]

pushcli(cpu) ==
    [cpu EXCEPT !.if = FALSE, !.ncli = @ + 1,
                !.intena = IF cpu.ncli = 0 THEN cpu.if ELSE @]

popcli(cpu) ==
    [cpu EXCEPT !.ncli = @ - 1, !.if = cpu.ncli = 1 /\ cpu.intena]

\* acquire: interrupts go off first; then it spins if the lock is not free.
AcquireLock(c) ==
    /\ At(c, "acquire")
    /\ IF holding(c, Arg(c)) THEN Panic("acquire")
       ELSE /\ cpus' = [cpus EXCEPT ![c] = pushcli(@)]
            /\ IF locked[Arg(c)] = Free
               THEN locked' = [locked EXCEPT ![Arg(c)] = c] /\ Done(c)
               ELSE Do(c, <<<<"spin", Arg(c)>>>>) /\ UNCHANGED locked
            /\ UNCHANGED <<ptable, scan, ticks, panic>>

Spin(c) ==
    /\ At(c, "spin") /\ locked[Arg(c)] = Free
    /\ locked' = [locked EXCEPT ![Arg(c)] = c]
    /\ Done(c)
    /\ UNCHANGED <<cpus, ptable, scan, ticks, panic>>

\* What release refuses.
ReleaseError(c, l) ==
    IF ~holding(c, l) THEN "release"
    ELSE IF cpus[c].if THEN "popcli - interruptible"
    ELSE IF cpus[c].ncli = 0 THEN "popcli"
    ELSE "none"

\* The end of a section under l, which leaves the table as it is given.
Leave(c, l, table, todo) ==
    IF ReleaseError(c, l) # "none" THEN Panic(ReleaseError(c, l))
    ELSE /\ locked' = [locked EXCEPT ![l] = Free]
         /\ cpus' = [cpus EXCEPT ![c] = popcli(@)]
         /\ ptable' = table
         /\ code' = todo
         /\ UNCHANGED <<scan, ticks, panic>>

Then(c, ops) == [code EXCEPT ![T(c)] = ops \o Tail(@)]

ReleaseLock(c) == At(c, "release") /\ Leave(c, Arg(c), ptable, Then(c, <<>>))

-----------------------------------------------------------------------------
(* proc.c                                                                  *)

\* What sched refuses.
Refused(c, table) ==
    IF ~holding(c, "ptable") THEN "sched ptable.lock"
    ELSE IF cpus[c].ncli # 1 THEN "sched locks"
    ELSE IF table[Myproc(c)].state = "RUNNING" THEN "sched running"
    ELSE IF cpus[c].if THEN "sched interruptible"
    ELSE "none"

\* sched, with the new table: on to the scheduler, which has left the process;
\* the interrupt flag to restore is the thread's own, and stays in its code.
Resched(c, table, next) ==
    IF Refused(c, table) # "none" THEN Panic(Refused(c, table))
    ELSE /\ ptable' = table
         /\ cpus' = [cpus EXCEPT ![c].thread = Sched(c), ![c].proc = NoProc]
         /\ code' = [code EXCEPT ![T(c)] = <<<<"intena", cpus[c].intena>>>> \o next \o Tail(@)]
         /\ UNCHANGED <<locked, scan, ticks, panic>>

\* The end of sched and of sleep, when the process runs again.
Resumed(c) ==
    /\ At(c, "intena")
    /\ cpus' = [cpus EXCEPT ![c].intena = Arg(c)]
    /\ ptable' = [ptable EXCEPT ![Myproc(c)].chan = NoChan]
    /\ Done(c)
    /\ UNCHANGED <<locked, scan, ticks, panic>>

\* scheduler: the next RUNNABLE process in the table, or another round.
Pick(c) ==
    LET ready == {p \in scan[c]..NPROC : State(p) = "RUNNABLE"}
        p == CHOOSE q \in ready : \A r \in ready : q <= r
    IN  /\ At(c, "pick")
        /\ IF ready = {}
           THEN Leave(c, "ptable", ptable, Then(c, <<<<"sti">>>>))
           ELSE /\ ptable' = [ptable EXCEPT ![p].state = "RUNNING"]
                /\ cpus' = [cpus EXCEPT ![c].proc = p, ![c].thread = p]
                /\ scan' = [scan EXCEPT ![c] = p + 1]
                /\ UNCHANGED <<code, locked, ticks, panic>>

NextRound(c) ==
    /\ At(c, "sti")
    /\ cpus' = [cpus EXCEPT ![c].if = TRUE]
    /\ scan' = [scan EXCEPT ![c] = 1]
    /\ Do(c, Loop)
    /\ UNCHANGED <<locked, ptable, ticks, panic>>

YieldCpu(c) ==
    /\ At(c, "yield")
    /\ Resched(c, [ptable EXCEPT ![Myproc(c)].state = "RUNNABLE"], <<>>)

Sleeping(p, chan) == [ptable EXCEPT ![p].state = "SLEEPING", ![p].chan = chan]

GoToSleep(c) == At(c, "sleep") /\ Resched(c, Sleeping(Myproc(c), Arg(c)), <<>>)

wakeup1(table, chan) ==
    [p \in Proc |-> IF table[p].state = "SLEEPING" /\ table[p].chan = chan
                    THEN [table[p] EXCEPT !.state = "RUNNABLE"] ELSE table[p]]

WakeAll(c) ==
    /\ At(c, "wakeup1")
    /\ Leave(c, "ptable", wakeup1(ptable, Arg(c)), Then(c, <<>>))

\* fork: allocproc may find no entry, and the copy may find no memory; that one
\* resets the state without ptable.lock. The child begins in forkret.
AllocProc(c) ==
    LET unused == {p \in Proc : State(p) = "UNUSED"}
        np == CHOOSE q \in unused : \A r \in unused : q <= r
    IN  /\ At(c, "allocproc")
        /\ IF unused = {} THEN Leave(c, "ptable", ptable, Then(c, <<>>))
           ELSE Leave(c, "ptable", [ptable EXCEPT ![np].state = "EMBRYO"],
                      [Then(c, <<<<"copy", np>>>>) EXCEPT ![np] = ForkRet])

CopyProc(c) ==
    /\ At(c, "copy")
    /\ \/ /\ ptable' = [ptable EXCEPT ![Arg(c)].parent = Myproc(c)]
          /\ Do(c, <<Acquire("ptable"), <<"ready", Arg(c)>>>>)
       \/ /\ ptable' = [ptable EXCEPT ![Arg(c)].state = "UNUSED"]
          /\ code' = [code EXCEPT ![T(c)] = Tail(@), ![Arg(c)] = <<>>]
    /\ UNCHANGED <<cpus, locked, scan, ticks, panic>>

MakeReady(c) ==
    /\ At(c, "ready")
    /\ Leave(c, "ptable", [ptable EXCEPT ![Arg(c)].state = "RUNNABLE"], Then(c, <<>>))

Children(p) == {q \in Proc : ptable[q].parent = p}

Orphaned(p, table) ==
    [q \in Proc |-> IF table[q].parent = p THEN [table[q] EXCEPT !.parent = initproc]
                    ELSE table[q]]

\* Mutant: only init is told, of the zombies it inherits.
ExitProcUntold(c) ==
    LET p == Myproc(c)
        left == IF \E q \in Children(p) : State(q) = "ZOMBIE"
                THEN wakeup1(ptable, initproc) ELSE ptable
    IN  /\ At(c, "exit")
        /\ Resched(c, [Orphaned(p, left) EXCEPT ![p].state = "ZOMBIE"], <<<<"zombie exit">>>>)

\* exit. It must not be init's.
ExitProc(c) ==
    LET p == Myproc(c)
        told == wakeup1(ptable, ptable[p].parent)
        left == IF \E q \in Children(p) : State(q) = "ZOMBIE"
                THEN wakeup1(told, initproc) ELSE told
    IN  /\ At(c, "exit")
        /\ IF p = initproc THEN Panic("init exiting")
           ELSE Resched(c, [Orphaned(p, left) EXCEPT ![p].state = "ZOMBIE"],
                        <<<<"zombie exit">>>>)

\* wait: one turn of its loop.
WaitChild(c) ==
    LET p == Myproc(c)
        zombies == {q \in Children(p) : State(q) = "ZOMBIE"}
        z == CHOOSE q \in zombies : \A r \in zombies : q <= r
    IN  /\ At(c, "wait")
        /\ IF zombies # {}
           THEN Leave(c, "ptable", [ptable EXCEPT ![z] = Unused],
                      [Then(c, <<>>) EXCEPT ![z] = <<>>])
           ELSE IF Children(p) = {} \/ ptable[p].killed
           THEN Leave(c, "ptable", ptable, Then(c, <<>>))
           ELSE Resched(c, Sleeping(p, p), <<<<"wait">>>>)

\* kill, of any process but init, or of one that is gone.
KillProc(c) ==
    /\ At(c, "kill")
    /\ \/ \E p \in Proc \ {initproc} :
             /\ State(p) # "UNUSED"
             /\ Leave(c, "ptable", [ptable EXCEPT ![p].killed = TRUE,
                        ![p].state = IF @ = "SLEEPING" THEN "RUNNABLE" ELSE @], Then(c, <<>>))
       \/ Leave(c, "ptable", ptable, Then(c, <<>>))

-----------------------------------------------------------------------------
(* trap.c and sys_sleep                                                    *)

InUser(c) == panic = "none" /\ T(c) \in Proc /\ code[T(c)] = <<>>

\* A system call; a process that has been killed exits before it and after it.
EnterSyscall(c) ==
    /\ InUser(c)
    /\ \E call \in Calls[T(c)] :
          code' = [code EXCEPT ![T(c)] =
             IF ptable[T(c)].killed THEN Exit ELSE Syscall(call) \o <<<<"killed">>>>]
    /\ UNCHANGED <<cpus, locked, ptable, scan, ticks, panic>>

CheckKilled(c) ==
    /\ At(c, "killed")
    /\ IF ptable[Myproc(c)].killed THEN code' = [code EXCEPT ![T(c)] = Exit] ELSE Done(c)
    /\ UNCHANGED <<cpus, locked, ptable, scan, ticks, panic>>

\* The clock interrupts a processor that lets it, in user mode or in the kernel.
ClockInterrupt(c) ==
    /\ panic = "none" /\ cpus[c].if
    /\ InUser(c) \/ T(c) \notin Proc \/ cpus[c].ncli > 0 \/ \E op \in Preempt : At(c, op)
    /\ cpus' = [cpus EXCEPT ![c].if = FALSE]
    /\ code' = [code EXCEPT ![T(c)] = Clock(c, InUser(c)) \o @]
    /\ UNCHANGED <<locked, ptable, scan, ticks, panic>>

Tick(c) ==
    /\ At(c, "tick")
    /\ ticks' = (ticks + 1) % TICKS
    /\ Done(c)
    /\ UNCHANGED <<cpus, locked, ptable, scan, panic>>

\* The end of trap for a clock interrupt: the process gives up the processor.
ClockYield(c) ==
    /\ At(c, "clock")
    /\ Do(c, IF Myproc(c) # NoProc /\ State(Myproc(c)) = "RUNNING" THEN Yield ELSE <<>>)
    /\ UNCHANGED <<cpus, locked, ptable, scan, ticks, panic>>

\* The interrupt flag comes back: it was on, or the interrupt had not happened.
Iret(c) ==
    /\ At(c, "iret")
    /\ cpus' = [cpus EXCEPT ![c].if = TRUE]
    /\ Done(c)
    /\ UNCHANGED <<locked, ptable, scan, ticks, panic>>

\* sys_sleep: ticks0 is noted first, and stays in the code while it sleeps.
Naptest(c, ticks0, n) ==
    IF (ticks - ticks0) % TICKS < n /\ ~ptable[Myproc(c)].killed
    THEN /\ Do(c, Append(Sleep(TickChan), <<"napping", <<ticks0, n>>>>))
         /\ UNCHANGED <<cpus, locked, ptable, scan, ticks, panic>>
    ELSE Leave(c, "tickslock", ptable, Then(c, <<>>))

Nap(c) == At(c, "nap") /\ \E n \in Naps : Naptest(c, ticks, n)

NapOn(c) == At(c, "napping") /\ Naptest(c, Arg(c)[1], Arg(c)[2])

Step(c) ==
    \/ AcquireLock(c) \/ Spin(c) \/ ReleaseLock(c)
    \/ Resumed(c) \/ Pick(c) \/ NextRound(c) \/ YieldCpu(c) \/ GoToSleep(c)
    \/ WakeAll(c) \/ AllocProc(c) \/ CopyProc(c) \/ MakeReady(c) \/ ExitProc(c)
    \/ WaitChild(c) \/ KillProc(c) \/ CheckKilled(c) \/ Tick(c)
    \/ ClockYield(c) \/ Iret(c) \/ Nap(c) \/ NapOn(c)

Next == \E c \in Cpu : Step(c) \/ EnterSyscall(c) \/ ClockInterrupt(c)

Spec == Init /\ [][Next]_vars

-----------------------------------------------------------------------------
\* The operations: those without an argument, and those with one.
Plain == {"pick", "sti", "yield", "allocproc", "exit", "zombie exit", "wait", "kill",
          "nap", "tick", "killed", "clock", "iret"}
Op == {<<n>> : n \in Plain}
      \cup {<<n, l>> : n \in {"acquire", "spin", "release"}, l \in Locks}
      \cup {<<n, TickChan>> : n \in {"wakeup1", "sleep"}}
      \cup {<<"intena", b>> : b \in BOOLEAN}
      \cup {<<n, p>> : n \in {"copy", "ready"}, p \in Proc}
      \cup {<<"napping", <<a, n>>>> : a \in 0..TICKS - 1, n \in Naps}

\* Every variable has its type.
TypeOK ==
    /\ cpus \in [Cpu -> [if : BOOLEAN, ncli : 0..Cardinality(Locks), intena : BOOLEAN,
                         proc : {NoProc} \cup Proc, thread : Thread]]
    /\ locked \in [Locks -> Cpu \cup {Free}]
    /\ code \in [Thread -> Seq(Op)]
    /\ ptable \in [Proc ->
          [state : {"UNUSED", "EMBRYO", "SLEEPING", "RUNNABLE", "RUNNING", "ZOMBIE"},
           parent : {NoProc} \cup Proc, chan : {NoChan, TickChan} \cup Proc,
           killed : BOOLEAN]]
    /\ scan \in [Cpu -> 1..NPROC + 1]
    /\ ticks \in 0..TICKS - 1

\* No step of one processor brings another, or an interrupt of its own, to a
\* lock it holds already, to sched with a lock too many, or back to a zombie.
NoPanic == panic = "none" /\ \A c \in Cpu : ~At(c, "zombie exit")

\* pushcli and popcli are matched through every switch: a processor counts the
\* locks it holds and the one it spins for, with interrupts off.
NcliExact ==
    \A c \in Cpu :
        /\ cpus[c].ncli = Cardinality({l \in Locks : holding(c, l)})
                          + (IF At(c, "spin") THEN 1 ELSE 0)
        /\ cpus[c].ncli > 0 => ~cpus[c].if

\* intena follows the thread from processor to processor: a process is back in
\* user mode with interrupts on, or it could not be made to yield.
UserInterruptible == \A c \in Cpu : InUser(c) => cpus[c].if

\* A process runs on one processor, and RUNNING says so (proc.c:341-351).
OneCpu ==
    /\ \A c, d \in Cpu : T(c) = T(d) => c = d
    /\ \A c \in Cpu : Myproc(c) # NoProc => T(c) = Myproc(c)
    /\ locked["ptable"] = Free =>
          \A p \in Proc : State(p) = "RUNNING" <=> \E c \in Cpu : Myproc(c) = p

\* Nobody spins for a lock whose holder spins for one of its own.
NoSpinCycle ==
    \A c, d \in Cpu : ~(/\ At(c, "spin") /\ At(d, "spin")
                        /\ locked[Arg(c)] = d /\ locked[Arg(d)] = c)

\* wait does not sleep over a child that has exited, its own or inherited.
WaiterWoken ==
    locked["ptable"] = Free =>
        \A p \in Proc : State(p) = "SLEEPING" /\ ptable[p].chan = p =>
            \A q \in Children(p) : State(q) # "ZOMBIE"

\* Every process but init has a parent that is there to wait for it.
Fathered ==
    locked["ptable"] = Free =>
        \A p \in Proc \ {initproc} : State(p) \notin {"UNUSED", "EMBRYO"} =>
            /\ ptable[p].parent # NoProc
            /\ State(ptable[p].parent) \notin {"UNUSED", "EMBRYO", "ZOMBIE"}

\* Locks and interrupts: no panic, nesting exact, one processor for a process,
\* user code can be interrupted, and no two processors spin for each other.
KernelSound ==
    /\ TypeOK /\ NoPanic /\ NcliExact /\ UserInterruptible /\ OneCpu
    /\ NoSpinCycle

\* Nobody sleeps in wait over a dead child, and every child has a parent.
ReapersWoken == WaiterWoken /\ Fathered
=============================================================================
