--------------------------------- MODULE Lwp ---------------------------------
(***************************************************************************)
(* Processes and light-weight processes of project2: fork, exec, exit,     *)
(* wait, kill and thread_create, thread_exit, thread_join on one CPU.      *)
(* What runs under ptable.lock is one step; between two steps of a process *)
(* the others run.  RUNNABLE stands for RUNNING too, and a page directory  *)
(* for all the memory under it.                                            *)
(*                                                                         *)
(* Some calls leave a main thread behind whose count of threads is wrong,  *)
(* or threads whose main thread is gone.  The code goes on, and so does    *)
(* the model; odd remembers these main threads: one that called            *)
(* thread_exit, or one of whose threads did when it counted no other; one  *)
(* that was reaped by wait or thread_join before the last of its threads;  *)
(* one that called exec while its threads ran, or whose thread did.        *)
(*                                                                         *)
(* Slots are searched in any order.                                        *)
(***************************************************************************)
EXTENDS Integers, FiniteSets, FiniteSetsExt

CONSTANTS
    Slot,        \* slots of ptable
    init,        \* the one of the first process
    MAXTHREAD,   \* threads of a process, the main one included
    MAXPID,      \* bound: the last pid that is given out
    None,        \* no slot
    Lost         \* a page directory that nobody frees any more

ASSUME LwpConstants ==
    /\ init \in Slot
    /\ None \notin Slot /\ Lost \notin Slot /\ None # Lost
    /\ IsFiniteSet(Slot)
    /\ MAXTHREAD \in Nat \ {0} /\ MAXPID \in Nat

VARIABLES
    proc,        \* ptable
    nextpid,
    dirs,        \* page directories that some thread is to free
    halted,      \* why the machine has stopped, or "no"
    odd          \* main threads that some call left wrong (history)

vars == <<proc, nextpid, dirs, halted, odd>>

Tid == 0..(MAXTHREAD - 1)

\* An UNUSED slot as wait and thread_join leave it.
Unused == [st |-> "UNUSED", pc |-> "user", pid |-> 0, tid |-> 0,
           main |-> None, parent |-> None, killed |-> FALSE, tcnt |-> 0,
           thdnum |-> {}, dir |-> None, arg |-> None]

\* userinit, by way of allocproc.
Init ==
    /\ proc = [s \in Slot |->
                 IF s = init THEN [Unused EXCEPT !.st = "RUNNABLE",
                                                 !.pid = 1, !.dir = init]
                             ELSE Unused]
    /\ nextpid = 2 /\ dirs = {init}
    /\ halted = "no"
    /\ odd = {}

-----------------------------------------------------------------------------
Live(s) == proc[s].st \in {"RUNNABLE", "SLEEPING"}
At(p, where) ==
    halted = "no" /\ proc[p].st = "RUNNABLE" /\ proc[p].pc = where

\* In user space: what trap tests before and after every system call.
Calls(p) == At(p, "user") /\ ~proc[p].killed

Main(p) == IF proc[p].main = None THEN p ELSE proc[p].main
Members(p) == {q \in Slot : proc[q].pid = proc[p].pid}

\* The threads that count with main thread m, and those that still run.
Group(m) == {q \in Slot : proc[q].st \notin {"UNUSED", "EMBRYO"} /\ Main(q) = m}
Running(m) == {q \in Group(m) : Live(q)}

\* proc with the sleepers on channel s runnable: in wait and thread_join a
\* process sleeps on itself.
Wakeup1(pr, s) == IF s # None /\ pr[s].st = "SLEEPING"
                  THEN [pr EXCEPT ![s].st = "RUNNABLE"] ELSE pr

-----------------------------------------------------------------------------
(* allocproc, fork, growing and shrinking the table *)

UnusedSlots == {s \in Slot : proc[s].st = "UNUSED"}

\* allocproc for fork and for thread_create; arg keeps the slot found. parent
\* and killed stay what they are.
Alloc(p, where) ==
    /\ Calls(p) /\ nextpid <= MAXPID
    /\ \E np \in UnusedSlots :
          /\ proc' = [proc EXCEPT
               ![np] = [Unused EXCEPT !.st = "EMBRYO", !.pid = nextpid,
                                      !.parent = proc[np].parent,
                                      !.killed = proc[np].killed],
               ![p].pc = where, ![p].arg = np]
          /\ odd' = IF Group(np) = {} THEN odd \ {np} ELSE odd
    /\ nextpid' = nextpid + 1
    /\ UNCHANGED <<dirs, halted>>

\* fork copies the calling thread: the child is a process with one thread.
ForkCopy(p) ==
    /\ At(p, "fork")
    /\ LET np == proc[p].arg
       IN  /\ proc' = [proc EXCEPT ![np].st = "RUNNABLE", ![np].dir = np,
                                   ![np].parent = p,
                                   ![p].pc = "user", ![p].arg = None]
           /\ dirs' = dirs \cup {np}
    /\ UNCHANGED <<nextpid, halted, odd>>

\* copyuvm finds no memory: fork returns with ptable.lock held, and whoever
\* takes it next panics.
ForkNoMemory(p) ==
    /\ At(p, "fork")
    /\ halted' = "lock kept"
    /\ UNCHANGED <<proc, nextpid, dirs, odd>>

-----------------------------------------------------------------------------
(* thread_create *)

\* thdnum once the entry of the main thread is marked.
Marked(m) == IF proc[m].tcnt = 0 THEN proc[m].thdnum \cup {0}
                                 ELSE proc[m].thdnum
FreeTids(m) == Tid \ Marked(m)

Create(p) ==
    /\ At(p, "create")
    /\ LET m == Main(p)
           np == proc[p].arg
           t == Min(FreeTids(m))
       IN  /\ FreeTids(m) # {}
           /\ proc' = [proc EXCEPT
                ![np] = [@ EXCEPT !.st = "RUNNABLE", !.pid = proc[m].pid,
                                  !.tid = t, !.main = m, !.dir = proc[m].dir,
                                  !.parent = proc[m].parent],
                ![m] = [@ EXCEPT !.thdnum = Marked(m) \cup {t},
                                 !.tcnt = proc[m].tcnt + 1],
                ![p].pc = "user", ![p].arg = None]
    /\ UNCHANGED <<nextpid, dirs, halted, odd>>

\* No thread number, or the memory limit is reached: the slot stays EMBRYO.
CreateRefused(p) ==
    /\ At(p, "create")
    /\ proc' = [proc EXCEPT ![Main(p)].thdnum = Marked(Main(p)),
                            ![p].pc = "user", ![p].arg = None]
    /\ UNCHANGED <<nextpid, dirs, halted, odd>>

\* allocuvm or copyout fails: the slot is UNUSED but keeps pid and parent.
CreateNoMemory(p) ==
    /\ At(p, "create") /\ FreeTids(Main(p)) # {}
    /\ LET m == Main(p)
           np == proc[p].arg
       IN  proc' = [proc EXCEPT
             ![np] = [Unused EXCEPT !.pid = proc[m].pid,
                                    !.parent = proc[m].parent,
                                    !.killed = proc[np].killed],
             ![m].thdnum = Marked(m),
             ![p].pc = "user", ![p].arg = None]
    /\ UNCHANGED <<nextpid, dirs, halted, odd>>

-----------------------------------------------------------------------------
(* exit, thread_exit *)

\* The children of p go to init, which is woken for those already dead.
Reparented(pr, p) ==
    LET orphans == {s \in Slot : pr[s].parent = p}
        moved == [s \in Slot |-> IF s \in orphans
                                 THEN [pr[s] EXCEPT !.parent = init] ELSE pr[s]]
    IN  IF \E s \in orphans : pr[s].st = "ZOMBIE" THEN Wakeup1(moved, init)
                                                  ELSE moved

\* Whatever else has the pid of p, marked killed.
KilledOthers(pr, p) ==
    [s \in Slot |-> IF s # p /\ s \in Members(p) /\ pr[s].st # "ZOMBIE"
                    THEN [pr[s] EXCEPT !.killed = TRUE] ELSE pr[s]]

\* p is a zombie: it does not run and cannot be killed any more.
Dead(pr, p) == [pr EXCEPT ![p].st = "ZOMBIE", ![p].killed = FALSE]

\* p is not counted by its main thread any more.
Left(pr, p) == [pr EXCEPT ![pr[p].main].tcnt = @ - 1,
                          ![pr[p].main].thdnum = @ \ {pr[p].tid}]

\* exit: the last thread wakes the parent, the others are killed but not woken.
Exit(p) ==
    /\ At(p, "user") /\ p # init
    /\ LET m == Main(p)
           told == IF proc[m].tcnt = 0
                   THEN Wakeup1(proc, proc[m].parent)
                   ELSE [proc EXCEPT ![m].tcnt = @ - 1]
       IN  proc' = Dead(KilledOthers(Reparented(told, p), p), p)
    /\ UNCHANGED <<nextpid, dirs, halted, odd>>

\* Mutant: the main thread is not woken.
ThreadExitSilent(p) ==
    /\ At(p, "user") /\ p # init
    /\ LET m == proc[p].main
       IN  IF m = None
           THEN /\ proc' = Dead(Reparented(proc, p), p)
                /\ odd' = odd \cup {p}
           ELSE /\ proc' = Dead(Left(Reparented(proc, p), p), p)
                /\ odd' = IF proc[m].tcnt > 0 THEN odd ELSE odd \cup {m}
    /\ UNCHANGED <<nextpid, dirs, halted>>

\* thread_exit wakes the main thread and nobody else, and takes tcnt below
\* zero when the others have exited already.  The main thread itself wakes
\* nobody and counts in its own program: its mainthread is a null pointer.
ThreadExit(p) ==
    /\ At(p, "user") /\ p # init
    /\ LET m == proc[p].main
       IN  IF m = None
           THEN /\ proc' = Dead(Reparented(proc, p), p)
                /\ odd' = odd \cup {p}
           ELSE /\ proc' = Dead(Left(Wakeup1(Reparented(proc, p), m), p), p)
                /\ odd' = IF proc[m].tcnt > 0 THEN odd ELSE odd \cup {m}
    /\ UNCHANGED <<nextpid, dirs, halted>>

-----------------------------------------------------------------------------
(* thread_join, wait *)

Asleep(p, where, what) ==
    [proc EXCEPT ![p].st = "SLEEPING", ![p].pc = where, ![p].arg = what]
Return(pr, p) == [pr EXCEPT ![p].pc = "user", ![p].arg = None]

Joinable(p, t) == {q \in Slot : /\ proc[q].pid = proc[p].pid
                                /\ proc[q].tid = t
                                /\ proc[q].st = "ZOMBIE"}

\* A call of thread_join, or the next round of its loop after a sleep.
Joining(p, t) == At(p, "user") \/ (At(p, "join") /\ proc[p].arg = t)

\* The page directories of these main threads.
MainDirs(ms) == {proc[m].dir : m \in {s \in ms : proc[s].main = None}}

\* Who runs on one of these directories does so no more: what is theirs now.
Moved(pr, ds, now) == [s \in Slot |-> IF pr[s].dir \in ds
                                      THEN [pr[s] EXCEPT !.dir = now] ELSE pr[s]]

\* Slots gone are UNUSED again; the main threads among them may leave others
\* of their group behind, on a directory that is now something else.
Reaped(p, gone, now) ==
    /\ proc' = [s \in Slot |->
                  IF s \in gone THEN Unused
                  ELSE Moved(Return(proc, p), MainDirs(gone), now)[s]]
    /\ dirs' = dirs \ MainDirs(gone)
    /\ odd' = odd \cup {m \in gone : proc[m].main = None /\ ~(Group(m) \subseteq gone)}
    /\ UNCHANGED <<nextpid, halted>>

\* Number 0 is the main thread: its page directory is not freed.
JoinReap(p, t) ==
    /\ Joining(p, t)
    /\ \E q \in Joinable(p, t) : Reaped(p, {q}, Lost)

JoinMore(p, t) ==
    /\ Joining(p, t)
    /\ Joinable(p, t) = {}
    /\ proc' = IF proc[p].killed THEN Return(proc, p) ELSE Asleep(p, "join", t)
    /\ UNCHANGED <<nextpid, dirs, halted, odd>>

\* A call of wait, or the next round of its loop.
Waiting(p) == At(p, "user") \/ At(p, "wait")

Children(p) == {q \in Slot : proc[q].parent = p}
Zombies(p) == {q \in Children(p) : proc[q].st = "ZOMBIE"}

\* wait frees every zombie it finds, each for itself: other threads of its
\* process may still run.
WaitReap(p) ==
    /\ Waiting(p)
    /\ Zombies(p) # {}
    /\ Reaped(p, Zombies(p), None)

WaitMore(p) ==
    /\ Waiting(p)
    /\ Zombies(p) = {}
    /\ proc' = IF Children(p) = {} \/ proc[p].killed
               THEN Return(proc, p) ELSE Asleep(p, "wait", None)
    /\ UNCHANGED <<nextpid, dirs, halted, odd>>

-----------------------------------------------------------------------------
(* exec, exec2, kill *)

\* exec and exec2 have read the program into a page directory of its own; one
\* that fails has changed nothing.
ExecKill(p) ==
    /\ At(p, "user") /\ p # init
    /\ proc' = [KilledOthers(proc, p) EXCEPT ![p].pc = "commit"]
    /\ UNCHANGED <<nextpid, dirs, halted, odd>>

\* Whose count is wrong now: a main thread that forgets those that still run,
\* or the one that still counts p.
LeftByExec(p) ==
    LET m == Main(p)
    IN  IF m # p THEN {m} \cup (IF m \in odd THEN {p} ELSE {})
        ELSE IF Running(p) # {p} THEN {p} ELSE {}

\* p runs its new program, as a main thread; the directories old are freed.
Committed(p, old) ==
    /\ proc' = [Moved(proc, old, None) EXCEPT ![p] = [@ EXCEPT
                  !.dir = p, !.main = None, !.tid = 0, !.tcnt = 0,
                  !.thdnum = IF proc[p].main = None THEN {} ELSE @,
                  !.pc = "user"]]
    /\ dirs' = (dirs \ old) \cup {p}
    /\ odd' = odd \cup LeftByExec(p)
    /\ UNCHANGED <<nextpid, halted>>

\* Mutant: a thread that calls exec frees the page directory it shares.
ExecFreesShared(p) ==
    /\ At(p, "commit")
    /\ Committed(p, {proc[p].dir})

\* The thread that calls exec becomes a main thread. The main thread frees the
\* old page directory, whoever else still runs on it.
ExecCommit(p) ==
    /\ At(p, "commit")
    /\ Committed(p, MainDirs({p}))

\* kill marks every slot with the pid, and wakes those that sleep.
Kill(p, pid) ==
    /\ Calls(p)
    /\ proc' = [s \in Slot |->
                  IF proc[s].pid # pid THEN proc[s]
                  ELSE [proc[s] EXCEPT !.killed = TRUE,
                                       !.st = IF @ = "SLEEPING" THEN "RUNNABLE"
                                                                ELSE @]]
    /\ UNCHANGED <<nextpid, dirs, halted, odd>>

\* p runs on a page directory that has been freed: it may go on while the page
\* is not used again, or take the machine down.
Fault(p) ==
    /\ halted = "no" /\ proc[p].st = "RUNNABLE" /\ proc[p].dir = None
    /\ halted' = "fault"
    /\ UNCHANGED <<proc, nextpid, dirs, odd>>

-----------------------------------------------------------------------------
\* Numbers of threads there are to join.
Joins(p) == {proc[q].tid : q \in Members(p) \ {p}}

\* A system call, or the rest of one. What a call does before it takes
\* ptable.lock leaves no trace, so a call starts here with the first thing that
\* does; a process killed since may still be in it. init forks when it has no
\* child, and waits; nobody kills it.
Step(p) ==
    \/ (p = init => Children(p) = {}) /\ Alloc(p, "fork")
    \/ ForkCopy(p) \/ ForkNoMemory(p)
    \/ p # init /\ Alloc(p, "create")
    \/ Create(p) \/ CreateRefused(p) \/ CreateNoMemory(p)
    \/ Exit(p) \/ ThreadExit(p)
    \/ \E t \in Tid : /\ t \in Joins(p) \/ proc[p].pc = "join"
                      /\ JoinReap(p, t) \/ JoinMore(p, t)
    \/ WaitReap(p) \/ WaitMore(p)
    \/ ExecKill(p) \/ ExecCommit(p)
    \/ p # init /\ \E pid \in 2..(nextpid - 1) : Kill(p, pid)

Next == \E p \in Slot : Step(p) \/ Fault(p)

Spec == Init /\ [][Next]_vars

-----------------------------------------------------------------------------
Process == [st : {"UNUSED", "EMBRYO", "RUNNABLE", "SLEEPING", "ZOMBIE"},
            pc : {"user", "fork", "create", "wait", "join", "commit"},
            pid : 0..MAXPID, tid : Tid,
            main : Slot \cup {None}, parent : Slot \cup {None},
            killed : BOOLEAN, tcnt : Int, thdnum : SUBSET Tid,
            dir : Slot \cup {None, Lost}, arg : Slot \cup Tid \cup {None}]

\* Every variable has its type.
TypeOK ==
    /\ proc \in [Slot -> Process]
    /\ nextpid \in 1..(MAXPID + 1) /\ dirs \subseteq Slot /\ odd \subseteq Slot
    /\ halted \in {"no", "lock kept", "fault"}

IsMain(s) == proc[s].st \notin {"UNUSED", "EMBRYO"} /\ proc[s].main = None

\* tcnt is one less than the threads that have not exited, also while they exit
\* one after another, and 0 when all have: exit wakes the parent exactly when it
\* is the last (proc.c:330). So it is for a main thread that is not odd.
CountExact ==
    \A m \in Slot \ odd : IsMain(m) =>
        LET n == Cardinality(Running(m))
        IN  proc[m].tcnt = IF n = 0 THEN 0 ELSE n - 1

\* The page directories to be freed are those of the main threads that have not
\* been reaped, one each, of odd ones too: none is freed twice, and only joining
\* a main thread loses one.
DirsExact == /\ dirs = {s \in Slot : IsMain(s)}
             /\ \A m \in dirs : proc[m].dir = m

\* Unless its main thread is odd, a thread runs on the page directory of that.
OnDir ==
    \A s \in Slot : Live(s) /\ Main(s) \notin odd => proc[s].dir = Main(s)

\* Live threads of a main thread that is not odd have different numbers, so that
\* a join names one of them.
TidsDistinct ==
    \A m \in Slot \ odd : \A s, t \in Running(m) :
        s # t => proc[s].tid # proc[t].tid

\* Every process but init, and its threads unless their main thread is odd, has
\* a parent that is alive to wait for it.
ParentAlive ==
    \A s \in Slot \ {init} :
        proc[s].st \notin {"UNUSED", "EMBRYO"} /\ Main(s) \notin odd
        => proc[s].parent # None /\ Live(proc[s].parent)

\* Nobody sleeps in wait over a dead thread of a main thread that is not odd
\* once all of them are dead.
ParentWoken ==
    \A p \in Slot :
        proc[p].st = "SLEEPING" /\ proc[p].pc = "wait"
        => \A z \in Zombies(p) : Main(z) \notin odd => Running(Main(z)) # {}

\* A main thread that nobody has killed does not sleep in thread_join for one
\* of its threads that is dead, odd or not.
JoinWoken ==
    \A p \in Slot :
        /\ proc[p].st = "SLEEPING" /\ proc[p].pc = "join"
        /\ ~proc[p].killed
        => \A q \in Joinable(p, proc[p].arg) : proc[q].main # p

\* The table of processes and threads is consistent: counts, numbers, parents
\* and directories, whichever thread exits, execs or is joined first.
ThreadsSound ==
    TypeOK /\ CountExact /\ DirsExact /\ OnDir /\ TidsDistinct /\ ParentAlive

\* Nobody sleeps for a death that has happened.
WaitersWoken == ParentWoken /\ JoinWoken

=============================================================================
