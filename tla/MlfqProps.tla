----------------------------- MODULE MlfqProps ------------------------------
(***************************************************************************)
(* What the scheduler of project1 promises.                                *)
(***************************************************************************)
EXTENDS Mlfq

\* Every variable keeps its type.
TypeOK ==
    /\ state \in [Proc -> ProcState]
    /\ parent \in [Proc -> Proc \cup {None}]
    /\ killed \in [Proc -> BOOLEAN]
    /\ pc \in [Proc -> Place]
    /\ np \in [Proc -> Proc \cup {None}]
    /\ mlfq \in Mlfq
    /\ nowproc \in Proc \cup {None}
    /\ cur \in [lvl : Level, prio : Priority, tq : Int]
    /\ islock \in {-1, 0, 1}
    /\ lockproc \in Proc \cup {None}
    /\ isTimeinterrupt \in BOOLEAN
    /\ ticks \in Nat
    /\ cpu \in Proc \cup {None}

\* One process runs: the one the CPU is on, which is the one schedmlfq
\* accounts for. getLevel, setPriority and schedulerLock all take
\* schedmlfq.nowproc for the caller.
OneRunning ==
    /\ \A p \in Proc : state[p] = "RUNNING" <=> cpu = p
    /\ cpu # None => cpu = nowproc

\* While the scheduler is locked the CPU belongs to nowproc: it owns the lock,
\* or is between the two stores that take it, no list offers it to popproc as
\* queued, and while it unlocks (-1) it either still runs the unlock or has
\* just left the CPU.
LockHeld ==
    /\ islock = 1  => lockproc = nowproc \/ pc[nowproc] = "lock2"
    /\ islock = -1 => cpu = None \/ pc[cpu] \in {"unlock2", "yield"}
    /\ islock # 0  => /\ nowproc # None /\ ~mlfq.isin[nowproc]
                      /\ state[nowproc] \notin {"UNUSED", "EMBRYO"}

\* A process never runs under a budget it has used up, and the boost is never
\* overdue: outside the lock it has between 1 and the quantum of its level
\* left, and global ticks stay below the boost while anything runs.
Budget ==
    /\ cpu # None /\ islock = 0 => cur.tq \in 1..Quantum(cur.lvl)
    /\ ticks \in 1..BOOST
    /\ cpu # None => ticks < BOOST

\* Every queued process has budget left, and stands on the list of its level
\* and priority, or on L0, where headpush puts processes of L2.
Placement ==
    \A l \in Lists : \A i \in DOMAIN mlfq.q[l] :
        LET e == mlfq.q[l][i] IN
        /\ e.tq \in 1..Quantum(e.lvl)
        /\ l = ListOf(e) \/ (l = 0 /\ e.lvl = 2)

\* The places where p is queued: pairs of a list and a position.
Queued(p) == {x \in Lists \X (1..QUESIZE) :
                 /\ x[2] \in DOMAIN mlfq.q[x[1]]
                 /\ mlfq.q[x[1]][x[2]].proc = p}

\* isinmlfq tells whether a process is queued, and no process is queued twice.
MarksExact ==
    \A p \in Proc : /\ mlfq.isin[p] <=> Queued(p) # {}
                    /\ Cardinality(Queued(p)) <= 1

\* Nobody is forgotten: what may run or will be woken is queued, unless it is
\* the process that is leaving the CPU and is about to be queued again.
NobodyLost ==
    ~mlfq.panic => \A p \in Proc :
        state[p] \in {"RUNNABLE", "SLEEPING"} =>
            Queued(p) # {} \/ (p = nowproc /\ cpu = None)

\* The kernel does not panic.
NoPanic == ~mlfq.panic

\* A process asleep in wait has no dead child: exit() leaves no zombie behind
\* whose parent, old or new, sleeps on.
NoLostWakeup ==
    \A p \in Proc : state[p] = "SLEEPING" /\ pc[p] = "wait" => Dead(p) = {}

\* The accounting of quanta: what runs, what waits and what is boosted.
Quanta == Budget /\ Placement

\* The lists and the marks tell the same story, in which everybody appears
\* once, so that the lists do not run over.
ListsExact == MarksExact /\ NobodyLost /\ NoPanic

\* As long as the scheduler stays locked, the CPU is given to nobody else.
LockedCpu ==
    [][islock = 1 /\ islock' = 1 => nowproc' = nowproc /\ cpu' \in {None, nowproc}]_vars

\* What is left of the quantum of a process that is queued or runs.
Known(p) == Queued(p) # {} \/ cpu = p
Left(p)  == IF cpu = p THEN cur.tq
            ELSE LET x == CHOOSE x \in Queued(p) : TRUE
                 IN  mlfq.q[x[1]][x[2]].tq

\* Yielding or sleeping before the quantum ends gains nothing: outside a boost
\* and the scheduler lock the quantum of a process grows only in a step of the
\* scheduler that charges its last tick.
NoGaming ==
    [][\A p \in Proc :
          Known(p)' /\ islock = 0 /\ islock' = 0 /\ ~BoostDue =>
             IF Known(p) THEN Left(p)' <= Left(p)
             ELSE p = nowproc /\ Alive(p) =>
                     \/ Left(p)' <= Charged
                     \/ Charged = 0]_vars

\* The lock comes back: once somebody owns or takes it, even when a boost, a
\* sleep or an exit takes it away half way, it is free again later, unless the
\* CPU goes idle for good: only a tick of a process brings the boost that clears
\* what a half-taken lock has left.
LockAvailable ==
    []<>(cpu # None) =>
        ((islock # 0 \/ lockproc # None) ~> (islock = 0 /\ lockproc = None))

\* Nobody starves: unless the scheduler lock is taken again and again, which
\* puts off every boost, a process that may run is run.
NoStarvation ==
    <>[](islock = 0) => \A p \in Proc : state[p] = "RUNNABLE" ~> state[p] # "RUNNABLE"

-----------------------------------------------------------------------------
(* What the claims above rest on: the parts of an inductive invariant. *)

\* A fork under way has a slot of its own, which nobody else touches.
Forks ==
    \A p \in Proc : pc[p] = "fork" =>
        /\ np[p] \in Proc
        /\ state[np[p]] = "EMBRYO"
        /\ \A r \in Proc : pc[r] = "fork" /\ np[r] = np[p] => r = p

\* init lives and has no parent; nobody is its own parent.
Family ==
    /\ state[InitProc] \notin {"UNUSED", "EMBRYO", "ZOMBIE"}
    /\ parent[InitProc] = None
    /\ \A p \in Proc : parent[p] # p

\* What runs is not marked as queued, and the timer's note has been used.
OnCpu == cpu # None => ~mlfq.isin[cpu] /\ ~isTimeinterrupt

\* Whoever holds the lock is not past the point where it gave it up.
NotUnlocked == islock = 1 => pc[nowproc] # "unlock2"

\* A process that leaves the CPU unlocked and unqueued can pay for its turn.
CanPay ==
    (/\ ~mlfq.panic /\ cpu = None /\ islock = 0
     /\ nowproc # None /\ Alive(nowproc) /\ ~mlfq.isin[nowproc])
    => Charged \in 0..Quantum(cur.lvl)

IInv ==
    /\ TypeOK /\ OneRunning /\ LockHeld /\ Budget /\ Placement
    /\ NoLostWakeup /\ Forks /\ Family /\ OnCpu /\ NotUnlocked /\ CanPay
=============================================================================
