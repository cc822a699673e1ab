----------------------------- MODULE MlfqQueues -----------------------------
(***************************************************************************)
(* The run queues of project1 (project1_mlfq.c): six FIFO lists, L0, L1    *)
(* and one list per priority of L2, and the flag proc.isinmlfq by which    *)
(* every insertion decides whether a process is queued already.            *)
(*                                                                         *)
(* The lists and the flags are one value m, so that the operators compose  *)
(* as the C functions do:                                                  *)
(*   m.q[l]      the list of level l, head first; an entry is a struct     *)
(*               proc_w (process, level, priority, remaining quantum)      *)
(*   m.isin[p]   p->isinmlfq                                               *)
(*   m.panic     the kernel has panicked                                   *)
(* The node array behind a list only matters by its size, QUESIZE.         *)
(***************************************************************************)
EXTENDS Integers, Sequences, FiniteSets

CONSTANTS
    Proc,        \* the slots of ptable.proc
    QUESIZE,     \* nodes of one list (128 in the code, twice NPROC)
    QBASE,       \* quantum of L0 (4 in the code)
    QSTEP        \* how much longer the quantum of the next level is (2)

ASSUME QueueConstants ==
    /\ IsFiniteSet(Proc)
    /\ QUESIZE \in Nat \ {0}
    /\ QBASE \in Nat \ {0}
    /\ QSTEP \in Nat

Level    == 0..2                 \* proc_w.quelevel
Priority == 0..3                 \* proc_w.priority, 0 is served first
Lists    == 0..5                 \* indices of schedmlfq.mlfql, LEVELSIZE = 6

Quantum(lvl) == lvl * QSTEP + QBASE

Entry == [proc : Proc, lvl : Level, prio : Priority, tq : Int]

ProcState == {"UNUSED", "EMBRYO", "SLEEPING", "RUNNABLE", "RUNNING", "ZOMBIE"}

Mlfq == [q : [Lists -> Seq(Entry)], isin : [Proc -> BOOLEAN], panic : BOOLEAN]

-----------------------------------------------------------------------------
(* Entries *)

\* procwrapinit with isset = 1.
Wrap(p, lvl, prio, tq) == [proc |-> p, lvl |-> lvl, prio |-> prio, tq |-> tq]

\* How a process enters the scheduler, is boosted and is unlocked: (0, 3, 4).
Fresh(p) == Wrap(p, 0, 3, Quantum(0))

\* Mutant: L2 is not treated apart.
DemotedPastL2(p, lvl, prio) ==
    Wrap(p, lvl + 1, IF prio = 0 THEN 0 ELSE prio - 1, Quantum(lvl + 1))

\* procwrapinit with isset = 0: the quantum is used up. L2 is the last level,
\* where the process gains a priority step instead of moving down.
Demoted(p, lvl, prio) ==
    IF lvl = 2
    THEN Wrap(p, 2, IF prio = 0 THEN 0 ELSE prio - 1, Quantum(2))
    ELSE Wrap(p, lvl + 1, prio, Quantum(lvl + 1))

\* The list an entry belongs to: L2 is split by priority.
ListOf(e) == IF e.lvl = 2 THEN 2 + e.prio ELSE e.lvl

-----------------------------------------------------------------------------
(* Sub-sequences *)

\* How many of the numbers K are at most i.
Rank(K, i) == Cardinality({j \in K : j <= i})

\* The entries of s at the positions K, in their order.
Pick(s, K) ==
    [k \in 1..Cardinality(K) |-> s[CHOOSE i \in K : Rank(K, i) = k]]

LeastOf(K) == CHOOSE i \in K : \A j \in K : i <= j

-----------------------------------------------------------------------------
(* Insertion *)

\* push: at the tail of the list the entry belongs to, unless the process
\* is marked as queued; a full list is a panic.
Push(m, e) ==
    IF m.isin[e.proc] THEN m
    ELSE IF Len(m.q[ListOf(e)]) >= QUESIZE THEN [m EXCEPT !.panic = TRUE]
    ELSE [q     |-> [m.q EXCEPT ![ListOf(e)] = Append(m.q[ListOf(e)], e)],
          isin  |-> [m.isin EXCEPT ![e.proc] = TRUE],
          panic |-> m.panic]

\* headpush: at the head of L0, whatever the level of the entry is.
HeadPush(m, e) ==
    IF m.isin[e.proc] THEN m
    ELSE IF Len(m.q[0]) >= QUESIZE THEN [m EXCEPT !.panic = TRUE]
    ELSE [q     |-> [m.q EXCEPT ![0] = <<e>> \o m.q[0]],
          isin  |-> [m.isin EXCEPT ![e.proc] = TRUE],
          panic |-> m.panic]

-----------------------------------------------------------------------------
(* Removal *)

\* Mutant: statepop drops sleeping processes too.
KeptRunnable(s, st) == {i \in DOMAIN s : st[s[i].proc] = "RUNNABLE"}

\* The positions of s that statepop keeps under the process states st.
Kept(s, st) == {i \in DOMAIN s : st[s[i].proc] \in {"RUNNABLE", "SLEEPING"}}

\* statepop on every list (clearmlfq). Line 139 clears isinmlfq after now has
\* moved on: it is the process behind the removed node that loses the mark,
\* the removed one keeps it, and behind the last node there is a null pointer.
\* What the store through it does depends on the page table in use: faults
\* says whether it ends in a panic.
Clear(m, st, faults) ==
    LET Behind(p) == \E l \in Lists :
                       \E i \in DOMAIN m.q[l] \ Kept(m.q[l], st) :
                          /\ i + 1 \in DOMAIN m.q[l]
                          /\ m.q[l][i + 1].proc = p
        AtNull    == \E l \in Lists :
                        Len(m.q[l]) \in DOMAIN m.q[l] \ Kept(m.q[l], st)
    IN  [q     |-> [l \in Lists |-> Pick(m.q[l], Kept(m.q[l], st))],
         isin  |-> [p \in Proc |-> m.isin[p] /\ ~Behind(p)],
         panic |-> m.panic \/ (AtNull /\ faults)]

\* newproc: a slot taken by allocproc enters L0.
NewProc(m, st, p, faults) == Push(Clear(m, st, faults), Fresh(p))

Runnable(s, st) == {i \in DOMAIN s : st[s[i].proc] = "RUNNABLE"}

\* popproc finds something to run.
CanPop(m, st) == \E l \in Lists : Runnable(m.q[l], st) # {}

\* The list popproc takes from, and the position: the first that is runnable.
PopList(m, st) == LeastOf({l \in Lists : Runnable(m.q[l], st) # {}})
PopPos(m, st)  == LeastOf(Runnable(m.q[PopList(m, st)], st))
Popped(m, st)  == m.q[PopList(m, st)][PopPos(m, st)]

\* popproc, and line 436 of proc.c: the process is marked as not queued.
Pop(m, st) ==
    LET l == PopList(m, st)
        s == m.q[l]
    IN  [q     |-> [m.q EXCEPT ![l] = Pick(s, (DOMAIN s) \ {PopPos(m, st)})],
         isin  |-> [m.isin EXCEPT ![Popped(m, st).proc] = FALSE],
         panic |-> m.panic]

-----------------------------------------------------------------------------
(* Priority boosting *)

AllEntries(m) == m.q[0] \o m.q[1] \o m.q[2] \o m.q[3] \o m.q[4] \o m.q[5]

\* Mutant: a boost that leaves the lists as they are.
BoostNothing(m, st, locked, now) == m

\* boosting collects every list into temp[QUESIZE] and pushes what it collected
\* into L0; the second copy of a process is refused by its mark. A locked
\* process now (or one about to unlock) is left out and put at the head.
\* More than QUESIZE entries overrun temp on the stack, taken as a panic.
\* The scheduler's own page table maps nothing at 0, so Clear faults.
Boost(m, st, locked, now) ==
    LET c     == Clear(m, st, TRUE)
        temp  == AllEntries(c)
        first == {i \in DOMAIN temp :
                     /\ \A j \in 1..(i - 1) : temp[j].proc # temp[i].proc
                     /\ ~(locked /\ temp[i].proc = now)}
        again == Pick(temp, first)
        tail  == [i \in 1..Cardinality(first) |-> Fresh(again[i].proc)]
        Collected(p) == \E i \in DOMAIN temp : temp[i].proc = p
        headpushed   == locked /\ (Collected(now) \/ ~c.isin[now])
        L0    == IF headpushed THEN <<Fresh(now)>> \o tail ELSE tail
    IN  [q     |-> [l \in Lists |-> IF l = 0 THEN L0 ELSE << >>],
         isin  |-> [p \in Proc |-> c.isin[p] \/ Collected(p)
                                              \/ (headpushed /\ p = now)],
         panic |-> c.panic \/ Len(temp) > QUESIZE \/ Len(L0) > QUESIZE]
=============================================================================
