------------------------------ MODULE SmpProofs -------------------------------
(***************************************************************************)
(* Processors, spin locks and processes of project3, proved for any number *)
(* of processors and processes: no panic in acquire, release or sched,     *)
(* interrupts on in user mode, a process on one processor, no spinning in  *)
(* a circle, and nobody asleep in wait over a dead child.                  *)
(***************************************************************************)
EXTENDS Smp, FiniteSetTheorems, SequenceTheorems, TLAPS

-----------------------------------------------------------------------------
(* The operations of a thread and the locks they run under *)

\* The name of the k-th operation that is still to do; behind the last one, the
\* process is in user mode.
Name(s, k) == IF k \in 1..Len(s) THEN s[k][1] ELSE "user"

\* Whether an operation runs with ptable.lock, and with tickslock, given the name
\* of the one behind it.
NeedsTable(o, next) ==
    \/ o[1] \in {"pick", "yield", "sleep", "allocproc", "ready", "exit", "wait",
                 "kill", "intena", "zombie exit", "wakeup1"}
    \/ o[1] = "release" /\ (o[2] = "ptable" \/ next = "sleep")
NeedsTicks(o, next) ==
    \/ o[1] \in {"tick", "nap", "napping", "wakeup1"}
    \/ o[1] = "release" /\ o[2] = "tickslock"
    \/ o[1] \in {"acquire", "spin"} /\ o[2] = "ptable" /\ next \in {"wakeup1", "release"}

\* Whether it leaves with them: what ends a section lets its lock go, what gives
\* up the processor comes back with ptable.lock.
LeavesTable(o, next) ==
    \/ o[1] \in {"acquire", "spin"} /\ o[2] = "ptable"
    \/ o[1] \in {"yield", "sleep", "intena"}
    \/ o[1] = "release" /\ o[2] = "tickslock" /\ next = "sleep"
LeavesTicks(o, next) ==
    \/ o[1] \in {"acquire", "spin"} /\ o[2] = "tickslock"
    \/ o[1] \in {"acquire", "spin"} /\ o[2] = "ptable" /\ next \in {"wakeup1", "release"}
    \/ o[1] \in {"tick", "wakeup1"}

\* The same of the k-th operation of s; in user mode there are no locks.
HasTable(s, k)   == k \in 1..Len(s) /\ NeedsTable(s[k], Name(s, k + 1))
HasTicks(s, k)   == k \in 1..Len(s) /\ NeedsTicks(s[k], Name(s, k + 1))
KeepsTable(s, k) == k \in 1..Len(s) /\ LeavesTable(s[k], Name(s, k + 1))
KeepsTicks(s, k) == k \in 1..Len(s) /\ LeavesTicks(s[k], Name(s, k + 1))

\* Every operation finds the locks that the one before leaves.
Fits(s) ==
    \A k \in 1..Len(s) : /\ HasTable(s, k + 1) <=> KeepsTable(s, k)
                         /\ HasTicks(s, k + 1) <=> KeepsTicks(s, k)

\* Only the first operation can have been begun.
Fresh(s) == \A k \in 1..Len(s) : s[k][1] \in {"spin", "intena"} => k = 1

\* Behind what may end a process, and in a fork, there is only the way out.
Closing == {"killed", "exit", "zombie exit", "allocproc", "copy", "ready"}
WayOut == {"killed", "clock", "iret"}
Ends(s) ==
    \A j, k \in 1..Len(s) : j < k /\ s[j][1] \in Closing => s[k][1] \in WayOut

\* In a handler, or about to end: the interrupt flag is set by what is to come.
Restoring == {"iret", "exit", "zombie exit"}
Handling(s) == \E o \in Range(s) : o[1] \in Restoring
Restores(s) == Name(s, 1) = "intena" => Handling(s) \/ s[1][2]

\* Where exit has given the processor up for good, and the child of a fork.
Left(s) == <<"zombie exit">> \in Range(s)
Copies(s, q) == <<"copy", q>> \in Range(s)
Readies(s, q) == <<"ready", q>> \in Range(s)

\* What the scheduler of a processor may do, and which operations are init's.
SchedOps == {"acquire", "spin", "release", "tick", "wakeup1", "clock", "iret", "pick", "sti"}
May(t, n) ==
    /\ t \in Proc => n \notin {"pick", "sti"}
    /\ t \notin Proc => n \in SchedOps
    /\ t = initproc => n \notin {"exit", "zombie exit"}

\* What a thread may have to do.
CodeOf(t, s) ==
    /\ s \in Seq(Op) /\ Fits(s) /\ Fresh(s) /\ Ends(s)
    /\ t \in Proc => Restores(s)
    /\ \A o \in Range(s) : May(t, o[1])

Codes == /\ code = [t \in Thread |-> code[t]]
         /\ \A t \in Thread : CodeOf(t, code[t])

-----------------------------------------------------------------------------
(* The inductive invariant *)

\* The child of a fork belongs to the one that makes it.
Makes(s, q) == Copies(s, q) \/ Readies(s, q)
Forks ==
    /\ \A t \in Thread, q \in Proc :
          /\ Copies(code[t], q) => State(q) = "EMBRYO" /\ ptable[q].parent = NoProc
          /\ Readies(code[t], q) => State(q) = "EMBRYO" /\ ptable[q].parent = t
    /\ \A t, u \in Thread, q \in Proc : Makes(code[t], q) /\ Makes(code[u], q) => t = u

\* A processor runs the process that it says, or its scheduler.
Runs(c) == IF T(c) \in Proc THEN Myproc(c) = T(c) /\ State(T(c)) = "RUNNING"
           ELSE T(c) = Sched(c) /\ Myproc(c) = NoProc
Running ==
    /\ \A c \in Cpu : Runs(c)
    /\ \A c, d \in Cpu : T(c) = T(d) => c = d
    /\ \A p \in Proc : State(p) = "RUNNING" => \E c \in Cpu : T(c) = p

\* Who does not run comes back with ptable.lock only, which the scheduler has for it.
Waits(s) == HasTable(s, 1) /\ ~HasTicks(s, 1)

ParkedAs(st, s) ==
    /\ st \in {"EMBRYO", "RUNNABLE", "SLEEPING"} =>
          Waits(s) /\ (Name(s, 1) = "intena" \/ Handling(s))
    /\ Left(s) => st = "ZOMBIE"
    /\ st = "UNUSED" => s = <<>>
Parked == \A p \in Proc : ParkedAs(State(p), code[p])

Idle == \A c \in Cpu : T(c) # Sched(c) => Waits(code[Sched(c)])

Count(a) == IF a THEN 1 ELSE 0

\* A processor with the flags cpu has the locks that s is to be run with.
Right(c, s, cpu, lk) ==
    /\ lk["ptable"] = c <=> HasTable(s, 1)
    /\ lk["tickslock"] = c <=> HasTicks(s, 1)
    /\ cpu.ncli = Count(HasTable(s, 1)) + Count(HasTicks(s, 1)) + Count(Name(s, 1) = "spin")
    /\ cpu.ncli > 0 => ~cpu.if
    /\ cpu.thread \in Proc /\ ~Handling(s) /\ Name(s, 1) # "intena" =>
          IF cpu.ncli = 0 THEN cpu.if ELSE cpu.intena

Locking == \A c \in Cpu : Right(c, Todo(c), cpus[c], locked)

Alive(st) == st \in {"RUNNABLE", "RUNNING", "SLEEPING"}

\* Parents and children in a process table.
Related(f) ==
    /\ Alive(f[initproc].state) /\ ~f[initproc].killed /\ f[initproc].parent = NoProc
    /\ \A q \in Proc :
          /\ f[q].state = "UNUSED" => f[q].parent = NoProc
          /\ f[q].parent # NoProc => f[q].parent # q /\ Alive(f[f[q].parent].state)
          /\ q # initproc /\ f[q].state \notin {"UNUSED", "EMBRYO"} => f[q].parent # NoProc
          /\ f[q].state = "ZOMBIE" /\ f[q].parent # NoProc =>
                ~(f[f[q].parent].state = "SLEEPING" /\ f[f[q].parent].chan = f[q].parent)

PState == {"UNUSED", "EMBRYO", "SLEEPING", "RUNNABLE", "RUNNING", "ZOMBIE"}
Entry == [state : PState, parent : {NoProc} \cup Proc,
          chan : {NoChan, TickChan} \cup Proc, killed : BOOLEAN]
Flags == [if : BOOLEAN, ncli : Nat, intena : BOOLEAN,
          proc : {NoProc} \cup Proc, thread : Thread]

Typed ==
    /\ cpus \in [Cpu -> Flags]
    /\ locked \in [Locks -> Cpu \cup {Free}]
    /\ ptable \in [Proc -> Entry]
    /\ scan \in [Cpu -> 1..NPROC + 1]
    /\ ticks \in 0..TICKS - 1

IInv == /\ panic = "none"
        /\ Typed /\ Codes /\ Forks /\ Running /\ Parked /\ Idle /\ Locking /\ Related(ptable)
-----------------------------------------------------------------------------
(* Sequences of operations *)

LEMMA OpParts ==
    ASSUME NEW o \in Op
    PROVE  /\ o[1] \in {"acquire", "spin", "release"} => o[2] \in Locks
           /\ o[1] \in {"wakeup1", "sleep"} => o[2] = TickChan
           /\ o[1] = "intena" => o[2] \in BOOLEAN
           /\ o[1] = "copy" => o[2] \in Proc /\ o = <<"copy", o[2]>>
           /\ o[1] = "ready" => o[2] \in Proc /\ o = <<"ready", o[2]>>
           /\ o[1] = "zombie exit" => o = <<"zombie exit">>
           /\ o[1] = "napping" => o[2][1] \in 0..TICKS - 1 /\ o[2][2] \in Naps
           /\ o[1] # "user"
<1> DEFINE Goal ==
       /\ o[1] \in {"acquire", "spin", "release"} => o[2] \in Locks
       /\ o[1] \in {"wakeup1", "sleep"} => o[2] = TickChan
       /\ o[1] = "intena" => o[2] \in BOOLEAN
       /\ o[1] = "copy" => o[2] \in Proc /\ o = <<"copy", o[2]>>
       /\ o[1] = "ready" => o[2] \in Proc /\ o = <<"ready", o[2]>>
       /\ o[1] = "zombie exit" => o = <<"zombie exit">>
       /\ o[1] = "napping" => o[2][1] \in 0..TICKS - 1 /\ o[2][2] \in Naps
       /\ o[1] # "user"
<1>1. ASSUME NEW n \in Plain, o = <<n>>  PROVE Goal
  BY <1>1 DEF Plain
<1>2. ASSUME NEW n \in {"acquire", "spin", "release"}, NEW l \in Locks, o = <<n, l>>
      PROVE  Goal
  BY <1>2
<1>3. ASSUME NEW n \in {"wakeup1", "sleep"}, o = <<n, TickChan>>  PROVE Goal
  BY <1>3
<1>4. ASSUME NEW b \in BOOLEAN, o = <<"intena", b>>  PROVE Goal
  BY <1>4
<1>5. ASSUME NEW n \in {"copy", "ready"}, NEW p \in Proc, o = <<n, p>>  PROVE Goal
  BY <1>5
<1>6. ASSUME NEW a \in 0..TICKS - 1, NEW n \in Naps, o = <<"napping", <<a, n>>>>
      PROVE  Goal
  BY <1>6
<1> HIDE DEF Goal
<1>7. \/ \E n \in Plain : o = <<n>>
      \/ \E n \in {"acquire", "spin", "release"}, l \in Locks : o = <<n, l>>
      \/ \E n \in {"wakeup1", "sleep"} : o = <<n, TickChan>>
      \/ \E b \in BOOLEAN : o = <<"intena", b>>
      \/ \E n \in {"copy", "ready"}, p \in Proc : o = <<n, p>>
      \/ \E a \in 0..TICKS - 1, n \in Naps : o = <<"napping", <<a, n>>>>
  BY DEF Op
<1>8. Goal
  BY <1>1, <1>2, <1>3, <1>4, <1>5, <1>6, <1>7
<1> QED
  BY <1>8 DEF Goal

LEMMA OpIn ==
    /\ \A n \in Plain : <<n>> \in Op
    /\ \A n \in {"acquire", "spin", "release"}, l \in Locks : <<n, l>> \in Op
    /\ <<"wakeup1", TickChan>> \in Op /\ <<"sleep", TickChan>> \in Op
    /\ \A b \in BOOLEAN : <<"intena", b>> \in Op
    /\ \A p \in Proc : <<"copy", p>> \in Op /\ <<"ready", p>> \in Op
    /\ \A a \in 0..TICKS - 1, n \in Naps : <<"napping", <<a, n>>>> \in Op
BY DEF Op

LEMMA HeadIs ==
    ASSUME NEW s \in Seq(Op), s # << >>
    PROVE  /\ Head(s) = s[1] /\ s[1] \in Op /\ Name(s, 1) = s[1][1]
           /\ Len(s) >= 1 /\ Len(s) \in Nat /\ s[1] \in Range(s)
BY DEF Name, Range

LEMMA EmptyCode ==
    /\ Fits(<<>>) /\ Fresh(<<>>) /\ Ends(<<>>) /\ Range(<<>>) = {}
    /\ <<>> \in Seq(Op) /\ Len(<<>>) = 0
    /\ \A k \in Nat : ~HasTable(<<>>, k) /\ ~HasTicks(<<>>, k) /\ Name(<<>>, k) = "user"
<1>1. <<>> \in Seq(Op) /\ Len(<<>>) = 0 /\ DOMAIN <<>> = 1..0
  BY EmptySeq, LenProperties
<1>2. 1..0 = {}
  OBVIOUS
<1>3. \A k : Name(<<>>, k) = "user"
  BY <1>1, <1>2 DEF Name
<1>4. \A k \in Nat : ~HasTable(<<>>, k) /\ ~HasTicks(<<>>, k)
  BY <1>1, <1>2 DEF HasTable, HasTicks
<1> QED
  BY <1>1, <1>2, <1>3, <1>4 DEF Fits, Fresh, Ends, Range

LEMMA TailNames ==
    ASSUME NEW s \in Seq(Op), s # << >>
    PROVE  /\ Tail(s) \in Seq(Op) /\ Len(s) \in Nat /\ Len(s) >= 1 /\ Len(Tail(s)) = Len(s) - 1
           /\ \A k \in 1..Len(s) - 1 : Tail(s)[k] = s[k + 1]
           /\ \A k \in Nat \ {0} : Name(Tail(s), k) = Name(s, k + 1)
BY DEF Name

LEMMA ConcatNames ==
    ASSUME NEW ops \in Seq(Op), NEW s \in Seq(Op)
    PROVE  /\ ops \o s \in Seq(Op) /\ Len(ops \o s) = Len(ops) + Len(s)
           /\ Len(ops) \in Nat /\ Len(s) \in Nat
           /\ \A k \in 1..Len(ops) : (ops \o s)[k] = ops[k] /\ Name(ops \o s, k) = Name(ops, k)
           /\ \A k \in 1..Len(s) : (ops \o s)[Len(ops) + k] = s[k]
           /\ \A k \in Nat \ {0} : Name(ops \o s, Len(ops) + k) = Name(s, k)
BY DEF Name

LEMMA TailRange ==
    ASSUME NEW s \in Seq(Op), s # << >>
    PROVE  Range(s) = {s[1]} \cup Range(Tail(s))
<1> /\ Len(s) \in Nat /\ Len(s) >= 1 /\ Len(Tail(s)) = Len(s) - 1
    /\ \A k \in 1..Len(s) - 1 : Tail(s)[k] = s[k + 1]
    /\ DOMAIN s = 1..Len(s) /\ DOMAIN Tail(s) = 1..Len(s) - 1
  BY TailNames, LenProperties
<1>1. ASSUME NEW k \in 1..Len(s)  PROVE s[k] = s[1] \/ s[k] \in Range(Tail(s))
  <2>1. CASE k = 1
    BY <2>1
  <2>2. CASE k # 1
    <3>1. k - 1 \in 1..Len(s) - 1 /\ (k - 1) + 1 = k
      BY <2>2
    <3>2. Tail(s)[k - 1] = s[k]
      BY <3>1
    <3> QED
      BY <3>1, <3>2 DEF Range
  <2> QED
    BY <2>1, <2>2
<1>2. ASSUME NEW k \in 1..Len(s) - 1  PROVE Tail(s)[k] \in Range(s)
  <2>1. k + 1 \in 1..Len(s) /\ Tail(s)[k] = s[k + 1]
    OBVIOUS
  <2> QED
    BY <2>1 DEF Range
<1>3. 1 \in 1..Len(s)
  OBVIOUS
<1> QED
  BY <1>1, <1>2, <1>3 DEF Range

LEMMA ConcatRange ==
    ASSUME NEW ops \in Seq(Op), NEW s \in Seq(Op)
    PROVE  Range(ops \o s) = Range(ops) \cup Range(s)
<1> DEFINE u == ops \o s
           n == Len(ops)
<1>1. /\ u \in Seq(Op) /\ Len(u) = n + Len(s) /\ n \in Nat /\ Len(s) \in Nat
      /\ \A k \in 1..n : u[k] = ops[k]
      /\ \A k \in 1..Len(s) : u[n + k] = s[k]
  BY ConcatNames
<1>2. DOMAIN u = 1..n + Len(s) /\ DOMAIN ops = 1..n /\ DOMAIN s = 1..Len(s)
  BY <1>1, LenProperties
<1> HIDE DEF u, n
<1>3. ASSUME NEW k \in 1..n + Len(s)  PROVE u[k] \in Range(ops) \/ u[k] \in Range(s)
  <2>1. CASE k <= n
    BY <1>1, <1>2, <2>1 DEF Range
  <2>2. CASE k > n
    <3>1. k - n \in 1..Len(s) /\ n + (k - n) = k
      BY <1>1, <2>2
    <3>2. u[k] = s[k - n]
      BY <1>1, <3>1
    <3> QED
      BY <1>2, <3>1, <3>2 DEF Range
  <2> QED
    BY <1>1, <2>1, <2>2
<1>4. ASSUME NEW k \in 1..n  PROVE ops[k] \in Range(u)
  <2>1. k \in 1..n + Len(s) /\ u[k] = ops[k]
    BY <1>1
  <2> QED
    BY <1>2, <2>1 DEF Range
<1>5. ASSUME NEW k \in 1..Len(s)  PROVE s[k] \in Range(u)
  <2>1. n + k \in 1..n + Len(s) /\ u[n + k] = s[k]
    BY <1>1
  <2> QED
    BY <1>2, <2>1 DEF Range
<1>6. Range(u) = Range(ops) \cup Range(s)
  BY <1>2, <1>3, <1>4, <1>5 DEF Range
<1> QED
  BY <1>6 DEF u

\* What an operation holds does not change with what is put in front of it.
LEMMA TailHolds ==
    ASSUME NEW s \in Seq(Op), s # << >>
    PROVE  \A k \in Nat \ {0} :
              /\ HasTable(Tail(s), k) <=> HasTable(s, k + 1)
              /\ HasTicks(Tail(s), k) <=> HasTicks(s, k + 1)
              /\ KeepsTable(Tail(s), k) <=> KeepsTable(s, k + 1)
              /\ KeepsTicks(Tail(s), k) <=> KeepsTicks(s, k + 1)
<1> SUFFICES ASSUME NEW k \in Nat \ {0}
             PROVE  /\ HasTable(Tail(s), k) <=> HasTable(s, k + 1)
                    /\ HasTicks(Tail(s), k) <=> HasTicks(s, k + 1)
                    /\ KeepsTable(Tail(s), k) <=> KeepsTable(s, k + 1)
                    /\ KeepsTicks(Tail(s), k) <=> KeepsTicks(s, k + 1)
  OBVIOUS
<1>1. Name(Tail(s), k + 1) = Name(s, (k + 1) + 1)
  BY TailNames
<1>2. CASE k \in 1..Len(s) - 1
  <2>1. k \in 1..Len(Tail(s)) /\ k + 1 \in 1..Len(s) /\ Tail(s)[k] = s[k + 1]
    BY <1>2, TailNames
  <2> QED
    BY <1>1, <2>1 DEF HasTable, HasTicks, KeepsTable, KeepsTicks
<1>3. CASE k \notin 1..Len(s) - 1
  <2>1. k \notin 1..Len(Tail(s)) /\ k + 1 \notin 1..Len(s)
    BY <1>3, TailNames
  <2> QED
    BY <2>1 DEF HasTable, HasTicks, KeepsTable, KeepsTicks
<1> QED
  BY <1>2, <1>3

LEMMA TailFits ==
    ASSUME NEW s \in Seq(Op), s # << >>, Fits(s)
    PROVE  /\ Fits(Tail(s))
           /\ HasTable(Tail(s), 1) <=> KeepsTable(s, 1)
           /\ HasTicks(Tail(s), 1) <=> KeepsTicks(s, 1)
<1>1. ASSUME NEW k \in 1..Len(Tail(s))
      PROVE  /\ HasTable(Tail(s), k + 1) <=> KeepsTable(Tail(s), k)
             /\ HasTicks(Tail(s), k + 1) <=> KeepsTicks(Tail(s), k)
  <2>1. k + 1 \in 1..Len(s) /\ k \in Nat \ {0} /\ k + 1 \in Nat \ {0}
    BY TailNames
  <2>2. /\ HasTable(s, (k + 1) + 1) <=> KeepsTable(s, k + 1)
        /\ HasTicks(s, (k + 1) + 1) <=> KeepsTicks(s, k + 1)
    BY <2>1 DEF Fits
  <2> QED
    BY <2>1, <2>2, TailHolds
<1>2. 1 \in 1..Len(s) /\ 1 \in Nat \ {0}
  BY TailNames
<1>3. /\ HasTable(s, 1 + 1) <=> KeepsTable(s, 1)
      /\ HasTicks(s, 1 + 1) <=> KeepsTicks(s, 1)
  BY <1>2 DEF Fits
<1> QED
  BY <1>1, <1>2, <1>3, TailHolds DEF Fits

\* What the name of an operation alone says about what it holds.
Steady(n) == n \notin {"acquire", "spin", "release", "user"}
Closed(ops) == Steady(Name(ops, Len(ops))) \/ Name(ops, Len(ops)) = "release"

LEMMA ConcatFits ==
    ASSUME NEW ops \in Seq(Op), ops # << >>, Fits(ops), NEW s \in Seq(Op), Fits(s),
           Closed(ops), ~HasTable(s, 1), ~HasTicks(s, 1)
    PROVE  /\ Fits(ops \o s)
           /\ HasTable(ops \o s, 1) <=> HasTable(ops, 1)
           /\ HasTicks(ops \o s, 1) <=> HasTicks(ops, 1)
<1> DEFINE u == ops \o s
           n == Len(ops)
<1>1. /\ u \in Seq(Op) /\ Len(u) = n + Len(s) /\ n \in Nat /\ n >= 1 /\ Len(s) \in Nat
      /\ \A k \in 1..n : u[k] = ops[k] /\ Name(u, k) = Name(ops, k)
      /\ \A k \in 1..Len(s) : u[n + k] = s[k]
      /\ \A k \in Nat \ {0} : Name(u, n + k) = Name(s, k)
  BY ConcatNames, HeadIs
<1>2. Name(s, 1) # "sleep" /\ (Steady(Name(ops, n)) \/ Name(ops, n) = "release")
  BY DEF Closed, HasTable, NeedsTable, Name
<1> HIDE DEF u
<1>3. \A k \in 1..n : Name(ops, k) = ops[k][1]
  BY DEF Name
<1>4. Name(ops, n + 1) = "user"
  BY <1>1 DEF Name
<1> HIDE DEF n
<1>5. n \in Nat /\ n >= 1 /\ n \in 1..n /\ Len(s) \in Nat
  BY <1>1
<1>6. ASSUME NEW k \in 1..n
      PROVE  /\ HasTable(u, k) <=> HasTable(ops, k)
             /\ HasTicks(u, k) <=> HasTicks(ops, k)
             /\ KeepsTable(u, k) <=> KeepsTable(ops, k)
             /\ KeepsTicks(u, k) <=> KeepsTicks(ops, k)
  <2>1. u[k] = ops[k] /\ k \in 1..Len(u) /\ k \in 1..Len(ops)
    <3>1. Len(u) = n + Len(s) /\ u[k] = ops[k]
      BY <1>1
    <3>2. k \in 1..n + Len(s)
      BY <1>5
    <3> QED
      BY <3>1, <3>2 DEF n
  <2>2. CASE k < n
    <3>1. Name(u, k + 1) = Name(ops, k + 1)
      BY <1>1, <2>2
    <3> QED
      BY <2>1, <3>1 DEF HasTable, HasTicks, KeepsTable, KeepsTicks
  <2>3. CASE k = n
    <3>1. Name(u, k + 1) = Name(s, 1) /\ Name(ops, k + 1) = "user"
      BY <1>1, <1>4, <2>3
    <3>2. ops[k][1] \notin {"acquire", "spin"}
      BY <1>2, <1>3, <2>3 DEF Steady
    <3>3. /\ NeedsTable(u[k], Name(u, k + 1)) <=> NeedsTable(ops[k], Name(ops, k + 1))
          /\ NeedsTicks(u[k], Name(u, k + 1)) <=> NeedsTicks(ops[k], Name(ops, k + 1))
          /\ LeavesTable(u[k], Name(u, k + 1)) <=> LeavesTable(ops[k], Name(ops, k + 1))
          /\ LeavesTicks(u[k], Name(u, k + 1)) <=> LeavesTicks(ops[k], Name(ops, k + 1))
      BY <1>2, <2>1, <3>1, <3>2 DEF NeedsTable, NeedsTicks, LeavesTable, LeavesTicks
    <3> QED
      BY <2>1, <3>3 DEF HasTable, HasTicks, KeepsTable, KeepsTicks
  <2> QED
    BY <1>5, <2>2, <2>3
<1>7. ASSUME NEW k \in Nat \ {0}
      PROVE  /\ HasTable(u, n + k) <=> HasTable(s, k)
             /\ HasTicks(u, n + k) <=> HasTicks(s, k)
             /\ KeepsTable(u, n + k) <=> KeepsTable(s, k)
             /\ KeepsTicks(u, n + k) <=> KeepsTicks(s, k)
  <2>1. Name(u, (n + k) + 1) = Name(s, k + 1)
    <3>1. k + 1 \in Nat \ {0} /\ (n + k) + 1 = n + (k + 1)
      BY <1>5
    <3> QED
      BY <1>1, <3>1
  <2>2. CASE k \in 1..Len(s)
    <3>1. u[n + k] = s[k] /\ n + k \in 1..Len(u)
      BY <1>1, <2>2
    <3> QED
      BY <2>1, <2>2, <3>1 DEF HasTable, HasTicks, KeepsTable, KeepsTicks
  <2>3. CASE k \notin 1..Len(s)
    <3>1. n + k \notin 1..Len(u)
      BY <1>1, <2>3
    <3> QED
      BY <2>3, <3>1 DEF HasTable, HasTicks, KeepsTable, KeepsTicks
  <2> QED
    BY <2>2, <2>3
<1>8. ASSUME NEW k \in 1..Len(u)
      PROVE  /\ HasTable(u, k + 1) <=> KeepsTable(u, k)
             /\ HasTicks(u, k + 1) <=> KeepsTicks(u, k)
  <2>1. CASE k < n
    <3>1. k \in 1..n /\ k + 1 \in 1..n
      BY <1>1, <2>1
    <3>2. /\ HasTable(ops, k + 1) <=> KeepsTable(ops, k)
          /\ HasTicks(ops, k + 1) <=> KeepsTicks(ops, k)
      BY <3>1 DEF Fits, n
    <3> QED
      BY <1>6, <3>1, <3>2
  <2>2. CASE k = n
    <3>1. /\ HasTable(u, n + 1) <=> HasTable(s, 1)
          /\ HasTicks(u, n + 1) <=> HasTicks(s, 1)
      BY <1>7
    <3>2. /\ HasTable(ops, n + 1) <=> KeepsTable(ops, n)
          /\ HasTicks(ops, n + 1) <=> KeepsTicks(ops, n)
      BY <1>5 DEF Fits, n
    <3>3. ~HasTable(ops, n + 1) /\ ~HasTicks(ops, n + 1)
      BY <1>5 DEF HasTable, HasTicks, n
    <3>4. /\ KeepsTable(u, n) <=> KeepsTable(ops, n)
          /\ KeepsTicks(u, n) <=> KeepsTicks(ops, n)
      BY <1>5, <1>6
    <3> QED
      BY <2>2, <3>1, <3>2, <3>3, <3>4
  <2>3. CASE k > n
    <3>1. PICK j \in 1..Len(s) : k = n + j
      <4>1. k - n \in 1..Len(s) /\ k = n + (k - n)
        BY <1>1, <2>3
      <4> QED
        BY <4>1
    <3>2. j \in Nat \ {0} /\ j + 1 \in Nat \ {0} /\ k + 1 = n + (j + 1)
      <4>1. j \in Nat /\ j >= 1
        BY <1>5
      <4> QED
        BY <1>5, <3>1, <4>1
    <3>3. /\ HasTable(s, j + 1) <=> KeepsTable(s, j)
          /\ HasTicks(s, j + 1) <=> KeepsTicks(s, j)
      BY <3>1 DEF Fits
    <3> QED
      BY <1>7, <3>1, <3>2, <3>3
  <2> QED
    BY <1>1, <2>1, <2>2, <2>3
<1>9. Fits(u)
  BY <1>8 DEF Fits
<1> QED
  BY <1>5, <1>6, <1>9 DEF u

LEMMA ConsIs ==
    ASSUME NEW o \in Op, NEW r \in Seq(Op)
    PROVE  /\ <<o>> \in Seq(Op) /\ <<o>> \o r \in Seq(Op) /\ <<o>> \o r # <<>>
           /\ Tail(<<o>> \o r) = r /\ (<<o>> \o r)[1] = o
           /\ Name(<<o>> \o r, 1) = o[1] /\ Name(<<o>> \o r, 2) = Name(r, 1)
           /\ Range(<<o>> \o r) = {o} \cup Range(r)
           /\ Len(<<o>> \o r) = Len(r) + 1 /\ Len(r) \in Nat
<1> DEFINE u == <<o>> \o r
<1>1. <<o>> \in Seq(Op) /\ Len(<<o>>) = 1 /\ <<o>>[1] = o
  OBVIOUS
<1>2. /\ u \in Seq(Op) /\ Len(u) = Len(r) + 1 /\ Len(r) \in Nat
      /\ \A k \in 1..Len(r) : u[k + 1] = r[k]
      /\ u[1] = o
  <2>1. /\ u \in Seq(Op) /\ Len(u) = 1 + Len(r) /\ Len(r) \in Nat
        /\ \A k \in 1..1 : u[k] = <<o>>[k]
        /\ \A k \in 1..Len(r) : u[1 + k] = r[k]
    BY <1>1, ConcatNames
  <2> QED
    BY <1>1, <2>1
<1> HIDE DEF u
<1>3. u # <<>>
  BY <1>2, EmptySeq
<1>4. Tail(u) = r
  <2>1. /\ Tail(u) \in Seq(Op) /\ Len(Tail(u)) = Len(u) - 1
        /\ \A k \in 1..Len(u) - 1 : Tail(u)[k] = u[k + 1]
    BY <1>2, <1>3, TailNames
  <2>2. Len(Tail(u)) = Len(r) /\ \A k \in 1..Len(r) : Tail(u)[k] = r[k]
    BY <1>2, <2>1
  <2> QED
    BY <2>1, <2>2, SeqEqual
<1>5. Name(u, 1) = o[1] /\ Name(u, 1 + 1) = Name(r, 1)
  <2>1. Name(u, 1) = u[1][1]
    BY <1>2, <1>3, HeadIs
  <2>2. 1 \in Nat \ {0}
    OBVIOUS
  <2> QED
    BY <1>2, <1>3, <1>4, <2>1, <2>2, TailNames
<1>6. Range(u) = {o} \cup Range(r)
  BY <1>2, <1>3, <1>4, TailRange
<1> QED
  BY <1>1, <1>2, <1>3, <1>4, <1>5, <1>6 DEF u

\* One operation in front of others.
LEMMA ConsFits ==
    ASSUME NEW u \in Seq(Op), u # <<>>, Fits(Tail(u)),
           HasTable(Tail(u), 1) <=> KeepsTable(u, 1),
           HasTicks(Tail(u), 1) <=> KeepsTicks(u, 1)
    PROVE  Fits(u)
<1> SUFFICES ASSUME NEW k \in 1..Len(u)
             PROVE  /\ HasTable(u, k + 1) <=> KeepsTable(u, k)
                    /\ HasTicks(u, k + 1) <=> KeepsTicks(u, k)
  BY DEF Fits
<1>1. Len(u) \in Nat /\ Len(Tail(u)) = Len(u) - 1
  BY TailNames
<1>2. CASE k = 1
  <2>1. 1 \in Nat \ {0}
    OBVIOUS
  <2>2. /\ HasTable(Tail(u), 1) <=> HasTable(u, 1 + 1)
        /\ HasTicks(Tail(u), 1) <=> HasTicks(u, 1 + 1)
    BY <2>1, TailHolds
  <2> QED
    BY <1>2, <2>2
<1>3. CASE k # 1
  <2>1. PICK j \in 1..Len(Tail(u)) : k = j + 1
    <3>1. k - 1 \in 1..Len(Tail(u)) /\ k = (k - 1) + 1
      BY <1>1, <1>3
    <3> QED
      BY <3>1
  <2>2. j \in Nat \ {0} /\ j + 1 \in Nat \ {0}
    BY <1>1, <2>1
  <2>3. /\ HasTable(Tail(u), j + 1) <=> KeepsTable(Tail(u), j)
        /\ HasTicks(Tail(u), j + 1) <=> KeepsTicks(Tail(u), j)
    BY <2>1 DEF Fits
  <2>4. /\ HasTable(Tail(u), j + 1) <=> HasTable(u, (j + 1) + 1)
        /\ HasTicks(Tail(u), j + 1) <=> HasTicks(u, (j + 1) + 1)
        /\ KeepsTable(Tail(u), j) <=> KeepsTable(u, j + 1)
        /\ KeepsTicks(Tail(u), j) <=> KeepsTicks(u, j + 1)
    BY <2>2, TailHolds
  <2> QED
    BY <2>1, <2>3, <2>4
<1> QED
  BY <1>2, <1>3

-----------------------------------------------------------------------------
(* The code of a thread *)

LEMMA TailCode ==
    ASSUME NEW t, NEW s, CodeOf(t, s), s # <<>>
    PROVE  /\ CodeOf(t, Tail(s))
           /\ HasTable(Tail(s), 1) <=> KeepsTable(s, 1)
           /\ HasTicks(Tail(s), 1) <=> KeepsTicks(s, 1)
           /\ Name(Tail(s), 1) \notin {"spin", "intena"}
           /\ Range(s) = {s[1]} \cup Range(Tail(s))
           /\ s[1][1] \in Closing => \A o \in Range(Tail(s)) : o[1] \in WayOut
<1>1. s \in Seq(Op) /\ Fits(s) /\ Fresh(s) /\ Ends(s) /\ \A o \in Range(s) : May(t, o[1])
  BY DEF CodeOf
<1>2. /\ Tail(s) \in Seq(Op) /\ Len(s) \in Nat /\ Len(s) >= 1 /\ Len(Tail(s)) = Len(s) - 1
      /\ \A k \in 1..Len(s) - 1 : Tail(s)[k] = s[k + 1]
  BY <1>1, TailNames
<1>3. /\ Fits(Tail(s)) /\ Range(s) = {s[1]} \cup Range(Tail(s))
      /\ HasTable(Tail(s), 1) <=> KeepsTable(s, 1)
      /\ HasTicks(Tail(s), 1) <=> KeepsTicks(s, 1)
  BY <1>1, TailFits, TailRange
<1>4. ASSUME NEW k \in 1..Len(Tail(s))  PROVE Tail(s)[k][1] \notin {"spin", "intena"}
  <2>1. k + 1 \in 1..Len(s) /\ k + 1 # 1 /\ Tail(s)[k] = s[k + 1]
    BY <1>2
  <2> QED
    BY <1>1, <2>1 DEF Fresh
<1>5. Fresh(Tail(s)) /\ Name(Tail(s), 1) \notin {"spin", "intena"}
  BY <1>2, <1>4 DEF Fresh, Name
<1>6. Ends(Tail(s))
  <2> SUFFICES ASSUME NEW j \in 1..Len(Tail(s)), NEW k \in 1..Len(Tail(s)), j < k,
                      Tail(s)[j][1] \in Closing
               PROVE  Tail(s)[k][1] \in WayOut
    BY DEF Ends
  <2>1. /\ j + 1 \in 1..Len(s) /\ k + 1 \in 1..Len(s) /\ j + 1 < k + 1
        /\ Tail(s)[j] = s[j + 1] /\ Tail(s)[k] = s[k + 1]
    BY <1>2
  <2> QED
    BY <1>1, <2>1 DEF Ends
<1>7. ASSUME s[1][1] \in Closing, NEW o \in Range(Tail(s))  PROVE o[1] \in WayOut
  <2>1. DOMAIN Tail(s) = 1..Len(Tail(s))
    BY <1>2, LenProperties
  <2>2. PICK k \in 1..Len(Tail(s)) : o = Tail(s)[k]
    BY <2>1 DEF Range
  <2>3. 1 \in 1..Len(s) /\ k + 1 \in 1..Len(s) /\ 1 < k + 1 /\ o = s[k + 1]
    BY <1>2, <2>2
  <2> QED
    BY <1>1, <1>7, <2>3 DEF Ends
<1> QED
  BY <1>1, <1>2, <1>3, <1>5, <1>6, <1>7 DEF CodeOf, Restores

LEMMA ConsCode ==
    ASSUME NEW t, NEW o \in Op, NEW r, CodeOf(t, r), Name(r, 1) \notin {"spin", "intena"},
           HasTable(r, 1) <=> KeepsTable(<<o>> \o r, 1),
           HasTicks(r, 1) <=> KeepsTicks(<<o>> \o r, 1),
           May(t, o[1]), o[1] \in Closing => \A x \in Range(r) : x[1] \in WayOut,
           t \in Proc /\ o[1] = "intena" => Handling(r) \/ o[2]
    PROVE  CodeOf(t, <<o>> \o r)
<1> DEFINE u == <<o>> \o r
<1>1. r \in Seq(Op) /\ Fits(r) /\ Fresh(r) /\ Ends(r) /\ \A x \in Range(r) : May(t, x[1])
  BY DEF CodeOf
<1>2. /\ u \in Seq(Op) /\ u # <<>> /\ Tail(u) = r /\ u[1] = o /\ Name(u, 1) = o[1]
      /\ Range(u) = {o} \cup Range(r) /\ Len(u) = Len(r) + 1 /\ Len(r) \in Nat
  BY <1>1, ConsIs
<1>3. Fits(u)
  BY <1>1, <1>2, ConsFits DEF u
<1> HIDE DEF u
<1>4. \A k \in 1..Len(r) : r[k] = u[k + 1]
  BY <1>2, TailNames
<1>5. Fresh(u)
  <2> SUFFICES ASSUME NEW k \in 1..Len(u), k # 1  PROVE u[k][1] \notin {"spin", "intena"}
    BY DEF Fresh
  <2>1. k - 1 \in 1..Len(r) /\ (k - 1) + 1 = k
    BY <1>2
  <2>2. u[k] = r[k - 1]
    BY <1>4, <2>1
  <2>3. CASE k - 1 = 1
    BY <1>2, <2>1, <2>2, <2>3 DEF Name
  <2>4. CASE k - 1 # 1
    BY <1>1, <2>1, <2>2, <2>4 DEF Fresh
  <2> QED
    BY <2>3, <2>4
<1>6. Ends(u)
  <2> SUFFICES ASSUME NEW j \in 1..Len(u), NEW k \in 1..Len(u), j < k, u[j][1] \in Closing
               PROVE  u[k][1] \in WayOut
    BY DEF Ends
  <2>1. k - 1 \in 1..Len(r) /\ (k - 1) + 1 = k
    BY <1>2
  <2>2. u[k] = r[k - 1] /\ r[k - 1] \in Range(r)
    BY <1>1, <1>4, <2>1, LenProperties DEF Range
  <2>3. CASE j = 1
    BY <1>2, <2>2, <2>3
  <2>4. CASE j # 1
    <3>1. j - 1 \in 1..Len(r) /\ (j - 1) + 1 = j /\ j - 1 < k - 1
      BY <1>2, <2>4
    <3>2. u[j] = r[j - 1]
      BY <1>4, <3>1
    <3> QED
      BY <1>1, <2>1, <2>2, <3>1, <3>2 DEF Ends
  <2> QED
    BY <2>3, <2>4
<1>7. t \in Proc => Restores(u)
  BY <1>2 DEF Restores, Handling
<1>8. CodeOf(t, u)
  BY <1>1, <1>2, <1>3, <1>5, <1>6, <1>7 DEF CodeOf
<1> QED
  BY <1>8 DEF u

\* What can be put in front of the code of a thread that holds no lock.
Routine(t, ops) ==
    /\ ops \in Seq(Op) /\ ops # <<>> /\ Fits(ops) /\ Ends(ops) /\ Closed(ops)
    /\ \A k \in 1..Len(ops) : ops[k][1] \notin {"spin", "intena"}
    /\ \A o \in Range(ops) : May(t, o[1])

LEMMA ConcatCode ==
    ASSUME NEW t, NEW ops, Routine(t, ops), NEW r, CodeOf(t, r),
           ~HasTable(r, 1), ~HasTicks(r, 1), Name(r, 1) # "spin",
           \A o \in Range(ops), x \in Range(r) : o[1] \in Closing => x[1] \in WayOut
    PROVE  /\ CodeOf(t, ops \o r)
           /\ HasTable(ops \o r, 1) <=> HasTable(ops, 1)
           /\ HasTicks(ops \o r, 1) <=> HasTicks(ops, 1)
           /\ Name(ops \o r, 1) = Name(ops, 1)
           /\ Range(ops \o r) = Range(ops) \cup Range(r)
<1> DEFINE u == ops \o r
           n == Len(ops)
<1>1. /\ ops \in Seq(Op) /\ ops # <<>> /\ Fits(ops) /\ Ends(ops) /\ Closed(ops)
      /\ \A k \in 1..n : ops[k][1] \notin {"spin", "intena"}
      /\ \A o \in Range(ops) : May(t, o[1])
  BY DEF Routine
<1>2. r \in Seq(Op) /\ Fits(r) /\ Fresh(r) /\ Ends(r) /\ \A x \in Range(r) : May(t, x[1])
  BY DEF CodeOf
<1>3. /\ Fits(u)
      /\ HasTable(u, 1) <=> HasTable(ops, 1)
      /\ HasTicks(u, 1) <=> HasTicks(ops, 1)
  BY <1>1, <1>2, ConcatFits
<1>4. /\ u \in Seq(Op) /\ Len(u) = n + Len(r) /\ n \in Nat /\ Len(r) \in Nat
      /\ \A k \in 1..n : u[k] = ops[k] /\ Name(u, k) = Name(ops, k)
      /\ \A k \in 1..Len(r) : u[n + k] = r[k]
  BY <1>1, <1>2, ConcatNames
<1>5. n >= 1
  BY <1>1, HeadIs
<1>6. Range(u) = Range(ops) \cup Range(r)
  BY <1>1, <1>2, ConcatRange
<1> HIDE DEF u
<1>7. \A k \in 1..Len(r) : r[k][1] \notin {"spin", "intena"}
  <2> TAKE k \in 1..Len(r)
  <2>1. CASE k = 1
    <3>1. Name(r, 1) = r[1][1]
      BY <2>1 DEF Name
    <3> QED
      BY <2>1, <3>1 DEF HasTable, NeedsTable
  <2>2. CASE k # 1
    BY <1>2, <2>2 DEF Fresh
  <2> QED
    BY <2>1, <2>2
<1>8. ASSUME NEW k \in 1..Len(u)  PROVE k \in 1..n \/ \E j \in 1..Len(r) : k = n + j
  <2>1. CASE k <= n
    BY <1>4, <2>1
  <2>2. CASE k > n
    <3>1. k - n \in 1..Len(r) /\ k = n + (k - n)
      BY <1>4, <2>2
    <3> QED
      BY <3>1
  <2> QED
    BY <1>4, <2>1, <2>2
<1>9. Fresh(u)
  BY <1>1, <1>4, <1>7, <1>8 DEF Fresh
<1>10. Ends(u)
  <2> SUFFICES ASSUME NEW j \in 1..Len(u), NEW k \in 1..Len(u), j < k, u[j][1] \in Closing
               PROVE  u[k][1] \in WayOut
    BY DEF Ends
  <2>1. CASE j \in 1..n /\ k \in 1..n
    BY <1>1, <1>4, <2>1 DEF Ends
  <2>2. ASSUME j \in 1..n, NEW i \in 1..Len(r), k = n + i  PROVE u[k][1] \in WayOut
    <3>1. ops[j] \in Range(ops) /\ r[i] \in Range(r)
      BY <1>1, <1>2, <2>2, LenProperties DEF Range
    <3>2. u[j] = ops[j] /\ u[k] = r[i]
      BY <1>4, <2>2
    <3> QED
      BY <3>1, <3>2
  <2>3. ASSUME NEW h \in 1..Len(r), NEW i \in 1..Len(r), j = n + h, k = n + i
        PROVE  u[k][1] \in WayOut
    <3>1. u[j] = r[h] /\ u[k] = r[i] /\ h < i
      BY <1>4, <2>3
    <3> QED
      BY <1>2, <3>1 DEF Ends
  <2>4. ASSUME NEW h \in 1..Len(r), j = n + h, k \in 1..n  PROVE FALSE
    BY <1>4, <2>4
  <2> QED
    BY <1>8, <2>1, <2>2, <2>3, <2>4
<1>11. t \in Proc => Restores(u)
  <2>1. 1 \in 1..n /\ Name(u, 1) = Name(ops, 1) /\ Name(ops, 1) = ops[1][1]
    BY <1>1, <1>4, <1>5, HeadIs
  <2> QED
    BY <1>1, <2>1 DEF Restores
<1>12. Name(u, 1) = Name(ops, 1)
  BY <1>4, <1>5
<1>13. CodeOf(t, u)
  BY <1>1, <1>2, <1>3, <1>4, <1>6, <1>9, <1>10, <1>11 DEF CodeOf
<1> QED
  BY <1>3, <1>6, <1>12, <1>13 DEF u

Names(s) == {o[1] : o \in Range(s)}

\* A routine of operations N that begins with n, with ptable.lock if a, tickslock if b.
Piece(t, ops, n, a, b, N) ==
    /\ Routine(t, ops) /\ Name(ops, 1) = n /\ Names(ops) = N
    /\ HasTable(ops, 1) <=> a
    /\ HasTicks(ops, 1) <=> b

\* Operation o in front of one named n: the locks that it runs with, and leaves.
Moves(o, n, a, b, a1, b1) ==
    /\ NeedsTable(o, n) <=> a
    /\ NeedsTicks(o, n) <=> b
    /\ LeavesTable(o, n) <=> a1
    /\ LeavesTicks(o, n) <=> b1

LEMMA MovesTable ==
    ASSUME NEW o, NEW n
    PROVE  /\ o[1] \in {"acquire", "spin"} /\ o[2] = "ptable" /\ n \notin {"wakeup1", "release"} =>
                 Moves(o, n, FALSE, FALSE, TRUE, FALSE)
           /\ o[1] \in {"acquire", "spin"} /\ o[2] = "ptable" /\ n \in {"wakeup1", "release"} =>
                 Moves(o, n, FALSE, TRUE, TRUE, TRUE)
           /\ o[1] \in {"acquire", "spin"} /\ o[2] = "tickslock" =>
                 Moves(o, n, FALSE, FALSE, FALSE, TRUE)
           /\ o[1] = "release" /\ o[2] = "ptable" =>
                 Moves(o, n, TRUE, FALSE, FALSE, FALSE)
           /\ o[1] = "release" /\ o[2] = "tickslock" /\ n = "sleep" =>
                 Moves(o, n, TRUE, TRUE, TRUE, FALSE)
           /\ o[1] = "release" /\ o[2] = "tickslock" /\ n # "sleep" =>
                 Moves(o, n, FALSE, TRUE, FALSE, FALSE)
           /\ o[1] \in {"pick", "allocproc", "exit", "zombie exit", "wait", "kill", "ready"} =>
                 Moves(o, n, TRUE, FALSE, FALSE, FALSE)
           /\ o[1] \in {"yield", "sleep", "intena"} =>
                 Moves(o, n, TRUE, FALSE, TRUE, FALSE)
           /\ o[1] \in {"nap", "napping"} =>
                 Moves(o, n, FALSE, TRUE, FALSE, FALSE)
           /\ o[1] = "tick" =>
                 Moves(o, n, FALSE, TRUE, FALSE, TRUE)
           /\ o[1] = "wakeup1" =>
                 Moves(o, n, TRUE, TRUE, FALSE, TRUE)
           /\ o[1] \in {"sti", "killed", "clock", "iret", "copy"} =>
                 Moves(o, n, FALSE, FALSE, FALSE, FALSE)
<1>1. o[1] \in {"acquire", "spin"} /\ o[2] = "ptable" /\ n \notin {"wakeup1", "release"} =>
         Moves(o, n, FALSE, FALSE, TRUE, FALSE)
  BY DEF Moves, NeedsTable, NeedsTicks, LeavesTable, LeavesTicks
<1>2. o[1] \in {"acquire", "spin"} /\ o[2] = "ptable" /\ n \in {"wakeup1", "release"} =>
         Moves(o, n, FALSE, TRUE, TRUE, TRUE)
  BY DEF Moves, NeedsTable, NeedsTicks, LeavesTable, LeavesTicks
<1>3. o[1] \in {"acquire", "spin"} /\ o[2] = "tickslock" =>
         Moves(o, n, FALSE, FALSE, FALSE, TRUE)
  BY DEF Moves, NeedsTable, NeedsTicks, LeavesTable, LeavesTicks
<1>4. o[1] = "release" /\ o[2] = "ptable" =>
         Moves(o, n, TRUE, FALSE, FALSE, FALSE)
  BY DEF Moves, NeedsTable, NeedsTicks, LeavesTable, LeavesTicks
<1>5. o[1] = "release" /\ o[2] = "tickslock" /\ n = "sleep" =>
         Moves(o, n, TRUE, TRUE, TRUE, FALSE)
  BY DEF Moves, NeedsTable, NeedsTicks, LeavesTable, LeavesTicks
<1>6. o[1] = "release" /\ o[2] = "tickslock" /\ n # "sleep" =>
         Moves(o, n, FALSE, TRUE, FALSE, FALSE)
  BY DEF Moves, NeedsTable, NeedsTicks, LeavesTable, LeavesTicks
<1>7. o[1] \in {"pick", "allocproc", "exit", "zombie exit", "wait", "kill", "ready"} =>
         Moves(o, n, TRUE, FALSE, FALSE, FALSE)
  BY DEF Moves, NeedsTable, NeedsTicks, LeavesTable, LeavesTicks
<1>8. o[1] \in {"yield", "sleep", "intena"} =>
         Moves(o, n, TRUE, FALSE, TRUE, FALSE)
  BY DEF Moves, NeedsTable, NeedsTicks, LeavesTable, LeavesTicks
<1>9. o[1] \in {"nap", "napping"} =>
         Moves(o, n, FALSE, TRUE, FALSE, FALSE)
  BY DEF Moves, NeedsTable, NeedsTicks, LeavesTable, LeavesTicks
<1>10. o[1] = "tick" =>
         Moves(o, n, FALSE, TRUE, FALSE, TRUE)
  BY DEF Moves, NeedsTable, NeedsTicks, LeavesTable, LeavesTicks
<1>11. o[1] = "wakeup1" =>
         Moves(o, n, TRUE, TRUE, FALSE, TRUE)
  BY DEF Moves, NeedsTable, NeedsTicks, LeavesTable, LeavesTicks
<1>12. o[1] \in {"sti", "killed", "clock", "iret", "copy"} =>
         Moves(o, n, FALSE, FALSE, FALSE, FALSE)
  BY DEF Moves, NeedsTable, NeedsTicks, LeavesTable, LeavesTicks
<1> QED
  BY <1>1, <1>2, <1>3, <1>4, <1>5, <1>6, <1>7, <1>8, <1>9, <1>10, <1>11, <1>12

LEMMA PieceOne ==
    ASSUME NEW t, NEW o \in Op, NEW m, o[1] = m, May(t, m), m \notin {"acquire", "spin", "intena"},
           NEW a \in BOOLEAN, NEW b \in BOOLEAN, Moves(o, "user", a, b, FALSE, FALSE)
    PROVE  Piece(t, <<o>>, m, a, b, {m})
<1> DEFINE s == <<o>>
<1>1. s \in Seq(Op) /\ s # <<>> /\ Len(s) = 1 /\ s[1] = o /\ DOMAIN s = 1..1 /\ 1..1 = {1}
  OBVIOUS
<1> HIDE DEF s
<1>2. Range(s) = {o}
  BY <1>1 DEF Range
<1>3. Name(s, 1) = o[1] /\ Name(s, 1 + 1) = "user"
  BY <1>1 DEF Name
<1>4. 1 + 1 \notin 1..1
  OBVIOUS
<1>5. /\ HasTable(s, 1) <=> a
      /\ HasTicks(s, 1) <=> b
      /\ ~KeepsTable(s, 1) /\ ~KeepsTicks(s, 1)
      /\ ~HasTable(s, 1 + 1) /\ ~HasTicks(s, 1 + 1)
  BY <1>1, <1>3, <1>4 DEF HasTable, HasTicks, KeepsTable, KeepsTicks, Moves
<1>6. Fits(s)
  BY <1>1, <1>5 DEF Fits
<1>7. Ends(s)
  BY <1>1 DEF Ends
<1>8. Closed(s) /\ \A k \in 1..Len(s) : s[k][1] \notin {"spin", "intena"}
  <2>1. o[1] # "user"
    BY OpParts
  <2> QED
    BY <1>1, <1>3, <2>1 DEF Closed, Steady
<1> QED
  BY <1>1, <1>2, <1>3, <1>5, <1>6, <1>7, <1>8 DEF Piece, Routine, Names, s

LEMMA PieceCons ==
    ASSUME NEW t, NEW r, NEW n, NEW a \in BOOLEAN, NEW b \in BOOLEAN, NEW N, Piece(t, r, n, a, b, N),
           NEW o \in Op, NEW m, o[1] = m, May(t, m), m \notin {"spin", "intena"},
           m \in Closing => N \subseteq WayOut,
           NEW a0 \in BOOLEAN, NEW b0 \in BOOLEAN, Moves(o, n, a0, b0, a, b)
    PROVE  Piece(t, <<o>> \o r, m, a0, b0, {m} \cup N)
<1> DEFINE u == <<o>> \o r
<1>1. /\ r \in Seq(Op) /\ r # <<>> /\ Fits(r) /\ Ends(r) /\ Closed(r)
      /\ \A k \in 1..Len(r) : r[k][1] \notin {"spin", "intena"}
      /\ \A x \in Range(r) : May(t, x[1])
      /\ m \in Closing => \A x \in Range(r) : x[1] \in WayOut
      /\ Name(r, 1) = n /\ (HasTable(r, 1) <=> a) /\ (HasTicks(r, 1) <=> b)
  BY DEF Piece, Routine, Names
<1>2. /\ u \in Seq(Op) /\ u # <<>> /\ Tail(u) = r /\ u[1] = o /\ Name(u, 1) = o[1]
      /\ Range(u) = {o} \cup Range(r) /\ Len(u) = Len(r) + 1 /\ Len(r) \in Nat
      /\ Name(u, 1 + 1) = n
  BY <1>1, ConsIs
<1>3. \A k \in 1..Len(r) : r[k] = u[k + 1]
  <2> HIDE DEF u
  <2> QED
    BY <1>2, TailNames
<1> HIDE DEF u
<1>4. /\ HasTable(u, 1) <=> a0
      /\ HasTicks(u, 1) <=> b0
      /\ KeepsTable(u, 1) <=> a
      /\ KeepsTicks(u, 1) <=> b
  <2>1. 1 \in 1..Len(u)
    BY <1>2
  <2> QED
    BY <1>2, <2>1 DEF HasTable, HasTicks, KeepsTable, KeepsTicks, Moves
<1>5. Fits(u)
  BY <1>1, <1>2, <1>4, ConsFits
<1>6. \A k \in 1..Len(u) : k = 1 \/ \E j \in 1..Len(r) : k = j + 1
  <2> TAKE k \in 1..Len(u)
  <2>1. CASE k # 1
    <3>1. k - 1 \in 1..Len(r) /\ k = (k - 1) + 1
      BY <1>2, <2>1
    <3> QED
      BY <3>1
  <2> QED
    BY <2>1
<1>7. \A k \in 1..Len(u) : u[k][1] \notin {"spin", "intena"}
  BY <1>1, <1>2, <1>3, <1>6
<1>8. Ends(u)
  <2> SUFFICES ASSUME NEW j \in 1..Len(u), NEW k \in 1..Len(u), j < k, u[j][1] \in Closing
               PROVE  u[k][1] \in WayOut
    BY DEF Ends
  <2>1. PICK i \in 1..Len(r) : k = i + 1
    BY <1>2, <1>6
  <2>2. u[k] = r[i] /\ r[i] \in Range(r)
    <3>1. DOMAIN r = 1..Len(r)
      BY <1>1, LenProperties
    <3> QED
      BY <1>3, <2>1, <3>1 DEF Range
  <2>3. CASE j = 1
    BY <1>1, <1>2, <2>2, <2>3
  <2>4. ASSUME NEW h \in 1..Len(r), j = h + 1  PROVE u[k][1] \in WayOut
    <3>1. u[j] = r[h] /\ h < i
      BY <1>2, <1>3, <2>1, <2>4
    <3> QED
      BY <1>1, <2>2, <3>1 DEF Ends
  <2> QED
    BY <1>6, <2>3, <2>4
<1>9. Closed(u)
  <2>1. Len(r) >= 1 /\ Len(r) \in Nat \ {0}
    BY <1>1, HeadIs
  <2>2. Name(r, Len(r)) = Name(u, Len(r) + 1)
    BY <1>2, <2>1, TailNames
  <2> QED
    BY <1>1, <1>2, <2>2 DEF Closed
<1>10. \A x \in Range(u) : May(t, x[1])
  BY <1>1, <1>2
<1>11. Names(u) = {m} \cup N
  BY <1>2 DEF Names, Piece
<1> QED
  BY <1>2, <1>4, <1>5, <1>7, <1>8, <1>9, <1>10, <1>11 DEF Piece, Routine, u

LEMMA SchedNotProc ==
    /\ \A c \in Cpu : Sched(c) \notin Proc /\ Sched(c) # initproc /\ Sched(c) \in Thread
    /\ \A c, d \in Cpu : Sched(c) = Sched(d) => c = d
BY SmpConstants DEF Cpu, Proc, Sched, initproc, Thread

LEMMA InitIsProc == initproc \in Proc /\ Proc \subseteq Thread
BY SmpConstants DEF Proc, initproc, Thread

LEMMA PairIs ==
    ASSUME NEW a \in Op, NEW b \in Op
    PROVE  <<a>> \o <<b>> = <<a, b>>
<1> DEFINE s == <<a>> \o <<b>>
           t == <<a, b>>
<1>1. s \in Seq(Op) /\ t \in Seq(Op) /\ Len(s) = 2 /\ Len(t) = 2
  OBVIOUS
<1>2. \A i \in 1..2 : s[i] = t[i]
  OBVIOUS
<1> QED
  BY <1>1, <1>2, SeqEqual

LEMMA TripleIs ==
    ASSUME NEW a \in Op, NEW b \in Op, NEW c \in Op
    PROVE  <<a>> \o (<<b>> \o <<c>>) = <<a, b, c>>
<1> DEFINE s == <<a>> \o (<<b>> \o <<c>>)
           t == <<a, b, c>>
<1>1. s \in Seq(Op) /\ t \in Seq(Op) /\ Len(s) = 3 /\ Len(t) = 3
  OBVIOUS
<1>2. \A i \in 1..3 : s[i] = t[i]
  OBVIOUS
<1> QED
  BY <1>1, <1>2, SeqEqual

LEMMA LoopFits ==
    ASSUME NEW c \in Cpu
    PROVE  Piece(Sched(c), Loop, "acquire", FALSE, FALSE,
                 {"acquire", "pick"})
<1>1. /\ <<"acquire", "ptable">> \in Op /\ May(Sched(c), "acquire")
      /\ <<"pick">> \in Op /\ May(Sched(c), "pick")
  BY OpIn, InitIsProc, SchedNotProc DEF Plain, Locks, May, SchedOps
<1> DEFINE s1 == <<<<"pick">>>>
           s2 == <<<<"acquire", "ptable">>>> \o s1
<1>2. Piece(Sched(c), s1, "pick", TRUE, FALSE, {"pick"})
  BY <1>1, PieceOne, MovesTable
<1> HIDE DEF s1
<1>3. Piece(Sched(c), s2, "acquire", FALSE, FALSE,
            {"acquire"} \cup {"pick"})
  BY <1>1, <1>2, PieceCons, MovesTable DEF Closing
<1>4. s2 = Loop
  BY <1>1, PairIs DEF s1, Loop, Acquire
<1>5. {"acquire"} \cup {"pick"} = {"acquire", "pick"}
  OBVIOUS
<1> QED
  BY <1>3, <1>4, <1>5

LEMMA YieldFits ==
    ASSUME NEW t \in Proc
    PROVE  Piece(t, Yield, "acquire", FALSE, FALSE,
                 {"acquire", "yield", "release"})
<1>1. /\ <<"acquire", "ptable">> \in Op /\ May(t, "acquire")
      /\ <<"yield">> \in Op /\ May(t, "yield")
      /\ <<"release", "ptable">> \in Op /\ May(t, "release")
  BY OpIn, InitIsProc, SchedNotProc DEF Plain, Locks, May, SchedOps
<1> DEFINE s1 == <<<<"release", "ptable">>>>
           s2 == <<<<"yield">>>> \o s1
           s3 == <<<<"acquire", "ptable">>>> \o s2
<1>2. Piece(t, s1, "release", TRUE, FALSE, {"release"})
  BY <1>1, PieceOne, MovesTable
<1> HIDE DEF s1
<1>3. Piece(t, s2, "yield", TRUE, FALSE,
            {"yield"} \cup {"release"})
  BY <1>1, <1>2, PieceCons, MovesTable DEF Closing
<1> HIDE DEF s2
<1>4. Piece(t, s3, "acquire", FALSE, FALSE,
            {"acquire"} \cup ({"yield"} \cup {"release"}))
  BY <1>1, <1>3, PieceCons, MovesTable DEF Closing
<1>5. s3 = Yield
  BY <1>1, TripleIs DEF s1, s2, Yield, Acquire, Release
<1>6. {"acquire"} \cup ({"yield"} \cup {"release"}) = {"acquire", "yield", "release"}
  OBVIOUS
<1> QED
  BY <1>4, <1>5, <1>6

LEMMA ForkRetFits ==
    ASSUME NEW t \in Proc
    PROVE  Piece(t, ForkRet, "release", TRUE, FALSE,
                 {"release", "iret"})
<1>1. /\ <<"release", "ptable">> \in Op /\ May(t, "release")
      /\ <<"iret">> \in Op /\ May(t, "iret")
  BY OpIn, InitIsProc, SchedNotProc DEF Plain, Locks, May, SchedOps
<1> DEFINE s1 == <<<<"iret">>>>
           s2 == <<<<"release", "ptable">>>> \o s1
<1>2. Piece(t, s1, "iret", FALSE, FALSE, {"iret"})
  BY <1>1, PieceOne, MovesTable
<1> HIDE DEF s1
<1>3. Piece(t, s2, "release", TRUE, FALSE,
            {"release"} \cup {"iret"})
  BY <1>1, <1>2, PieceCons, MovesTable DEF Closing
<1>4. s2 = ForkRet
  BY <1>1, PairIs DEF s1, ForkRet, Release
<1>5. {"release"} \cup {"iret"} = {"release", "iret"}
  OBVIOUS
<1> QED
  BY <1>3, <1>4, <1>5

LEMMA ExitFits ==
    ASSUME NEW t \in Proc \ {initproc}
    PROVE  Piece(t, Exit, "acquire", FALSE, FALSE,
                 {"acquire", "exit"})
<1>1. /\ <<"acquire", "ptable">> \in Op /\ May(t, "acquire")
      /\ <<"exit">> \in Op /\ May(t, "exit")
  BY OpIn, InitIsProc, SchedNotProc DEF Plain, Locks, May, SchedOps
<1> DEFINE s1 == <<<<"exit">>>>
           s2 == <<<<"acquire", "ptable">>>> \o s1
<1>2. Piece(t, s1, "exit", TRUE, FALSE, {"exit"})
  BY <1>1, PieceOne, MovesTable
<1> HIDE DEF s1
<1>3. Piece(t, s2, "acquire", FALSE, FALSE,
            {"acquire"} \cup {"exit"})
  BY <1>1, <1>2, PieceCons, MovesTable DEF Closing
<1>4. s2 = Exit
  BY <1>1, PairIs DEF s1, Exit, Acquire
<1>5. {"acquire"} \cup {"exit"} = {"acquire", "exit"}
  OBVIOUS
<1> QED
  BY <1>3, <1>4, <1>5

LEMMA NapFits ==
    ASSUME NEW t \in Proc, NEW a \in 0..TICKS - 1, NEW n \in Naps
    PROVE  Piece(t, Append(Sleep(TickChan), <<"napping", <<a, n>>>>), "acquire", FALSE, TRUE,
                 {"acquire", "release", "sleep", "napping"})
<1>1. /\ <<"acquire", "ptable">> \in Op /\ May(t, "acquire")
      /\ <<"release", "tickslock">> \in Op /\ May(t, "release")
      /\ <<"sleep", TickChan>> \in Op /\ May(t, "sleep")
      /\ <<"release", "ptable">> \in Op /\ May(t, "release")
      /\ <<"acquire", "tickslock">> \in Op /\ May(t, "acquire")
      /\ <<"napping", <<a, n>>>> \in Op /\ May(t, "napping")
  BY OpIn, InitIsProc, SchedNotProc DEF Plain, Locks, May, SchedOps
<1> DEFINE s1 == <<<<"napping", <<a, n>>>>>>
           s2 == <<<<"acquire", "tickslock">>>> \o s1
           s3 == <<<<"release", "ptable">>>> \o s2
           s4 == <<<<"sleep", TickChan>>>> \o s3
           s5 == <<<<"release", "tickslock">>>> \o s4
           s6 == <<<<"acquire", "ptable">>>> \o s5
<1>2. Piece(t, s1, "napping", FALSE, TRUE, {"napping"})
  BY <1>1, PieceOne, MovesTable
<1> HIDE DEF s1
<1>3. Piece(t, s2, "acquire", FALSE, FALSE,
            {"acquire"} \cup {"napping"})
  BY <1>1, <1>2, PieceCons, MovesTable DEF Closing
<1> HIDE DEF s2
<1>4. Piece(t, s3, "release", TRUE, FALSE,
            {"release"} \cup ({"acquire"} \cup {"napping"}))
  BY <1>1, <1>3, PieceCons, MovesTable DEF Closing
<1> HIDE DEF s3
<1>5. Piece(t, s4, "sleep", TRUE, FALSE,
            {"sleep"} \cup ({"release"} \cup ({"acquire"} \cup {"napping"})))
  BY <1>1, <1>4, PieceCons, MovesTable DEF Closing
<1> HIDE DEF s4
<1>6. Piece(t, s5, "release", TRUE, TRUE,
            {"release"} \cup ({"sleep"} \cup ({"release"} \cup ({"acquire"} \cup {"napping"}))))
  BY <1>1, <1>5, PieceCons, MovesTable DEF Closing
<1> HIDE DEF s5
<1>7. Piece(t, s6, "acquire", FALSE, TRUE,
            {"acquire"} \cup ({"release"} \cup ({"sleep"} \cup ({"release"} \cup ({"acquire"} \cup {"napping"})))))
  BY <1>1, <1>6, PieceCons, MovesTable DEF Closing
<1>8. s6 = Append(Sleep(TickChan), <<"napping", <<a, n>>>>)
  <2>1. /\ Acquire("ptable") \in Op /\ Release("tickslock") \in Op /\ <<"sleep", TickChan>> \in Op
        /\ Release("ptable") \in Op /\ Acquire("tickslock") \in Op
    BY <1>1 DEF Acquire, Release
  <2>2. s6 = <<Acquire("ptable")>> \o (<<Release("tickslock")>> \o (<<<<"sleep", TickChan>>>>
                \o (<<Release("ptable")>> \o (<<Acquire("tickslock")>> \o s1))))
    BY DEF s2, s3, s4, s5, Acquire, Release
  <2>3. s6 = Append(<<Acquire("ptable"), Release("tickslock"), <<"sleep", TickChan>>,
                      Release("ptable"), Acquire("tickslock")>>, <<"napping", <<a, n>>>>)
    <3> DEFINE o1 == Acquire("ptable")
               o2 == Release("tickslock")
               o3 == <<"sleep", TickChan>>
               o4 == Release("ptable")
               o5 == Acquire("tickslock")
               o6 == <<"napping", <<a, n>>>>
    <3>1. o1 \in Op /\ o2 \in Op /\ o3 \in Op /\ o4 \in Op /\ o5 \in Op /\ o6 \in Op
      BY <1>1, <2>1
    <3>2. s6 = <<o1>> \o (<<o2>> \o (<<o3>> \o (<<o4>> \o (<<o5>> \o <<o6>>))))
      BY <2>2 DEF s1
    <3> HIDE DEF s6, o1, o2, o3, o4, o5, o6
    <3>3. s6 = Append(<<o1, o2, o3, o4, o5>>, o6)
      <4> DEFINE l == <<o1>> \o (<<o2>> \o (<<o3>> \o (<<o4>> \o (<<o5>> \o <<o6>>))))
                 r == Append(<<o1, o2, o3, o4, o5>>, o6)
      <4>1. l \in Seq(Op) /\ r \in Seq(Op) /\ Len(l) = 6 /\ Len(r) = 6
        BY <3>1
      <4>2. \A i \in 1..6 : l[i] = r[i]
        BY <3>1
      <4>3. l = r
        BY <4>1, <4>2, SeqEqual
      <4> HIDE DEF l, r
      <4>4. s6 = l
        BY <3>2 DEF l
      <4> QED
        BY <4>3, <4>4 DEF r
    <3> QED
      BY <3>3 DEF o1, o2, o3, o4, o5, o6
  <2> HIDE DEF s6
  <2> QED
    BY <2>3 DEF Sleep
<1>9. {"acquire"} \cup ({"release"} \cup ({"sleep"} \cup ({"release"} \cup ({"acquire"} \cup {"napping"})))) = {"acquire", "release", "sleep", "napping"}
  OBVIOUS
<1> QED
  BY <1>7, <1>8, <1>9

LEMMA ForkFits ==
    ASSUME NEW t \in Proc
    PROVE  Piece(t, Syscall("fork") \o <<<<"killed">>>>, "acquire", FALSE, FALSE,
                 {"acquire", "allocproc", "killed"})
<1>1. /\ <<"acquire", "ptable">> \in Op /\ May(t, "acquire")
      /\ <<"allocproc">> \in Op /\ May(t, "allocproc")
      /\ <<"killed">> \in Op /\ May(t, "killed")
  BY OpIn, InitIsProc, SchedNotProc DEF Plain, Locks, May, SchedOps
<1> DEFINE s1 == <<<<"killed">>>>
           s2 == <<<<"allocproc">>>> \o s1
           s3 == <<<<"acquire", "ptable">>>> \o s2
<1>2. Piece(t, s1, "killed", FALSE, FALSE, {"killed"})
  BY <1>1, PieceOne, MovesTable
<1> HIDE DEF s1
<1>3. Piece(t, s2, "allocproc", TRUE, FALSE,
            {"allocproc"} \cup {"killed"})
  BY <1>1, <1>2, PieceCons, MovesTable DEF Closing, WayOut
<1> HIDE DEF s2
<1>4. Piece(t, s3, "acquire", FALSE, FALSE,
            {"acquire"} \cup ({"allocproc"} \cup {"killed"}))
  BY <1>1, <1>3, PieceCons, MovesTable DEF Closing
<1>5. s3 = Syscall("fork") \o <<<<"killed">>>>
  BY DEF s1, s2, Syscall, Acquire
<1>6. {"acquire"} \cup ({"allocproc"} \cup {"killed"}) = {"acquire", "allocproc", "killed"}
  OBVIOUS
<1> QED
  BY <1>4, <1>5, <1>6

LEMMA WaitFits ==
    ASSUME NEW t \in Proc
    PROVE  Piece(t, Syscall("wait") \o <<<<"killed">>>>, "acquire", FALSE, FALSE,
                 {"acquire", "wait", "killed"})
<1>1. /\ <<"acquire", "ptable">> \in Op /\ May(t, "acquire")
      /\ <<"wait">> \in Op /\ May(t, "wait")
      /\ <<"killed">> \in Op /\ May(t, "killed")
  BY OpIn, InitIsProc, SchedNotProc DEF Plain, Locks, May, SchedOps
<1> DEFINE s1 == <<<<"killed">>>>
           s2 == <<<<"wait">>>> \o s1
           s3 == <<<<"acquire", "ptable">>>> \o s2
<1>2. Piece(t, s1, "killed", FALSE, FALSE, {"killed"})
  BY <1>1, PieceOne, MovesTable
<1> HIDE DEF s1
<1>3. Piece(t, s2, "wait", TRUE, FALSE,
            {"wait"} \cup {"killed"})
  BY <1>1, <1>2, PieceCons, MovesTable DEF Closing
<1> HIDE DEF s2
<1>4. Piece(t, s3, "acquire", FALSE, FALSE,
            {"acquire"} \cup ({"wait"} \cup {"killed"}))
  BY <1>1, <1>3, PieceCons, MovesTable DEF Closing
<1>5. s3 = Syscall("wait") \o <<<<"killed">>>>
  BY DEF s1, s2, Syscall, Acquire
<1>6. {"acquire"} \cup ({"wait"} \cup {"killed"}) = {"acquire", "wait", "killed"}
  OBVIOUS
<1> QED
  BY <1>4, <1>5, <1>6

LEMMA KillFits ==
    ASSUME NEW t \in Proc
    PROVE  Piece(t, Syscall("kill") \o <<<<"killed">>>>, "acquire", FALSE, FALSE,
                 {"acquire", "kill", "killed"})
<1>1. /\ <<"acquire", "ptable">> \in Op /\ May(t, "acquire")
      /\ <<"kill">> \in Op /\ May(t, "kill")
      /\ <<"killed">> \in Op /\ May(t, "killed")
  BY OpIn, InitIsProc, SchedNotProc DEF Plain, Locks, May, SchedOps
<1> DEFINE s1 == <<<<"killed">>>>
           s2 == <<<<"kill">>>> \o s1
           s3 == <<<<"acquire", "ptable">>>> \o s2
<1>2. Piece(t, s1, "killed", FALSE, FALSE, {"killed"})
  BY <1>1, PieceOne, MovesTable
<1> HIDE DEF s1
<1>3. Piece(t, s2, "kill", TRUE, FALSE,
            {"kill"} \cup {"killed"})
  BY <1>1, <1>2, PieceCons, MovesTable DEF Closing
<1> HIDE DEF s2
<1>4. Piece(t, s3, "acquire", FALSE, FALSE,
            {"acquire"} \cup ({"kill"} \cup {"killed"}))
  BY <1>1, <1>3, PieceCons, MovesTable DEF Closing
<1>5. s3 = Syscall("kill") \o <<<<"killed">>>>
  BY DEF s1, s2, Syscall, Acquire
<1>6. {"acquire"} \cup ({"kill"} \cup {"killed"}) = {"acquire", "kill", "killed"}
  OBVIOUS
<1> QED
  BY <1>4, <1>5, <1>6

LEMMA SleepFits ==
    ASSUME NEW t \in Proc
    PROVE  Piece(t, Syscall("sleep") \o <<<<"killed">>>>, "acquire", FALSE, FALSE,
                 {"acquire", "nap", "killed"})
<1>1. /\ <<"acquire", "tickslock">> \in Op /\ May(t, "acquire")
      /\ <<"nap">> \in Op /\ May(t, "nap")
      /\ <<"killed">> \in Op /\ May(t, "killed")
  BY OpIn, InitIsProc, SchedNotProc DEF Plain, Locks, May, SchedOps
<1> DEFINE s1 == <<<<"killed">>>>
           s2 == <<<<"nap">>>> \o s1
           s3 == <<<<"acquire", "tickslock">>>> \o s2
<1>2. Piece(t, s1, "killed", FALSE, FALSE, {"killed"})
  BY <1>1, PieceOne, MovesTable
<1> HIDE DEF s1
<1>3. Piece(t, s2, "nap", FALSE, TRUE,
            {"nap"} \cup {"killed"})
  BY <1>1, <1>2, PieceCons, MovesTable DEF Closing
<1> HIDE DEF s2
<1>4. Piece(t, s3, "acquire", FALSE, FALSE,
            {"acquire"} \cup ({"nap"} \cup {"killed"}))
  BY <1>1, <1>3, PieceCons, MovesTable DEF Closing
<1>5. s3 = Syscall("sleep") \o <<<<"killed">>>>
  BY DEF s1, s2, Syscall, Acquire
<1>6. {"acquire"} \cup ({"nap"} \cup {"killed"}) = {"acquire", "nap", "killed"}
  OBVIOUS
<1> QED
  BY <1>4, <1>5, <1>6

LEMMA ExitCallFits ==
    ASSUME NEW t \in Proc \ {initproc}
    PROVE  Piece(t, Syscall("exit") \o <<<<"killed">>>>, "acquire", FALSE, FALSE,
                 {"acquire", "exit", "killed"})
<1>1. /\ <<"acquire", "ptable">> \in Op /\ May(t, "acquire")
      /\ <<"exit">> \in Op /\ May(t, "exit")
      /\ <<"killed">> \in Op /\ May(t, "killed")
  BY OpIn, InitIsProc, SchedNotProc DEF Plain, Locks, May, SchedOps
<1> DEFINE s1 == <<<<"killed">>>>
           s2 == <<<<"exit">>>> \o s1
           s3 == <<<<"acquire", "ptable">>>> \o s2
<1>2. Piece(t, s1, "killed", FALSE, FALSE, {"killed"})
  BY <1>1, PieceOne, MovesTable
<1> HIDE DEF s1
<1>3. Piece(t, s2, "exit", TRUE, FALSE,
            {"exit"} \cup {"killed"})
  BY <1>1, <1>2, PieceCons, MovesTable DEF Closing, WayOut
<1> HIDE DEF s2
<1>4. Piece(t, s3, "acquire", FALSE, FALSE,
            {"acquire"} \cup ({"exit"} \cup {"killed"}))
  BY <1>1, <1>3, PieceCons, MovesTable DEF Closing
<1>5. s3 = Syscall("exit") \o <<<<"killed">>>>
  BY DEF s1, s2, Syscall, Exit, Acquire
<1>6. {"acquire"} \cup ({"exit"} \cup {"killed"}) = {"acquire", "exit", "killed"}
  OBVIOUS
<1> QED
  BY <1>4, <1>5, <1>6

LEMMA ReadyFits ==
    ASSUME NEW t \in Proc, NEW q \in Proc
    PROVE  Piece(t, <<Acquire("ptable"), <<"ready", q>>>>, "acquire", FALSE, FALSE,
                 {"acquire", "ready"})
<1>1. /\ <<"acquire", "ptable">> \in Op /\ May(t, "acquire")
      /\ <<"ready", q>> \in Op /\ May(t, "ready")
  BY OpIn, InitIsProc, SchedNotProc DEF Plain, Locks, May, SchedOps
<1> DEFINE s1 == <<<<"ready", q>>>>
           s2 == <<<<"acquire", "ptable">>>> \o s1
<1>2. Piece(t, s1, "ready", TRUE, FALSE, {"ready"})
  BY <1>1, PieceOne, MovesTable
<1> HIDE DEF s1
<1>3. Piece(t, s2, "acquire", FALSE, FALSE,
            {"acquire"} \cup {"ready"})
  BY <1>1, <1>2, PieceCons, MovesTable DEF Closing
<1>4. s2 = <<Acquire("ptable"), <<"ready", q>>>>
  BY <1>1, PairIs DEF s1, Acquire
<1>5. {"acquire"} \cup {"ready"} = {"acquire", "ready"}
  OBVIOUS
<1> QED
  BY <1>3, <1>4, <1>5

LEMMA ClockFits ==
    ASSUME NEW t \in Thread
    PROVE  Piece(t, Clock(0, FALSE), "acquire", FALSE, FALSE,
                 {"acquire", "tick", "wakeup1", "release", "clock", "iret"})
<1>1. /\ <<"acquire", "tickslock">> \in Op /\ May(t, "acquire")
      /\ <<"tick">> \in Op /\ May(t, "tick")
      /\ <<"acquire", "ptable">> \in Op /\ May(t, "acquire")
      /\ <<"wakeup1", TickChan>> \in Op /\ May(t, "wakeup1")
      /\ <<"release", "tickslock">> \in Op /\ May(t, "release")
      /\ <<"clock">> \in Op /\ May(t, "clock")
      /\ <<"iret">> \in Op /\ May(t, "iret")
  BY OpIn, InitIsProc, SchedNotProc DEF Plain, Locks, May, SchedOps
<1> DEFINE s1 == <<<<"iret">>>>
           s2 == <<<<"clock">>>> \o s1
           s3 == <<<<"release", "tickslock">>>> \o s2
           s4 == <<<<"wakeup1", TickChan>>>> \o s3
           s5 == <<<<"acquire", "ptable">>>> \o s4
           s6 == <<<<"tick">>>> \o s5
           s7 == <<<<"acquire", "tickslock">>>> \o s6
<1>2. Piece(t, s1, "iret", FALSE, FALSE, {"iret"})
  BY <1>1, PieceOne, MovesTable
<1> HIDE DEF s1
<1>3. Piece(t, s2, "clock", FALSE, FALSE,
            {"clock"} \cup {"iret"})
  BY <1>1, <1>2, PieceCons, MovesTable DEF Closing
<1> HIDE DEF s2
<1>4. Piece(t, s3, "release", FALSE, TRUE,
            {"release"} \cup ({"clock"} \cup {"iret"}))
  BY <1>1, <1>3, PieceCons, MovesTable DEF Closing
<1> HIDE DEF s3
<1>5. Piece(t, s4, "wakeup1", TRUE, TRUE,
            {"wakeup1"} \cup ({"release"} \cup ({"clock"} \cup {"iret"})))
  BY <1>1, <1>4, PieceCons, MovesTable DEF Closing
<1> HIDE DEF s4
<1>6. Piece(t, s5, "acquire", FALSE, TRUE,
            {"acquire"} \cup ({"wakeup1"} \cup ({"release"} \cup ({"clock"} \cup {"iret"}))))
  BY <1>1, <1>5, PieceCons, MovesTable DEF Closing
<1> HIDE DEF s5
<1>7. Piece(t, s6, "tick", FALSE, TRUE,
            {"tick"} \cup ({"acquire"} \cup ({"wakeup1"} \cup ({"release"} \cup ({"clock"} \cup {"iret"})))))
  BY <1>1, <1>6, PieceCons, MovesTable DEF Closing
<1> HIDE DEF s6
<1>8. Piece(t, s7, "acquire", FALSE, FALSE,
            {"acquire"} \cup ({"tick"} \cup ({"acquire"} \cup ({"wakeup1"} \cup ({"release"} \cup ({"clock"} \cup {"iret"}))))))
  BY <1>1, <1>7, PieceCons, MovesTable DEF Closing
<1>9. s7 = Clock(0, FALSE)
  BY DEF s1, s2, s3, s4, s5, s6, Clock, Wakeup, Acquire, Release
<1>10. {"acquire"} \cup ({"tick"} \cup ({"acquire"} \cup ({"wakeup1"} \cup ({"release"} \cup ({"clock"} \cup {"iret"}))))) = {"acquire", "tick", "wakeup1", "release", "clock", "iret"}
  OBVIOUS
<1> QED
  BY <1>8, <1>9, <1>10

LEMMA UserClockFits ==
    ASSUME NEW t \in Proc
    PROVE  Piece(t, Clock(0, TRUE), "acquire", FALSE, FALSE,
                 {"acquire", "tick", "wakeup1", "release", "killed", "clock", "iret"})
<1>1. /\ <<"acquire", "tickslock">> \in Op /\ May(t, "acquire")
      /\ <<"tick">> \in Op /\ May(t, "tick")
      /\ <<"acquire", "ptable">> \in Op /\ May(t, "acquire")
      /\ <<"wakeup1", TickChan>> \in Op /\ May(t, "wakeup1")
      /\ <<"release", "tickslock">> \in Op /\ May(t, "release")
      /\ <<"killed">> \in Op /\ May(t, "killed")
      /\ <<"clock">> \in Op /\ May(t, "clock")
      /\ <<"iret">> \in Op /\ May(t, "iret")
  BY OpIn, InitIsProc, SchedNotProc DEF Plain, Locks, May, SchedOps
<1> DEFINE s1 == <<<<"iret">>>>
           s2 == <<<<"killed">>>> \o s1
           s3 == <<<<"clock">>>> \o s2
           s4 == <<<<"killed">>>> \o s3
           s5 == <<<<"release", "tickslock">>>> \o s4
           s6 == <<<<"wakeup1", TickChan>>>> \o s5
           s7 == <<<<"acquire", "ptable">>>> \o s6
           s8 == <<<<"tick">>>> \o s7
           s9 == <<<<"acquire", "tickslock">>>> \o s8
<1>2. Piece(t, s1, "iret", FALSE, FALSE, {"iret"})
  BY <1>1, PieceOne, MovesTable
<1> HIDE DEF s1
<1>3. Piece(t, s2, "killed", FALSE, FALSE,
            {"killed"} \cup {"iret"})
  BY <1>1, <1>2, PieceCons, MovesTable DEF Closing, WayOut
<1> HIDE DEF s2
<1>4. Piece(t, s3, "clock", FALSE, FALSE,
            {"clock"} \cup ({"killed"} \cup {"iret"}))
  BY <1>1, <1>3, PieceCons, MovesTable DEF Closing
<1> HIDE DEF s3
<1>5. Piece(t, s4, "killed", FALSE, FALSE,
            {"killed"} \cup ({"clock"} \cup ({"killed"} \cup {"iret"})))
  BY <1>1, <1>4, PieceCons, MovesTable DEF Closing, WayOut
<1> HIDE DEF s4
<1>6. Piece(t, s5, "release", FALSE, TRUE,
            {"release"} \cup ({"killed"} \cup ({"clock"} \cup ({"killed"} \cup {"iret"}))))
  BY <1>1, <1>5, PieceCons, MovesTable DEF Closing
<1> HIDE DEF s5
<1>7. Piece(t, s6, "wakeup1", TRUE, TRUE,
            {"wakeup1"} \cup ({"release"} \cup ({"killed"} \cup ({"clock"} \cup ({"killed"} \cup {"iret"})))))
  BY <1>1, <1>6, PieceCons, MovesTable DEF Closing
<1> HIDE DEF s6
<1>8. Piece(t, s7, "acquire", FALSE, TRUE,
            {"acquire"} \cup ({"wakeup1"} \cup ({"release"} \cup ({"killed"} \cup ({"clock"} \cup ({"killed"} \cup {"iret"}))))))
  BY <1>1, <1>7, PieceCons, MovesTable DEF Closing
<1> HIDE DEF s7
<1>9. Piece(t, s8, "tick", FALSE, TRUE,
            {"tick"} \cup ({"acquire"} \cup ({"wakeup1"} \cup ({"release"} \cup ({"killed"} \cup ({"clock"} \cup ({"killed"} \cup {"iret"})))))))
  BY <1>1, <1>8, PieceCons, MovesTable DEF Closing
<1> HIDE DEF s8
<1>10. Piece(t, s9, "acquire", FALSE, FALSE,
            {"acquire"} \cup ({"tick"} \cup ({"acquire"} \cup ({"wakeup1"} \cup ({"release"} \cup ({"killed"} \cup ({"clock"} \cup ({"killed"} \cup {"iret"}))))))))
  BY <1>1, <1>9, PieceCons, MovesTable DEF Closing
<1>11. s9 = Clock(0, TRUE)
  BY DEF s1, s2, s3, s4, s5, s6, s7, s8, Clock, Wakeup, Acquire, Release
<1>12. {"acquire"} \cup ({"tick"} \cup ({"acquire"} \cup ({"wakeup1"} \cup ({"release"} \cup ({"killed"} \cup ({"clock"} \cup ({"killed"} \cup {"iret"}))))))) = {"acquire", "tick", "wakeup1", "release", "killed", "clock", "iret"}
  OBVIOUS
<1> QED
  BY <1>10, <1>11, <1>12

LEMMA OtherClockFits ==
    ASSUME NEW t \in Thread, NEW c \in Cpu \ {0}
    PROVE  Piece(t, Clock(c, FALSE), "clock", FALSE, FALSE,
                 {"clock", "iret"})
<1>1. /\ <<"clock">> \in Op /\ May(t, "clock")
      /\ <<"iret">> \in Op /\ May(t, "iret")
  BY OpIn, InitIsProc, SchedNotProc DEF Plain, Locks, May, SchedOps
<1> DEFINE s1 == <<<<"iret">>>>
           s2 == <<<<"clock">>>> \o s1
<1>2. Piece(t, s1, "iret", FALSE, FALSE, {"iret"})
  BY <1>1, PieceOne, MovesTable
<1> HIDE DEF s1
<1>3. Piece(t, s2, "clock", FALSE, FALSE,
            {"clock"} \cup {"iret"})
  BY <1>1, <1>2, PieceCons, MovesTable DEF Closing
<1>4. s2 = Clock(c, FALSE)
  BY DEF s1, Clock
<1>5. {"clock"} \cup {"iret"} = {"clock", "iret"}
  OBVIOUS
<1> QED
  BY <1>3, <1>4, <1>5

LEMMA OtherUserClockFits ==
    ASSUME NEW t \in Proc, NEW c \in Cpu \ {0}
    PROVE  Piece(t, Clock(c, TRUE), "killed", FALSE, FALSE,
                 {"killed", "clock", "iret"})
<1>1. /\ <<"killed">> \in Op /\ May(t, "killed")
      /\ <<"clock">> \in Op /\ May(t, "clock")
      /\ <<"iret">> \in Op /\ May(t, "iret")
  BY OpIn, InitIsProc, SchedNotProc DEF Plain, Locks, May, SchedOps
<1> DEFINE s1 == <<<<"iret">>>>
           s2 == <<<<"killed">>>> \o s1
           s3 == <<<<"clock">>>> \o s2
           s4 == <<<<"killed">>>> \o s3
<1>2. Piece(t, s1, "iret", FALSE, FALSE, {"iret"})
  BY <1>1, PieceOne, MovesTable
<1> HIDE DEF s1
<1>3. Piece(t, s2, "killed", FALSE, FALSE,
            {"killed"} \cup {"iret"})
  BY <1>1, <1>2, PieceCons, MovesTable DEF Closing, WayOut
<1> HIDE DEF s2
<1>4. Piece(t, s3, "clock", FALSE, FALSE,
            {"clock"} \cup ({"killed"} \cup {"iret"}))
  BY <1>1, <1>3, PieceCons, MovesTable DEF Closing
<1> HIDE DEF s3
<1>5. Piece(t, s4, "killed", FALSE, FALSE,
            {"killed"} \cup ({"clock"} \cup ({"killed"} \cup {"iret"})))
  BY <1>1, <1>4, PieceCons, MovesTable DEF Closing, WayOut
<1>6. s4 = Clock(c, TRUE)
  BY DEF s1, s2, s3, Clock
<1>7. {"killed"} \cup ({"clock"} \cup ({"killed"} \cup {"iret"})) = {"killed", "clock", "iret"}
  OBVIOUS
<1> QED
  BY <1>5, <1>6, <1>7

-----------------------------------------------------------------------------
(* Locks and the flags of a processor *)

LEMMA FreeIsNoCpu == Free \notin Cpu /\ "ptable" \in Locks /\ "tickslock" \in Locks
BY SmpConstants DEF Free, Cpu, Locks

\* l is held before and not after, or the other way round; the other lock stays.
Drops(l, s, s2) ==
    /\ l = "ptable" => /\ HasTable(s, 1) /\ ~HasTable(s2, 1)
                       /\ HasTicks(s2, 1) <=> HasTicks(s, 1)
    /\ l = "tickslock" => /\ HasTicks(s, 1) /\ ~HasTicks(s2, 1)
                          /\ HasTable(s2, 1) <=> HasTable(s, 1)
Takes(l, s, s2) ==
    /\ l = "ptable" => /\ ~HasTable(s, 1) /\ HasTable(s2, 1)
                       /\ HasTicks(s2, 1) <=> HasTicks(s, 1)
    /\ l = "tickslock" => /\ ~HasTicks(s, 1) /\ HasTicks(s2, 1)
                          /\ HasTable(s2, 1) <=> HasTable(s, 1)

\* pushcli and popcli on the flags of a processor.
LEMMA PushPop ==
    ASSUME NEW cpu \in Flags
    PROVE  /\ pushcli(cpu) \in Flags
           /\ pushcli(cpu).thread = cpu.thread /\ pushcli(cpu).proc = cpu.proc
           /\ pushcli(cpu).ncli = cpu.ncli + 1 /\ ~pushcli(cpu).if
           /\ pushcli(cpu).intena = IF cpu.ncli = 0 THEN cpu.if ELSE cpu.intena
           /\ cpu.ncli # 0 => popcli(cpu) \in Flags
           /\ popcli(cpu).thread = cpu.thread /\ popcli(cpu).proc = cpu.proc
           /\ popcli(cpu).ncli = cpu.ncli - 1
           /\ popcli(cpu).if <=> (cpu.ncli = 1 /\ cpu.intena)
           /\ popcli(cpu).intena = cpu.intena
<1>1. /\ pushcli(cpu).thread = cpu.thread /\ pushcli(cpu).proc = cpu.proc
      /\ pushcli(cpu).ncli = cpu.ncli + 1 /\ ~pushcli(cpu).if
      /\ pushcli(cpu).intena = IF cpu.ncli = 0 THEN cpu.if ELSE cpu.intena
  BY DEF pushcli, Flags
<1>2. /\ popcli(cpu).thread = cpu.thread /\ popcli(cpu).proc = cpu.proc
      /\ popcli(cpu).ncli = cpu.ncli - 1
      /\ popcli(cpu).if <=> (cpu.ncli = 1 /\ cpu.intena)
      /\ popcli(cpu).intena = cpu.intena
  BY DEF popcli, Flags
<1>3. pushcli(cpu) \in Flags
  <2>1. PICK i \in BOOLEAN : i = (IF cpu.ncli = 0 THEN cpu.if ELSE cpu.intena)
    BY DEF Flags
  <2>2. cpu.ncli + 1 \in Nat
    BY DEF Flags
  <2>3. pushcli(cpu) = [cpu EXCEPT !.if = FALSE, !.ncli = cpu.ncli + 1, !.intena = i]
    BY <2>1 DEF pushcli
  <2>4. [cpu EXCEPT !.if = FALSE, !.ncli = cpu.ncli + 1, !.intena = i] \in Flags
    BY <2>2 DEF Flags
  <2> QED
    BY <2>3, <2>4
<1>4. cpu.ncli # 0 => popcli(cpu) \in Flags
  <2> SUFFICES ASSUME cpu.ncli # 0  PROVE popcli(cpu) \in Flags
    OBVIOUS
  <2>1. PICK i \in BOOLEAN : i = (cpu.ncli = 1 /\ cpu.intena)
    OBVIOUS
  <2>2. cpu.ncli - 1 \in Nat
    BY DEF Flags
  <2>3. popcli(cpu) = [cpu EXCEPT !.ncli = cpu.ncli - 1, !.if = i]
    BY <2>1 DEF popcli
  <2>4. [cpu EXCEPT !.ncli = cpu.ncli - 1, !.if = i] \in Flags
    BY <2>2 DEF Flags
  <2> QED
    BY <2>3, <2>4
<1> QED
  BY <1>1, <1>2, <1>3, <1>4

\* The end of a section: what it releases was held, and interrupts were off.
LEMMA LeaveRight ==
    ASSUME NEW c \in Cpu, NEW cpu \in Flags, NEW lk \in [Locks -> Cpu \cup {Free}], NEW s,
           Right(c, s, cpu, lk), NEW l \in Locks, Name(s, 1) \notin {"spin", "intena"}, NEW s2,
           Drops(l, s, s2),
           Name(s2, 1) # "spin", Handling(s) => Handling(s2)
    PROVE  /\ Right(c, s2, popcli(cpu), [lk EXCEPT ![l] = Free])
           /\ lk[l] = c /\ ~cpu.if /\ cpu.ncli # 0 /\ popcli(cpu) \in Flags
<1> /\ l = "ptable" => /\ HasTable(s, 1) /\ ~HasTable(s2, 1)
                       /\ HasTicks(s2, 1) <=> HasTicks(s, 1)
    /\ l = "tickslock" => /\ HasTicks(s, 1) /\ ~HasTicks(s2, 1)
                          /\ HasTable(s2, 1) <=> HasTable(s, 1)
  BY DEF Drops
<1> DEFINE lk2 == [lk EXCEPT ![l] = Free]
<1>1. /\ lk["ptable"] = c <=> HasTable(s, 1)
      /\ lk["tickslock"] = c <=> HasTicks(s, 1)
      /\ cpu.ncli = Count(HasTable(s, 1)) + Count(HasTicks(s, 1)) + 0
      /\ cpu.ncli > 0 => ~cpu.if
  BY DEF Right, Count
<1>2. cpu.ncli \in Nat /\ cpu.intena \in BOOLEAN /\ cpu.if \in BOOLEAN
  BY DEF Flags
<1>3. lk[l] = c /\ cpu.ncli # 0 /\ ~cpu.if
  <2>1. CASE l = "ptable"
    BY <1>1, <1>2, <2>1 DEF Count
  <2>2. CASE l = "tickslock"
    BY <1>1, <1>2, <2>2 DEF Count
  <2> QED
    BY <2>1, <2>2 DEF Locks
<1>4. /\ lk2["ptable"] = c <=> HasTable(s2, 1)
      /\ lk2["tickslock"] = c <=> HasTicks(s2, 1)
  <2>1. CASE l = "ptable"
    BY <1>1, <2>1, FreeIsNoCpu
  <2>2. CASE l = "tickslock"
    BY <1>1, <2>2, FreeIsNoCpu
  <2> QED
    BY <2>1, <2>2 DEF Locks
<1>5. popcli(cpu).ncli = Count(HasTable(s2, 1)) + Count(HasTicks(s2, 1)) + 0
  <2>1. popcli(cpu).ncli = cpu.ncli - 1
    BY PushPop
  <2>2. CASE l = "ptable"
    BY <1>1, <2>1, <2>2 DEF Count
  <2>3. CASE l = "tickslock"
    BY <1>1, <2>1, <2>3 DEF Count
  <2> QED
    BY <2>2, <2>3 DEF Locks
<1>6. popcli(cpu).ncli > 0 => ~popcli(cpu).if
  BY <1>2, PushPop
<1>7. cpu.thread \in Proc /\ ~Handling(s2) => cpu.intena
  BY <1>3 DEF Right
<1>8. cpu.thread \in Proc /\ ~Handling(s2) =>
         IF popcli(cpu).ncli = 0 THEN popcli(cpu).if ELSE popcli(cpu).intena
  BY <1>2, <1>7, PushPop
<1> QED
  BY <1>3, <1>4, <1>5, <1>6, <1>8, PushPop DEF Right, Count

\* acquire of a lock that is free, or in the hands of another processor.
LEMMA AcquireRight ==
    ASSUME NEW c \in Cpu, NEW cpu \in Flags, NEW lk \in [Locks -> Cpu \cup {Free}], NEW s,
           Right(c, s, cpu, lk), NEW l \in Locks, Name(s, 1) = "acquire", NEW s2,
           Takes(l, s, s2), Name(s2, 1) # "spin", Handling(s) => Handling(s2)
    PROVE  /\ lk[l] # c
           /\ Right(c, s2, pushcli(cpu), [lk EXCEPT ![l] = c])
<1> /\ l = "ptable" => /\ ~HasTable(s, 1) /\ HasTable(s2, 1)
                       /\ HasTicks(s2, 1) <=> HasTicks(s, 1)
    /\ l = "tickslock" => /\ ~HasTicks(s, 1) /\ HasTicks(s2, 1)
                          /\ HasTable(s2, 1) <=> HasTable(s, 1)
  BY DEF Takes
<1> DEFINE lk2 == [lk EXCEPT ![l] = c]
<1>1. /\ lk["ptable"] = c <=> HasTable(s, 1)
      /\ lk["tickslock"] = c <=> HasTicks(s, 1)
      /\ cpu.ncli = Count(HasTable(s, 1)) + Count(HasTicks(s, 1)) + 0
      /\ cpu.ncli > 0 => ~cpu.if
      /\ cpu.thread \in Proc /\ ~Handling(s) => IF cpu.ncli = 0 THEN cpu.if ELSE cpu.intena
  BY DEF Right, Count
<1>2. cpu.ncli \in Nat /\ cpu.intena \in BOOLEAN /\ cpu.if \in BOOLEAN
  BY DEF Flags
<1>3. lk[l] # c
  BY <1>1 DEF Locks
<1>4. /\ lk2["ptable"] = c <=> HasTable(s2, 1)
      /\ lk2["tickslock"] = c <=> HasTicks(s2, 1)
  <2>1. CASE l = "ptable"
    BY <1>1, <2>1, FreeIsNoCpu
  <2>2. CASE l = "tickslock"
    BY <1>1, <2>2, FreeIsNoCpu
  <2> QED
    BY <2>1, <2>2 DEF Locks
<1>5. pushcli(cpu).ncli = Count(HasTable(s2, 1)) + Count(HasTicks(s2, 1)) + 0
  <2>1. pushcli(cpu).ncli = cpu.ncli + 1
    BY PushPop
  <2>2. CASE l = "ptable"
    BY <1>1, <2>1, <2>2 DEF Count
  <2>3. CASE l = "tickslock"
    BY <1>1, <2>1, <2>3 DEF Count
  <2> QED
    BY <2>2, <2>3 DEF Locks
<1>6. ~pushcli(cpu).if /\ pushcli(cpu).ncli # 0 /\ pushcli(cpu).thread = cpu.thread
  BY <1>2, PushPop
<1>7. cpu.thread \in Proc /\ ~Handling(s) => pushcli(cpu).intena
  BY <1>1, PushPop
<1>8. Right(c, s2, pushcli(cpu), lk2)
  BY <1>4, <1>5, <1>6, <1>7 DEF Right, Count
<1> QED
  BY <1>3, <1>8

LEMMA SpinsRight ==
    ASSUME NEW c \in Cpu, NEW cpu \in Flags, NEW lk \in [Locks -> Cpu \cup {Free}], NEW s,
           Right(c, s, cpu, lk), Name(s, 1) = "acquire",
           NEW s3, HasTable(s3, 1) <=> HasTable(s, 1), HasTicks(s3, 1) <=> HasTicks(s, 1),
           Name(s3, 1) = "spin", Handling(s) => Handling(s3)
    PROVE  Right(c, s3, pushcli(cpu), lk)
<1>1. /\ lk["ptable"] = c <=> HasTable(s, 1)
      /\ lk["tickslock"] = c <=> HasTicks(s, 1)
      /\ cpu.ncli = Count(HasTable(s, 1)) + Count(HasTicks(s, 1)) + 0
      /\ cpu.ncli > 0 => ~cpu.if
      /\ cpu.thread \in Proc /\ ~Handling(s) => IF cpu.ncli = 0 THEN cpu.if ELSE cpu.intena
  BY DEF Right, Count
<1>2. cpu.ncli \in Nat /\ cpu.intena \in BOOLEAN /\ cpu.if \in BOOLEAN
  BY DEF Flags
<1>3. pushcli(cpu).ncli = Count(HasTable(s3, 1)) + Count(HasTicks(s3, 1)) + 1
  <2>1. pushcli(cpu).ncli = cpu.ncli + 1
    BY PushPop
  <2> QED
    BY <1>1, <2>1 DEF Count
<1>4. ~pushcli(cpu).if /\ pushcli(cpu).ncli # 0 /\ pushcli(cpu).thread = cpu.thread
  BY <1>2, PushPop
<1>5. cpu.thread \in Proc /\ ~Handling(s) => pushcli(cpu).intena
  BY <1>1, PushPop
<1> QED
  BY <1>1, <1>3, <1>4, <1>5 DEF Right, Count

\* The lock that a processor spun for.
LEMMA SpinRight ==
    ASSUME NEW c \in Cpu, NEW cpu \in Flags, NEW lk \in [Locks -> Cpu \cup {Free}], NEW s,
           Right(c, s, cpu, lk), NEW l \in Locks, Name(s, 1) = "spin", NEW s2,
           Takes(l, s, s2),
           Name(s2, 1) # "spin", Handling(s) => Handling(s2)
    PROVE  Right(c, s2, cpu, [lk EXCEPT ![l] = c])
<1> /\ l = "ptable" => /\ ~HasTable(s, 1) /\ HasTable(s2, 1)
                       /\ HasTicks(s2, 1) <=> HasTicks(s, 1)
    /\ l = "tickslock" => /\ ~HasTicks(s, 1) /\ HasTicks(s2, 1)
                          /\ HasTable(s2, 1) <=> HasTable(s, 1)
  BY DEF Takes
<1> DEFINE lk2 == [lk EXCEPT ![l] = c]
<1>1. /\ lk["ptable"] = c <=> HasTable(s, 1)
      /\ lk["tickslock"] = c <=> HasTicks(s, 1)
      /\ cpu.ncli = Count(HasTable(s, 1)) + Count(HasTicks(s, 1)) + 1
      /\ cpu.ncli > 0 => ~cpu.if
      /\ cpu.thread \in Proc /\ ~Handling(s) => IF cpu.ncli = 0 THEN cpu.if ELSE cpu.intena
  BY DEF Right, Count
<1>2. cpu.ncli \in Nat
  BY DEF Flags
<1>3. /\ lk2["ptable"] = c <=> HasTable(s2, 1)
      /\ lk2["tickslock"] = c <=> HasTicks(s2, 1)
  <2>1. CASE l = "ptable"
    BY <1>1, <2>1
  <2>2. CASE l = "tickslock"
    BY <1>1, <2>2
  <2> QED
    BY <2>1, <2>2 DEF Locks
<1>4. cpu.ncli = Count(HasTable(s2, 1)) + Count(HasTicks(s2, 1)) + 0
  <2>1. CASE l = "ptable"
    BY <1>1, <2>1 DEF Count
  <2>2. CASE l = "tickslock"
    BY <1>1, <2>2 DEF Count
  <2> QED
    BY <2>1, <2>2 DEF Locks
<1> QED
  BY <1>1, <1>3, <1>4 DEF Right, Count

\* Nothing but the code changes, which is to be run with the same locks.
LEMMA SameRight ==
    ASSUME NEW c \in Cpu, NEW cpu, NEW lk, NEW s, Right(c, s, cpu, lk), NEW s2,
           HasTable(s, 1) <=> HasTable(s2, 1), HasTicks(s, 1) <=> HasTicks(s2, 1),
           Name(s, 1) # "spin", Name(s2, 1) # "spin",
           cpu.thread \in Proc /\ ~Handling(s2) => ~Handling(s) /\ Name(s, 1) # "intena"
    PROVE  Right(c, s2, cpu, lk)
BY DEF Right, Count

-----------------------------------------------------------------------------
(* What a step does to the invariant, by what it does to the state *)

\* Processor c is left with the flags cpu and its thread with the code s.
Turn(c, cpu, s, lk, f) ==
    /\ cpus' = [cpus EXCEPT ![c] = cpu]
    /\ code' = [code EXCEPT ![T(c)] = s]
    /\ locked' = lk /\ ptable' = f
    /\ scan' \in [Cpu -> 1..NPROC + 1] /\ ticks' \in 0..TICKS - 1
    /\ panic' = panic

Table == [Proc -> Entry]
LockMap == [Locks -> Cpu \cup {Free}]

\* Locks change hands only between c and nobody.
OwnLocks(c, lk) == \A l \in Locks : lk[l] = locked[l] \/ {lk[l], locked[l]} \subseteq {c, Free}

\* No fork is begun, and nobody leaves for good.
Inherits(s, s2) ==
    \A o \in Range(s2) : o[1] \in {"copy", "ready", "zombie exit"} => o \in Range(s)

\* Processes are woken or killed, no more.
Milder(f, g) ==
    \A p \in Proc :
        /\ g[p].state = f[p].state \/ (f[p].state = "SLEEPING" /\ g[p].state = "RUNNABLE")
        /\ g[p].parent = f[p].parent
        /\ g[p].chan = f[p].chan \/ g[p].state # "SLEEPING"
        /\ p = initproc => g[p].killed = f[p].killed

LEMMA ThreadIs ==
    ASSUME IInv, NEW c \in Cpu
    PROVE  /\ T(c) \in Thread /\ cpus[c] \in Flags /\ CodeOf(T(c), code[T(c)])
           /\ Right(c, code[T(c)], cpus[c], locked) /\ cpus[c].thread = T(c)
           /\ T(c) \in Proc => Myproc(c) = T(c) /\ State(T(c)) = "RUNNING"
           /\ T(c) \notin Proc => T(c) = Sched(c) /\ Myproc(c) = NoProc
           /\ cpus \in [Cpu -> Flags] /\ locked \in LockMap /\ ptable \in Table
<1>1. cpus \in [Cpu -> Flags] /\ locked \in LockMap /\ ptable \in Table
  BY DEF IInv, Typed, LockMap, Table
<1>2. cpus[c] \in Flags /\ T(c) \in Thread /\ cpus[c].thread = T(c)
  BY <1>1 DEF Flags, T
<1> QED
  BY <1>1, <1>2 DEF IInv, Codes, Locking, Todo, Running, Runs

\* The processors that a step is not of.
LEMMA Going ==
    ASSUME IInv, NEW c \in Cpu, T(c)' = T(c), Myproc(c)' = Myproc(c),
           \A d \in Cpu \ {c} : cpus'[d] = cpus[d],
           code' = [u \in Thread |-> code'[u]],
           CodeOf(T(c), code'[T(c)]),
           \A u \in Thread \ {T(c)} :
               code'[u] = code[u] \/ (u \in Proc /\ State(u) # "RUNNING" /\ CodeOf(u, code'[u])),
           \A d \in Cpu \ {c}, l \in Locks : locked'[l] = d <=> locked[l] = d,
           Right(c, code'[T(c)], cpus'[c], locked'),
           \A p \in Proc : ptable'[p].state = "RUNNING" <=> State(p) = "RUNNING"
    PROVE  Codes' /\ Running' /\ Idle' /\ Locking'
<1>1. \A d \in Cpu : T(d)' = T(d) /\ Myproc(d)' = Myproc(d)
  BY DEF T, Myproc
<1>2. \A p \in Proc : (State(p) = "RUNNING")' <=> State(p) = "RUNNING"
  BY DEF State
<1>3. Running /\ Codes /\ Idle /\ Locking
  BY DEF IInv
<1>4. \A d \in Cpu : T(d) \in Thread /\ (T(d) \notin Proc => T(d) = Sched(d))
  BY ThreadIs
<1>5. \A d \in Cpu \ {c} : T(d) # T(c)
  BY <1>3 DEF Running
<1>6. \A d \in Cpu \ {c} : code'[T(d)] = code[T(d)]
  BY <1>3, <1>4, <1>5 DEF Running, Runs
<1>7. Running'
  <2>1. \A d \in Cpu : Runs(d)'
    BY <1>1, <1>2, <1>3 DEF Running, Runs
  <2> QED
    BY <1>1, <1>2, <1>3, <2>1 DEF Running
<1>8. Codes'
  <2>1. \A t \in Thread : CodeOf(t, code[t])
    BY <1>3 DEF Codes
  <2>2. \A t \in Thread : CodeOf(t, code'[t])
    BY <2>1
  <2> QED
    BY <2>2 DEF Codes
<1>9. Locking'
  <2> SUFFICES ASSUME NEW d \in Cpu  PROVE Right(d, code'[T(d)], cpus'[d], locked')
    BY <1>1 DEF Locking, Todo
  <2>1. CASE d = c
    BY <2>1
  <2>2. CASE d # c
    <3>1. Right(d, code[T(d)], cpus[d], locked)
      BY <1>3 DEF Locking, Todo
    <3>2. /\ locked'["ptable"] = d <=> locked["ptable"] = d
          /\ locked'["tickslock"] = d <=> locked["tickslock"] = d
      BY <2>2 DEF Locks
    <3> QED
      BY <1>6, <2>2, <3>1, <3>2 DEF Right
  <2> QED
    BY <2>1, <2>2
<1>10. Idle'
  <2> SUFFICES ASSUME NEW d \in Cpu, T(d) # Sched(d)  PROVE Waits(code'[Sched(d)])
    BY <1>1 DEF Idle
  <2>1. Waits(code[Sched(d)])
    BY <1>3 DEF Idle
  <2>2. Sched(d) \in Thread /\ Sched(d) \notin Proc /\ Sched(d) # T(c)
    BY <1>4, SchedNotProc
  <2> QED
    BY <2>1, <2>2
<1> QED
  BY <1>7, <1>8, <1>9, <1>10

\* A thread goes on, alone.
LEMMA Continue ==
    ASSUME IInv, NEW c \in Cpu, NEW cpu \in Flags, NEW s, NEW lk \in LockMap, NEW f \in Table,
           Turn(c, cpu, s, lk, f), cpu.thread = T(c), cpu.proc = Myproc(c),
           OwnLocks(c, lk), Right(c, s, cpu, lk), CodeOf(T(c), s),
           Inherits(code[T(c)], s), Milder(ptable, f)
    PROVE  IInv'
<1> DEFINE t == T(c)
<1>1. /\ t \in Thread /\ cpus \in [Cpu -> Flags] /\ ptable \in Table /\ locked \in LockMap
      /\ t \in Proc => State(t) = "RUNNING"
  BY ThreadIs
<1>2. code = [u \in Thread |-> code[u]] /\ \A u \in Thread : CodeOf(u, code[u])
  BY DEF IInv, Codes
<1> HIDE DEF t
<1>3. /\ code' = [u \in Thread |-> code'[u]] /\ code'[t] = s
      /\ \A u \in Thread \ {t} : code'[u] = code[u]
  <2>1. code' = [code EXCEPT ![t] = s]
    BY DEF Turn, t
  <2> QED
    BY <1>1, <1>2, <2>1
<1>4. /\ cpus' \in [Cpu -> Flags] /\ cpus'[c] = cpu
      /\ \A d \in Cpu \ {c} : cpus'[d] = cpus[d]
  BY <1>1 DEF Turn
<1>5. locked' = lk /\ ptable' = f /\ panic' = "none"
  BY DEF Turn, IInv
<1>6. Typed'
  BY <1>4, <1>5 DEF Typed, Turn, LockMap, Table
<1>7. \A d \in Cpu \ {c}, l \in Locks : locked'[l] = d <=> locked[l] = d
  <2> TAKE d \in Cpu \ {c}, l \in Locks
  <2>1. d # Free
    BY FreeIsNoCpu
  <2> QED
    BY <1>5, <2>1 DEF OwnLocks
<1>8. \A p \in Proc : ptable'[p].state = "RUNNING" <=> State(p) = "RUNNING"
  BY <1>5 DEF Milder, State
<1>9. Codes' /\ Running' /\ Idle' /\ Locking'
  <2>1. T(c)' = T(c) /\ Myproc(c)' = Myproc(c)
    BY <1>4 DEF T, Myproc
  <2>2. CodeOf(T(c), code'[T(c)]) /\ Right(c, code'[T(c)], cpus'[c], locked')
    BY <1>3, <1>4, <1>5 DEF t
  <2>3. \A u \in Thread \ {T(c)} :
           code'[u] = code[u] \/ (u \in Proc /\ State(u) # "RUNNING" /\ CodeOf(u, code'[u]))
    BY <1>3 DEF t
  <2> QED
    BY <1>3, <1>4, <1>7, <1>8, <2>1, <2>2, <2>3, Going
<1>10. Forks'
  <2>1. \A u \in Thread, q \in Proc : /\ Copies(code'[u], q) => Copies(code[u], q)
                                      /\ Readies(code'[u], q) => Readies(code[u], q)
    BY <1>3 DEF Copies, Readies, Inherits, t
  <2>2. \A q \in Proc : /\ State(q) = "EMBRYO" => ptable'[q].state = "EMBRYO"
                        /\ ptable'[q].parent = ptable[q].parent
    BY <1>5 DEF Milder, State
  <2> QED
    BY <2>1, <2>2 DEF Forks, Makes, State, IInv
<1>11. Parked'
  <2> SUFFICES ASSUME NEW p \in Proc  PROVE ParkedAs(f[p].state, code'[p])
    BY <1>5 DEF Parked, State
  <2>1. ParkedAs(ptable[p].state, code[p])
    BY DEF IInv, Parked, State
  <2>2. CASE p = t
    <3>1. f[p].state = "RUNNING" /\ ptable[p].state = "RUNNING"
      BY <1>1, <2>2 DEF Milder, State
    <3>2. ~Left(s)
      BY <2>1, <2>2, <3>1 DEF ParkedAs, Left, Inherits, t
    <3> QED
      BY <1>3, <2>2, <3>1, <3>2 DEF ParkedAs
  <2>3. CASE p # t
    <3>1. code'[p] = code[p]
      BY <1>3, <2>3, InitIsProc
    <3>2. f[p].state = ptable[p].state \/ (ptable[p].state = "SLEEPING" /\ f[p].state = "RUNNABLE")
      BY DEF Milder
    <3> QED
      BY <2>1, <3>1, <3>2 DEF ParkedAs
  <2> QED
    BY <2>2, <2>3
<1>12. Related(ptable')
  <2>1. Related(ptable)
    BY DEF IInv
  <2>2. \A p \in Proc :
           /\ Alive(f[p].state) <=> Alive(ptable[p].state)
           /\ f[p].state = "UNUSED" <=> ptable[p].state = "UNUSED"
           /\ f[p].state = "EMBRYO" <=> ptable[p].state = "EMBRYO"
           /\ f[p].state = "ZOMBIE" <=> ptable[p].state = "ZOMBIE"
           /\ f[p].parent = ptable[p].parent
           /\ f[p].state = "SLEEPING" => ptable[p].state = "SLEEPING" /\ f[p].chan = ptable[p].chan
    BY DEF Milder, Alive
  <2>3. f[initproc].killed = ptable[initproc].killed
    BY InitIsProc DEF Milder
  <2>4. \A p \in Proc : ptable[p].parent \in {NoProc} \cup Proc
    BY <1>1 DEF Table, Entry
  <2>5. Related(f)
    BY <2>1, <2>2, <2>3, <2>4, InitIsProc DEF Related
  <2> QED
    BY <1>5, <2>5
<1> QED
  BY <1>5, <1>6, <1>9, <1>10, <1>11, <1>12 DEF IInv

\* A process gives its processor up, to the scheduler of it.
LEMMA GiveUp ==
    ASSUME IInv, NEW c \in Cpu, T(c) \in Proc, NEW s, NEW f \in Table,
           Turn(c, [cpus[c] EXCEPT !.thread = Sched(c), !.proc = NoProc], s, locked, f),
           Waits(code[T(c)]), Name(code[T(c)], 1) \notin {"spin", "intena"},
           CodeOf(T(c), s), Waits(s), Name(s, 1) = "intena",
           \A q \in Proc : /\ Copies(s, q) => Copies(code[T(c)], q)
                           /\ Readies(s, q) => Readies(code[T(c)], q),
           f[T(c)].state \in {"RUNNABLE", "SLEEPING", "ZOMBIE"},
           Left(s) => f[T(c)].state = "ZOMBIE",
           \A p \in Proc \ {T(c)} :
               f[p].state = State(p) \/ (State(p) = "SLEEPING" /\ f[p].state = "RUNNABLE"),
           \A u \in Thread, q \in Proc :
               Makes(code[u], q) /\ (u = T(c) => Makes(s, q)) => f[q].parent = ptable[q].parent,
           Related(f)
    PROVE  IInv'
<1> DEFINE t == T(c)
           cpu == [cpus[c] EXCEPT !.thread = Sched(c), !.proc = NoProc]
<1>1. /\ t \in Proc /\ t \in Thread /\ cpus \in [Cpu -> Flags] /\ ptable \in Table
      /\ locked \in LockMap /\ State(t) = "RUNNING" /\ t # Sched(c) /\ cpus[c] \in Flags
      /\ Right(c, code[t], cpus[c], locked)
  BY ThreadIs, InitIsProc, SchedNotProc
<1>2. /\ code = [u \in Thread |-> code[u]] /\ \A u \in Thread : CodeOf(u, code[u])
      /\ Running /\ Idle /\ Locking /\ Forks /\ Parked
  BY DEF IInv, Codes
<1>3. cpu \in Flags /\ cpu.thread = Sched(c) /\ cpu.proc = NoProc /\ cpu.ncli = cpus[c].ncli
      /\ cpu.if = cpus[c].if
  BY <1>1, SchedNotProc DEF Flags
<1>4. cpus' = [cpus EXCEPT ![c] = cpu]
  BY DEF Turn
<1>5. code' = [code EXCEPT ![t] = s]
  BY DEF Turn
<1>6. locked' = locked /\ ptable' = f /\ panic' = "none"
  BY DEF Turn, IInv
<1> HIDE DEF t, cpu
<1>7. /\ code' = [u \in Thread |-> code'[u]] /\ code'[t] = s
      /\ \A u \in Thread \ {t} : code'[u] = code[u]
  BY <1>1, <1>2, <1>5
<1>8. cpus' \in [Cpu -> Flags] /\ cpus'[c] = cpu /\ \A d \in Cpu \ {c} : cpus'[d] = cpus[d]
  BY <1>1, <1>3, <1>4
<1>9. Typed'
  BY <1>1, <1>6, <1>8 DEF Typed, Turn, LockMap, Table
<1>10. Codes'
  <2>1. \A u \in Thread : CodeOf(u, code'[u])
    BY <1>2, <1>7 DEF t
  <2> QED
    BY <1>7, <2>1 DEF Codes
<1>11. /\ T(c)' = Sched(c) /\ Myproc(c)' = NoProc
       /\ \A d \in Cpu \ {c} : T(d)' = T(d) /\ Myproc(d)' = Myproc(d)
  BY <1>3, <1>8 DEF T, Myproc
<1>12. \A d \in Cpu \ {c} : /\ T(d) # t /\ T(d) # Sched(c) /\ T(d) \in Thread
                            /\ T(d) \notin Proc => T(d) = Sched(d)
  <2> TAKE d \in Cpu \ {c}
  <2>1. T(d) \in Thread /\ (T(d) \notin Proc => T(d) = Sched(d))
    BY ThreadIs
  <2>2. T(d) # t
    BY <1>2 DEF Running, t
  <2> QED
    BY <2>1, <2>2, SchedNotProc
<1>13. /\ f[t].state \in {"RUNNABLE", "SLEEPING", "ZOMBIE"}
       /\ Left(s) => f[t].state = "ZOMBIE"
       /\ \A p \in Proc \ {t} :
             f[p].state = ptable[p].state \/ (ptable[p].state = "SLEEPING" /\ f[p].state = "RUNNABLE")
  BY DEF State, t
<1>14. Running'
  <2>1. \A d \in Cpu : Runs(d)'
    <3> SUFFICES ASSUME NEW d \in Cpu
                 PROVE  IF T(d)' \in Proc THEN Myproc(d)' = T(d)' /\ f[T(d)'].state = "RUNNING"
                        ELSE T(d)' = Sched(d) /\ Myproc(d)' = NoProc
      BY <1>6 DEF Runs, State
    <3>1. CASE d = c
      BY <1>11, <3>1, SchedNotProc
    <3>2. CASE d # c
      <4>1. Runs(d)
        BY <1>2 DEF Running
      <4> QED
        BY <1>11, <1>12, <1>13, <3>2, <4>1 DEF Runs, State
    <3> QED
      BY <3>1, <3>2
  <2>2. \A d, e \in Cpu : T(d)' = T(e)' => d = e
    <3> TAKE d, e \in Cpu
    <3>1. T(d) = T(e) => d = e
      BY <1>2 DEF Running
    <3> QED
      BY <1>11, <1>12, <3>1
  <2>3. ASSUME NEW p \in Proc, f[p].state = "RUNNING"  PROVE \E d \in Cpu : T(d)' = p
    <3>1. p # t /\ ptable[p].state = "RUNNING"
      BY <1>13, <2>3
    <3>2. PICK d \in Cpu : T(d) = p
      BY <1>2, <3>1 DEF Running, State
    <3>3. d # c
      BY <3>1, <3>2 DEF t
    <3> QED
      BY <1>11, <3>2, <3>3
  <2> QED
    BY <1>6, <2>1, <2>2, <2>3 DEF Running, State
<1>15. Idle'
  <2> SUFFICES ASSUME NEW d \in Cpu, T(d)' # Sched(d)  PROVE Waits(code'[Sched(d)])
    BY DEF Idle
  <2>1. d # c /\ T(d) # Sched(d)
    BY <1>11
  <2>2. Sched(d) # t /\ Sched(d) \in Thread
    BY <1>1, SchedNotProc
  <2> QED
    BY <1>2, <1>7, <2>1, <2>2 DEF Idle
<1>16. Locking'
  <2> SUFFICES ASSUME NEW d \in Cpu  PROVE Right(d, code'[T(d)'], cpus'[d], locked)
    BY <1>6 DEF Locking, Todo
  <2>1. CASE d = c
    <3>1. Waits(code[Sched(c)]) /\ code'[Sched(c)] = code[Sched(c)]
      BY <1>1, <1>2, <1>7, SchedNotProc DEF Idle, t
    <3>2. Waits(code[t]) /\ Name(code[t], 1) # "spin"
      BY DEF t
    <3>3. Name(code[Sched(c)], 1) # "spin"
      BY <3>1 DEF Waits, HasTable, NeedsTable, Name
    <3>4. Sched(c) \notin Proc
      BY SchedNotProc
    <3> HIDE DEF cpu
    <3>5. Right(c, code[Sched(c)], cpu, locked)
      BY <1>1, <1>3, <3>1, <3>2, <3>3, <3>4 DEF Right, Waits, Count
    <3> QED
      BY <1>8, <1>11, <2>1, <3>1, <3>5
  <2>2. CASE d # c
    <3>1. Right(d, code[T(d)], cpus[d], locked)
      BY <1>2 DEF Locking, Todo
    <3> QED
      BY <1>7, <1>8, <1>11, <1>12, <2>2, <3>1
  <2> QED
    BY <2>1, <2>2
<1>17. Forks'
  <2>1. \A u \in Thread, q \in Proc :
           /\ Copies(code'[u], q) => Copies(code[u], q)
           /\ Readies(code'[u], q) => Readies(code[u], q)
           /\ Makes(code'[u], q) => f[q].parent = ptable[q].parent
    <3> TAKE u \in Thread, q \in Proc
    <3>1. /\ Copies(s, q) => Copies(code[t], q)
          /\ Readies(s, q) => Readies(code[t], q)
          /\ Makes(code[u], q) /\ (u = t => Makes(s, q)) => f[q].parent = ptable[q].parent
      BY DEF t
    <3>2. CASE u = t
      BY <1>7, <3>1, <3>2 DEF Makes
    <3>3. CASE u # t
      BY <1>7, <3>1, <3>3 DEF Makes
    <3> QED
      BY <3>2, <3>3
  <2>2. \A q \in Proc : ptable[q].state = "EMBRYO" => f[q].state = "EMBRYO"
    BY <1>1, <1>13 DEF State
  <2> QED
    BY <1>2, <1>6, <2>1, <2>2 DEF Forks, Makes, State
<1>18. Parked'
  <2> SUFFICES ASSUME NEW p \in Proc  PROVE ParkedAs(f[p].state, code'[p])
    BY <1>6 DEF Parked, State
  <2>1. ParkedAs(ptable[p].state, code[p])
    BY <1>2 DEF Parked, State
  <2>2. CASE p = t
    BY <1>7, <1>13, <2>2 DEF ParkedAs
  <2>3. CASE p # t
    <3>1. code'[p] = code[p]
      BY <1>7, <2>3, InitIsProc
    <3> QED
      BY <1>13, <2>1, <2>3, <3>1 DEF ParkedAs
  <2> QED
    BY <2>2, <2>3
<1> QED
  BY <1>6, <1>9, <1>10, <1>14, <1>15, <1>16, <1>17, <1>18 DEF IInv

-----------------------------------------------------------------------------
(* The first operation of the thread that a processor runs *)

LEMMA FirstIs ==
    ASSUME IInv, NEW c \in Cpu, NEW w, At(c, w)
    PROVE  /\ code[T(c)] \in Seq(Op) /\ code[T(c)] # <<>> /\ code[T(c)][1] \in Op
           /\ code[T(c)][1][1] = w /\ Name(code[T(c)], 1) = w
           /\ Arg(c) = code[T(c)][1][2] /\ Head(code[T(c)]) = code[T(c)][1]
           /\ code[T(c)][1] \in Range(code[T(c)])
           /\ May(T(c), w) /\ panic = "none"
<1>1. code[T(c)] # <<>> /\ Head(code[T(c)])[1] = w /\ panic = "none"
  BY DEF At, Todo
<1>2. code[T(c)] \in Seq(Op) /\ \A o \in Range(code[T(c)]) : May(T(c), o[1])
  BY ThreadIs DEF CodeOf
<1>3. Head(code[T(c)]) = code[T(c)][1] /\ code[T(c)][1] \in Op
  BY <1>1, <1>2, HeadIs
<1>4. Name(code[T(c)], 1) = code[T(c)][1][1] /\ code[T(c)][1] \in Range(code[T(c)])
  BY <1>1, <1>2, HeadIs
<1>5. code[T(c)][1][1] = w
  BY <1>1, <1>3
<1>6. May(T(c), w)
  BY <1>2, <1>4, <1>5
<1>7. Arg(c) = code[T(c)][1][2]
  BY <1>3 DEF Arg, Todo
<1> QED
  BY <1>1, <1>2, <1>3, <1>4, <1>5, <1>6, <1>7

\* What it is run with, and what is left when it is done.
LEMMA Behind ==
    ASSUME NEW t, NEW s, CodeOf(t, s), s # <<>>, NEW a \in BOOLEAN, NEW b \in BOOLEAN,
           NEW a1 \in BOOLEAN, NEW b1 \in BOOLEAN, Moves(s[1], Name(Tail(s), 1), a, b, a1, b1)
    PROVE  /\ HasTable(s, 1) <=> a
           /\ HasTicks(s, 1) <=> b
           /\ HasTable(Tail(s), 1) <=> a1
           /\ HasTicks(Tail(s), 1) <=> b1
<1>1. s \in Seq(Op)
  BY DEF CodeOf
<1>2. Name(Tail(s), 1) = Name(s, 1 + 1)
  <2>1. 1 \in Nat \ {0}
    OBVIOUS
  <2> QED
    BY <1>1, <2>1, TailNames
<1>3. 1 \in 1..Len(s)
  BY <1>1, TailNames
<1>4. /\ HasTable(Tail(s), 1) <=> KeepsTable(s, 1)
      /\ HasTicks(Tail(s), 1) <=> KeepsTicks(s, 1)
  BY TailCode
<1> QED
  BY <1>2, <1>3, <1>4 DEF HasTable, HasTicks, KeepsTable, KeepsTicks, Moves

LEMMA TailHandles ==
    ASSUME NEW t, NEW s, CodeOf(t, s), s # <<>>
    PROVE  /\ Handling(s) <=> s[1][1] \in Restoring \/ Handling(Tail(s))
           /\ Inherits(s, Tail(s))
           /\ CodeOf(t, Tail(s)) /\ Tail(s) \in Seq(Op)
           /\ Name(Tail(s), 1) \notin {"spin", "intena"}
<1>1. /\ CodeOf(t, Tail(s)) /\ Range(s) = {s[1]} \cup Range(Tail(s))
      /\ Name(Tail(s), 1) \notin {"spin", "intena"}
  BY TailCode
<1>2. Tail(s) \in Seq(Op)
  BY <1>1 DEF CodeOf
<1>3. Handling(s) <=> s[1][1] \in Restoring \/ Handling(Tail(s))
  BY <1>1 DEF Handling
<1> QED
  BY <1>1, <1>2, <1>3 DEF Inherits

\* A routine is code of its own.
LEMMA PieceCode ==
    ASSUME NEW t, NEW ops, NEW n, NEW a, NEW b, NEW N,
           Piece(t, ops, n, a, b, N)
    PROVE  /\ CodeOf(t, ops)
           /\ HasTable(ops, 1) <=> a
           /\ HasTicks(ops, 1) <=> b
           /\ Name(ops, 1) = n
           /\ \A o \in Range(ops) : o[1] \in N
           /\ Handling(ops) <=> N \cap Restoring # {}
<1>1. /\ ops \in Seq(Op) /\ ops # <<>> /\ Fits(ops) /\ Ends(ops)
      /\ \A k \in 1..Len(ops) : ops[k][1] \notin {"spin", "intena"}
      /\ \A o \in Range(ops) : May(t, o[1])
      /\ Name(ops, 1) = n /\ Names(ops) = N
      /\ HasTable(ops, 1) <=> a
      /\ HasTicks(ops, 1) <=> b
  BY DEF Piece, Routine
<1>2. Fresh(ops)
  BY <1>1 DEF Fresh
<1>3. Restores(ops)
  <2>1. 1 \in 1..Len(ops) /\ Name(ops, 1) = ops[1][1]
    BY <1>1, HeadIs
  <2> QED
    BY <1>1, <2>1 DEF Restores
<1>4. \A o \in Range(ops) : o[1] \in N
  BY <1>1 DEF Names
<1>5. Handling(ops) <=> N \cap Restoring # {}
  BY <1>1 DEF Handling, Names
<1> QED
  BY <1>1, <1>2, <1>3, <1>4, <1>5 DEF CodeOf

\* Code that a handler can be put in front of.
Clear(t, r) == CodeOf(t, r) /\ ~HasTable(r, 1) /\ ~HasTicks(r, 1) /\ Name(r, 1) # "spin"

\* A routine in front of code without locks.
LEMMA PieceThen ==
    ASSUME NEW t, NEW ops, NEW n, NEW a, NEW b, NEW N,
           Piece(t, ops, n, a, b, N), NEW r, Clear(t, r),
           N \cap Closing = {} \/ \A x \in Range(r) : x[1] \in WayOut
    PROVE  /\ CodeOf(t, ops \o r)
           /\ HasTable(ops \o r, 1) <=> a
           /\ HasTicks(ops \o r, 1) <=> b
           /\ Name(ops \o r, 1) = n
           /\ Range(ops \o r) = Range(ops) \cup Range(r)
           /\ \A o \in Range(ops) : o[1] \in N
           /\ Handling(ops \o r) <=> N \cap Restoring # {} \/ Handling(r)
<1>1. /\ Routine(t, ops) /\ Name(ops, 1) = n
      /\ HasTable(ops, 1) <=> a
      /\ HasTicks(ops, 1) <=> b
  BY DEF Piece
<1>2. /\ \A o \in Range(ops) : o[1] \in N
      /\ Handling(ops) <=> N \cap Restoring # {}
  BY PieceCode
<1>3. \A o \in Range(ops), x \in Range(r) : o[1] \in Closing => x[1] \in WayOut
  BY <1>2
<1>4. /\ CodeOf(t, ops \o r)
      /\ HasTable(ops \o r, 1) <=> HasTable(ops, 1)
      /\ HasTicks(ops \o r, 1) <=> HasTicks(ops, 1)
      /\ Name(ops \o r, 1) = Name(ops, 1)
      /\ Range(ops \o r) = Range(ops) \cup Range(r)
  <2>1. CodeOf(t, r) /\ ~HasTable(r, 1) /\ ~HasTicks(r, 1) /\ Name(r, 1) # "spin"
    BY DEF Clear
  <2> QED
    BY <1>1, <1>3, <2>1, ConcatCode
<1>5. Handling(ops \o r) <=> Handling(ops) \/ Handling(r)
  BY <1>4 DEF Handling
<1> QED
  BY <1>1, <1>2, <1>4, <1>5

\* What code u is, that is a routine in front of r.
Ahead(t, u, r, n, a, b, N) ==
    /\ CodeOf(t, u) /\ Name(u, 1) = n
    /\ HasTable(u, 1) <=> a
    /\ HasTicks(u, 1) <=> b
    /\ \A o \in Range(u) : o[1] \in N \/ o \in Range(r)
    /\ Handling(u) <=> N \cap Restoring # {} \/ Handling(r)

LEMMA PieceAhead ==
    ASSUME NEW t, NEW ops, NEW n, NEW a, NEW b, NEW N,
           Piece(t, ops, n, a, b, N), NEW r, Clear(t, r),
           N \cap Closing = {} \/ \A x \in Range(r) : x[1] \in WayOut,
           NEW u, u = ops \o r
    PROVE  Ahead(t, u, r, n, a, b, N)
<1>1. /\ CodeOf(t, ops \o r)
      /\ HasTable(ops \o r, 1) <=> a
      /\ HasTicks(ops \o r, 1) <=> b
      /\ Name(ops \o r, 1) = n
      /\ Range(ops \o r) = Range(ops) \cup Range(r)
      /\ \A o \in Range(ops) : o[1] \in N
      /\ Handling(ops \o r) <=> N \cap Restoring # {} \/ Handling(r)
  BY PieceThen
<1> QED
  BY <1>1 DEF Ahead

\* The code of a thread when its first operation is done.
LEMMA DoneIs ==
    ASSUME IInv, NEW c \in Cpu, code[T(c)] # <<>>
    PROVE  /\ Done(c) => code' = [code EXCEPT ![T(c)] = Tail(code[T(c)])]
           /\ Then(c, <<>>) = [code EXCEPT ![T(c)] = Tail(code[T(c)])]
<1>1. Tail(code[T(c)]) \in Seq(Op)
  BY ThreadIs, TailHandles
<1>2. <<>> \o Tail(code[T(c)]) = Tail(code[T(c)])
  BY <1>1, ConcatEmptySeq
<1> QED
  BY <1>2 DEF Done, Do, Then

-----------------------------------------------------------------------------
(* Sections and switches *)

\* What release refuses does not happen where the locks are right.
LEMMA LeaveIs ==
    ASSUME IInv, NEW c \in Cpu, NEW l \in Locks, NEW s2,
           Name(code[T(c)], 1) \notin {"spin", "intena"},
           Drops(l, code[T(c)], s2),
           Name(s2, 1) # "spin", Handling(code[T(c)]) => Handling(s2),
           NEW table, NEW todo, Leave(c, l, table, todo)
    PROVE  /\ cpus' = [cpus EXCEPT ![c] = popcli(cpus[c])]
           /\ locked' = [locked EXCEPT ![l] = Free]
           /\ ptable' = table /\ code' = todo
           /\ scan' = scan /\ ticks' = ticks /\ panic' = panic
           /\ popcli(cpus[c]) \in Flags
           /\ popcli(cpus[c]).thread = T(c) /\ popcli(cpus[c]).proc = Myproc(c)
           /\ [locked EXCEPT ![l] = Free] \in LockMap
           /\ OwnLocks(c, [locked EXCEPT ![l] = Free])
           /\ Right(c, s2, popcli(cpus[c]), [locked EXCEPT ![l] = Free])
<1>1. /\ cpus[c] \in Flags /\ locked \in LockMap /\ Right(c, code[T(c)], cpus[c], locked)
      /\ cpus[c].thread = T(c)
  BY ThreadIs
<1>2. /\ Right(c, s2, popcli(cpus[c]), [locked EXCEPT ![l] = Free])
      /\ locked[l] = c /\ ~cpus[c].if /\ cpus[c].ncli # 0 /\ popcli(cpus[c]) \in Flags
  <2>1. locked \in [Locks -> Cpu \cup {Free}]
    BY <1>1 DEF LockMap
  <2>2. Name(code[T(c)], 1) \notin {"spin", "intena"} /\ Drops(l, code[T(c)], s2)
    OBVIOUS
  <2>3. Name(s2, 1) # "spin" /\ (Handling(code[T(c)]) => Handling(s2))
    OBVIOUS
  <2> DEFINE s == code[T(c)]
             cpu == cpus[c]
  <2>4. cpu \in Flags /\ Right(c, s, cpu, locked)
    BY <1>1
  <2>5. Name(s, 1) \notin {"spin", "intena"} /\ Drops(l, s, s2)
    BY <2>2
  <2>6. Handling(s) => Handling(s2)
    BY <2>3
  <2> HIDE DEF s, cpu
  <2>7. /\ Right(c, s2, popcli(cpu), [locked EXCEPT ![l] = Free])
        /\ locked[l] = c /\ ~cpu.if /\ cpu.ncli # 0 /\ popcli(cpu) \in Flags
    BY <2>1, <2>3, <2>4, <2>5, <2>6, LeaveRight
  <2> QED
    BY <2>7 DEF s, cpu
<1>3. ReleaseError(c, l) = "none"
  BY <1>2 DEF ReleaseError, holding
<1>4. /\ locked' = [locked EXCEPT ![l] = Free]
      /\ cpus' = [cpus EXCEPT ![c] = popcli(@)]
      /\ ptable' = table
      /\ code' = todo
      /\ scan' = scan /\ ticks' = ticks /\ panic' = panic
  BY <1>3 DEF Leave
<1>5. [locked EXCEPT ![l] = Free] \in LockMap
  BY <1>1 DEF LockMap
<1>6. OwnLocks(c, [locked EXCEPT ![l] = Free])
  BY <1>1, <1>2 DEF OwnLocks, LockMap
<1>7. popcli(cpus[c]).thread = T(c) /\ popcli(cpus[c]).proc = Myproc(c)
  BY <1>1, PushPop DEF Myproc
<1> QED
  BY <1>2, <1>4, <1>5, <1>6, <1>7

\* A section that ends with processes woken or killed, no more.
LEMMA LeaveWith ==
    ASSUME IInv, NEW c \in Cpu, NEW l \in Locks, NEW s2, CodeOf(T(c), s2),
           Name(code[T(c)], 1) \notin {"spin", "intena"},
           Drops(l, code[T(c)], s2),
           Name(s2, 1) # "spin", Handling(code[T(c)]) => Handling(s2),
           Inherits(code[T(c)], s2), NEW f \in Table, Milder(ptable, f),
           Leave(c, l, f, [code EXCEPT ![T(c)] = s2])
    PROVE  IInv'
<1> DEFINE cpu == popcli(cpus[c])
           lk == [locked EXCEPT ![l] = Free]
<1>1. /\ cpus' = [cpus EXCEPT ![c] = cpu] /\ locked' = lk
      /\ ptable' = f /\ code' = [code EXCEPT ![T(c)] = s2]
      /\ scan' = scan /\ ticks' = ticks /\ panic' = panic
      /\ cpu \in Flags /\ cpu.thread = T(c) /\ cpu.proc = Myproc(c)
      /\ lk \in LockMap /\ OwnLocks(c, lk) /\ Right(c, s2, cpu, lk)
  BY LeaveIs
<1> HIDE DEF cpu, lk
<1>2. scan \in [Cpu -> 1..NPROC + 1] /\ ticks \in 0..TICKS - 1
  BY DEF IInv, Typed
<1>3. Turn(c, cpu, s2, lk, f)
  BY <1>1, <1>2 DEF Turn
<1> QED
  BY <1>1, <1>3, Continue

\* The flags of a processor that goes back to its scheduler.
LEMMA SwitchIs ==
    ASSUME cpus \in [Cpu -> Flags], NEW c \in Cpu, NEW t, NEW p
    PROVE  [cpus EXCEPT ![c].thread = t, ![c].proc = p] =
           [cpus EXCEPT ![c] = [cpus[c] EXCEPT !.thread = t, !.proc = p]]
BY DEF Flags

\* What process t is to do when it runs again: r, behind what sched adds.
Comes(t, s, r, next) ==
    /\ CodeOf(t, r) /\ Waits(r) /\ Name(r, 1) # "spin" /\ Name(r, 1) # "intena"
    /\ Handling(s) => Handling(r)
    /\ \A o \in Op : (<<o>> \o next) \o Tail(s) = <<o>> \o r
    /\ \A o \in Range(r) : o[1] \in {"copy", "ready"} => o \in Range(s)

\* The processor goes to its scheduler, and s is left for the process.
Switches(c, s, o, r, f) ==
    /\ Turn(c, [cpus[c] EXCEPT !.thread = Sched(c), !.proc = NoProc], s, locked, f)
    /\ CodeOf(T(c), s) /\ Waits(s) /\ Name(s, 1) = "intena"
    /\ Range(s) = {o} \cup Range(r) /\ o \in Op /\ o[1] = "intena"

\* What sched refuses does not happen either.
LEMMA ReschedIs ==
    ASSUME IInv, NEW c \in Cpu, T(c) \in Proc, Waits(code[T(c)]),
           Name(code[T(c)], 1) \notin {"spin", "intena"},
           NEW f, f[T(c)].state # "RUNNING", NEW next, Resched(c, f, next),
           NEW r, Comes(T(c), code[T(c)], r, next)
    PROVE  \E s, o : Switches(c, s, o, r, f)
<1> DEFINE o == <<"intena", cpus[c].intena>>
           s == <<o>> \o r
<1>20. /\ CodeOf(T(c), r) /\ Waits(r) /\ Name(r, 1) # "spin" /\ Name(r, 1) # "intena"
       /\ Handling(code[T(c)]) => Handling(r)
  BY DEF Comes
<1>1. /\ cpus \in [Cpu -> Flags] /\ cpus[c] \in Flags /\ cpus[c].thread = T(c)
      /\ Right(c, code[T(c)], cpus[c], locked) /\ Myproc(c) = T(c)
  BY ThreadIs
<1>2. locked["ptable"] = c /\ cpus[c].ncli = 1 /\ ~cpus[c].if
  BY <1>1 DEF Right, Waits, Count, Flags
<1>3. Handling(r) \/ cpus[c].intena
  BY <1>1, <1>2, <1>20 DEF Right
<1>4. Refused(c, f) = "none"
  BY <1>1, <1>2 DEF Refused, holding
<1>5. /\ ptable' = f
      /\ cpus' = [cpus EXCEPT ![c].thread = Sched(c), ![c].proc = NoProc]
      /\ code' = [code EXCEPT ![T(c)] = <<<<"intena", cpus[c].intena>>>> \o next \o Tail(code[T(c)])]
      /\ locked' = locked /\ scan' = scan /\ ticks' = ticks /\ panic' = panic
  BY <1>4 DEF Resched
<1>6. scan \in [Cpu -> 1..NPROC + 1] /\ ticks \in 0..TICKS - 1
  BY DEF IInv, Typed
<1>7. cpus' = [cpus EXCEPT ![c] = [cpus[c] EXCEPT !.thread = Sched(c), !.proc = NoProc]]
  BY <1>1, <1>5, SwitchIs
<1>9. o \in Op /\ o[1] = "intena" /\ o[2] = cpus[c].intena
  <2>1. cpus[c].intena \in BOOLEAN
    BY <1>1 DEF Flags
  <2> QED
    BY <2>1, OpIn
<1>8. Turn(c, [cpus[c] EXCEPT !.thread = Sched(c), !.proc = NoProc], s, locked, f)
  <2>1. code' = [code EXCEPT ![T(c)] = (<<o>> \o next) \o Tail(code[T(c)])]
    BY <1>5
  <2> HIDE DEF o
  <2>2. (<<o>> \o next) \o Tail(code[T(c)]) = s
    BY <1>9 DEF Comes
  <2> QED
    BY <1>5, <1>6, <1>7, <2>1, <2>2 DEF Turn
<1> HIDE DEF o
<1>10. r \in Seq(Op)
  BY <1>20 DEF CodeOf
<1>11. /\ s # <<>> /\ Tail(s) = r /\ s[1] = o /\ Name(s, 1) = o[1] /\ s \in Seq(Op)
       /\ Range(s) = {o} \cup Range(r)
  BY <1>9, <1>10, ConsIs
<1>12. Moves(o, Name(r, 1), TRUE, FALSE, TRUE, FALSE)
  BY <1>9, MovesTable
<1>13. Name(s, 1 + 1) = Name(r, 1) /\ 1 \in 1..Len(s)
  <2>1. 1 \in Nat \ {0}
    OBVIOUS
  <2> HIDE DEF s
  <2>2. Len(s) \in Nat /\ Len(s) >= 1
    BY <1>11, TailNames
  <2>3. Name(Tail(s), 1) = Name(s, 1 + 1)
    BY <1>11, <2>1, TailNames
  <2>4. 1 \in 1..Len(s)
    BY <2>2
  <2>5. Tail(s) = r
    BY <1>11
  <2> QED
    BY <2>3, <2>4, <2>5
<1>14. KeepsTable(s, 1) /\ ~KeepsTicks(s, 1)
  BY <1>11, <1>12, <1>13 DEF KeepsTable, KeepsTicks, Moves
<1>15. May(T(c), o[1])
  BY <1>9 DEF May
<1>16. CodeOf(T(c), s)
  BY <1>3, <1>9, <1>14, <1>15, <1>20, ConsCode DEF Waits, Closing
<1>17. Waits(s)
  <2> HIDE DEF s
  <2> QED
    BY <1>11, <1>12, <1>16, Behind DEF Waits
<1>18. Switches(c, s, o, r, f)
  <2> HIDE DEF s
  <2> QED
    BY <1>8, <1>9, <1>11, <1>16, <1>17 DEF Switches
<1> QED
  BY <1>18

-----------------------------------------------------------------------------
(* The actions of spinlock.c *)

\* Only the code of the thread changes, and the flags of its processor.
LEMMA GoOn ==
    ASSUME IInv, NEW c \in Cpu, NEW cpu \in Flags, cpu.thread = T(c), cpu.proc = Myproc(c),
           NEW s, CodeOf(T(c), s), Inherits(code[T(c)], s), Right(c, s, cpu, locked),
           cpus' = [cpus EXCEPT ![c] = cpu], code' = [code EXCEPT ![T(c)] = s],
           locked' = locked, ptable' = ptable, panic' = panic,
           scan' \in [Cpu -> 1..NPROC + 1], ticks' \in 0..TICKS - 1
    PROVE  IInv'
<1>1. locked \in LockMap /\ ptable \in Table
  BY ThreadIs
<1>2. OwnLocks(c, locked) /\ Milder(ptable, ptable)
  BY DEF OwnLocks, Milder
<1>3. Turn(c, cpu, s, locked, ptable)
  BY DEF Turn
<1> QED
  BY <1>1, <1>2, <1>3, Continue

\* Only the code changes, and is run with the same locks.
LEMMA GoOnSame ==
    ASSUME IInv, NEW c \in Cpu, NEW s, CodeOf(T(c), s), Inherits(code[T(c)], s),
           HasTable(code[T(c)], 1) <=> HasTable(s, 1), HasTicks(code[T(c)], 1) <=> HasTicks(s, 1),
           Name(code[T(c)], 1) \notin {"spin", "intena"}, Name(s, 1) # "spin",
           T(c) \in Proc /\ ~Handling(s) => ~Handling(code[T(c)]),
           code' = [code EXCEPT ![T(c)] = s],
           cpus' = cpus, locked' = locked, ptable' = ptable, panic' = panic,
           scan' = scan, ticks' \in 0..TICKS - 1
    PROVE  IInv'
<1>1. /\ cpus[c] \in Flags /\ cpus[c].thread = T(c) /\ cpus \in [Cpu -> Flags]
      /\ Right(c, code[T(c)], cpus[c], locked)
  BY ThreadIs
<1>2. cpus[c].proc = Myproc(c)
  BY DEF Myproc
<1>3. Right(c, s, cpus[c], locked)
  <2> DEFINE u == code[T(c)]
  <2>1. /\ Right(c, u, cpus[c], locked)
        /\ HasTable(u, 1) <=> HasTable(s, 1)
        /\ HasTicks(u, 1) <=> HasTicks(s, 1)
        /\ Name(u, 1) # "spin" /\ Name(u, 1) # "intena"
        /\ cpus[c].thread \in Proc /\ ~Handling(s) => ~Handling(u)
    BY <1>1
  <2> HIDE DEF u
  <2> QED
    BY <2>1, SameRight
<1>4. cpus' = [cpus EXCEPT ![c] = cpus[c]]
  BY <1>1
<1>5. scan' \in [Cpu -> 1..NPROC + 1]
  BY DEF IInv, Typed
<1> QED
  BY <1>1, <1>2, <1>3, <1>4, <1>5, GoOn

LEMMA TakesIs ==
    ASSUME NEW t, NEW s, CodeOf(t, s), s # <<>>, s[1] \in Op, NEW l \in Locks,
           s[1][1] \in {"acquire", "spin"}, s[1][2] = l
    PROVE  /\ Takes(l, s, Tail(s))
           /\ Handling(s) => Handling(Tail(s))
           /\ \E a, b, a1, b1 \in BOOLEAN :
                 /\ \A o \in Op : o[1] \in {"acquire", "spin"} /\ o[2] = l =>
                       Moves(o, Name(Tail(s), 1), a, b, a1, b1)
                 /\ HasTable(s, 1) <=> a
                 /\ HasTicks(s, 1) <=> b
                 /\ HasTable(Tail(s), 1) <=> a1
                 /\ HasTicks(Tail(s), 1) <=> b1
<1> DEFINE n == Name(Tail(s), 1)
<1>1. PICK a, b, a1, b1 \in BOOLEAN :
         /\ \A o \in Op : o[1] \in {"acquire", "spin"} /\ o[2] = l => Moves(o, n, a, b, a1, b1)
         /\ l = "ptable" => ~a /\ a1 /\ (b1 <=> b)
         /\ l = "tickslock" => ~b /\ b1 /\ (a1 <=> a)
  <2>1. CASE l = "tickslock"
    <3>1. \A o \in Op : o[1] \in {"acquire", "spin"} /\ o[2] = l => Moves(o, n, FALSE, FALSE, FALSE, TRUE)
      BY <2>1, MovesTable
    <3> QED
      BY <2>1, <3>1
  <2>2. CASE l = "ptable" /\ n \in {"wakeup1", "release"}
    <3>1. \A o \in Op : o[1] \in {"acquire", "spin"} /\ o[2] = l => Moves(o, n, FALSE, TRUE, TRUE, TRUE)
      BY <2>2, MovesTable
    <3> QED
      BY <2>2, <3>1
  <2>3. CASE l = "ptable" /\ n \notin {"wakeup1", "release"}
    <3>1. \A o \in Op : o[1] \in {"acquire", "spin"} /\ o[2] = l => Moves(o, n, FALSE, FALSE, TRUE, FALSE)
      BY <2>3, MovesTable
    <3> QED
      BY <2>3, <3>1
  <2> QED
    BY <2>1, <2>2, <2>3 DEF Locks
<1>2. Moves(s[1], n, a, b, a1, b1)
  BY <1>1
<1> HIDE DEF n
<1>3. /\ HasTable(s, 1) <=> a
      /\ HasTicks(s, 1) <=> b
      /\ HasTable(Tail(s), 1) <=> a1
      /\ HasTicks(Tail(s), 1) <=> b1
  BY <1>2, Behind DEF n
<1>4. Takes(l, s, Tail(s))
  BY <1>1, <1>3 DEF Takes
<1>5. Handling(s) => Handling(Tail(s))
  BY TailHandles DEF Restoring
<1> QED
  BY <1>1, <1>3, <1>4, <1>5 DEF n

\* u is o and then r.
Consed(u, o, r) ==
    /\ u # <<>> /\ Tail(u) = r /\ u[1] = o /\ Name(u, 1) = o[1] /\ u \in Seq(Op)
    /\ Range(u) = {o} \cup Range(r)
    /\ Name(u, 1 + 1) = Name(r, 1) /\ 1 \in 1..Len(u)

LEMMA ConsNames ==
    ASSUME NEW o \in Op, NEW r \in Seq(Op), NEW u, u = Cons(o, r)
    PROVE  Consed(u, o, r)
<1>1. /\ u # <<>> /\ Tail(u) = r /\ u[1] = o /\ Name(u, 1) = o[1] /\ u \in Seq(Op)
      /\ Range(u) = {o} \cup Range(r)
  <2>1. /\ <<o>> \o r \in Seq(Op) /\ <<o>> \o r # <<>>
        /\ Tail(<<o>> \o r) = r /\ (<<o>> \o r)[1] = o
        /\ Name(<<o>> \o r, 1) = o[1]
        /\ Range(<<o>> \o r) = {o} \cup Range(r)
    BY ConsIs
  <2>2. u = <<o>> \o r
    BY DEF Cons
  <2> QED
    BY <2>1, <2>2, Zenon
<1>2. Name(Tail(u), 1) = Name(u, 1 + 1)
  <2>1. 1 \in Nat \ {0}
    OBVIOUS
  <2> QED
    BY <1>1, <2>1, TailNames
<1>3. Len(u) \in Nat /\ Len(u) >= 1
  BY <1>1, HeadIs
<1>4. 1 \in 1..Len(u)
  BY <1>3
<1> QED
  BY <1>1, <1>2, <1>4 DEF Consed

\* An operation o can be put in front of the code r.
Fronts(t, o, r) ==
    /\ CodeOf(t, r) /\ Name(r, 1) \notin {"spin", "intena"}
    /\ May(t, o[1])
    /\ o[1] \in Closing => \A x \in Range(r) : x[1] \in WayOut
    /\ t \in Proc /\ o[1] = "intena" => Handling(r) \/ o[2]
    /\ HasTable(r, 1) <=> LeavesTable(o, Name(r, 1))
    /\ HasTicks(r, 1) <=> LeavesTicks(o, Name(r, 1))

\* What u is when o is put in front of r.
Fronted(t, u, o, r) ==
    /\ CodeOf(t, u) /\ Name(u, 1) = o[1] /\ Range(u) = {o} \cup Range(r)
    /\ HasTable(u, 1) <=> NeedsTable(o, Name(r, 1))
    /\ HasTicks(u, 1) <=> NeedsTicks(o, Name(r, 1))

LEMMA HeadCode ==
    ASSUME NEW t, NEW r, NEW o \in Op, Fronts(t, o, r), NEW u, u = Cons(o, r)
    PROVE  Fronted(t, u, o, r)
<1>1. r \in Seq(Op)
  BY DEF Fronts, CodeOf
<1>2. Consed(u, o, r)
  BY <1>1, ConsNames
<1>3. /\ KeepsTable(u, 1) <=> LeavesTable(o, Name(r, 1))
      /\ KeepsTicks(u, 1) <=> LeavesTicks(o, Name(r, 1))
      /\ HasTable(u, 1) <=> NeedsTable(o, Name(r, 1))
      /\ HasTicks(u, 1) <=> NeedsTicks(o, Name(r, 1))
  BY <1>2 DEF Consed, KeepsTable, KeepsTicks, HasTable, HasTicks
<1>4. CodeOf(t, u)
  <2>1. u = <<o>> \o r
    BY DEF Cons
  <2>2. /\ HasTable(r, 1) <=> KeepsTable(<<o>> \o r, 1)
        /\ HasTicks(r, 1) <=> KeepsTicks(<<o>> \o r, 1)
    BY <1>3, <2>1 DEF Fronts
  <2>3. CodeOf(t, <<o>> \o r)
    BY <2>2, ConsCode DEF Fronts
  <2> QED
    BY <2>1, <2>3
<1> QED
  BY <1>2, <1>3, <1>4 DEF Consed, Fronted

\* What spins for a lock has it to take still.
LEMMA SpinCode ==
    ASSUME NEW t, NEW s, CodeOf(t, s), s # <<>>, s[1] \in Op, NEW l \in Locks,
           s[1][1] = "acquire", s[1][2] = l,
           NEW o \in Op, o[1] = "spin", o[2] = l, NEW u, u = Cons(o, Tail(s))
    PROVE  /\ CodeOf(t, u) /\ Name(u, 1) = "spin"
           /\ HasTable(u, 1) <=> HasTable(s, 1)
           /\ HasTicks(u, 1) <=> HasTicks(s, 1)
           /\ Inherits(s, u)
           /\ Handling(s) => Handling(u)
<1>1. /\ Inherits(s, Tail(s)) /\ CodeOf(t, Tail(s)) /\ Name(Tail(s), 1) \notin {"spin", "intena"}
  BY TailHandles
<1>2. PICK a, b, a1, b1 \in BOOLEAN :
         /\ Moves(o, Name(Tail(s), 1), a, b, a1, b1)
         /\ HasTable(s, 1) <=> a
         /\ HasTicks(s, 1) <=> b
         /\ HasTable(Tail(s), 1) <=> a1
         /\ HasTicks(Tail(s), 1) <=> b1
  BY TakesIs
<1>3. May(t, o[1])
  BY DEF May, SchedOps
<1>4. Handling(s) => Handling(Tail(s))
  BY TakesIs
<1>5. Fronts(t, o, Tail(s))
  <2>1. /\ HasTable(Tail(s), 1) <=> LeavesTable(o, Name(Tail(s), 1))
        /\ HasTicks(Tail(s), 1) <=> LeavesTicks(o, Name(Tail(s), 1))
    BY <1>2 DEF Moves
  <2> QED
    BY <1>1, <1>3, <2>1 DEF Fronts, Closing
<1>6. Fronted(t, u, o, Tail(s))
  BY <1>5, HeadCode
<1>7. /\ HasTable(u, 1) <=> HasTable(s, 1)
      /\ HasTicks(u, 1) <=> HasTicks(s, 1)
  BY <1>2, <1>6 DEF Fronted, Moves
<1>8. Handling(s) => Handling(u)
  BY <1>4, <1>6 DEF Handling, Fronted
<1>9. Inherits(s, u)
  BY <1>1, <1>6 DEF Inherits, Fronted
<1> QED
  BY <1>6, <1>7, <1>8, <1>9 DEF Fronted

\* acquire never finds the lock in its own hands.
LEMMA AcquireStep ==
    ASSUME IInv, NEW c \in Cpu, AcquireLock(c)
    PROVE  IInv'
<1> DEFINE s == code[T(c)]
           l == Arg(c)
           cpu == cpus[c]
           o == <<"spin", l>>
           u == Cons(o, Tail(s))
           lk == [locked EXCEPT ![l] = c]
<1>1. At(c, "acquire")
  BY DEF AcquireLock
<1>2. /\ s # <<>> /\ s[1] \in Op /\ s[1][1] = "acquire" /\ s[1][2] = l
      /\ Name(s, 1) = "acquire"
  BY <1>1, FirstIs
<1>3. l \in Locks
  BY <1>2, OpParts
<1>4. /\ cpu \in Flags /\ locked \in LockMap /\ CodeOf(T(c), s) /\ Right(c, s, cpu, locked)
      /\ cpu.thread = T(c) /\ cpu.proc = Myproc(c) /\ cpus \in [Cpu -> Flags]
  BY ThreadIs DEF Myproc
<1>5. o \in Op /\ o[1] = "spin" /\ o[2] = l
  BY <1>3, OpIn
<1>6. Inherits(s, Tail(s)) /\ CodeOf(T(c), Tail(s)) /\ Name(Tail(s), 1) # "spin"
  BY <1>2, <1>4, TailHandles
<1>7. /\ Takes(l, s, Tail(s))
      /\ Handling(s) => Handling(Tail(s))
  BY <1>2, <1>3, <1>4, TakesIs
<1>8. IF locked[l] = c THEN Panic("acquire")
      ELSE /\ cpus' = [cpus EXCEPT ![c] = pushcli(cpu)]
           /\ IF locked[l] = Free THEN locked' = lk /\ Done(c)
              ELSE Do(c, <<o>>) /\ locked' = locked
           /\ ptable' = ptable /\ scan' = scan /\ ticks' = ticks /\ panic' = panic
  BY DEF AcquireLock, holding
<1>9. Done(c) => code' = [code EXCEPT ![T(c)] = Tail(s)]
  BY <1>2, DoneIs
<1>10. Do(c, <<o>>) => code' = [code EXCEPT ![T(c)] = u]
  BY DEF Do, Cons
<1> HIDE DEF s, l, cpu, o, u
<1>11. /\ CodeOf(T(c), u) /\ Name(u, 1) = "spin"
       /\ HasTable(u, 1) <=> HasTable(s, 1)
       /\ HasTicks(u, 1) <=> HasTicks(s, 1)
       /\ Inherits(s, u)
       /\ Handling(s) => Handling(u)
  <2>1. u = Cons(o, Tail(s))
    BY DEF u
  <2> QED
    BY <1>2, <1>3, <1>4, <1>5, <2>1, SpinCode
<1>12. /\ locked[l] # c
       /\ Right(c, Tail(s), pushcli(cpu), lk)
       /\ Right(c, u, pushcli(cpu), locked)
  <2>1. locked \in [Locks -> Cpu \cup {Free}]
    BY <1>4 DEF LockMap
  <2>2. Right(c, Tail(s), pushcli(cpu), lk)
    BY <1>2, <1>3, <1>4, <1>6, <1>7, <2>1, AcquireRight
  <2>4. locked[l] # c
    BY <1>2, <1>3, <1>4, <1>6, <1>7, <2>1, AcquireRight
  <2>3. Right(c, u, pushcli(cpu), locked)
    BY <1>2, <1>4, <1>11, <2>1, SpinsRight
  <2> QED
    BY <2>2, <2>3, <2>4
<1>13. /\ pushcli(cpu) \in Flags /\ pushcli(cpu).thread = T(c) /\ pushcli(cpu).proc = Myproc(c)
  BY <1>4, PushPop
<1>14. scan' \in [Cpu -> 1..NPROC + 1] /\ ticks' \in 0..TICKS - 1
  BY <1>8, <1>12 DEF IInv, Typed
<1>15. CASE locked[l] = Free
  <2>1. lk \in LockMap
    BY <1>3, <1>4 DEF LockMap
  <2>2. OwnLocks(c, lk)
    BY <1>3, <1>4, <1>15 DEF OwnLocks, LockMap
  <2>3. ptable \in Table /\ Milder(ptable, ptable)
    BY ThreadIs DEF Milder
  <2>4. Turn(c, pushcli(cpu), Tail(s), lk, ptable)
    BY <1>8, <1>9, <1>12, <1>14, <1>15 DEF Turn
  <2>5. Inherits(code[T(c)], Tail(s))
    BY <1>6 DEF s
  <2> HIDE DEF lk
  <2> QED
    BY <1>6, <1>12, <1>13, <2>1, <2>2, <2>3, <2>4, <2>5, Continue
<1>16. CASE locked[l] # Free
  <2>1. Inherits(code[T(c)], u)
    BY <1>11 DEF s
  <2> QED
    BY <1>8, <1>10, <1>11, <1>12, <1>13, <1>14, <1>16, <2>1, GoOn
<1> QED
  BY <1>15, <1>16

LEMMA SpinStep ==
    ASSUME IInv, NEW c \in Cpu, Spin(c)
    PROVE  IInv'
<1> DEFINE s == code[T(c)]
           l == Arg(c)
           cpu == cpus[c]
           lk == [locked EXCEPT ![l] = c]
<1>1. At(c, "spin")
  BY DEF Spin
<1>2. /\ s # <<>> /\ s[1] \in Op /\ s[1][1] = "spin" /\ s[1][2] = l
      /\ Name(s, 1) = "spin"
  BY <1>1, FirstIs
<1>3. l \in Locks
  BY <1>2, OpParts
<1>4. /\ cpu \in Flags /\ locked \in LockMap /\ CodeOf(T(c), s) /\ Right(c, s, cpu, locked)
      /\ cpu.thread = T(c) /\ cpu.proc = Myproc(c) /\ cpus \in [Cpu -> Flags]
  BY ThreadIs DEF Myproc
<1>5. Inherits(s, Tail(s)) /\ CodeOf(T(c), Tail(s)) /\ Name(Tail(s), 1) # "spin"
  BY <1>2, <1>4, TailHandles
<1>6. /\ Takes(l, s, Tail(s))
      /\ Handling(s) => Handling(Tail(s))
  BY <1>2, <1>3, <1>4, TakesIs
<1>7. /\ locked[l] = Free /\ locked' = lk /\ Done(c)
      /\ cpus' = cpus /\ ptable' = ptable /\ scan' = scan /\ ticks' = ticks /\ panic' = panic
  BY DEF Spin
<1>8. code' = [code EXCEPT ![T(c)] = Tail(s)]
  BY <1>2, <1>7, DoneIs
<1> HIDE DEF s, l, cpu
<1>9. Right(c, Tail(s), cpu, lk)
  <2>1. locked \in [Locks -> Cpu \cup {Free}]
    BY <1>4 DEF LockMap
  <2> QED
    BY <1>2, <1>3, <1>4, <1>5, <1>6, <2>1, SpinRight
<1>10. scan' \in [Cpu -> 1..NPROC + 1] /\ ticks' \in 0..TICKS - 1
  BY <1>7 DEF IInv, Typed
<1>11. lk \in LockMap
  BY <1>3, <1>4 DEF LockMap
<1>12. OwnLocks(c, lk)
  BY <1>3, <1>4, <1>7 DEF OwnLocks, LockMap
<1>13. ptable \in Table /\ Milder(ptable, ptable)
  BY ThreadIs DEF Milder
<1>14. cpus' = [cpus EXCEPT ![c] = cpu]
  BY <1>4, <1>7 DEF cpu
<1>15. Turn(c, cpu, Tail(s), lk, ptable)
  BY <1>7, <1>8, <1>10, <1>14 DEF Turn
<1>16. Inherits(code[T(c)], Tail(s))
  BY <1>5 DEF s
<1> HIDE DEF lk
<1> QED
  BY <1>4, <1>5, <1>9, <1>11, <1>12, <1>13, <1>15, <1>16, Continue

\* Behind a release the other lock stays.
LEMMA DropsIs ==
    ASSUME NEW t, NEW s, CodeOf(t, s), s # <<>>, s[1] \in Op, NEW l \in Locks,
           s[1][1] = "release", s[1][2] = l
    PROVE  Drops(l, s, Tail(s))
<1> DEFINE n == Name(Tail(s), 1)
<1>1. CASE l = "ptable"
  <2>1. Moves(s[1], n, TRUE, FALSE, FALSE, FALSE)
    BY <1>1, MovesTable
  <2>2. HasTable(s, 1) /\ ~HasTicks(s, 1) /\ ~HasTable(Tail(s), 1) /\ ~HasTicks(Tail(s), 1)
    BY <2>1, Behind
  <2> QED
    BY <1>1, <2>2 DEF Drops
<1>2. CASE l = "tickslock" /\ n = "sleep"
  <2>1. Moves(s[1], n, TRUE, TRUE, TRUE, FALSE)
    BY <1>2, MovesTable
  <2>2. HasTable(s, 1) /\ HasTicks(s, 1) /\ HasTable(Tail(s), 1) /\ ~HasTicks(Tail(s), 1)
    BY <2>1, Behind
  <2> QED
    BY <1>2, <2>2 DEF Drops
<1>3. CASE l = "tickslock" /\ n # "sleep"
  <2>1. Moves(s[1], n, FALSE, TRUE, FALSE, FALSE)
    BY <1>3, MovesTable
  <2>2. ~HasTable(s, 1) /\ HasTicks(s, 1) /\ ~HasTable(Tail(s), 1) /\ ~HasTicks(Tail(s), 1)
    BY <2>1, Behind
  <2> QED
    BY <1>3, <2>2 DEF Drops
<1> QED
  BY <1>1, <1>2, <1>3 DEF Locks

\* A section whose last operation is done.
LEMMA LeaveTail ==
    ASSUME IInv, NEW c \in Cpu, code[T(c)] # <<>>, NEW l \in Locks,
           Name(code[T(c)], 1) \notin {"spin", "intena"} \cup Restoring,
           Drops(l, code[T(c)], Tail(code[T(c)])), NEW f \in Table, Milder(ptable, f),
           Leave(c, l, f, Then(c, <<>>))
    PROVE  IInv'
<1> DEFINE s == code[T(c)]
<1>1. CodeOf(T(c), s) /\ s \in Seq(Op)
  BY ThreadIs DEF CodeOf
<1>2. s # <<>> /\ Name(s, 1) \notin {"spin", "intena"} /\ s[1][1] \notin Restoring
  <2>1. Name(s, 1) = s[1][1]
    BY <1>1, HeadIs
  <2> QED
    BY <2>1
<1>3. Then(c, <<>>) = [code EXCEPT ![T(c)] = Tail(s)]
  BY DoneIs
<1>4. /\ Inherits(s, Tail(s)) /\ CodeOf(T(c), Tail(s)) /\ Name(Tail(s), 1) # "spin"
      /\ Handling(s) => Handling(Tail(s))
  BY <1>1, <1>2, TailHandles
<1>5. Leave(c, l, f, [code EXCEPT ![T(c)] = Tail(s)])
  BY <1>3
<1> QED
  BY <1>2, <1>4, <1>5, LeaveWith

LEMMA ReleaseStep ==
    ASSUME IInv, NEW c \in Cpu, ReleaseLock(c)
    PROVE  IInv'
<1> DEFINE s == code[T(c)]
           l == Arg(c)
<1>1. At(c, "release")
  BY DEF ReleaseLock
<1>2. /\ s # <<>> /\ s[1] \in Op /\ s[1][1] = "release" /\ s[1][2] = l
      /\ Name(s, 1) = "release"
  BY <1>1, FirstIs
<1>3. l \in Locks /\ CodeOf(T(c), s)
  BY <1>2, OpParts, ThreadIs
<1>4. Drops(l, s, Tail(s))
  BY <1>2, <1>3, DropsIs
<1>5. Leave(c, l, ptable, Then(c, <<>>))
  BY DEF ReleaseLock
<1>6. ptable \in Table /\ Milder(ptable, ptable)
  BY ThreadIs DEF Milder
<1>7. Name(s, 1) \notin {"spin", "intena"} \cup Restoring
  BY <1>2 DEF Restoring
<1> HIDE DEF l
<1> QED
  BY <1>2, <1>3, <1>4, <1>5, <1>6, <1>7, LeaveTail

-----------------------------------------------------------------------------
(* Steps that wake or kill, and steps of the clock *)

\* wakeup1 changes the state of those that sleep on the channel.
LEMMA WakeIs ==
    ASSUME NEW f \in Table, NEW chan
    PROVE  /\ wakeup1(f, chan) \in Table /\ Milder(f, wakeup1(f, chan))
           /\ \A p \in Proc :
                 /\ wakeup1(f, chan)[p].chan = f[p].chan
                 /\ wakeup1(f, chan)[p].killed = f[p].killed
                 /\ wakeup1(f, chan)[p].parent = f[p].parent
                 /\ wakeup1(f, chan)[p].state =
                       IF f[p].state = "SLEEPING" /\ f[p].chan = chan THEN "RUNNABLE" ELSE f[p].state
<1> DEFINE g == wakeup1(f, chan)
<1>1. \A p \in Proc : f[p] \in Entry
  BY DEF Table
<1>2. \A p \in Proc :
         /\ g[p] \in Entry /\ g[p].chan = f[p].chan /\ g[p].killed = f[p].killed
         /\ g[p].parent = f[p].parent
         /\ g[p].state = IF f[p].state = "SLEEPING" /\ f[p].chan = chan THEN "RUNNABLE"
                         ELSE f[p].state
  <2> TAKE p \in Proc
  <2>1. g[p] = IF f[p].state = "SLEEPING" /\ f[p].chan = chan
               THEN [f[p] EXCEPT !.state = "RUNNABLE"] ELSE f[p]
    BY DEF wakeup1
  <2> QED
    BY <1>1, <2>1 DEF Entry, PState
<1>3. g = [p \in Proc |-> g[p]]
  BY DEF wakeup1
<1> HIDE DEF g
<1>4. g \in Table /\ Milder(f, g)
  BY <1>2, <1>3 DEF Table, Milder
<1> QED
  BY <1>2, <1>4 DEF g

\* wakeup ends with the other lock.
LEMMA WakeStep ==
    ASSUME IInv, NEW c \in Cpu, WakeAll(c)
    PROVE  IInv'
<1> DEFINE s == code[T(c)]
           f == wakeup1(ptable, Arg(c))
<1>1. At(c, "wakeup1") /\ Leave(c, "ptable", f, Then(c, <<>>))
  BY DEF WakeAll
<1>2. s # <<>> /\ s[1][1] = "wakeup1" /\ Name(s, 1) = "wakeup1" /\ CodeOf(T(c), s)
  BY <1>1, FirstIs, ThreadIs
<1>3. Moves(s[1], Name(Tail(s), 1), TRUE, TRUE, FALSE, TRUE)
  BY <1>2, MovesTable
<1>4. Drops("ptable", s, Tail(s))
  BY <1>2, <1>3, Behind DEF Drops
<1>5. f \in Table /\ Milder(ptable, f)
  BY ThreadIs, WakeIs
<1>6. Name(s, 1) \notin {"spin", "intena"} \cup Restoring
  BY <1>2 DEF Restoring
<1> HIDE DEF f
<1> QED
  BY <1>1, <1>2, <1>4, <1>5, <1>6, FreeIsNoCpu, LeaveTail

Marked(e, e2, k, st) == e2 = [e EXCEPT !.killed = k, !.state = st]

LEMMA EntryIs ==
    ASSUME NEW e \in Entry, NEW k \in BOOLEAN, NEW st \in PState, NEW e2, Marked(e, e2, k, st)
    PROVE  e2 \in Entry /\ e2.state = st /\ e2.parent = e.parent /\ e2.chan = e.chan
BY DEF Entry, Marked

\* kill of a process that is not init wakes it at most.
LEMMA KillIs ==
    ASSUME NEW f \in Table, NEW p \in Proc \ {initproc}, NEW g,
           g = [f EXCEPT ![p].killed = TRUE,
                         ![p].state = IF @ = "SLEEPING" THEN "RUNNABLE" ELSE @]
    PROVE  g \in Table /\ Milder(f, g)
<1>1. \A q \in Proc : f[q] \in Entry
  BY DEF Table
<1>2. PICK st \in PState : st = (IF f[p].state = "SLEEPING" THEN "RUNNABLE" ELSE f[p].state)
  BY <1>1 DEF Entry, PState
<1>7. PICK k \in BOOLEAN : k = TRUE
  OBVIOUS
<1> DEFINE e == f[p]
           e2 == [e EXCEPT !.killed = k, !.state = st]
<1>3. g = [f EXCEPT ![p] = e2]
  BY <1>1, <1>2, <1>7 DEF Table, Entry
<1>8. e \in Entry /\ Marked(e, e2, k, st)
  BY <1>1 DEF Marked
<1> HIDE DEF e, e2
<1>4. e2 \in Entry /\ e2.state = st /\ e2.parent = e.parent /\ e2.chan = e.chan
  BY <1>8, EntryIs
<1>5. g \in Table
  BY <1>3, <1>4 DEF Table
<1>6. /\ g[p].state = st /\ g[p].parent = f[p].parent /\ g[p].chan = f[p].chan
      /\ \A q \in Proc \ {p} : g[q] = f[q]
  BY <1>3, <1>4 DEF Table, e
<1> QED
  BY <1>2, <1>5, <1>6 DEF Milder

LEMMA KillStep ==
    ASSUME IInv, NEW c \in Cpu, KillProc(c)
    PROVE  IInv'
<1> DEFINE s == code[T(c)]
<1>1. At(c, "kill")
  BY DEF KillProc
<1>2. s # <<>> /\ s[1][1] = "kill" /\ Name(s, 1) = "kill" /\ CodeOf(T(c), s)
  BY <1>1, FirstIs, ThreadIs
<1>3. Moves(s[1], Name(Tail(s), 1), TRUE, FALSE, FALSE, FALSE)
  BY <1>2, MovesTable
<1>4. Drops("ptable", s, Tail(s))
  BY <1>2, <1>3, Behind DEF Drops
<1>5. ptable \in Table /\ Milder(ptable, ptable)
  BY ThreadIs DEF Milder
<1>6. PICK f \in Table : Milder(ptable, f) /\ Leave(c, "ptable", f, Then(c, <<>>))
  <2>1. CASE Leave(c, "ptable", ptable, Then(c, <<>>))
    BY <1>5, <2>1
  <2>2. CASE \E p \in Proc \ {initproc} :
                Leave(c, "ptable", [ptable EXCEPT ![p].killed = TRUE,
                        ![p].state = IF @ = "SLEEPING" THEN "RUNNABLE" ELSE @], Then(c, <<>>))
    <3> PICK p \in Proc \ {initproc} :
                Leave(c, "ptable", [ptable EXCEPT ![p].killed = TRUE,
                        ![p].state = IF @ = "SLEEPING" THEN "RUNNABLE" ELSE @], Then(c, <<>>))
      BY <2>2
    <3> DEFINE g == [ptable EXCEPT ![p].killed = TRUE,
                        ![p].state = IF @ = "SLEEPING" THEN "RUNNABLE" ELSE @]
    <3>1. Leave(c, "ptable", g, Then(c, <<>>))
      OBVIOUS
    <3>2. g \in Table /\ Milder(ptable, g)
      BY <1>5, KillIs
    <3> HIDE DEF g
    <3> QED
      BY <3>1, <3>2
  <2> QED
    BY <2>1, <2>2 DEF KillProc
<1>7. Name(s, 1) \notin {"spin", "intena"} \cup Restoring
  BY <1>2 DEF Restoring
<1> QED
  BY <1>2, <1>4, <1>6, <1>7, FreeIsNoCpu, LeaveTail

LEMMA TickStep ==
    ASSUME IInv, NEW c \in Cpu, Tick(c)
    PROVE  IInv'
<1> DEFINE s == code[T(c)]
<1>1. At(c, "tick")
  BY DEF Tick
<1>2. /\ s # <<>> /\ s[1][1] = "tick" /\ Name(s, 1) = "tick" /\ CodeOf(T(c), s)
      /\ Name(s, 1) \notin {"spin", "intena"}
  BY <1>1, FirstIs, ThreadIs
<1>3. Moves(s[1], Name(Tail(s), 1), FALSE, TRUE, FALSE, TRUE)
  BY <1>2, MovesTable
<1>4. /\ HasTable(s, 1) <=> HasTable(Tail(s), 1)
      /\ HasTicks(s, 1) <=> HasTicks(Tail(s), 1)
  BY <1>2, <1>3, Behind
<1>5. /\ Inherits(s, Tail(s)) /\ CodeOf(T(c), Tail(s)) /\ Name(Tail(s), 1) # "spin"
      /\ ~Handling(Tail(s)) => ~Handling(s)
  BY <1>2, TailHandles DEF Restoring
<1>6. code' = [code EXCEPT ![T(c)] = Tail(s)]
  BY <1>2, DoneIs DEF Tick
<1>7. /\ cpus' = cpus /\ locked' = locked /\ ptable' = ptable /\ panic' = panic /\ scan' = scan
      /\ ticks' = (ticks + 1) % TICKS
  BY DEF Tick
<1>8. ticks' \in 0..TICKS - 1
  <2>1. ticks \in 0..TICKS - 1
    BY DEF IInv, Typed
  <2> QED
    BY <1>7, <2>1, SmpConstants
<1> QED
  BY <1>2, <1>4, <1>5, <1>6, <1>7, <1>8, GoOnSame

\* Where a thread is in user mode or behind its locks, yield may be put in front.
LEMMA ClockYieldStep ==
    ASSUME IInv, NEW c \in Cpu, ClockYield(c)
    PROVE  IInv'
<1> DEFINE s == code[T(c)]
           r == Tail(s)
<1>1. At(c, "clock")
  BY DEF ClockYield
<1>2. /\ s # <<>> /\ s[1][1] = "clock" /\ Name(s, 1) = "clock" /\ CodeOf(T(c), s)
      /\ Name(s, 1) \notin {"spin", "intena"}
  BY <1>1, FirstIs, ThreadIs
<1>3. Moves(s[1], Name(r, 1), FALSE, FALSE, FALSE, FALSE)
  BY <1>2, MovesTable
<1>4. ~HasTable(s, 1) /\ ~HasTable(r, 1) /\ ~HasTicks(s, 1) /\ ~HasTicks(r, 1)
  BY <1>2, <1>3, Behind
<1>5. /\ Inherits(s, r) /\ CodeOf(T(c), r) /\ Name(r, 1) # "spin" /\ r \in Seq(Op)
      /\ ~Handling(r) => ~Handling(s)
  BY <1>2, TailHandles DEF Restoring
<1>6. /\ cpus' = cpus /\ locked' = locked /\ ptable' = ptable /\ panic' = panic /\ scan' = scan
      /\ ticks' = ticks
  BY DEF ClockYield
<1>7. ticks' \in 0..TICKS - 1
  BY <1>6 DEF IInv, Typed
<1>8. CASE Myproc(c) # NoProc
  <2>1. T(c) \in Proc
    BY <1>8, ThreadIs
  <2>2. Piece(T(c), Yield, "acquire", FALSE, FALSE, {"acquire", "yield", "release"})
    BY <2>1, YieldFits
  <2> DEFINE u == Yield \o r
  <2>3. Ahead(T(c), u, r, "acquire", FALSE, FALSE, {"acquire", "yield", "release"})
    <3>1. {"acquire", "yield", "release"} \cap Closing = {}
      BY DEF Closing
    <3>2. Clear(T(c), r)
      BY <1>4, <1>5 DEF Clear
    <3> HIDE DEF r
    <3> QED
      BY <2>2, <3>1, <3>2, PieceAhead
  <2>4. code' = [code EXCEPT ![T(c)] = u]
    BY <1>8, <2>1, ThreadIs DEF ClockYield, Do
  <2>5. Inherits(s, u)
    BY <1>5, <2>3 DEF Inherits, Ahead
  <2>6. ~Handling(u) => ~Handling(s)
    BY <1>5, <2>3 DEF Ahead
  <2>7. Name(u, 1) # "spin" /\ CodeOf(T(c), u) /\ ~HasTable(u, 1) /\ ~HasTicks(u, 1)
    BY <2>3 DEF Ahead
  <2> HIDE DEF u
  <2> QED
    BY <1>2, <1>4, <1>6, <1>7, <2>4, <2>5, <2>6, <2>7, GoOnSame
<1>9. CASE Myproc(c) = NoProc
  <2>1. code' = [code EXCEPT ![T(c)] = r]
    BY <1>5, <1>9, ConcatEmptySeq DEF ClockYield, Do
  <2> QED
    BY <1>2, <1>4, <1>5, <1>6, <1>7, <2>1, GoOnSame
<1> QED
  BY <1>8, <1>9

\* In the code s, of a thread without locks or with tickslock only, a routine of
\* operations N can be put in front of r.
Admits(s, r, n, b, N) ==
    /\ N \cap Closing = {} \/ \A x \in Range(r) : x[1] \in WayOut
    /\ Inherits(s, r) /\ N \cap {"spin", "copy", "ready", "zombie exit"} = {}
    /\ Handling(s) => Handling(r) \/ N \cap Restoring # {}
    /\ ~HasTable(s, 1)
    /\ HasTicks(s, 1) <=> b
    /\ Name(s, 1) \notin {"spin", "intena"} /\ n # "spin"

LEMMA GoOnWith ==
    ASSUME IInv, NEW c \in Cpu, NEW ops, NEW n, NEW b \in BOOLEAN, NEW N,
           Piece(T(c), ops, n, FALSE, b, N), NEW r, Clear(T(c), r),
           Admits(code[T(c)], r, n, b, N),
           code' = [code EXCEPT ![T(c)] = ops \o r],
           cpus' = cpus, locked' = locked, ptable' = ptable, panic' = panic,
           scan' = scan, ticks' = ticks
    PROVE  IInv'
<1> DEFINE u == ops \o r
<1>1. Ahead(T(c), u, r, n, FALSE, b, N)
  BY PieceAhead DEF Admits
<1>2. code' = [code EXCEPT ![T(c)] = u]
  OBVIOUS
<1> HIDE DEF u
<1>3. CodeOf(T(c), u) /\ Name(u, 1) # "spin"
  BY <1>1 DEF Ahead, Admits
<1>4. /\ HasTable(code[T(c)], 1) <=> HasTable(u, 1)
      /\ HasTicks(code[T(c)], 1) <=> HasTicks(u, 1)
  BY <1>1 DEF Ahead, Admits
<1>5. Inherits(code[T(c)], u)
  BY <1>1 DEF Ahead, Inherits, Admits
<1>6. /\ ~Handling(u) => ~Handling(code[T(c)])
      /\ Name(code[T(c)], 1) \notin {"spin", "intena"}
  BY <1>1 DEF Ahead, Admits
<1>7. ticks' \in 0..TICKS - 1
  BY DEF IInv, Typed
<1> QED
  BY <1>2, <1>3, <1>4, <1>5, <1>6, <1>7, GoOnSame

\* The first operation is done, and changes no lock.
LEMMA GoOnTail ==
    ASSUME IInv, NEW c \in Cpu, code[T(c)] # <<>>,
           NEW b \in BOOLEAN, NEW w, code[T(c)][1][1] = w, w \notin {"spin", "intena"} \cup Restoring,
           Moves(code[T(c)][1], Name(Tail(code[T(c)]), 1), FALSE, b, FALSE, b),
           code' = [code EXCEPT ![T(c)] = Tail(code[T(c)])],
           cpus' = cpus, locked' = locked, ptable' = ptable, panic' = panic,
           scan' = scan, ticks' \in 0..TICKS - 1
    PROVE  IInv'
<1> DEFINE s == code[T(c)]
<1>1. CodeOf(T(c), s) /\ s # <<>> /\ s[1][1] = w
  BY ThreadIs
<1>2. Name(s, 1) \notin {"spin", "intena"}
  <2>1. Name(s, 1) = s[1][1]
    BY <1>1, HeadIs DEF CodeOf
  <2> QED
    BY <2>1
<1>3. Moves(s[1], Name(Tail(s), 1), FALSE, b, FALSE, b)
  OBVIOUS
<1>4. /\ HasTable(s, 1) <=> HasTable(Tail(s), 1)
      /\ HasTicks(s, 1) <=> HasTicks(Tail(s), 1)
  BY <1>1, <1>3, Behind
<1>5. /\ Inherits(s, Tail(s)) /\ CodeOf(T(c), Tail(s)) /\ Name(Tail(s), 1) # "spin"
      /\ ~Handling(Tail(s)) => ~Handling(s)
  BY <1>1, TailHandles
<1> QED
  BY <1>2, <1>4, <1>5, GoOnSame

\* A process that has been killed is not init, and exits.
LEMMA CheckKilledStep ==
    ASSUME IInv, NEW c \in Cpu, CheckKilled(c)
    PROVE  IInv'
<1> DEFINE s == code[T(c)]
<1>1. At(c, "killed")
  BY DEF CheckKilled
<1>2. s # <<>> /\ s[1][1] = "killed" /\ Name(s, 1) = "killed" /\ CodeOf(T(c), s) /\ May(T(c), "killed")
  BY <1>1, FirstIs, ThreadIs
<1>3. T(c) \in Proc
  BY <1>2 DEF May, SchedOps
<1>4. Moves(s[1], Name(Tail(s), 1), FALSE, FALSE, FALSE, FALSE)
  BY <1>2, MovesTable
<1>5. /\ cpus' = cpus /\ locked' = locked /\ ptable' = ptable /\ panic' = panic /\ scan' = scan
      /\ ticks' = ticks
  BY DEF CheckKilled
<1>6. ticks' \in 0..TICKS - 1
  BY <1>5 DEF IInv, Typed
<1>7. CASE ptable[Myproc(c)].killed
  <2>1. T(c) # initproc
    <3>1. Myproc(c) = T(c) /\ ~ptable[initproc].killed
      BY <1>3, ThreadIs DEF IInv, Related
    <3> QED
      BY <1>7, <3>1
  <2>2. Piece(T(c), Exit, "acquire", FALSE, FALSE, {"acquire", "exit"})
    BY <1>3, <2>1, ExitFits
  <2>3. /\ CodeOf(T(c), Exit) /\ ~HasTable(Exit, 1) /\ ~HasTicks(Exit, 1) /\ Name(Exit, 1) = "acquire"
        /\ \A o \in Range(Exit) : o[1] \in {"acquire", "exit"}
    BY <2>2, PieceCode
  <2>4. Handling(Exit)
    <3>1. Handling(Exit) <=> {"acquire", "exit"} \cap Restoring # {}
      BY <2>2, PieceCode
    <3> QED
      BY <3>1 DEF Restoring
  <2>5. ~HasTable(s, 1) /\ ~HasTicks(s, 1)
    BY <1>2, <1>4, Behind
  <2>6. code' = [code EXCEPT ![T(c)] = Exit]
    BY <1>7 DEF CheckKilled
  <2>7. Inherits(s, Exit)
    BY <2>3 DEF Inherits
  <2>8. Name(s, 1) \notin {"spin", "intena"} /\ Name(Exit, 1) # "spin"
    BY <1>2, <2>3
  <2> QED
    BY <1>5, <1>6, <2>3, <2>4, <2>5, <2>6, <2>7, <2>8, GoOnSame
<1>8. CASE ~ptable[Myproc(c)].killed
  <2>1. code' = [code EXCEPT ![T(c)] = Tail(s)]
    BY <1>2, <1>8, DoneIs DEF CheckKilled
  <2> QED
    BY <1>2, <1>4, <1>5, <1>6, <2>1, GoOnTail DEF Restoring
<1> QED
  BY <1>7, <1>8

\* sys_sleep holds tickslock where it looks at the time.
LEMMA NapWith ==
    ASSUME IInv, NEW c \in Cpu, NEW w \in {"nap", "napping"}, At(c, w),
           NEW a \in 0..TICKS - 1, NEW n \in Naps, Naptest(c, a, n)
    PROVE  IInv'
<1> DEFINE s == code[T(c)]
           r == Tail(s)
           ops == Append(Sleep(TickChan), <<"napping", <<a, n>>>>)
           N == {"acquire", "release", "sleep", "napping"}
<1>1. s # <<>> /\ s[1][1] = w /\ Name(s, 1) = w /\ CodeOf(T(c), s) /\ May(T(c), w)
  BY FirstIs, ThreadIs
<1>2. T(c) \in Proc
  BY <1>1 DEF May, SchedOps
<1>3. Moves(s[1], Name(r, 1), FALSE, TRUE, FALSE, FALSE)
  BY <1>1, MovesTable
<1>4. ~HasTable(s, 1) /\ HasTicks(s, 1) /\ ~HasTable(r, 1) /\ ~HasTicks(r, 1)
  BY <1>1, <1>3, Behind
<1>5. /\ Inherits(s, r) /\ CodeOf(T(c), r) /\ Name(r, 1) # "spin"
      /\ Handling(s) => Handling(r)
  BY <1>1, TailHandles DEF Restoring
<1>6. CASE Leave(c, "tickslock", ptable, Then(c, <<>>))
  <2>1. Drops("tickslock", s, r)
    BY <1>4 DEF Drops
  <2>2. ptable \in Table /\ Milder(ptable, ptable)
    BY ThreadIs DEF Milder
  <2>3. Name(s, 1) \notin {"spin", "intena"} \cup Restoring
    BY <1>1 DEF Restoring
  <2> QED
    BY <1>1, <1>6, <2>1, <2>2, <2>3, FreeIsNoCpu, LeaveTail
<1>7. CASE /\ Do(c, ops)
           /\ UNCHANGED <<cpus, locked, ptable, scan, ticks, panic>>
  <2>1. Piece(T(c), ops, "acquire", FALSE, TRUE, N)
    BY <1>2, NapFits
  <2>2. code' = [code EXCEPT ![T(c)] = ops \o r]
    BY <1>7 DEF Do
  <2>3. /\ cpus' = cpus /\ locked' = locked /\ ptable' = ptable /\ panic' = panic
        /\ scan' = scan /\ ticks' = ticks
    BY <1>7
  <2>4. Clear(T(c), r)
    BY <1>4, <1>5 DEF Clear
  <2>5. /\ N \cap Closing = {} /\ N \cap {"spin", "copy", "ready", "zombie exit"} = {}
        /\ Name(s, 1) \notin {"spin", "intena"}
    BY <1>1 DEF Closing
  <2> HIDE DEF ops, N, r
  <2>6. Admits(s, r, "acquire", TRUE, N)
    BY <1>4, <1>5, <2>5 DEF Admits
  <2> QED
    BY <2>1, <2>2, <2>3, <2>4, <2>6, GoOnWith
<1> QED
  BY <1>6, <1>7 DEF Naptest

LEMMA NapStep ==
    ASSUME IInv, NEW c \in Cpu, Nap(c)
    PROVE  IInv'
<1>1. PICK n \in Naps : Naptest(c, ticks, n)
  BY DEF Nap
<1>2. At(c, "nap") /\ ticks \in 0..TICKS - 1
  BY DEF Nap, IInv, Typed
<1> QED
  BY <1>1, <1>2, NapWith

LEMMA NapOnStep ==
    ASSUME IInv, NEW c \in Cpu, NapOn(c)
    PROVE  IInv'
<1> DEFINE a == Arg(c)[1]
           n == Arg(c)[2]
<1>1. At(c, "napping") /\ Naptest(c, a, n)
  BY DEF NapOn
<1>2. a \in 0..TICKS - 1 /\ n \in Naps
  <2>1. /\ code[T(c)][1] \in Op /\ code[T(c)][1][1] = "napping"
        /\ Arg(c) = code[T(c)][1][2]
    BY <1>1, FirstIs
  <2>2. code[T(c)][1][2][1] \in 0..TICKS - 1 /\ code[T(c)][1][2][2] \in Naps
    BY <2>1, OpParts
  <2> QED
    BY <2>1, <2>2
<1> HIDE DEF a, n
<1> QED
  BY <1>1, <1>2, NapWith

-----------------------------------------------------------------------------
(* Steps that change the interrupt flag, and the way into the kernel *)

\* The flag of a processor without locks is set.
LEMMA OnRight ==
    ASSUME NEW c \in Cpu, NEW cpu \in Flags, NEW lk, NEW s, Right(c, s, cpu, lk),
           ~HasTable(s, 1), ~HasTicks(s, 1), Name(s, 1) # "spin",
           NEW r, ~HasTable(r, 1), ~HasTicks(r, 1), Name(r, 1) # "spin",
           NEW k \in BOOLEAN, k \/ Handling(r), NEW on, on = [cpu EXCEPT !.if = k]
    PROVE  /\ on \in Flags /\ on.thread = cpu.thread /\ on.proc = cpu.proc
           /\ Right(c, r, on, lk)
<1>1. /\ on \in Flags /\ on.thread = cpu.thread /\ on.proc = cpu.proc /\ on.ncli = cpu.ncli
      /\ on.if = k
  BY DEF Flags
<1>2. cpu.ncli = 0
  BY DEF Right, Count
<1> QED
  BY <1>1, <1>2 DEF Right, Count

LEMMA OnStep ==
    ASSUME IInv, NEW c \in Cpu, NEW k \in BOOLEAN,
           ~HasTable(code[T(c)], 1), ~HasTicks(code[T(c)], 1), Name(code[T(c)], 1) # "spin",
           NEW r, Clear(T(c), r), Inherits(code[T(c)], r), k \/ Handling(r),
           cpus' = [cpus EXCEPT ![c].if = k], code' = [code EXCEPT ![T(c)] = r],
           locked' = locked, ptable' = ptable, panic' = panic, ticks' = ticks,
           scan' \in [Cpu -> 1..NPROC + 1]
    PROVE  IInv'
<1> DEFINE s == code[T(c)]
           cpu == cpus[c]
           on == [cpu EXCEPT !.if = k]
<1>1. /\ cpu \in Flags /\ Right(c, s, cpu, locked) /\ cpu.thread = T(c) /\ cpu.proc = Myproc(c)
  BY ThreadIs DEF Myproc
<1>2. ~HasTable(s, 1) /\ ~HasTicks(s, 1) /\ Name(s, 1) # "spin"
  OBVIOUS
<1>3. CodeOf(T(c), r) /\ ~HasTable(r, 1) /\ ~HasTicks(r, 1) /\ Name(r, 1) # "spin"
  BY DEF Clear
<1>4. cpus' = [cpus EXCEPT ![c] = on]
  OBVIOUS
<1>5. on = [cpu EXCEPT !.if = k]
  OBVIOUS
<1> HIDE DEF s, cpu, on
<1>6. on \in Flags /\ on.thread = cpu.thread /\ on.proc = cpu.proc
  BY <1>1, <1>2, <1>3, <1>5, OnRight
<1>7. Right(c, r, on, locked)
  BY <1>1, <1>2, <1>3, <1>5, OnRight
<1>8. ticks' \in 0..TICKS - 1
  BY DEF IInv, Typed
<1> QED
  BY <1>1, <1>3, <1>4, <1>6, <1>7, <1>8, GoOn

LEMMA IretStep ==
    ASSUME IInv, NEW c \in Cpu, Iret(c)
    PROVE  IInv'
<1> DEFINE s == code[T(c)]
<1>1. At(c, "iret")
  BY DEF Iret
<1>2. s # <<>> /\ s[1][1] = "iret" /\ Name(s, 1) # "spin" /\ CodeOf(T(c), s)
  BY <1>1, FirstIs, ThreadIs
<1>3. Moves(s[1], Name(Tail(s), 1), FALSE, FALSE, FALSE, FALSE)
  BY <1>2, MovesTable
<1>4. ~HasTable(s, 1) /\ ~HasTicks(s, 1) /\ ~HasTable(Tail(s), 1) /\ ~HasTicks(Tail(s), 1)
  BY <1>2, <1>3, Behind
<1>5. Clear(T(c), Tail(s)) /\ Inherits(s, Tail(s))
  BY <1>2, <1>4, TailHandles DEF Clear
<1>6. code' = [code EXCEPT ![T(c)] = Tail(s)]
  BY <1>2, DoneIs DEF Iret
<1>7. /\ cpus' = [cpus EXCEPT ![c].if = TRUE]
      /\ locked' = locked /\ ptable' = ptable /\ panic' = panic /\ ticks' = ticks /\ scan' = scan
  BY DEF Iret
<1>8. scan' \in [Cpu -> 1..NPROC + 1]
  BY <1>7 DEF IInv, Typed
<1> QED
  BY <1>2, <1>4, <1>5, <1>6, <1>7, <1>8, OnStep

\* The scheduler lets interrupts in between two rounds.
LEMMA NextRoundStep ==
    ASSUME IInv, NEW c \in Cpu, NextRound(c)
    PROVE  IInv'
<1> DEFINE s == code[T(c)]
           r == Tail(s)
           u == Loop \o r
<1>1. At(c, "sti")
  BY DEF NextRound
<1>2. s # <<>> /\ s[1][1] = "sti" /\ Name(s, 1) # "spin" /\ CodeOf(T(c), s) /\ May(T(c), "sti")
  BY <1>1, FirstIs, ThreadIs
<1>3. T(c) = Sched(c)
  BY <1>2, ThreadIs DEF May
<1>4. Moves(s[1], Name(r, 1), FALSE, FALSE, FALSE, FALSE)
  BY <1>2, MovesTable
<1>5. ~HasTable(s, 1) /\ ~HasTicks(s, 1) /\ ~HasTable(r, 1) /\ ~HasTicks(r, 1)
  BY <1>2, <1>4, Behind
<1>6. Clear(T(c), r) /\ Inherits(s, r)
  BY <1>2, <1>5, TailHandles DEF Clear
<1>7. Ahead(T(c), u, r, "acquire", FALSE, FALSE, {"acquire", "pick"})
  <2>1. Piece(T(c), Loop, "acquire", FALSE, FALSE, {"acquire", "pick"})
    BY <1>3, LoopFits
  <2>2. {"acquire", "pick"} \cap Closing = {}
    BY DEF Closing
  <2> HIDE DEF r
  <2> QED
    BY <1>6, <2>1, <2>2, PieceAhead
<1>8. Clear(T(c), u) /\ Inherits(s, u)
  BY <1>6, <1>7 DEF Ahead, Clear, Inherits
<1>9. /\ cpus' = [cpus EXCEPT ![c].if = TRUE] /\ code' = [code EXCEPT ![T(c)] = u]
      /\ locked' = locked /\ ptable' = ptable /\ panic' = panic /\ ticks' = ticks
      /\ scan' = [scan EXCEPT ![c] = 1]
  BY DEF NextRound, Do
<1>10. scan' \in [Cpu -> 1..NPROC + 1]
  <2>1. scan \in [Cpu -> 1..NPROC + 1]
    BY DEF IInv, Typed
  <2>2. 1 \in 1..NPROC + 1
    BY SmpConstants
  <2> QED
    BY <1>9, <2>1, <2>2
<1> HIDE DEF u, r
<1> QED
  BY <1>2, <1>5, <1>8, <1>9, <1>10, OnStep

\* A clock interrupt comes where the thread has no lock: the flag is on.
LEMMA InterruptStep ==
    ASSUME IInv, NEW c \in Cpu, ClockInterrupt(c)
    PROVE  IInv'
<1> DEFINE s == code[T(c)]
           ops == Clock(c, InUser(c))
           u == ops \o s
<1>1. /\ CodeOf(T(c), s) /\ Right(c, s, cpus[c], locked) /\ cpus[c] \in Flags
      /\ T(c) \in Thread
  BY ThreadIs
<1>2. cpus[c].ncli = 0
  BY <1>1 DEF ClockInterrupt, Right, Flags
<1>3. ~HasTable(s, 1) /\ ~HasTicks(s, 1) /\ Name(s, 1) # "spin"
  BY <1>1, <1>2 DEF Right, Count
<1>4. Clear(T(c), s)
  BY <1>1, <1>3 DEF Clear
<1>5. InUser(c) => T(c) \in Proc /\ Range(s) = {}
  BY EmptyCode DEF InUser
<1>6. PICK n, N :
         /\ Piece(T(c), ops, n, FALSE, FALSE, N)
         /\ "iret" \in N /\ n # "spin" /\ N \cap {"copy", "ready", "zombie exit"} = {}
         /\ N \cap Closing = {} \/ \A x \in Range(s) : x[1] \in WayOut
  <2>1. CASE InUser(c) /\ c = 0
    <3>1. ops = Clock(0, TRUE)
      BY <2>1
    <3>2. Piece(T(c), ops, "acquire", FALSE, FALSE,
                {"acquire", "tick", "wakeup1", "release", "killed", "clock", "iret"})
      BY <1>5, <2>1, <3>1, UserClockFits
    <3> HIDE DEF ops, s
    <3> QED
      BY <1>5, <2>1, <3>2
  <2>2. CASE InUser(c) /\ c # 0
    <3>1. ops = Clock(c, TRUE)
      BY <2>2
    <3>2. Piece(T(c), ops, "killed", FALSE, FALSE, {"killed", "clock", "iret"})
      BY <1>5, <2>2, <3>1, OtherUserClockFits
    <3> HIDE DEF ops, s
    <3> QED
      BY <1>5, <2>2, <3>2
  <2>3. CASE ~InUser(c) /\ c = 0
    <3>1. ops = Clock(0, FALSE)
      BY <2>3 DEF Clock
    <3>2. Piece(T(c), ops, "acquire", FALSE, FALSE,
                {"acquire", "tick", "wakeup1", "release", "clock", "iret"})
      BY <1>1, <2>3, <3>1, ClockFits
    <3>3. {"acquire", "tick", "wakeup1", "release", "clock", "iret"} \cap Closing = {}
      BY DEF Closing
    <3> HIDE DEF ops, s
    <3> QED
      BY <2>3, <3>2, <3>3
  <2>4. CASE ~InUser(c) /\ c # 0
    <3>1. ops = Clock(c, FALSE)
      BY <2>4 DEF Clock
    <3>2. Piece(T(c), ops, "clock", FALSE, FALSE, {"clock", "iret"})
      BY <1>1, <2>4, <3>1, OtherClockFits
    <3>3. {"clock", "iret"} \cap Closing = {}
      BY DEF Closing
    <3> HIDE DEF ops, s
    <3> QED
      BY <2>4, <3>2, <3>3
  <2> QED
    BY <2>1, <2>2, <2>3, <2>4
<1> HIDE DEF ops
<1>7. Ahead(T(c), u, s, n, FALSE, FALSE, N)
  <2> HIDE DEF s
  <2> QED
    BY <1>4, <1>6, PieceAhead
<1>8. Clear(T(c), u) /\ Inherits(s, u) /\ Handling(u)
  BY <1>6, <1>7 DEF Ahead, Clear, Inherits, Restoring
<1>9. /\ cpus' = [cpus EXCEPT ![c].if = FALSE] /\ code' = [code EXCEPT ![T(c)] = u]
      /\ locked' = locked /\ ptable' = ptable /\ panic' = panic /\ ticks' = ticks
      /\ scan' = scan
  BY DEF ClockInterrupt, ops
<1>10. scan' \in [Cpu -> 1..NPROC + 1]
  BY <1>9 DEF IInv, Typed
<1> HIDE DEF u
<1> QED
  BY <1>3, <1>8, <1>9, <1>10, OnStep

\* A system call is made in user mode; init does not call exit.
LEMMA EnterStep ==
    ASSUME IInv, "exit" \notin Calls[initproc], NEW c \in Cpu, EnterSyscall(c)
    PROVE  IInv'
<1>1. panic = "none" /\ T(c) \in Proc /\ code[T(c)] = <<>>
  BY DEF EnterSyscall, InUser
<1>2. PICK call \in Calls[T(c)] :
         code' = [code EXCEPT ![T(c)] =
            IF ptable[T(c)].killed THEN Exit ELSE Syscall(call) \o <<<<"killed">>>>]
  BY DEF EnterSyscall
<1>3. /\ cpus' = cpus /\ locked' = locked /\ ptable' = ptable /\ panic' = panic /\ scan' = scan
      /\ ticks' = ticks
  BY DEF EnterSyscall
<1>4. call \in {"fork", "exit", "wait", "kill", "sleep"} /\ (call = "exit" => T(c) # initproc)
  BY <1>1, SmpConstants DEF Proc
<1>5. ptable[T(c)].killed => T(c) # initproc
  BY DEF IInv, Related
<1> DEFINE ops == IF ptable[T(c)].killed THEN Exit ELSE Syscall(call) \o <<<<"killed">>>>
<1>6. PICK N \in SUBSET {"acquire", "exit", "killed", "allocproc", "wait", "kill", "nap"} :
         Piece(T(c), ops, "acquire", FALSE, FALSE, N)
  <2>1. CASE ptable[T(c)].killed
    BY <1>1, <1>5, <2>1, ExitFits
  <2>2. CASE ~ptable[T(c)].killed
    <3>1. ops = Syscall(call) \o <<<<"killed">>>>
      BY <2>2
    <3> HIDE DEF ops
    <3>2. CASE call = "fork"
      BY <1>1, <3>1, <3>2, ForkFits
    <3>3. CASE call = "exit"
      BY <1>1, <1>4, <3>1, <3>3, ExitCallFits
    <3>4. CASE call = "wait"
      BY <1>1, <3>1, <3>4, WaitFits
    <3>5. CASE call = "kill"
      BY <1>1, <3>1, <3>5, KillFits
    <3>6. CASE call = "sleep"
      BY <1>1, <3>1, <3>6, SleepFits
    <3> QED
      BY <1>4, <3>2, <3>3, <3>4, <3>5, <3>6
  <2> QED
    BY <2>1, <2>2
<1>7. code' = [code EXCEPT ![T(c)] = ops]
  BY <1>2
<1> HIDE DEF ops
<1>8. /\ CodeOf(T(c), ops) /\ ~HasTable(ops, 1) /\ ~HasTicks(ops, 1) /\ Name(ops, 1) = "acquire"
      /\ \A o \in Range(ops) : o[1] \in N
  BY <1>6, PieceCode
<1>9. /\ ~HasTable(code[T(c)], 1) /\ ~HasTicks(code[T(c)], 1) /\ Name(code[T(c)], 1) = "user"
      /\ ~Handling(code[T(c)])
  BY <1>1, EmptyCode DEF Handling
<1>10. Inherits(code[T(c)], ops)
  BY <1>8 DEF Inherits
<1>11. ticks' \in 0..TICKS - 1
  BY <1>3 DEF IInv, Typed
<1>12. Name(code[T(c)], 1) \notin {"spin", "intena"} /\ Name(ops, 1) # "spin"
  BY <1>8, <1>9
<1> QED
  BY <1>3, <1>7, <1>8, <1>9, <1>10, <1>11, <1>12, GoOnSame

-----------------------------------------------------------------------------
(* Steps that give up the processor *)

\* What becomes of the others, and of forks, when t gives up its processor.
Rests(t, f) ==
    /\ f[t].state \in {"RUNNABLE", "SLEEPING", "ZOMBIE"}
    /\ \A p \in Proc \ {t} :
          f[p].state = State(p) \/ (State(p) = "SLEEPING" /\ f[p].state = "RUNNABLE")

LEMMA ReschedStep ==
    ASSUME IInv, NEW c \in Cpu, T(c) \in Proc, Waits(code[T(c)]),
           Name(code[T(c)], 1) \notin {"spin", "intena"},
           NEW f \in Table, NEW next, Resched(c, f, next),
           NEW r, Comes(T(c), code[T(c)], r, next), Rests(T(c), f),
           Left(r) => f[T(c)].state = "ZOMBIE", Related(f),
           \A u \in Thread, q \in Proc :
               Makes(code[u], q) /\ (u = T(c) => Makes(r, q)) => f[q].parent = ptable[q].parent
    PROVE  IInv'
<1>2. PICK s, o : Switches(c, s, o, r, f)
  <2>1. f[T(c)].state # "RUNNING"
    BY DEF Rests
  <2> QED
    BY <2>1, ReschedIs
<1>3. /\ Turn(c, [cpus[c] EXCEPT !.thread = Sched(c), !.proc = NoProc], s, locked, f)
      /\ CodeOf(T(c), s) /\ Waits(s) /\ Name(s, 1) = "intena"
      /\ Range(s) = {o} \cup Range(r)
  BY <1>2 DEF Switches
<1>1. o \in Op /\ o[1] = "intena"
  BY <1>2 DEF Switches
<1>4. \A q \in Proc : /\ Copies(s, q) => Copies(r, q) /\ Copies(code[T(c)], q)
                      /\ Readies(s, q) => Readies(r, q) /\ Readies(code[T(c)], q)
  BY <1>1, <1>3 DEF Comes, Copies, Readies
<1>5. Left(s) => Left(r)
  <2>1. o # <<"zombie exit">>
    <3>1. <<"zombie exit">>[1] # "intena"
      OBVIOUS
    <3> QED
      BY <1>1, <3>1
  <2> QED
    BY <1>3, <2>1 DEF Left
<1>6. \A u \in Thread, q \in Proc :
         Makes(code[u], q) /\ (u = T(c) => Makes(s, q)) => f[q].parent = ptable[q].parent
  BY <1>4 DEF Makes
<1>7. /\ f[T(c)].state \in {"RUNNABLE", "SLEEPING", "ZOMBIE"}
      /\ \A p \in Proc \ {T(c)} :
            f[p].state = State(p) \/ (State(p) = "SLEEPING" /\ f[p].state = "RUNNABLE")
  BY DEF Rests
<1> QED
  BY <1>3, <1>4, <1>5, <1>6, <1>7, GiveUp

\* A process that goes to rest does not disturb parents and children, unless it
\* waits over a dead child.
LEMMA RestRelated ==
    ASSUME NEW f \in Table, Related(f), NEW p \in Proc, Alive(f[p].state), NEW g,
           \A q \in Proc \ {p} : g[q] = f[q],
           g[p].state \in {"RUNNABLE", "SLEEPING"}, g[p].parent = f[p].parent,
           g[p].killed = f[p].killed,
           g[p].state = "SLEEPING" /\ g[p].chan = p =>
               \A q \in Proc : f[q].parent = p => f[q].state # "ZOMBIE"
    PROVE  Related(g)
<1>1. \A q \in Proc :
         /\ Alive(f[q].state) => Alive(g[q].state)
         /\ g[q].state = "UNUSED" => f[q].state = "UNUSED"
         /\ g[q].state \notin {"UNUSED", "EMBRYO"} => f[q].state \notin {"UNUSED", "EMBRYO"}
         /\ g[q].state = "ZOMBIE" => f[q].state = "ZOMBIE"
         /\ g[q].parent = f[q].parent /\ g[q].killed = f[q].killed
         /\ g[q].state = "SLEEPING" /\ g[q].chan = q =>
               \/ f[q].state = "SLEEPING" /\ f[q].chan = q
               \/ \A z \in Proc : f[z].parent = q => f[z].state # "ZOMBIE"
  <2> TAKE q \in Proc
  <2>1. CASE q = p
    BY <2>1 DEF Alive
  <2>2. CASE q # p
    BY <2>2
  <2> QED
    BY <2>1, <2>2
<1>2. \A q \in Proc : f[q].parent \in {NoProc} \cup Proc
  BY DEF Table, Entry
<1>3. Alive(g[initproc].state) /\ ~g[initproc].killed /\ g[initproc].parent = NoProc
  BY <1>1, InitIsProc DEF Related
<1>4. ASSUME NEW q \in Proc
      PROVE  /\ g[q].state = "UNUSED" => g[q].parent = NoProc
             /\ g[q].parent # NoProc => g[q].parent # q /\ Alive(g[g[q].parent].state)
             /\ q # initproc /\ g[q].state \notin {"UNUSED", "EMBRYO"} => g[q].parent # NoProc
             /\ g[q].state = "ZOMBIE" /\ g[q].parent # NoProc =>
                   ~(g[g[q].parent].state = "SLEEPING" /\ g[g[q].parent].chan = g[q].parent)
  <2>1. /\ f[q].state = "UNUSED" => f[q].parent = NoProc
        /\ f[q].parent # NoProc => f[q].parent # q /\ Alive(f[f[q].parent].state)
        /\ q # initproc /\ f[q].state \notin {"UNUSED", "EMBRYO"} => f[q].parent # NoProc
        /\ f[q].state = "ZOMBIE" /\ f[q].parent # NoProc =>
              ~(f[f[q].parent].state = "SLEEPING" /\ f[f[q].parent].chan = f[q].parent)
    BY DEF Related
  <2>2. g[q].parent = f[q].parent
    BY <1>1
  <2>3. CASE f[q].parent = NoProc
    BY <1>1, <2>1, <2>2, <2>3
  <2>4. CASE f[q].parent # NoProc
    <3>1. f[q].parent \in Proc
      BY <1>2, <2>4
    <3> QED
      BY <1>1, <2>1, <2>2, <3>1
  <2> QED
    BY <2>3, <2>4
<1> QED
  BY <1>3, <1>4 DEF Related

\* What rests is not in the way of a fork, and comes back behind its operation.
LEMMA RestStep ==
    ASSUME IInv, NEW c \in Cpu, NEW w \in {"yield", "sleep"}, At(c, w),
           NEW st \in {"RUNNABLE", "SLEEPING"}, NEW g \in Table, Resched(c, g, <<>>),
           \A q \in Proc \ {T(c)} : g[q] = ptable[q],
           g[T(c)].state = st, g[T(c)].parent = ptable[T(c)].parent,
           g[T(c)].killed = ptable[T(c)].killed, st = "SLEEPING" => g[T(c)].chan = TickChan
    PROVE  IInv'
<1> DEFINE s == code[T(c)]
           r == Tail(s)
<1>1. s # <<>> /\ s[1][1] = w /\ Name(s, 1) = w /\ CodeOf(T(c), s) /\ May(T(c), w)
  BY FirstIs, ThreadIs
<1>2. T(c) \in Proc
  BY <1>1 DEF May, SchedOps
<1>3. Moves(s[1], Name(r, 1), TRUE, FALSE, TRUE, FALSE)
  BY <1>1, MovesTable
<1>4. Waits(s) /\ Waits(r)
  BY <1>1, <1>3, Behind DEF Waits
<1>5. /\ Inherits(s, r) /\ CodeOf(T(c), r) /\ Name(r, 1) \notin {"spin", "intena"} /\ r \in Seq(Op)
      /\ Handling(s) => Handling(r)
  BY <1>1, TailHandles DEF Restoring
<1>6. Comes(T(c), s, r, <<>>)
  <2>1. \A o \in Op : (<<o>> \o <<>>) \o r = <<o>> \o r
    <3> TAKE o \in Op
    <3>1. <<o>> \in Seq(Op)
      BY ConsIs, EmptyCode
    <3>2. <<o>> \o <<>> = <<o>>
      BY <3>1, ConcatEmptySeq
    <3> QED
      BY <3>2
  <2> QED
    BY <1>4, <1>5, <2>1 DEF Comes, Inherits
<1>7. ptable \in Table /\ State(T(c)) = "RUNNING" /\ Related(ptable)
  BY <1>2, ThreadIs DEF IInv
<1>8. Rests(T(c), g)
  BY DEF Rests, State
<1>9. ~Left(r)
  <2>1. ~Left(s)
    BY <1>2, <1>7 DEF IInv, Parked, ParkedAs
  <2> QED
    BY <1>5, <2>1 DEF Left, Inherits
<1>10. Related(g)
  <2>1. T(c) # TickChan
    BY <1>2 DEF Proc, TickChan
  <2>2. ~(g[T(c)].state = "SLEEPING" /\ g[T(c)].chan = T(c))
    BY <2>1
  <2>3. Alive(ptable[T(c)].state)
    BY <1>7 DEF Alive, State
  <2> QED
    BY <1>2, <1>7, <2>2, <2>3, RestRelated
<1>11. \A q \in Proc : g[q].parent = ptable[q].parent
  OBVIOUS
<1>12. Name(s, 1) \notin {"spin", "intena"}
  BY <1>1
<1> QED
  BY <1>2, <1>4, <1>6, <1>8, <1>9, <1>10, <1>11, <1>12, ReschedStep

LEMMA YieldStep ==
    ASSUME IInv, NEW c \in Cpu, YieldCpu(c)
    PROVE  IInv'
<1> DEFINE g == [ptable EXCEPT ![Myproc(c)].state = "RUNNABLE"]
<1>1. At(c, "yield") /\ Resched(c, g, <<>>)
  BY DEF YieldCpu
<1>2. May(T(c), "yield")
  BY <1>1, FirstIs
<1>3. T(c) \in Proc /\ Myproc(c) = T(c) /\ ptable \in Table
  BY <1>2, ThreadIs DEF May, SchedOps
<1>4. /\ g \in Table /\ \A q \in Proc \ {T(c)} : g[q] = ptable[q]
      /\ g[T(c)].state = "RUNNABLE" /\ g[T(c)].parent = ptable[T(c)].parent
      /\ g[T(c)].killed = ptable[T(c)].killed
  BY <1>3 DEF Table, Entry, PState
<1> HIDE DEF g
<1> QED
  BY <1>1, <1>4, RestStep

LEMMA SleepingIs ==
    ASSUME ptable \in Table, NEW p \in Proc, NEW chan \in {NoChan, TickChan} \cup Proc,
           NEW g, g = Sleeping(p, chan)
    PROVE  /\ g \in Table
           /\ \A q \in Proc \ {p} : g[q] = ptable[q]
           /\ g[p].state = "SLEEPING" /\ g[p].parent = ptable[p].parent
           /\ g[p].killed = ptable[p].killed /\ g[p].chan = chan
<1> DEFINE e == ptable[p]
           e2 == [e EXCEPT !.state = "SLEEPING", !.chan = chan]
<1>1. e \in Entry
  BY DEF Table
<1>2. g = [ptable EXCEPT ![p] = e2]
  BY <1>1 DEF Sleeping, Table, Entry
<1> HIDE DEF e
<1>3. /\ e2 \in Entry /\ e2.state = "SLEEPING" /\ e2.parent = e.parent /\ e2.killed = e.killed
      /\ e2.chan = chan
  BY <1>1 DEF Entry, PState
<1> HIDE DEF e2
<1>4. g \in Table /\ g[p] = e2 /\ \A q \in Proc \ {p} : g[q] = ptable[q]
  BY <1>2, <1>3 DEF Table
<1> QED
  BY <1>3, <1>4 DEF e

LEMMA SleepStep ==
    ASSUME IInv, NEW c \in Cpu, GoToSleep(c)
    PROVE  IInv'
<1> DEFINE g == Sleeping(Myproc(c), Arg(c))
<1>1. At(c, "sleep") /\ Resched(c, g, <<>>)
  BY DEF GoToSleep
<1>2. May(T(c), "sleep") /\ Arg(c) = TickChan
  BY <1>1, FirstIs, OpParts
<1>3. T(c) \in Proc /\ Myproc(c) = T(c) /\ ptable \in Table
  BY <1>2, ThreadIs DEF May, SchedOps
<1>4. g = Sleeping(T(c), TickChan)
  BY <1>2, <1>3
<1> HIDE DEF g
<1>5. /\ g \in Table /\ \A q \in Proc \ {T(c)} : g[q] = ptable[q]
      /\ g[T(c)].state = "SLEEPING" /\ g[T(c)].parent = ptable[T(c)].parent
      /\ g[T(c)].killed = ptable[T(c)].killed /\ g[T(c)].chan = TickChan
  BY <1>3, <1>4, SleepingIs
<1> QED
  BY <1>1, <1>5, RestStep

LEMMA Regroup ==
    ASSUME NEW a \in Seq(Op), NEW b \in Seq(Op), NEW d \in Seq(Op)
    PROVE  (a \o b) \o d = a \o (b \o d)
BY ConcatAssociative

\* What sleeps in wait, or is a zombie, keeps an operation in front.
LEMMA ComesWith ==
    ASSUME NEW t, NEW s, CodeOf(t, s), s # <<>>, NEW o \in Op, Fronts(t, o, Tail(s)),
           o[1] \in {"wait", "zombie exit"},
           Handling(s) => o[1] \in Restoring \/ Handling(Tail(s)), NEW r, r = Cons(o, Tail(s))
    PROVE  Comes(t, s, r, <<o>>) /\ Range(r) = {o} \cup Range(Tail(s))
<1>1. Tail(s) \in Seq(Op) /\ Inherits(s, Tail(s))
  BY TailHandles
<1>2. Fronted(t, r, o, Tail(s))
  BY HeadCode
<1>3. Moves(o, Name(Tail(s), 1), TRUE, FALSE, FALSE, FALSE)
  BY MovesTable
<1>4. CodeOf(t, r) /\ Waits(r) /\ Name(r, 1) # "spin" /\ Name(r, 1) # "intena"
  BY <1>2, <1>3 DEF Fronted, Moves, Waits
<1>5. Range(r) = {o} \cup Range(Tail(s))
  BY <1>2 DEF Fronted
<1>6. Handling(s) => Handling(r)
  BY <1>5 DEF Handling
<1>7. \A x \in Range(r) : x[1] \in {"copy", "ready"} => x \in Range(s)
  BY <1>1, <1>5 DEF Inherits
<1>8. \A x \in Op : (<<x>> \o <<o>>) \o Tail(s) = <<x>> \o r
  <2> TAKE x \in Op
  <2>1. <<x>> \in Seq(Op) /\ <<o>> \in Seq(Op)
    BY ConsIs, EmptyCode
  <2>2. (<<x>> \o <<o>>) \o Tail(s) = <<x>> \o (<<o>> \o Tail(s))
    <3> DEFINE a == <<x>>
               b == <<o>>
               d == Tail(s)
    <3>1. a \in Seq(Op) /\ b \in Seq(Op) /\ d \in Seq(Op)
      BY <1>1, <2>1
    <3> HIDE DEF a, b, d
    <3>2. (a \o b) \o d = a \o (b \o d)
      BY <3>1, Regroup
    <3> QED
      BY <3>2 DEF a, b, d
  <2>3. r = <<o>> \o Tail(s)
    BY DEF Cons
  <2> QED
    BY <2>2, <2>3
<1> QED
  BY <1>4, <1>5, <1>6, <1>7, <1>8 DEF Comes

\* wait goes to sleep over no dead child.
LEMMA WaitSleeps ==
    ASSUME IInv, NEW c \in Cpu, At(c, "wait"),
           {q \in Children(Myproc(c)) : State(q) = "ZOMBIE"} = {},
           Resched(c, Sleeping(Myproc(c), Myproc(c)), <<<<"wait">>>>)
    PROVE  IInv'
<1> DEFINE s == code[T(c)]
           o == <<"wait">>
           r == Cons(o, Tail(s))
           g == Sleeping(T(c), T(c))
<1>1. /\ s # <<>> /\ s[1][1] = "wait" /\ Name(s, 1) = "wait" /\ CodeOf(T(c), s)
      /\ May(T(c), "wait")
  BY FirstIs, ThreadIs
<1>2. T(c) \in Proc
  BY <1>1 DEF May, SchedOps
<1>3. Moves(s[1], Name(Tail(s), 1), TRUE, FALSE, FALSE, FALSE)
  BY <1>1, MovesTable
<1>4. Waits(s) /\ ~HasTable(Tail(s), 1) /\ ~HasTicks(Tail(s), 1)
  BY <1>1, <1>3, Behind DEF Waits
<1>5. /\ Inherits(s, Tail(s)) /\ CodeOf(T(c), Tail(s))
      /\ Name(Tail(s), 1) \notin {"spin", "intena"} /\ (Handling(s) => Handling(Tail(s)))
  BY <1>1, TailHandles DEF Restoring
<1>6. o \in Op /\ o[1] = "wait"
  BY OpIn DEF Plain
<1>7. Moves(o, Name(Tail(s), 1), TRUE, FALSE, FALSE, FALSE)
  BY <1>6, MovesTable
<1> HIDE DEF o
<1>8. Fronts(T(c), o, Tail(s))
  BY <1>1, <1>4, <1>5, <1>6, <1>7 DEF Fronts, Moves, Closing
<1>9. Comes(T(c), s, r, <<o>>) /\ Range(r) = {o} \cup Range(Tail(s))
  <2>1. r = Cons(o, Tail(s))
    OBVIOUS
  <2> HIDE DEF r, s
  <2> QED
    BY <1>1, <1>5, <1>6, <1>8, <2>1, ComesWith
<1>10. /\ ptable \in Table /\ Myproc(c) = T(c) /\ State(T(c)) = "RUNNING"
       /\ Related(ptable)
  BY <1>2, ThreadIs DEF IInv
<1>11. Resched(c, g, <<o>>)
  BY <1>10 DEF o
<1>12. /\ g \in Table
       /\ \A q \in Proc \ {T(c)} : g[q] = ptable[q]
       /\ g[T(c)].state = "SLEEPING" /\ g[T(c)].parent = ptable[T(c)].parent
       /\ g[T(c)].killed = ptable[T(c)].killed /\ g[T(c)].chan = T(c)
  <2>1. g = Sleeping(T(c), T(c)) /\ T(c) \in {NoChan, TickChan} \cup Proc
    BY <1>2
  <2> HIDE DEF g
  <2> QED
    BY <1>2, <1>10, <2>1, SleepingIs
<1> HIDE DEF g
<1>13. Rests(T(c), g)
  BY <1>12 DEF Rests, State
<1>14. ~Left(r)
  <2>1. ~Left(s)
    BY <1>2, <1>10 DEF IInv, Parked, ParkedAs
  <2>2. o # <<"zombie exit">>
    <3>1. <<"zombie exit">>[1] # "wait"
      OBVIOUS
    <3> QED
      BY <1>6, <3>1
  <2> HIDE DEF r
  <2> QED
    BY <1>5, <1>9, <2>1, <2>2 DEF Left, Inherits
<1>15. Related(g)
  <2>1. \A q \in Proc : ptable[q].parent = T(c) => ptable[q].state # "ZOMBIE"
    BY <1>10 DEF Children, State
  <2>2. Alive(ptable[T(c)].state)
    BY <1>10 DEF Alive, State
  <2> QED
    BY <1>2, <1>10, <1>12, <2>1, <2>2, RestRelated
<1>16. \A q \in Proc : g[q].parent = ptable[q].parent
  BY <1>12
<1>17. Name(s, 1) \notin {"spin", "intena"}
  BY <1>1
<1> HIDE DEF r
<1> QED
  BY <1>2, <1>4, <1>9, <1>11, <1>12, <1>13, <1>14, <1>15, <1>16, <1>17, ReschedStep

\* exit wakes the parent, and init when it inherits a dead child.
Exits(f, p, g) ==
    /\ g[p].state = "ZOMBIE"
    /\ \A q \in Proc :
          /\ g[q].killed = f[q].killed /\ g[q].chan = f[q].chan
          /\ g[q].parent = IF f[q].parent = p THEN initproc ELSE f[q].parent
          /\ q # p => g[q].state = IF /\ f[q].state = "SLEEPING"
                                      /\ \/ f[q].chan = f[p].parent
                                         \/ f[q].chan = initproc /\ \E z \in Proc :
                                               f[z].parent = p /\ f[z].state = "ZOMBIE"
                                   THEN "RUNNABLE" ELSE f[q].state

\* Nobody is left
\* asleep in wait over one, and every child has a parent that is there.
LEMMA ExitRelated ==
    ASSUME NEW f \in Table, Related(f), NEW p \in Proc \ {initproc}, NEW g \in Table,
           f[p].state = "RUNNING", Exits(f, p, g)
    PROVE  Related(g)
<1>0. /\ g[p].state = "ZOMBIE"
      /\ \A q \in Proc :
            /\ g[q].killed = f[q].killed /\ g[q].chan = f[q].chan
            /\ g[q].parent = IF f[q].parent = p THEN initproc ELSE f[q].parent
            /\ q # p => g[q].state = IF /\ f[q].state = "SLEEPING"
                                        /\ \/ f[q].chan = f[p].parent
                                           \/ f[q].chan = initproc /\ \E z \in Proc :
                                                 f[z].parent = p /\ f[z].state = "ZOMBIE"
                                     THEN "RUNNABLE" ELSE f[q].state
  BY DEF Exits
<1>1. /\ Alive(f[initproc].state) /\ ~f[initproc].killed /\ f[initproc].parent = NoProc
      /\ initproc \in Proc /\ NoProc \notin Proc /\ NoProc # p
  BY InitIsProc DEF Related, NoProc, Proc
<1>2. ASSUME NEW q \in Proc
      PROVE  /\ f[q].state = "UNUSED" => f[q].parent = NoProc
             /\ f[q].parent # NoProc => /\ f[q].parent # q /\ Alive(f[f[q].parent].state)
                                        /\ f[q].parent \in Proc
             /\ q # initproc /\ f[q].state \notin {"UNUSED", "EMBRYO"} => f[q].parent # NoProc
             /\ f[q].state = "ZOMBIE" /\ f[q].parent # NoProc =>
                   ~(f[f[q].parent].state = "SLEEPING" /\ f[f[q].parent].chan = f[q].parent)
  <2>1. f[q].parent \in {NoProc} \cup Proc
    BY DEF Table, Entry
  <2> QED
    BY <2>1 DEF Related
<1>3. \A q \in Proc \ {p} :
         /\ Alive(f[q].state) => Alive(g[q].state)
         /\ g[q].state \notin {"UNUSED", "EMBRYO"} <=> f[q].state \notin {"UNUSED", "EMBRYO"}
         /\ g[q].state = "UNUSED" => f[q].state = "UNUSED"
         /\ g[q].state = "ZOMBIE" => f[q].state = "ZOMBIE"
         /\ g[q].state = "SLEEPING" => f[q].state = "SLEEPING"
  BY <1>0 DEF Alive
<1>4. Alive(g[initproc].state) /\ ~g[initproc].killed /\ g[initproc].parent = NoProc
  BY <1>0, <1>1, <1>3
<1>5. ASSUME NEW q \in Proc
      PROVE  /\ g[q].state = "UNUSED" => g[q].parent = NoProc
             /\ g[q].parent # NoProc => g[q].parent # q /\ Alive(g[g[q].parent].state)
             /\ q # initproc /\ g[q].state \notin {"UNUSED", "EMBRYO"} => g[q].parent # NoProc
             /\ g[q].state = "ZOMBIE" /\ g[q].parent # NoProc =>
                   ~(g[g[q].parent].state = "SLEEPING" /\ g[g[q].parent].chan = g[q].parent)
  <2>1. CASE f[q].parent = p
    <3>1. g[q].parent = initproc /\ q # initproc /\ q # p
      BY <1>0, <1>1, <1>2, <2>1
    <3>2. f[q].state # "UNUSED"
      BY <1>1, <1>2, <2>1
    <3>3. f[q].state = "ZOMBIE" => ~(g[initproc].state = "SLEEPING" /\ g[initproc].chan = initproc)
      BY <1>0, <1>1, <2>1
    <3> QED
      BY <1>0, <1>1, <1>3, <1>4, <3>1, <3>2, <3>3
  <2>2. CASE f[q].parent = NoProc
    <3>1. g[q].parent = NoProc
      BY <1>0, <1>1, <2>2
    <3>2. q # initproc => q # p /\ f[q].state \in {"UNUSED", "EMBRYO"}
      BY <1>0, <1>2, <2>2
    <3> QED
      BY <1>0, <1>3, <3>1, <3>2
  <2>3. CASE f[q].parent # NoProc /\ f[q].parent # p
    <3>1. g[q].parent = f[q].parent /\ f[q].parent \in Proc \ {p} /\ f[q].parent # q
      BY <1>0, <1>2, <2>3
    <3>2. Alive(g[g[q].parent].state)
      BY <1>2, <1>3, <2>3, <3>1
    <3>3. g[q].state # "UNUSED"
      BY <1>0, <1>2, <1>3, <2>3
    <3>4. CASE q = p
      BY <1>0, <1>1, <3>1, <3>2, <3>3, <3>4
    <3>5. CASE q # p
      BY <1>0, <1>2, <1>3, <2>3, <3>1, <3>2, <3>3, <3>5
    <3> QED
      BY <3>4, <3>5
  <2> QED
    BY <2>1, <2>2, <2>3
<1> QED
  BY <1>4, <1>5 DEF Related

\* The process table that exit leaves.
LeftBy(p) ==
    LET told == wakeup1(ptable, ptable[p].parent)
    IN  IF \E q \in Children(p) : State(q) = "ZOMBIE" THEN wakeup1(told, initproc) ELSE told
Exited(p) == [Orphaned(p, LeftBy(p)) EXCEPT ![p].state = "ZOMBIE"]

LEMMA ExitTable ==
    ASSUME ptable \in Table, NEW p \in Proc, NEW g, g = Exited(p)
    PROVE  g \in Table /\ Exits(ptable, p, g)
<1> DEFINE dead == \E z \in Proc : ptable[z].parent = p /\ ptable[z].state = "ZOMBIE"
           woken(q) == /\ ptable[q].state = "SLEEPING"
                       /\ ptable[q].chan = ptable[p].parent \/ (ptable[q].chan = initproc /\ dead)
           told == wakeup1(ptable, ptable[p].parent)
           left == LeftBy(p)
           orphans == Orphaned(p, left)
<1>1. dead <=> \E q \in Children(p) : State(q) = "ZOMBIE"
  BY DEF Children, State
<1>2. /\ told \in Table
      /\ \A q \in Proc :
            /\ told[q].chan = ptable[q].chan /\ told[q].killed = ptable[q].killed
            /\ told[q].parent = ptable[q].parent
            /\ told[q].state = IF ptable[q].state = "SLEEPING" /\ ptable[q].chan = ptable[p].parent
                               THEN "RUNNABLE" ELSE ptable[q].state
  BY WakeIs
<1>3. /\ wakeup1(told, initproc) \in Table
      /\ \A q \in Proc :
            /\ wakeup1(told, initproc)[q].chan = told[q].chan
            /\ wakeup1(told, initproc)[q].killed = told[q].killed
            /\ wakeup1(told, initproc)[q].parent = told[q].parent
            /\ wakeup1(told, initproc)[q].state =
                  IF told[q].state = "SLEEPING" /\ told[q].chan = initproc
                  THEN "RUNNABLE" ELSE told[q].state
  BY <1>2, WakeIs
<1>4. left = IF dead THEN wakeup1(told, initproc) ELSE told
  BY <1>1 DEF LeftBy
<1> HIDE DEF dead, told, left
<1>5. /\ left \in Table
      /\ \A q \in Proc :
            /\ left[q].chan = ptable[q].chan /\ left[q].killed = ptable[q].killed
            /\ left[q].parent = ptable[q].parent
            /\ left[q].state = IF woken(q) THEN "RUNNABLE" ELSE ptable[q].state
  <2>1. CASE dead
    BY <1>2, <1>3, <1>4, <2>1
  <2>2. CASE ~dead
    BY <1>2, <1>4, <2>2
  <2> QED
    BY <2>1, <2>2
<1>6. /\ orphans \in Table
      /\ \A q \in Proc :
            /\ orphans[q].chan = ptable[q].chan /\ orphans[q].killed = ptable[q].killed
            /\ orphans[q].parent = IF ptable[q].parent = p THEN initproc ELSE ptable[q].parent
            /\ orphans[q].state = IF woken(q) THEN "RUNNABLE" ELSE ptable[q].state
  <2> HIDE DEF woken
  <2>1. ASSUME NEW q \in Proc
        PROVE  /\ orphans[q] \in Entry
               /\ orphans[q].chan = left[q].chan /\ orphans[q].killed = left[q].killed
               /\ orphans[q].parent = IF left[q].parent = p THEN initproc ELSE left[q].parent
               /\ orphans[q].state = left[q].state
    <3>1. orphans[q] = IF left[q].parent = p THEN [left[q] EXCEPT !.parent = initproc] ELSE left[q]
      BY DEF Orphaned
    <3>2. left[q] \in Entry
      BY <1>5 DEF Table
    <3> HIDE DEF orphans
    <3> QED
      BY <3>1, <3>2, InitIsProc DEF Entry
  <2>2. orphans = [q \in Proc |-> orphans[q]]
    BY DEF Orphaned
  <2> HIDE DEF orphans
  <2>3. orphans \in Table
    BY <2>1, <2>2 DEF Table
  <2> QED
    BY <1>5, <2>1, <2>3
<1>7. g = [orphans EXCEPT ![p].state = "ZOMBIE"]
  BY DEF Exited, left
<1> HIDE DEF woken, orphans
<1>8. /\ g \in Table /\ g[p].state = "ZOMBIE" /\ g[p].chan = orphans[p].chan
      /\ g[p].parent = orphans[p].parent /\ g[p].killed = orphans[p].killed
      /\ \A q \in Proc \ {p} : g[q] = orphans[q]
  <2> DEFINE e == orphans[p]
             e2 == [e EXCEPT !.state = "ZOMBIE"]
  <2>1. e \in Entry
    BY <1>6 DEF Table
  <2>2. g = [orphans EXCEPT ![p] = e2]
    BY <1>7
  <2> HIDE DEF e
  <2>3. /\ e2 \in Entry /\ e2.state = "ZOMBIE" /\ e2.parent = e.parent /\ e2.killed = e.killed
        /\ e2.chan = e.chan
    BY <2>1 DEF Entry, PState
  <2> HIDE DEF e2
  <2>4. g \in Table /\ g[p] = e2 /\ \A q \in Proc \ {p} : g[q] = orphans[q]
    BY <1>6, <2>2, <2>3 DEF Table
  <2> QED
    BY <2>3, <2>4 DEF e
<1>9. \A q \in Proc :
         /\ g[q].killed = ptable[q].killed /\ g[q].chan = ptable[q].chan
         /\ g[q].parent = IF ptable[q].parent = p THEN initproc ELSE ptable[q].parent
         /\ q # p => g[q].state = IF woken(q) THEN "RUNNABLE" ELSE ptable[q].state
  BY <1>6, <1>8
<1> QED
  BY <1>8, <1>9 DEF Exits, woken, dead

\* exit is not init's, and leaves for good.
LEMMA ExitStep ==
    ASSUME IInv, NEW c \in Cpu, ExitProc(c)
    PROVE  IInv'
<1> DEFINE s == code[T(c)]
           o == <<"zombie exit">>
           r == Cons(o, Tail(s))
           g == Exited(T(c))
<1>0. At(c, "exit")
  BY DEF ExitProc
<1>1. /\ s # <<>> /\ s[1][1] = "exit" /\ Name(s, 1) = "exit" /\ CodeOf(T(c), s)
      /\ May(T(c), "exit")
  BY <1>0, FirstIs, ThreadIs
<1>2. T(c) \in Proc /\ T(c) # initproc
  BY <1>1 DEF May, SchedOps
<1>3. Moves(s[1], Name(Tail(s), 1), TRUE, FALSE, FALSE, FALSE)
  BY <1>1, MovesTable
<1>4. Waits(s) /\ ~HasTable(Tail(s), 1) /\ ~HasTicks(Tail(s), 1)
  BY <1>1, <1>3, Behind DEF Waits
<1>5. /\ Inherits(s, Tail(s)) /\ CodeOf(T(c), Tail(s))
      /\ Name(Tail(s), 1) \notin {"spin", "intena"}
      /\ \A x \in Range(Tail(s)) : x[1] \in WayOut
  BY <1>1, TailHandles, TailCode DEF Closing
<1>6. o \in Op /\ o[1] = "zombie exit"
  BY OpIn DEF Plain
<1>7. Moves(o, Name(Tail(s), 1), TRUE, FALSE, FALSE, FALSE)
  BY <1>6, MovesTable
<1>10. /\ ptable \in Table /\ Myproc(c) = T(c) /\ State(T(c)) = "RUNNING"
       /\ Related(ptable)
  BY <1>2, ThreadIs DEF IInv
<1>11. Resched(c, g, <<o>>)
  BY <1>2, <1>10 DEF ExitProc, Exited, LeftBy
<1> HIDE DEF o
<1>8. Fronts(T(c), o, Tail(s))
  BY <1>2, <1>4, <1>5, <1>6, <1>7 DEF Fronts, Moves, May
<1>9. Comes(T(c), s, r, <<o>>) /\ Range(r) = {o} \cup Range(Tail(s))
  <2>1. r = Cons(o, Tail(s)) /\ o[1] \in Restoring
    BY <1>6 DEF Restoring
  <2> HIDE DEF r, s
  <2> QED
    BY <1>1, <1>5, <1>6, <1>8, <2>1, ComesWith
<1> HIDE DEF r
<1>12. g \in Table /\ Exits(ptable, T(c), g)
  <2>1. g = Exited(T(c))
    OBVIOUS
  <2> HIDE DEF g
  <2> QED
    BY <1>2, <1>10, <2>1, ExitTable
<1> HIDE DEF g
<1>13. Rests(T(c), g)
  BY <1>12 DEF Rests, State, Exits
<1>14. Related(g)
  <2>1. ptable[T(c)].state = "RUNNING"
    BY <1>10 DEF State
  <2> QED
    BY <1>2, <1>10, <1>12, <2>1, ExitRelated
<1>15. \A u \in Thread, q \in Proc :
          Makes(code[u], q) /\ (u = T(c) => Makes(r, q)) => g[q].parent = ptable[q].parent
  <2> TAKE u \in Thread, q \in Proc
  <2>1. /\ Copies(code[u], q) => ptable[q].parent = NoProc
        /\ Readies(code[u], q) => ptable[q].parent = u
    BY DEF IInv, Forks
  <2>2. ~Makes(r, q)
    <3>1. \A x \in Range(r) : x[1] \notin {"copy", "ready"}
      BY <1>5, <1>6, <1>9 DEF WayOut
    <3> QED
      BY <3>1 DEF Makes, Copies, Readies
  <2>3. NoProc # T(c)
    BY <1>2 DEF NoProc, Proc
  <2> QED
    BY <1>12, <2>1, <2>2, <2>3 DEF Makes, Exits
<1>16. Name(s, 1) \notin {"spin", "intena"}
  BY <1>1
<1>17. g[T(c)].state = "ZOMBIE"
  BY <1>12 DEF Exits
<1> QED
  BY <1>2, <1>4, <1>9, <1>11, <1>12, <1>13, <1>14, <1>15, <1>16, <1>17, ReschedStep

-----------------------------------------------------------------------------
(* The scheduler *)

\* Another round: the lock goes, and interrupts are let in.
LEMMA RoundEnds ==
    ASSUME IInv, NEW c \in Cpu, At(c, "pick"),
           Leave(c, "ptable", ptable, Then(c, <<<<"sti">>>>))
    PROVE  IInv'
<1> DEFINE s == code[T(c)]
           o == <<"sti">>
           r == Cons(o, Tail(s))
<1>1. s # <<>> /\ s[1][1] = "pick" /\ Name(s, 1) = "pick" /\ CodeOf(T(c), s) /\ May(T(c), "pick")
  BY FirstIs, ThreadIs
<1>2. T(c) \notin Proc
  BY <1>1 DEF May
<1>3. Moves(s[1], Name(Tail(s), 1), TRUE, FALSE, FALSE, FALSE)
  BY <1>1, MovesTable
<1>4. HasTable(s, 1) /\ ~HasTicks(s, 1) /\ ~HasTable(Tail(s), 1) /\ ~HasTicks(Tail(s), 1)
  BY <1>1, <1>3, Behind
<1>5. /\ Inherits(s, Tail(s)) /\ CodeOf(T(c), Tail(s))
      /\ Name(Tail(s), 1) \notin {"spin", "intena"} /\ (Handling(s) => Handling(Tail(s)))
  BY <1>1, TailHandles DEF Restoring
<1>6. o \in Op /\ o[1] = "sti"
  BY OpIn DEF Plain
<1>7. Moves(o, Name(Tail(s), 1), FALSE, FALSE, FALSE, FALSE)
  BY <1>6, MovesTable
<1>8. Leave(c, "ptable", ptable, [code EXCEPT ![T(c)] = r])
  BY DEF Then, Cons
<1> HIDE DEF o
<1>9. Fronts(T(c), o, Tail(s))
  <2>1. T(c) # initproc
    BY <1>2, InitIsProc
  <2> QED
    BY <1>2, <1>4, <1>5, <1>6, <1>7, <2>1 DEF Fronts, Moves, Closing, May, SchedOps
<1>10. Fronted(T(c), r, o, Tail(s))
  <2>1. r = Cons(o, Tail(s))
    OBVIOUS
  <2> HIDE DEF r, s
  <2> QED
    BY <1>6, <1>9, <2>1, HeadCode
<1> HIDE DEF r
<1>11. CodeOf(T(c), r) /\ Name(r, 1) # "spin" /\ ~HasTable(r, 1) /\ ~HasTicks(r, 1)
  BY <1>6, <1>7, <1>10 DEF Fronted, Moves
<1>12. Drops("ptable", s, r)
  BY <1>4, <1>11 DEF Drops
<1>13. Inherits(s, r) /\ (Handling(s) => Handling(r))
  BY <1>5, <1>6, <1>10 DEF Fronted, Inherits, Handling
<1>14. ptable \in Table /\ Milder(ptable, ptable)
  BY ThreadIs DEF Milder
<1>15. Name(s, 1) \notin {"spin", "intena"}
  BY <1>1
<1> QED
  BY <1>8, <1>11, <1>12, <1>13, <1>14, <1>15, FreeIsNoCpu, LeaveWith

\* A RUNNABLE process gets the processor, and with it the lock of the table.
LEMMA Dispatch ==
    ASSUME IInv, NEW c \in Cpu, At(c, "pick"), NEW p \in Proc, State(p) = "RUNNABLE",
           ptable' = [ptable EXCEPT ![p].state = "RUNNING"],
           cpus' = [cpus EXCEPT ![c].proc = p, ![c].thread = p],
           scan' = [scan EXCEPT ![c] = p + 1],
           code' = code, locked' = locked, ticks' = ticks, panic' = panic
    PROVE  IInv'
<1> DEFINE s == code[T(c)]
           cpu == [cpus[c] EXCEPT !.thread = p, !.proc = p]
<1>1. s # <<>> /\ s[1][1] = "pick" /\ Name(s, 1) = "pick" /\ CodeOf(T(c), s) /\ May(T(c), "pick")
  BY FirstIs, ThreadIs
<1>2. /\ T(c) \notin Proc /\ T(c) = Sched(c) /\ cpus \in [Cpu -> Flags] /\ cpus[c] \in Flags
      /\ ptable \in Table /\ Right(c, s, cpus[c], locked)
  BY <1>1, ThreadIs DEF May
<1>3. Waits(s)
  <2>1. Moves(s[1], Name(Tail(s), 1), TRUE, FALSE, FALSE, FALSE)
    BY <1>1, MovesTable
  <2> QED
    BY <1>1, <2>1, Behind DEF Waits
<1>4. Running /\ Codes /\ Idle /\ Locking /\ Forks /\ Parked /\ Related(ptable) /\ Typed /\ panic = "none"
  BY DEF IInv
<1>5. cpu \in Flags /\ cpu.thread = p /\ cpu.proc = p /\ cpu.ncli = cpus[c].ncli /\ cpu.if = cpus[c].if
  BY <1>2, InitIsProc DEF Flags
<1>6. cpus' = [cpus EXCEPT ![c] = cpu]
  BY <1>2 DEF Flags
<1> HIDE DEF cpu
<1>7. /\ cpus' \in [Cpu -> Flags] /\ cpus'[c] = cpu /\ \A d \in Cpu \ {c} : cpus'[d] = cpus[d]
  BY <1>2, <1>5, <1>6
<1>8. /\ T(c)' = p /\ Myproc(c)' = p
      /\ \A d \in Cpu \ {c} : T(d)' = T(d) /\ Myproc(d)' = Myproc(d)
  BY <1>5, <1>7 DEF T, Myproc
<1>9. /\ ptable' \in Table /\ ptable'[p].state = "RUNNING" /\ ptable'[p].parent = ptable[p].parent
      /\ ptable'[p].chan = ptable[p].chan /\ ptable'[p].killed = ptable[p].killed
      /\ \A q \in Proc \ {p} : ptable'[q] = ptable[q]
  <2> DEFINE e == ptable[p]
             e2 == [e EXCEPT !.state = "RUNNING"]
  <2>1. e \in Entry /\ ptable' = [ptable EXCEPT ![p] = e2]
    BY <1>2 DEF Table
  <2> HIDE DEF e
  <2>2. /\ e2 \in Entry /\ e2.state = "RUNNING" /\ e2.parent = e.parent /\ e2.killed = e.killed
        /\ e2.chan = e.chan
    BY <2>1 DEF Entry, PState
  <2> HIDE DEF e2
  <2>3. ptable' \in Table /\ ptable'[p] = e2 /\ \A q \in Proc \ {p} : ptable'[q] = ptable[q]
    BY <1>2, <2>1, <2>2 DEF Table
  <2> QED
    BY <2>2, <2>3 DEF e
<1>10. Typed'
  <2>1. p + 1 \in 1..NPROC + 1
    BY SmpConstants DEF Proc
  <2>2. scan' \in [Cpu -> 1..NPROC + 1]
    BY <1>4, <2>1 DEF Typed
  <2> QED
    BY <1>4, <1>7, <1>9, <2>2 DEF Typed, Table
<1>11. \A d \in Cpu \ {c} : T(d) # p /\ T(d) # Sched(c)
  <2> TAKE d \in Cpu \ {c}
  <2>1. Runs(d)
    BY <1>4 DEF Running
  <2>2. T(d) # T(c)
    BY <1>4 DEF Running
  <2> QED
    BY <1>2, <2>1, <2>2 DEF Runs
<1>12. Running'
  <2>1. \A d \in Cpu : Runs(d)'
    <3> SUFFICES ASSUME NEW d \in Cpu  PROVE Runs(d)'
      OBVIOUS
    <3>1. CASE d = c
      BY <1>8, <1>9, <3>1 DEF Runs, State
    <3>2. CASE d # c
      <4>1. Runs(d)
        BY <1>4 DEF Running
      <4> QED
        BY <1>8, <1>9, <1>11, <3>2, <4>1 DEF Runs, State
    <3> QED
      BY <3>1, <3>2
  <2>2. \A d, e \in Cpu : T(d)' = T(e)' => d = e
    <3> TAKE d, e \in Cpu
    <3>1. T(d) = T(e) => d = e
      BY <1>4 DEF Running
    <3> QED
      BY <1>8, <1>11, <3>1
  <2>3. ASSUME NEW q \in Proc, ptable'[q].state = "RUNNING"  PROVE \E d \in Cpu : T(d)' = q
    <3>1. CASE q = p
      BY <1>8, <3>1
    <3>2. CASE q # p
      <4>1. PICK d \in Cpu : T(d) = q
        BY <1>4, <1>9, <2>3, <3>2 DEF Running, State
      <4>2. d # c
        BY <1>2, <4>1
      <4> QED
        BY <1>8, <4>1, <4>2
    <3> QED
      BY <3>1, <3>2
  <2> QED
    BY <2>1, <2>2, <2>3 DEF Running, State
<1>13. Idle'
  <2> SUFFICES ASSUME NEW d \in Cpu, T(d)' # Sched(d)  PROVE Waits(code[Sched(d)])
    BY DEF Idle
  <2>1. CASE d = c
    BY <1>2, <1>3, <2>1
  <2>2. CASE d # c
    BY <1>4, <1>8, <2>2 DEF Idle
  <2> QED
    BY <2>1, <2>2
<1>14. Locking'
  <2> SUFFICES ASSUME NEW d \in Cpu  PROVE Right(d, code[T(d)'], cpus'[d], locked)
    BY DEF Locking, Todo
  <2>1. CASE d = c
    <3>1. Waits(code[p]) /\ (Name(code[p], 1) = "intena" \/ Handling(code[p]))
      BY <1>4 DEF Parked, ParkedAs
    <3>2. Name(code[p], 1) # "spin"
      BY <3>1 DEF Waits, HasTable, NeedsTable, Name
    <3>3. Name(s, 1) # "spin"
      BY <1>1
    <3>4. Right(c, code[p], cpu, locked)
      BY <1>2, <1>3, <1>5, <3>1, <3>2, <3>3 DEF Right, Waits, Count
    <3> QED
      BY <1>7, <1>8, <2>1, <3>4
  <2>2. CASE d # c
    <3>1. Right(d, code[T(d)], cpus[d], locked)
      BY <1>4 DEF Locking, Todo
    <3> QED
      BY <1>7, <1>8, <2>2, <3>1
  <2> QED
    BY <2>1, <2>2
<1>15. Codes'
  BY <1>4 DEF Codes
<1>16. Forks'
  BY <1>4, <1>9 DEF Forks, State, Makes
<1>17. Parked'
  <2> SUFFICES ASSUME NEW q \in Proc  PROVE ParkedAs(ptable'[q].state, code[q])
    BY DEF Parked, State
  <2>1. ParkedAs(ptable[q].state, code[q])
    BY <1>4 DEF Parked, State
  <2>2. CASE q = p
    BY <1>9, <2>1, <2>2 DEF ParkedAs, State
  <2>3. CASE q # p
    BY <1>9, <2>1, <2>3
  <2> QED
    BY <2>2, <2>3
<1>18. Related(ptable')
  <2>1. \A q \in Proc :
           /\ Alive(ptable'[q].state) <=> Alive(ptable[q].state)
           /\ ptable'[q].state = "UNUSED" <=> ptable[q].state = "UNUSED"
           /\ ptable'[q].state = "EMBRYO" <=> ptable[q].state = "EMBRYO"
           /\ ptable'[q].state = "ZOMBIE" <=> ptable[q].state = "ZOMBIE"
           /\ ptable'[q].parent = ptable[q].parent
           /\ ptable'[q].killed = ptable[q].killed
           /\ ptable'[q].state = "SLEEPING" =>
                 ptable[q].state = "SLEEPING" /\ ptable'[q].chan = ptable[q].chan
    <3> TAKE q \in Proc
    <3>1. CASE q = p
      BY <1>9, <3>1 DEF Alive, State
    <3>2. CASE q # p
      BY <1>9, <3>2
    <3> QED
      BY <3>1, <3>2
  <2>2. \A q \in Proc : ptable[q].parent \in {NoProc} \cup Proc
    BY <1>2 DEF Table, Entry
  <2> QED
    BY <1>4, <2>1, <2>2, InitIsProc DEF Related
<1> QED
  BY <1>4, <1>10, <1>12, <1>13, <1>14, <1>15, <1>16, <1>17, <1>18 DEF IInv

\* A set of numbers up to n has a least element.
LEMMA LeastOf ==
    ASSUME NEW n \in Nat, NEW K \in SUBSET (0..n), K # {}
    PROVE  \E i \in K : \A j \in K : i <= j
<1> DEFINE B(i) == {j \in K : j <= i}
           r == [i \in K |-> Cardinality(B(i))]
           m == Cardinality(K)
<1>1. IsFiniteSet(K) /\ m \in Nat /\ m # 0
  <2>1. IsFiniteSet(0..n)
    BY FS_Interval
  <2>2. IsFiniteSet(K)
    BY <2>1, FS_Subset
  <2> QED
    BY <2>2, FS_CardinalityType, FS_EmptySet
<1>2. \A i \in K : IsFiniteSet(B(i)) /\ i \in B(i) /\ Cardinality(B(i)) \in 1..m
  <2> TAKE i \in K
  <2>1. B(i) \in SUBSET K /\ i \in B(i)
    OBVIOUS
  <2> HIDE DEF B
  <2>2. IsFiniteSet(B(i)) /\ Cardinality(B(i)) <= m
    BY <1>1, <2>1, FS_Subset
  <2>3. Cardinality(B(i)) \in Nat /\ Cardinality(B(i)) # 0
    BY <2>1, <2>2, FS_CardinalityType, FS_EmptySet
  <2> QED
    BY <1>1, <2>1, <2>2, <2>3
<1>3. \A i, j \in K : i < j => Cardinality(B(i)) # Cardinality(B(j))
  <2> SUFFICES ASSUME NEW i \in K, NEW j \in K, i < j
               PROVE  Cardinality(B(i)) # Cardinality(B(j))
    OBVIOUS
  <2>1. i \in Int /\ j \in Int /\ \A x \in K : x \in Int
    OBVIOUS
  <2>2. \A x \in K : x <= i => x <= j
    BY <2>1
  <2>3. \A x : x \in B(i) => x \in B(j)
    BY <2>2
  <2>4. B(i) \in SUBSET B(j) /\ j \in B(j) /\ j \notin B(i)
    BY <2>1, <2>3
  <2>5. PICK C : C = B(i)
    OBVIOUS
  <2>6. PICK D : D = B(j)
    OBVIOUS
  <2>7. C \in SUBSET D /\ C # D /\ IsFiniteSet(D)
    BY <1>2, <2>4, <2>5, <2>6
  <2>8. Cardinality(C) # Cardinality(D)
    BY <2>7, FS_Subset
  <2> QED
    BY <2>5, <2>6, <2>8
<1>4. r \in Surjection(K, 1..m)
  <2>1. r \in [K -> 1..m] /\ \A i \in K : r[i] = Cardinality(B(i))
    BY <1>2
  <2> HIDE DEF r, B
  <2>2. \A i, j \in K : r[i] = r[j] => i = j
    BY <1>3, <2>1
  <2>3. r \in Injection(K, 1..m)
    BY <2>1, <2>2 DEF Injection, IsInjective
  <2>4. IsFiniteSet(1..m) /\ Cardinality(1..m) = m
    BY <1>1, FS_Interval
  <2> QED
    BY <2>3, <2>4, FS_Injection
<1>5. PICK i \in K : Cardinality(B(i)) = 1
  <2>1. \A i \in K : r[i] = Cardinality(B(i))
    OBVIOUS
  <2> HIDE DEF r, B
  <2> QED
    BY <1>1, <1>4, <2>1 DEF Surjection
<1>6. \A j \in K : i <= j
  <2> SUFFICES ASSUME NEW j \in K, ~(i <= j)
               PROVE  FALSE
    OBVIOUS
  <2>1. j \in B(i) /\ j # i
    OBVIOUS
  <2> HIDE DEF B
  <2>2. PICK z : B(i) = {z}
    BY <1>2, <1>5, FS_Singleton
  <2> QED
    BY <1>2, <2>1, <2>2
<1> QED
  BY <1>6

LEMMA PickStep ==
    ASSUME IInv, NEW c \in Cpu, Pick(c)
    PROVE  IInv'
<1> DEFINE ready == {p \in scan[c]..NPROC : State(p) = "RUNNABLE"}
           p == CHOOSE q \in ready : \A r \in ready : q <= r
<1>1. CASE ready = {}
  BY <1>1, RoundEnds DEF Pick
<1>2. CASE ready # {}
  <2>1. ready \subseteq Int
    OBVIOUS
  <2>2. scan[c] \in 1..NPROC + 1
    BY DEF IInv, Typed
  <2>3. ready \subseteq Proc
    BY <2>2, SmpConstants DEF Proc
  <2>4. \E q \in ready : \A r \in ready : q <= r
    <3>1. ready \in SUBSET (0..NPROC) /\ NPROC \in Nat
      BY <2>3, SmpConstants DEF Proc
    <3> HIDE DEF ready
    <3> QED
      BY <1>2, <3>1, LeastOf
  <2>5. p \in ready
    BY <2>4
  <2>6. /\ At(c, "pick") /\ ptable' = [ptable EXCEPT ![p].state = "RUNNING"]
        /\ cpus' = [cpus EXCEPT ![c].proc = p, ![c].thread = p]
        /\ scan' = [scan EXCEPT ![c] = p + 1]
        /\ code' = code /\ locked' = locked /\ ticks' = ticks /\ panic' = panic
    BY <1>2 DEF Pick
  <2>7. p \in Proc /\ State(p) = "RUNNABLE"
    BY <2>3, <2>5
  <2> HIDE DEF p
  <2> QED
    BY <2>6, <2>7, Dispatch
<1> QED
  BY <1>1, <1>2

\* A process runs again: the interrupt flag to restore is its own.
LEMMA ResumedStep ==
    ASSUME IInv, NEW c \in Cpu, Resumed(c)
    PROVE  IInv'
<1> DEFINE s == code[T(c)]
           b == s[1][2]
           cpu == [cpus[c] EXCEPT !.intena = b]
           e == [ptable[T(c)] EXCEPT !.chan = NoChan]
           f == [ptable EXCEPT ![T(c)] = e]
<1>1. /\ s # <<>> /\ s[1] \in Op /\ s[1][1] = "intena" /\ Name(s, 1) = "intena" /\ CodeOf(T(c), s)
      /\ May(T(c), "intena") /\ Arg(c) = b
  <2>1. At(c, "intena")
    BY DEF Resumed
  <2> QED
    BY <2>1, FirstIs, ThreadIs
<1>2. T(c) \in Proc
  BY <1>1 DEF May, SchedOps
<1>3. /\ Myproc(c) = T(c) /\ State(T(c)) = "RUNNING" /\ ptable \in Table /\ locked \in LockMap
      /\ cpus \in [Cpu -> Flags] /\ cpus[c] \in Flags /\ cpus[c].thread = T(c)
      /\ Right(c, s, cpus[c], locked)
  BY <1>2, ThreadIs
<1>4. Moves(s[1], Name(Tail(s), 1), TRUE, FALSE, TRUE, FALSE)
  BY <1>1, MovesTable
<1>5. HasTable(s, 1) /\ ~HasTicks(s, 1) /\ HasTable(Tail(s), 1) /\ ~HasTicks(Tail(s), 1)
  BY <1>1, <1>4, Behind
<1>6. /\ Inherits(s, Tail(s)) /\ CodeOf(T(c), Tail(s)) /\ Name(Tail(s), 1) # "spin"
      /\ Handling(s) <=> Handling(Tail(s))
  BY <1>1, TailHandles DEF Restoring
<1>7. b \in BOOLEAN
  BY <1>1, OpParts
<1>8. Handling(s) \/ b
  BY <1>1, <1>2 DEF CodeOf, Restores
<1>9. /\ cpus' = [cpus EXCEPT ![c] = cpu] /\ ptable' = f
      /\ code' = [code EXCEPT ![T(c)] = Tail(s)]
      /\ locked' = locked /\ scan' = scan /\ ticks' = ticks /\ panic' = panic
  <2>1. /\ cpus' = [cpus EXCEPT ![c].intena = b]
        /\ ptable' = [ptable EXCEPT ![T(c)].chan = NoChan]
        /\ locked' = locked /\ scan' = scan /\ ticks' = ticks /\ panic' = panic
        /\ Done(c)
    BY <1>1, <1>3 DEF Resumed
  <2> QED
    BY <1>1, <2>1, DoneIs
<1>10. /\ cpu \in Flags /\ cpu.thread = T(c) /\ cpu.proc = Myproc(c) /\ cpu.ncli = cpus[c].ncli
       /\ cpu.if = cpus[c].if /\ cpu.intena = b
  <2> HIDE DEF b
  <2> QED
    BY <1>3, <1>7 DEF Flags, Myproc
<1>11. f \in Table /\ Milder(ptable, f)
  <2>1. ptable[T(c)] \in Entry
    BY <1>2, <1>3 DEF Table
  <2>2. e \in Entry /\ e.state = "RUNNING" /\ e.parent = ptable[T(c)].parent
        /\ e.killed = ptable[T(c)].killed
    BY <1>3, <2>1 DEF Entry, State
  <2> HIDE DEF e
  <2>3. f \in Table /\ f[T(c)] = e /\ \A q \in Proc \ {T(c)} : f[q] = ptable[q]
    BY <1>2, <1>3, <2>2 DEF Table
  <2> HIDE DEF f
  <2> QED
    BY <1>2, <1>3, <2>2, <2>3 DEF Milder, State
<1> HIDE DEF cpu, f, b
<1>12. Right(c, Tail(s), cpu, locked)
  <2>1. Name(s, 1) # "spin"
    BY <1>1
  <2>2. cpus[c].ncli = 1 /\ ~cpus[c].if
    BY <1>3, <1>5, <2>1 DEF Right, Count
  <2> HIDE DEF s
  <2> QED
    BY <1>3, <1>5, <1>6, <1>8, <1>10, <2>2 DEF Right, Count
<1>13. OwnLocks(c, locked)
  BY DEF OwnLocks
<1>14. scan' \in [Cpu -> 1..NPROC + 1] /\ ticks' \in 0..TICKS - 1
  BY <1>9 DEF IInv, Typed
<1>15. Turn(c, cpu, Tail(s), locked, f)
  BY <1>9, <1>14 DEF Turn
<1> QED
  BY <1>3, <1>6, <1>10, <1>11, <1>12, <1>13, <1>15, Continue

-----------------------------------------------------------------------------
(* Steps that change another process: fork, and wait *)

\* The thread t has the code s next, and the process q, which does not run, sq.
Becomes(t, s, q, sq) ==
    /\ code' = [u \in Thread |-> code'[u]] /\ code'[t] = s /\ code'[q] = sq
    /\ \A u \in Thread \ {t, q} : code'[u] = code[u]

\* The process q becomes e in the table, and has the code sq; if it is the child of
\* a fork, it is that of t.
Kin(t, s, q, sq, e) ==
    /\ CodeOf(t, s) /\ CodeOf(q, sq)
    /\ e.state # "RUNNING" /\ ParkedAs(e.state, sq)
    /\ Left(s) => Left(code[t])
    /\ \A p \in Proc \ {q} : /\ Copies(s, p) => Copies(code[t], p)
                             /\ Readies(s, p) => Readies(code[t], p)
    /\ sq = code[q] \/ \A p \in Proc : ~Makes(sq, p)
    /\ Copies(s, q) => e.state = "EMBRYO" /\ e.parent = NoProc
    /\ Readies(s, q) => e.state = "EMBRYO" /\ e.parent = t
    /\ \A u \in Thread \ {t} : ~Makes(code[u], q)

\* Processor c has the flags cpu next; the locks are lk and the table is f.
Hands(c, cpu, lk, f) ==
    /\ cpus' = [cpus EXCEPT ![c] = cpu] /\ locked' = lk /\ ptable' = f
    /\ scan' = scan /\ ticks' = ticks /\ panic' = panic

LEMMA KinStep ==
    ASSUME IInv, NEW c \in Cpu, T(c) \in Proc, NEW q \in Proc, State(q) # "RUNNING",
           NEW s, NEW sq, NEW e \in Entry, Kin(T(c), s, q, sq, e), Becomes(T(c), s, q, sq),
           NEW cpu \in Flags, cpu.thread = T(c), cpu.proc = Myproc(c),
           NEW lk \in LockMap, OwnLocks(c, lk), Right(c, s, cpu, lk),
           NEW f, f = [ptable EXCEPT ![q] = e], Related(f),
           Hands(c, cpu, lk, f)
    PROVE  IInv'
<1> /\ cpus' = [cpus EXCEPT ![c] = cpu] /\ locked' = lk /\ ptable' = f
    /\ scan' = scan /\ ticks' = ticks /\ panic' = panic
  BY DEF Hands
<1> DEFINE t == T(c)
<1>1. /\ t \in Thread /\ cpus \in [Cpu -> Flags] /\ ptable \in Table /\ locked \in LockMap
      /\ State(t) = "RUNNING" /\ t # q /\ q \in Thread /\ t \in Proc
  BY ThreadIs, InitIsProc
<1>2. Codes /\ Forks /\ Parked /\ Typed /\ panic = "none"
  BY DEF IInv
<1>3. /\ f \in Table /\ f[q] = e /\ \A p \in Proc \ {q} : f[p] = ptable[p]
  BY <1>1 DEF Table
<1>4. /\ cpus' \in [Cpu -> Flags] /\ cpus'[c] = cpu
      /\ \A d \in Cpu \ {c} : cpus'[d] = cpus[d]
  BY <1>1
<1>5. Typed'
  BY <1>2, <1>3, <1>4 DEF Typed, LockMap, Table
<1>6. /\ code' = [u \in Thread |-> code'[u]] /\ code'[t] = s /\ code'[q] = sq
      /\ \A u \in Thread \ {t, q} : code'[u] = code[u]
  BY DEF Becomes
<1>7. /\ CodeOf(t, s) /\ CodeOf(q, sq)
      /\ e.state # "RUNNING" /\ ParkedAs(e.state, sq)
      /\ Left(s) => Left(code[t])
  BY DEF Kin
<1>8. \A p \in Proc : f[p].state = "RUNNING" <=> State(p) = "RUNNING"
  BY <1>3, <1>7 DEF State
<1>9. \A d \in Cpu \ {c}, l \in Locks : locked'[l] = d <=> locked[l] = d
  <2> TAKE d \in Cpu \ {c}, l \in Locks
  <2>1. d # Free
    BY FreeIsNoCpu
  <2> QED
    BY <2>1 DEF OwnLocks
<1>10. Codes' /\ Running' /\ Idle' /\ Locking'
  <2>1. T(c)' = T(c) /\ Myproc(c)' = Myproc(c)
    BY <1>4 DEF T, Myproc
  <2>2. CodeOf(T(c), code'[T(c)]) /\ Right(c, code'[T(c)], cpus'[c], locked')
    BY <1>4, <1>6, <1>7
  <2>3. \A u \in Thread \ {T(c)} :
           code'[u] = code[u] \/ (u \in Proc /\ State(u) # "RUNNING" /\ CodeOf(u, code'[u]))
    BY <1>6, <1>7
  <2>4. \A p \in Proc : ptable'[p].state = "RUNNING" <=> State(p) = "RUNNING"
    BY <1>8
  <2> QED
    BY <1>4, <1>6, <1>9, <2>1, <2>2, <2>3, <2>4, Going
<1> HIDE DEF t
<1>11. \A u \in Thread, p \in Proc :
          /\ Copies(code'[u], p) => IF p = q THEN u = t /\ e.state = "EMBRYO" /\ e.parent = NoProc
                                    ELSE Copies(code[u], p)
          /\ Readies(code'[u], p) => IF p = q THEN u = t /\ e.state = "EMBRYO" /\ e.parent = t
                                     ELSE Readies(code[u], p)
  <2> TAKE u \in Thread, p \in Proc
  <2>1. /\ p # q => /\ Copies(s, p) => Copies(code[t], p)
                    /\ Readies(s, p) => Readies(code[t], p)
        /\ sq = code[q] \/ ~Makes(sq, p)
        /\ Copies(s, q) => e.state = "EMBRYO" /\ e.parent = NoProc
        /\ Readies(s, q) => e.state = "EMBRYO" /\ e.parent = t
        /\ u # t => ~Makes(code[u], q)
    BY DEF Kin, t
  <2>2. CASE u = t
    BY <1>6, <2>1, <2>2
  <2>3. CASE u = q
    BY <1>1, <1>6, <2>1, <2>3 DEF Makes
  <2>4. CASE u # t /\ u # q
    BY <1>6, <2>1, <2>4 DEF Makes
  <2> QED
    BY <2>2, <2>3, <2>4
<1>12. Forks'
  <2>1. \A u \in Thread, p \in Proc :
           /\ Copies(code'[u], p) => f[p].state = "EMBRYO" /\ f[p].parent = NoProc
           /\ Readies(code'[u], p) => f[p].state = "EMBRYO" /\ f[p].parent = u
    BY <1>2, <1>3, <1>11 DEF Forks, State
  <2>2. ASSUME NEW u \in Thread, NEW v \in Thread, NEW p \in Proc,
               Makes(code'[u], p), Makes(code'[v], p)
        PROVE  u = v
    <3>1. CASE p = q
      BY <1>11, <2>2, <3>1 DEF Makes
    <3>2. CASE p # q
      <4>1. Makes(code[u], p) /\ Makes(code[v], p)
        BY <1>11, <2>2, <3>2 DEF Makes
      <4> QED
        BY <1>2, <4>1 DEF Forks
    <3> QED
      BY <3>1, <3>2
  <2> QED
    BY <2>1, <2>2 DEF Forks, State, Makes
<1>13. Parked'
  <2> SUFFICES ASSUME NEW p \in Proc  PROVE ParkedAs(f[p].state, code'[p])
    BY DEF Parked, State
  <2>1. ParkedAs(ptable[p].state, code[p])
    BY <1>2 DEF Parked, State
  <2>2. CASE p = q
    BY <1>3, <1>6, <1>7, <2>2
  <2>3. CASE p = t
    <3>1. f[p].state = "RUNNING" /\ ptable[p].state = "RUNNING" /\ ~Left(s)
      BY <1>1, <1>3, <1>7, <2>1, <2>3 DEF State, ParkedAs
    <3> QED
      BY <1>6, <2>3, <3>1 DEF ParkedAs
  <2>4. CASE p # q /\ p # t
    <3>1. p \in Thread \ {t, q}
      BY <2>4, InitIsProc
    <3> QED
      BY <1>3, <1>6, <2>1, <2>4, <3>1
  <2> QED
    BY <2>2, <2>3, <2>4
<1> QED
  BY <1>2, <1>5, <1>10, <1>12, <1>13 DEF IInv

\* An entry that nobody has for a parent changes.
LEMMA RelatedBut ==
    ASSUME NEW f \in Table, Related(f), NEW q \in Proc, ~Alive(f[q].state), NEW e \in Entry,
           NEW g, g = [f EXCEPT ![q] = e],
           e.state # "ZOMBIE", e.state = "UNUSED" => e.parent = NoProc,
           e.parent # NoProc => e.parent # q /\ Alive(f[e.parent].state),
           e.state \notin {"UNUSED", "EMBRYO"} => e.parent # NoProc
    PROVE  Related(g) /\ q # initproc
<1>1. g[q] = e /\ \A p \in Proc \ {q} : g[p] = f[p]
  BY DEF Table
<1>2. q # initproc /\ initproc \in Proc
  BY InitIsProc DEF Related
<1>3. Alive(g[initproc].state) /\ ~g[initproc].killed /\ g[initproc].parent = NoProc
  BY <1>1, <1>2 DEF Related
<1>4. e.parent \in {NoProc} \cup Proc /\ \A p \in Proc : f[p].parent \in {NoProc} \cup Proc
  BY DEF Entry, Table
<1>5. ASSUME NEW p \in Proc
      PROVE  /\ g[p].state = "UNUSED" => g[p].parent = NoProc
             /\ g[p].parent # NoProc => g[p].parent # p /\ Alive(g[g[p].parent].state)
             /\ p # initproc /\ g[p].state \notin {"UNUSED", "EMBRYO"} => g[p].parent # NoProc
             /\ g[p].state = "ZOMBIE" /\ g[p].parent # NoProc =>
                   ~(g[g[p].parent].state = "SLEEPING" /\ g[g[p].parent].chan = g[p].parent)
  <2>1. CASE p = q
    BY <1>1, <1>4, <2>1
  <2>2. CASE p # q
    <3>1. g[p] = f[p]
      BY <1>1, <2>2
    <3>2. /\ f[p].state = "UNUSED" => f[p].parent = NoProc
          /\ f[p].parent # NoProc => f[p].parent # p /\ Alive(f[f[p].parent].state)
          /\ p # initproc /\ f[p].state \notin {"UNUSED", "EMBRYO"} => f[p].parent # NoProc
          /\ f[p].state = "ZOMBIE" /\ f[p].parent # NoProc =>
                ~(f[f[p].parent].state = "SLEEPING" /\ f[f[p].parent].chan = f[p].parent)
      BY DEF Related
    <3>3. f[p].parent # NoProc => f[p].parent \in Proc \ {q}
      BY <1>4, <3>2
    <3> QED
      BY <1>1, <3>1, <3>2, <3>3
  <2> QED
    BY <2>1, <2>2
<1> QED
  BY <1>2, <1>3, <1>5 DEF Related

\* The same at the end of a section under ptable.lock.
LEMMA LeaveKin ==
    ASSUME IInv, NEW c \in Cpu, T(c) \in Proc, NEW q \in Proc, State(q) # "RUNNING",
           NEW s, NEW sq, NEW e \in Entry, Kin(T(c), s, q, sq, e),
           NEW f, f = [ptable EXCEPT ![q] = e], Related(f),
           Name(code[T(c)], 1) \notin {"spin", "intena"},
           Drops("ptable", code[T(c)], s), Name(s, 1) # "spin",
           Handling(code[T(c)]) => Handling(s),
           NEW todo, Leave(c, "ptable", f, todo),
           code' = todo => Becomes(T(c), s, q, sq)
    PROVE  IInv'
<1> DEFINE cpu == popcli(cpus[c])
           lk == [locked EXCEPT !["ptable"] = Free]
<1>1. /\ cpus' = [cpus EXCEPT ![c] = cpu] /\ locked' = lk
      /\ ptable' = f /\ code' = todo
      /\ scan' = scan /\ ticks' = ticks /\ panic' = panic
      /\ cpu \in Flags /\ cpu.thread = T(c) /\ cpu.proc = Myproc(c)
      /\ lk \in LockMap /\ OwnLocks(c, lk) /\ Right(c, s, cpu, lk)
  BY FreeIsNoCpu, LeaveIs
<1> HIDE DEF cpu, lk
<1>2. Hands(c, cpu, lk, f)
  BY <1>1 DEF Hands
<1> QED
  BY <1>1, <1>2, KinStep

LEMMA NoCode ==
    ASSUME NEW t
    PROVE  /\ CodeOf(t, <<>>) /\ ~Left(<<>>) /\ \A p : ~Makes(<<>>, p)
           /\ ParkedAs("UNUSED", <<>>)
<1>1. Restores(<<>>)
  BY EmptyCode DEF Restores
<1> QED
  BY <1>1, EmptyCode DEF CodeOf, Left, Makes, Copies, Readies, ParkedAs

\* The names of what a fork consists of.
LEMMA Distinct ==
    ASSUME NEW o
    PROVE  /\ o[1] # "zombie exit" => o # <<"zombie exit">>
           /\ \A p : o[1] # "copy" => o # <<"copy", p>>
           /\ \A p : o[1] # "ready" => o # <<"ready", p>>
<1>1. <<"zombie exit">>[1] = "zombie exit"
  OBVIOUS
<1>2. \A p : <<"copy", p>>[1] = "copy"
  OBVIOUS
<1>3. \A p : <<"ready", p>>[1] = "ready"
  OBVIOUS
<1> QED
  BY <1>1, <1>2, <1>3

\* What has only the way out to do makes nothing, and has not left.
LEMMA OutMakes ==
    ASSUME NEW s, \A o \in Range(s) : o[1] \notin {"copy", "ready", "zombie exit"}
    PROVE  ~Left(s) /\ \A p : ~Copies(s, p) /\ ~Readies(s, p) /\ ~Makes(s, p)
BY Distinct DEF Left, Copies, Readies, Makes

\* The only one that makes the child of a fork; it is an EMBRYO.
LEMMA ForkIs ==
    ASSUME IInv, NEW t \in Thread, NEW q \in Proc
    PROVE  /\ Makes(code[t], q) => State(q) = "EMBRYO" /\ \A u \in Thread \ {t} : ~Makes(code[u], q)
           /\ Copies(code[t], q) => ptable[q].parent = NoProc
           /\ Readies(code[t], q) => ptable[q].parent = t
           /\ State(q) # "EMBRYO" => ~Copies(code[t], q) /\ ~Readies(code[t], q)
BY DEF IInv, Forks, Makes

\* wait takes the entry of a dead child away.
LEMMA Reap ==
    ASSUME IInv, NEW c \in Cpu, At(c, "wait"), NEW z \in Proc, State(z) = "ZOMBIE",
           Leave(c, "ptable", [ptable EXCEPT ![z] = Unused],
                 [Then(c, <<>>) EXCEPT ![z] = <<>>])
    PROVE  IInv'
<1> DEFINE s == code[T(c)]
           f == [ptable EXCEPT ![z] = Unused]
           todo == [Then(c, <<>>) EXCEPT ![z] = <<>>]
<1>1. /\ s # <<>> /\ s[1][1] = "wait" /\ Name(s, 1) = "wait" /\ CodeOf(T(c), s)
      /\ May(T(c), "wait")
  BY FirstIs, ThreadIs
<1>2. T(c) \in Proc /\ T(c) \in Thread /\ State(T(c)) = "RUNNING" /\ ptable \in Table
  BY <1>1, ThreadIs DEF May, SchedOps
<1>3. Moves(s[1], Name(Tail(s), 1), TRUE, FALSE, FALSE, FALSE)
  BY <1>1, MovesTable
<1>4. Drops("ptable", s, Tail(s))
  BY <1>1, <1>3, Behind DEF Drops
<1>5. /\ Inherits(s, Tail(s)) /\ CodeOf(T(c), Tail(s))
      /\ Name(Tail(s), 1) # "spin" /\ (Handling(s) => Handling(Tail(s)))
  BY <1>1, TailHandles DEF Restoring
<1>6. Unused \in Entry /\ Unused.state = "UNUSED" /\ Unused.parent = NoProc
  BY DEF Unused, Entry, PState
<1>7. z # T(c) /\ z \in Thread
  BY <1>2, InitIsProc
<1>8. Becomes(T(c), Tail(s), z, <<>>) \/ code' # todo
  <2>1. Then(c, <<>>) = [code EXCEPT ![T(c)] = Tail(s)]
    BY <1>1, DoneIs
  <2>2. code = [u \in Thread |-> code[u]]
    BY DEF IInv, Codes
  <2>3. /\ todo = [u \in Thread |-> todo[u]] /\ todo[T(c)] = Tail(s) /\ todo[z] = <<>>
        /\ \A u \in Thread \ {T(c), z} : todo[u] = code[u]
    BY <1>2, <1>7, <2>1, <2>2
  <2> HIDE DEF todo
  <2> QED
    BY <2>3 DEF Becomes
<1>9. Related(f)
  <2>1. ~Alive(ptable[z].state)
    BY DEF Alive, State
  <2>2. Related(ptable)
    BY DEF IInv
  <2> HIDE DEF f
  <2> QED
    BY <1>2, <1>6, <2>1, <2>2, RelatedBut DEF f
<1>10. Kin(T(c), Tail(s), z, <<>>, Unused)
  <2>1. ~Copies(Tail(s), z) /\ ~Readies(Tail(s), z)
    BY <1>2, <1>5, ForkIs DEF Inherits, Copies, Readies
  <2>2. \A p \in Proc : /\ Copies(Tail(s), p) => Copies(s, p)
                        /\ Readies(Tail(s), p) => Readies(s, p)
    BY <1>5 DEF Inherits, Copies, Readies
  <2>3. Left(Tail(s)) => Left(s)
    BY <1>5 DEF Inherits, Left
  <2>4. \A u \in Thread : ~Makes(code[u], z)
    BY ForkIs
  <2> QED
    BY <1>5, <1>6, <2>1, <2>2, <2>3, <2>4, NoCode DEF Kin
<1>11. Name(s, 1) \notin {"spin", "intena"} /\ State(z) # "RUNNING"
  BY <1>1
<1>12. Leave(c, "ptable", f, todo)
  OBVIOUS
<1>13. f = [ptable EXCEPT ![z] = Unused]
  OBVIOUS
<1> HIDE DEF f, todo
<1> QED
  BY <1>2, <1>4, <1>5, <1>6, <1>8, <1>9, <1>10, <1>11, <1>12, <1>13, LeaveKin

LEMMA WaitStep ==
    ASSUME IInv, NEW c \in Cpu, WaitChild(c)
    PROVE  IInv'
<1> DEFINE zombies == {q \in Children(Myproc(c)) : State(q) = "ZOMBIE"}
           z == CHOOSE q \in zombies : \A r \in zombies : q <= r
<1>1. At(c, "wait")
  BY DEF WaitChild
<1>2. CASE zombies # {}
  <2>1. zombies \subseteq Proc
    BY DEF Children
  <2>2. zombies \in SUBSET (0..NPROC) /\ NPROC \in Nat
    BY <2>1, SmpConstants DEF Proc
  <2>3. Leave(c, "ptable", [ptable EXCEPT ![z] = Unused], [Then(c, <<>>) EXCEPT ![z] = <<>>])
    BY <1>2 DEF WaitChild
  <2>4. \A q \in zombies : State(q) = "ZOMBIE"
    OBVIOUS
  <2> HIDE DEF zombies
  <2>5. \E q \in zombies : \A r \in zombies : q <= r
    BY <1>2, <2>2, LeastOf
  <2>6. z \in zombies
    BY <2>5
  <2> HIDE DEF z
  <2> QED
    BY <1>1, <2>1, <2>3, <2>4, <2>6, Reap
<1>3. CASE zombies = {} /\ (Children(Myproc(c)) = {} \/ ptable[Myproc(c)].killed)
  <2> DEFINE s == code[T(c)]
  <2>1. Leave(c, "ptable", ptable, Then(c, <<>>))
    BY <1>3 DEF WaitChild
  <2>2. s # <<>> /\ s[1][1] = "wait" /\ Name(s, 1) = "wait" /\ CodeOf(T(c), s)
    BY <1>1, FirstIs, ThreadIs
  <2>3. Moves(s[1], Name(Tail(s), 1), TRUE, FALSE, FALSE, FALSE)
    BY <2>2, MovesTable
  <2>4. Drops("ptable", s, Tail(s))
    BY <2>2, <2>3, Behind DEF Drops
  <2>5. ptable \in Table /\ Milder(ptable, ptable)
    BY ThreadIs DEF Milder
  <2>6. Name(s, 1) \notin {"spin", "intena"} \cup Restoring
    BY <2>2 DEF Restoring
  <2> QED
    BY <2>1, <2>2, <2>4, <2>5, <2>6, FreeIsNoCpu, LeaveTail
<1>4. CASE zombies = {} /\ Children(Myproc(c)) # {} /\ ~ptable[Myproc(c)].killed
  <2>1. Resched(c, Sleeping(Myproc(c), Myproc(c)), <<<<"wait">>>>)
    BY <1>4 DEF WaitChild
  <2> QED
    BY <1>1, <1>4, <2>1, WaitSleeps
<1> QED
  BY <1>2, <1>3, <1>4

\* The state of one entry changes.
Restated(f, q, st) == f = [ptable EXCEPT ![q].state = st]
LEMMA StateIs ==
    ASSUME ptable \in Table, NEW q \in Proc, NEW st \in PState,
           NEW f, Restated(f, q, st)
    PROVE  \E e \in Entry : /\ f = [ptable EXCEPT ![q] = e]
                            /\ e.state = st /\ e.parent = ptable[q].parent
<1> DEFINE e == [ptable[q] EXCEPT !.state = st]
<1>1. ptable[q] \in Entry
  BY DEF Table
<1>2. e \in Entry /\ e.state = st /\ e.parent = ptable[q].parent
  BY <1>1 DEF Entry
<1>3. f = [ptable EXCEPT ![q] = e]
  BY DEF Restated
<1> QED
  BY <1>2, <1>3

\* fork's last step: the child can run.
LEMMA ReadyStep ==
    ASSUME IInv, NEW c \in Cpu, MakeReady(c)
    PROVE  IInv'
<1> DEFINE s == code[T(c)]
           q == Arg(c)
           f == [ptable EXCEPT ![q].state = "RUNNABLE"]
           todo == Then(c, <<>>)
<1>0. At(c, "ready") /\ Leave(c, "ptable", f, todo)
  BY DEF MakeReady
<1>1. /\ s # <<>> /\ s[1] \in Op /\ s[1][1] = "ready" /\ Name(s, 1) = "ready" /\ CodeOf(T(c), s)
      /\ May(T(c), "ready") /\ s[1] \in Range(s) /\ q = s[1][2]
  BY <1>0, FirstIs, ThreadIs
<1>2. T(c) \in Proc /\ T(c) \in Thread /\ State(T(c)) = "RUNNING" /\ ptable \in Table
  BY <1>1, ThreadIs DEF May, SchedOps
<1>3. q \in Proc /\ Readies(s, q)
  BY <1>1, OpParts DEF Readies
<1>4. Moves(s[1], Name(Tail(s), 1), TRUE, FALSE, FALSE, FALSE)
  BY <1>1, MovesTable
<1>5. Drops("ptable", s, Tail(s))
  BY <1>1, <1>4, Behind DEF Drops
<1>6. /\ CodeOf(T(c), Tail(s)) /\ Name(Tail(s), 1) # "spin" /\ (Handling(s) => Handling(Tail(s)))
      /\ \A o \in Range(Tail(s)) : o[1] \in WayOut
  BY <1>1, TailHandles, TailCode DEF Restoring, Closing
<1>7. /\ State(q) = "EMBRYO" /\ ptable[q].parent = T(c) /\ q # T(c) /\ q \in Thread
      /\ \A u \in Thread \ {T(c)} : ~Makes(code[u], q)
  BY <1>2, <1>3, ForkIs, InitIsProc DEF Makes
<1>8. PICK e \in Entry : f = [ptable EXCEPT ![q] = e] /\ e.state = "RUNNABLE" /\ e.parent = T(c)
  <2>1. "RUNNABLE" \in PState /\ Restated(f, q, "RUNNABLE")
    BY DEF PState, Restated
  <2> HIDE DEF f, q
  <2>2. \E e \in Entry : f = [ptable EXCEPT ![q] = e] /\ e.state = "RUNNABLE" /\ e.parent = ptable[q].parent
    BY <1>2, <1>3, <2>1, StateIs
  <2> QED
    BY <1>7, <2>2
<1>9. todo = [code EXCEPT ![T(c)] = Tail(s)]
  BY <1>1, DoneIs
<1> HIDE DEF f, q
<1>10. Becomes(T(c), Tail(s), q, code[q]) \/ code' # todo
  <2>1. code = [u \in Thread |-> code[u]]
    BY DEF IInv, Codes
  <2>2. /\ todo = [u \in Thread |-> todo[u]] /\ todo[T(c)] = Tail(s) /\ todo[q] = code[q]
        /\ \A u \in Thread \ {T(c), q} : todo[u] = code[u]
    BY <1>2, <1>7, <1>9, <2>1
  <2> HIDE DEF todo
  <2> QED
    BY <2>2 DEF Becomes
<1>11. Related(f)
  <2>1. ~Alive(ptable[q].state) /\ Alive(ptable[T(c)].state)
    BY <1>2, <1>7 DEF Alive, State
  <2>2. Related(ptable) /\ T(c) # NoProc
    BY <1>2 DEF IInv, NoProc, Proc
  <2> QED
    BY <1>2, <1>3, <1>7, <1>8, <2>1, <2>2, RelatedBut
<1>12. Kin(T(c), Tail(s), q, code[q], e)
  <2>1. ~Left(Tail(s)) /\ \A p \in Proc : ~Copies(Tail(s), p) /\ ~Readies(Tail(s), p)
    <3>1. \A o \in Range(Tail(s)) : o[1] \notin {"copy", "ready", "zombie exit"}
      BY <1>6 DEF WayOut
    <3> HIDE DEF s
    <3> QED
      BY <3>1, OutMakes
  <2>2. CodeOf(q, code[q]) /\ ParkedAs("EMBRYO", code[q])
    BY <1>3, <1>7 DEF IInv, Codes, Parked
  <2>3. ParkedAs(e.state, code[q]) /\ e.state # "RUNNING"
    BY <1>8, <2>2 DEF ParkedAs
  <2>4. /\ ~Left(Tail(s)) /\ ~Copies(Tail(s), q) /\ ~Readies(Tail(s), q)
        /\ CodeOf(T(c), Tail(s)) /\ CodeOf(q, code[q])
        /\ \A u \in Thread \ {T(c)} : ~Makes(code[u], q)
        /\ \A p \in Proc \ {q} : ~Copies(Tail(s), p) /\ ~Readies(Tail(s), p)
    BY <1>3, <1>6, <1>7, <2>1, <2>2
  <2> HIDE DEF s
  <2> QED
    BY <2>3, <2>4 DEF Kin
<1>13. Name(s, 1) \notin {"spin", "intena"} /\ State(q) # "RUNNING"
  BY <1>1, <1>7
<1> HIDE DEF todo
<1> QED
  BY <1>0, <1>2, <1>3, <1>5, <1>6, <1>8, <1>10, <1>11, <1>12, <1>13, LeaveKin

\* fork has a free entry: the child begins in forkret.
LEMMA Alloc ==
    ASSUME IInv, NEW c \in Cpu, At(c, "allocproc"), NEW q \in Proc, State(q) = "UNUSED",
           Leave(c, "ptable", [ptable EXCEPT ![q].state = "EMBRYO"],
                 [Then(c, <<<<"copy", q>>>>) EXCEPT ![q] = ForkRet])
    PROVE  IInv'
<1> DEFINE s == code[T(c)]
           o == <<"copy", q>>
           r == Cons(o, Tail(s))
           f == [ptable EXCEPT ![q].state = "EMBRYO"]
           todo == [Then(c, <<o>>) EXCEPT ![q] = ForkRet]
<1>1. /\ s # <<>> /\ s[1] \in Op /\ s[1][1] = "allocproc" /\ Name(s, 1) = "allocproc"
      /\ CodeOf(T(c), s) /\ May(T(c), "allocproc")
  BY FirstIs, ThreadIs
<1>2. /\ T(c) \in Proc /\ T(c) \in Thread /\ State(T(c)) = "RUNNING" /\ ptable \in Table
      /\ q # T(c) /\ q \in Thread
  BY <1>1, ThreadIs, InitIsProc DEF May, SchedOps
<1>3. Moves(s[1], Name(Tail(s), 1), TRUE, FALSE, FALSE, FALSE)
  BY <1>1, MovesTable
<1>4. HasTable(s, 1) /\ ~HasTicks(s, 1) /\ ~HasTable(Tail(s), 1) /\ ~HasTicks(Tail(s), 1)
  BY <1>1, <1>3, Behind
<1>5. /\ Inherits(s, Tail(s)) /\ CodeOf(T(c), Tail(s))
      /\ Name(Tail(s), 1) \notin {"spin", "intena"} /\ (Handling(s) => Handling(Tail(s)))
      /\ \A x \in Range(Tail(s)) : x[1] \in WayOut
  BY <1>1, TailHandles, TailCode DEF Restoring, Closing
<1>6. o \in Op /\ o[1] = "copy" /\ Copies(<<o>>, q)
  <2>1. o \in Op /\ o[1] = "copy"
    BY OpIn
  <2>2. o \in Range(<<o>>)
    BY DEF Range
  <2> QED
    BY <2>1, <2>2 DEF Copies
<1>7. Moves(o, Name(Tail(s), 1), FALSE, FALSE, FALSE, FALSE)
  BY <1>6, MovesTable
<1>8. Then(c, <<o>>) = [code EXCEPT ![T(c)] = r]
  BY DEF Then, Cons
<1>9. \A p \in Proc \ {q} : o # <<"copy", p>>
  <2> TAKE p \in Proc \ {q}
  <2>1. <<"copy", p>>[2] = p /\ o[2] = q
    OBVIOUS
  <2> QED
    BY <2>1
<1>10. PICK e \in Entry : /\ f = [ptable EXCEPT ![q] = e] /\ e.state = "EMBRYO"
                          /\ e.parent = ptable[q].parent
  <2>1. "EMBRYO" \in PState /\ Restated(f, q, "EMBRYO")
    BY DEF PState, Restated
  <2> HIDE DEF f
  <2> QED
    BY <1>2, <2>1, StateIs
<1>11. Leave(c, "ptable", f, todo)
  OBVIOUS
<1> HIDE DEF o, f
<1>12. Fronts(T(c), o, Tail(s))
  BY <1>2, <1>4, <1>5, <1>6, <1>7 DEF Fronts, Moves, May
<1>13. Fronted(T(c), r, o, Tail(s))
  <2>1. r = Cons(o, Tail(s))
    OBVIOUS
  <2> HIDE DEF r, s
  <2> QED
    BY <1>6, <1>12, <2>1, HeadCode
<1> HIDE DEF r
<1>14. /\ CodeOf(T(c), r) /\ Name(r, 1) # "spin" /\ ~HasTable(r, 1) /\ ~HasTicks(r, 1)
       /\ Range(r) = {o} \cup Range(Tail(s))
  BY <1>6, <1>7, <1>13 DEF Fronted, Moves
<1>15. Drops("ptable", s, r) /\ (Handling(s) => Handling(r))
  BY <1>4, <1>5, <1>14 DEF Drops, Handling
<1>16. Becomes(T(c), r, q, ForkRet) \/ code' # todo
  <2>1. code = [u \in Thread |-> code[u]]
    BY DEF IInv, Codes
  <2>2. /\ todo = [u \in Thread |-> todo[u]] /\ todo[T(c)] = r /\ todo[q] = ForkRet
        /\ \A u \in Thread \ {T(c), q} : todo[u] = code[u]
    BY <1>2, <1>8, <2>1
  <2> HIDE DEF todo
  <2> QED
    BY <2>2 DEF Becomes
<1>17. /\ Related(ptable) /\ ~Alive(ptable[q].state) /\ ptable[q].parent = NoProc
  BY DEF IInv, Related, State, Alive
<1>18. Related(f)
  BY <1>2, <1>10, <1>17, RelatedBut
<1>19. /\ CodeOf(q, ForkRet) /\ ParkedAs("EMBRYO", ForkRet) /\ \A p \in Proc : ~Makes(ForkRet, p)
  <2>1. Piece(q, ForkRet, "release", TRUE, FALSE, {"release", "iret"})
    BY ForkRetFits
  <2>2. /\ CodeOf(q, ForkRet) /\ HasTable(ForkRet, 1) /\ ~HasTicks(ForkRet, 1)
        /\ \A x \in Range(ForkRet) : x[1] \in {"release", "iret"}
        /\ Handling(ForkRet) <=> {"release", "iret"} \cap Restoring # {}
    BY <2>1, PieceCode
  <2>3. Handling(ForkRet)
    BY <2>2 DEF Restoring
  <2>4. ~Left(ForkRet) /\ \A p : ~Makes(ForkRet, p)
    BY <2>2, OutMakes
  <2> QED
    BY <2>2, <2>3, <2>4 DEF ParkedAs, Waits
<1>20. Kin(T(c), r, q, ForkRet, e)
  <2>1. ~Left(r) /\ \A p \in Proc : ~Readies(r, p) /\ (p # q => ~Copies(r, p))
    <3>1. \A x \in Range(Tail(s)) : x[1] \notin {"copy", "ready", "zombie exit"}
      BY <1>5 DEF WayOut
    <3>2. ~Left(Tail(s)) /\ \A p : ~Copies(Tail(s), p) /\ ~Readies(Tail(s), p)
      <4> HIDE DEF s
      <4> QED
        BY <3>1, OutMakes
    <3>3. o # <<"zombie exit">> /\ \A p : o # <<"ready", p>>
      BY <1>6, Distinct
    <3> QED
      BY <1>9, <1>14, <3>2, <3>3 DEF Left, Copies, Readies
  <2>2. \A u \in Thread : ~Makes(code[u], q)
    BY ForkIs
  <2>3. ParkedAs(e.state, ForkRet)
    BY <1>10, <1>19
  <2> HIDE DEF s
  <2> QED
    BY <1>10, <1>14, <1>17, <1>19, <2>1, <2>2, <2>3 DEF Kin
<1>21. Name(s, 1) \notin {"spin", "intena"} /\ State(q) # "RUNNING"
  BY <1>1
<1> HIDE DEF todo
<1> QED
  BY <1>2, <1>10, <1>11, <1>14, <1>15, <1>16, <1>18, <1>20, <1>21, LeaveKin

LEMMA AllocStep ==
    ASSUME IInv, NEW c \in Cpu, AllocProc(c)
    PROVE  IInv'
<1> DEFINE unused == {p \in Proc : State(p) = "UNUSED"}
           np == CHOOSE q \in unused : \A r \in unused : q <= r
<1>1. At(c, "allocproc")
  BY DEF AllocProc
<1>2. CASE unused # {}
  <2>1. unused \in SUBSET (0..NPROC) /\ NPROC \in Nat
    BY SmpConstants DEF Proc
  <2>2. Leave(c, "ptable", [ptable EXCEPT ![np].state = "EMBRYO"],
              [Then(c, <<<<"copy", np>>>>) EXCEPT ![np] = ForkRet])
    BY <1>2 DEF AllocProc
  <2>3. \A q \in unused : q \in Proc /\ State(q) = "UNUSED"
    OBVIOUS
  <2> HIDE DEF unused
  <2>4. \E q \in unused : \A r \in unused : q <= r
    BY <1>2, <2>1, LeastOf
  <2>5. np \in unused
    BY <2>4
  <2> HIDE DEF np
  <2> QED
    BY <1>1, <2>2, <2>3, <2>5, Alloc
<1>3. CASE unused = {}
  <2> DEFINE s == code[T(c)]
  <2>1. Leave(c, "ptable", ptable, Then(c, <<>>))
    BY <1>3 DEF AllocProc
  <2>2. s # <<>> /\ s[1][1] = "allocproc" /\ Name(s, 1) = "allocproc" /\ CodeOf(T(c), s)
    BY <1>1, FirstIs, ThreadIs
  <2>3. Moves(s[1], Name(Tail(s), 1), TRUE, FALSE, FALSE, FALSE)
    BY <2>2, MovesTable
  <2>4. Drops("ptable", s, Tail(s))
    BY <2>2, <2>3, Behind DEF Drops
  <2>5. ptable \in Table /\ Milder(ptable, ptable)
    BY ThreadIs DEF Milder
  <2>6. Name(s, 1) \notin {"spin", "intena"} \cup Restoring
    BY <2>2 DEF Restoring
  <2> QED
    BY <2>1, <2>2, <2>4, <2>5, <2>6, FreeIsNoCpu, LeaveTail
<1> QED
  BY <1>2, <1>3

\* Only q changes in the table.
Alone(q, e) ==
    /\ ptable' = [ptable EXCEPT ![q] = e]
    /\ cpus' = cpus /\ locked' = locked /\ scan' = scan /\ ticks' = ticks /\ panic' = panic

\* fork copies, without a lock: the child has a parent, or no memory and no entry.
LEMMA CopyAlone ==
    ASSUME IInv, NEW c \in Cpu, At(c, "copy"), NEW q, q = Arg(c), NEW s, NEW sq, NEW e \in Entry,
           Kin(T(c), s, q, sq, e), Becomes(T(c), s, q, sq),
           e.parent # NoProc => e.parent = T(c), e.state \in {"UNUSED", "EMBRYO"},
           e.state = "UNUSED" => e.parent = NoProc,
           ~HasTable(s, 1), ~HasTicks(s, 1), Name(s, 1) # "spin",
           Handling(code[T(c)]) => Handling(s), Alone(q, e)
    PROVE  IInv'
<1> DEFINE s0 == code[T(c)]
           f == [ptable EXCEPT ![q] = e]
<1>0. /\ ptable' = f
      /\ cpus' = cpus /\ locked' = locked /\ scan' = scan /\ ticks' = ticks /\ panic' = panic
  BY DEF Alone
<1>1. /\ s0 # <<>> /\ s0[1] \in Op /\ s0[1][1] = "copy" /\ Name(s0, 1) = "copy" /\ CodeOf(T(c), s0)
      /\ May(T(c), "copy") /\ s0[1] \in Range(s0) /\ q = s0[1][2]
  BY FirstIs, ThreadIs
<1>2. /\ T(c) \in Proc /\ T(c) \in Thread /\ State(T(c)) = "RUNNING" /\ ptable \in Table
      /\ cpus \in [Cpu -> Flags] /\ cpus[c] \in Flags /\ locked \in LockMap
      /\ Right(c, s0, cpus[c], locked) /\ cpus[c].thread = T(c) /\ cpus[c].proc = Myproc(c)
  BY <1>1, ThreadIs DEF May, SchedOps, Myproc
<1>3. q \in Proc /\ Copies(s0, q)
  BY <1>1, OpParts DEF Copies
<1>4. State(q) = "EMBRYO" /\ q # T(c)
  BY <1>2, <1>3, ForkIs DEF Makes
<1>5. ~HasTable(s0, 1) /\ ~HasTicks(s0, 1)
  <2>1. Moves(s0[1], Name(Tail(s0), 1), FALSE, FALSE, FALSE, FALSE)
    BY <1>1, MovesTable
  <2> QED
    BY <1>1, <2>1, Behind
<1>6. Right(c, s, cpus[c], locked)
  <2>1. Name(s0, 1) # "spin" /\ Name(s0, 1) # "intena"
    BY <1>1
  <2>2. Handling(s0) => Handling(s)
    OBVIOUS
  <2> HIDE DEF s0
  <2> QED
    BY <1>2, <1>5, <2>1, <2>2, SameRight
<1>7. cpus' = [cpus EXCEPT ![c] = cpus[c]] /\ OwnLocks(c, locked)
  BY <1>0, <1>2 DEF OwnLocks
<1>8. Related(f)
  <2>1. ~Alive(ptable[q].state) /\ Alive(ptable[T(c)].state)
    BY <1>2, <1>4 DEF Alive, State
  <2>2. Related(ptable) /\ e.state # "ZOMBIE" /\ f = [ptable EXCEPT ![q] = e]
    BY DEF IInv
  <2> HIDE DEF f
  <2> QED
    BY <1>2, <1>3, <1>4, <2>1, <2>2, RelatedBut
<1>9. /\ State(q) # "RUNNING" /\ ptable' = f /\ locked' = locked
      /\ scan' = scan /\ ticks' = ticks /\ panic' = panic
  BY <1>0, <1>4
<1>10. f = [ptable EXCEPT ![q] = e]
  OBVIOUS
<1>11. PICK cpu : cpu = cpus[c]
  OBVIOUS
<1>12. PICK lk : lk = locked
  OBVIOUS
<1>13. /\ cpu \in Flags /\ cpu.thread = T(c) /\ cpu.proc = Myproc(c)
       /\ lk \in LockMap /\ OwnLocks(c, lk) /\ Right(c, s, cpu, lk) /\ Hands(c, cpu, lk, f)
  BY <1>2, <1>6, <1>7, <1>9, <1>11, <1>12 DEF Hands
<1> HIDE DEF f
<1> QED
  BY <1>2, <1>3, <1>8, <1>9, <1>10, <1>13, KinStep

\* The entry q gets a parent.
Adopted(f, q, p) == f = [ptable EXCEPT ![q].parent = p]

LEMMA AdoptIs ==
    ASSUME ptable \in Table, NEW q \in Proc, NEW p \in Proc, NEW f, Adopted(f, q, p)
    PROVE  \E e \in Entry : /\ f = [ptable EXCEPT ![q] = e]
                            /\ e.state = ptable[q].state /\ e.parent = p
<1> DEFINE e == [ptable[q] EXCEPT !.parent = p]
<1>1. ptable[q] \in Entry
  BY DEF Table
<1>2. e \in Entry /\ e.state = ptable[q].state /\ e.parent = p
  BY <1>1 DEF Entry
<1>3. f = [ptable EXCEPT ![q] = e]
  BY DEF Adopted
<1> QED
  BY <1>2, <1>3

LEMMA PairRange ==
    ASSUME NEW a, NEW b
    PROVE  Range(<<a, b>>) = {a, b}
<1> DEFINE u == <<a, b>>
<1>1. DOMAIN u = {1, 2} /\ u[1] = a /\ u[2] = b
  OBVIOUS
<1> HIDE DEF u
<1>2. Range(u) = {a, b}
  BY <1>1 DEF Range
<1> QED
  BY <1>2 DEF u

LEMMA CopyStep ==
    ASSUME IInv, NEW c \in Cpu, CopyProc(c)
    PROVE  IInv'
<1> DEFINE s == code[T(c)]
           q == Arg(c)
           r == Tail(s)
<1>0. At(c, "copy") /\ cpus' = cpus /\ locked' = locked /\ scan' = scan /\ ticks' = ticks
      /\ panic' = panic
  BY DEF CopyProc
<1>1. /\ s # <<>> /\ s[1] \in Op /\ s[1][1] = "copy" /\ Name(s, 1) = "copy" /\ CodeOf(T(c), s)
      /\ May(T(c), "copy") /\ s[1] \in Range(s) /\ q = s[1][2]
  BY <1>0, FirstIs, ThreadIs
<1>2. /\ T(c) \in Proc /\ T(c) \in Thread /\ State(T(c)) = "RUNNING" /\ ptable \in Table
      /\ Myproc(c) = T(c) /\ T(c) # NoProc
  BY <1>1, ThreadIs DEF May, SchedOps, NoProc, Proc
<1>3. q \in Proc /\ Copies(s, q)
  BY <1>1, OpParts DEF Copies
<1>4. /\ State(q) = "EMBRYO" /\ ptable[q].parent = NoProc /\ q # T(c) /\ q \in Thread
      /\ \A u \in Thread \ {T(c)} : ~Makes(code[u], q)
  BY <1>2, <1>3, ForkIs, InitIsProc DEF Makes
<1>5. ~HasTable(r, 1) /\ ~HasTicks(r, 1)
  <2>1. Moves(s[1], Name(Tail(s), 1), FALSE, FALSE, FALSE, FALSE)
    BY <1>1, MovesTable
  <2> QED
    BY <1>1, <2>1, Behind
<1>6. /\ CodeOf(T(c), r) /\ Name(r, 1) # "spin" /\ (Handling(s) => Handling(r))
      /\ \A x \in Range(r) : x[1] \in WayOut
  BY <1>1, TailHandles, TailCode DEF Restoring, Closing
<1>7. ~Left(r) /\ \A p : ~Copies(r, p) /\ ~Readies(r, p)
  <2>1. \A x \in Range(r) : x[1] \notin {"copy", "ready", "zombie exit"}
    BY <1>6 DEF WayOut
  <2> HIDE DEF r
  <2> QED
    BY <2>1, OutMakes
<1>8. code = [u \in Thread |-> code[u]] /\ CodeOf(q, code[q]) /\ ParkedAs("EMBRYO", code[q])
  BY <1>3, <1>4 DEF IInv, Codes, Parked
<1>9. CASE /\ ptable' = [ptable EXCEPT ![q].parent = Myproc(c)]
           /\ Do(c, <<Acquire("ptable"), <<"ready", q>>>>)
  <2> DEFINE a == Acquire("ptable")
             b == <<"ready", q>>
             ops == <<a, b>>
             u == ops \o r
  <2>1. Piece(T(c), ops, "acquire", FALSE, FALSE, {"acquire", "ready"})
    BY <1>2, <1>3, ReadyFits
  <2>2. code' = [code EXCEPT ![T(c)] = u]
    BY <1>9 DEF Do
  <2>3. a[1] = "acquire" /\ b[1] = "ready"
    BY DEF Acquire
  <2>4. \A p \in Proc \ {q} : b # <<"ready", p>>
    <3> TAKE p \in Proc \ {q}
    <3>1. <<"ready", p>>[2] = p /\ b[2] = q
      OBVIOUS
    <3> QED
      BY <3>1
  <2> HIDE DEF a, b
  <2>5. Range(ops) = {a, b}
    BY PairRange
  <2> HIDE DEF ops
  <2>6. /\ CodeOf(T(c), u) /\ ~HasTable(u, 1) /\ ~HasTicks(u, 1) /\ Name(u, 1) = "acquire"
        /\ Range(u) = {a, b} \cup Range(r)
        /\ Handling(r) => Handling(u)
    <3> HIDE DEF r, s
    <3>1. Clear(T(c), r)
      BY <1>5, <1>6 DEF Clear
    <3>2. Ahead(T(c), u, r, "acquire", FALSE, FALSE, {"acquire", "ready"})
      <4>1. u = ops \o r
        OBVIOUS
      <4> HIDE DEF u
      <4> QED
        BY <1>6, <2>1, <3>1, <4>1, PieceAhead
    <3>3. ops \in Seq(Op) /\ r \in Seq(Op)
      BY <1>6, <2>1 DEF Piece, Routine, CodeOf
    <3>4. Range(u) = Range(ops) \cup Range(r)
      BY <3>3, ConcatRange
    <3> HIDE DEF u
    <3> QED
      BY <2>5, <3>2, <3>4 DEF Ahead
  <2> HIDE DEF u
  <2>7. Becomes(T(c), u, q, code[q])
    BY <1>2, <1>4, <1>8, <2>2 DEF Becomes
  <2>8. PICK e \in Entry : /\ ptable' = [ptable EXCEPT ![q] = e]
                           /\ e.state = "EMBRYO" /\ e.parent = T(c)
    <3>1. Adopted(ptable', q, T(c))
      BY <1>2, <1>9 DEF Adopted
    <3>2. ptable[q].state = "EMBRYO"
      BY <1>4 DEF State
    <3> HIDE DEF q
    <3>3. \E e \in Entry : /\ ptable' = [ptable EXCEPT ![q] = e]
                           /\ e.state = ptable[q].state /\ e.parent = T(c)
      BY <1>2, <1>3, <3>1, AdoptIs
    <3> QED
      BY <3>2, <3>3
  <2>9. Kin(T(c), u, q, code[q], e)
    <3>1. ~Left(u) /\ \A p \in Proc : ~Copies(u, p) /\ (p # q => ~Readies(u, p))
      <4>1. /\ a # <<"zombie exit">> /\ b # <<"zombie exit">>
            /\ \A p : a # <<"copy", p>> /\ b # <<"copy", p>> /\ a # <<"ready", p>>
        BY <2>3, Distinct
      <4> HIDE DEF r
      <4> QED
        BY <1>7, <2>4, <2>6, <4>1 DEF Left, Copies, Readies
    <3>2. ParkedAs(e.state, code[q]) /\ e.state # "RUNNING"
      BY <1>8, <2>8
    <3> HIDE DEF q, s, r
    <3> QED
      BY <1>3, <1>4, <1>8, <2>6, <2>8, <3>1, <3>2 DEF Kin
  <2>10. Name(u, 1) # "spin" /\ (Handling(s) => Handling(u)) /\ q = Arg(c) /\ Alone(q, e)
    BY <1>0, <1>6, <2>6, <2>8 DEF Alone
  <2> HIDE DEF q
  <2> QED
    BY <1>0, <2>6, <2>7, <2>8, <2>9, <2>10, CopyAlone
<1>10. CASE /\ ptable' = [ptable EXCEPT ![q].state = "UNUSED"]
            /\ code' = [code EXCEPT ![T(c)] = Tail(@), ![q] = <<>>]
  <2>1. Becomes(T(c), r, q, <<>>)
    <3>1. code' = [code EXCEPT ![T(c)] = r, ![q] = <<>>]
      BY <1>10
    <3> HIDE DEF q, r
    <3> QED
      BY <1>2, <1>4, <1>8, <3>1 DEF Becomes
  <2>2. PICK e \in Entry : /\ ptable' = [ptable EXCEPT ![q] = e]
                           /\ e.state = "UNUSED" /\ e.parent = NoProc
    <3>1. Restated(ptable', q, "UNUSED") /\ "UNUSED" \in PState
      BY <1>10 DEF Restated, PState
    <3> HIDE DEF q
    <3>2. \E e \in Entry : /\ ptable' = [ptable EXCEPT ![q] = e]
                           /\ e.state = "UNUSED" /\ e.parent = ptable[q].parent
      BY <1>2, <1>3, <3>1, StateIs
    <3> QED
      BY <1>4, <3>2
  <2>3. Kin(T(c), r, q, <<>>, e)
    <3>1. ParkedAs(e.state, <<>>) /\ e.state # "RUNNING" /\ CodeOf(q, <<>>)
          /\ \A p \in Proc : ~Makes(<<>>, p)
      BY <2>2, NoCode
    <3> HIDE DEF q, r, s
    <3> QED
      BY <1>3, <1>4, <1>6, <1>7, <3>1 DEF Kin
  <2>4. q = Arg(c) /\ (Handling(s) => Handling(r)) /\ Alone(q, e)
    BY <1>0, <1>6, <2>2 DEF Alone
  <2> HIDE DEF q, r
  <2> QED
    BY <1>0, <1>5, <1>6, <2>1, <2>2, <2>3, <2>4, CopyAlone
<1> QED
  BY <1>9, <1>10 DEF CopyProc

-----------------------------------------------------------------------------
(* The invariant, from the beginning on *)

\* The first process and the schedulers are about to start.
LEMMA InitHolds == Init => IInv
<1> SUFFICES ASSUME Init  PROVE IInv
  OBVIOUS
<1>1. /\ cpus = [c \in Cpu |-> [if |-> TRUE, ncli |-> 0, intena |-> FALSE,
                                proc |-> NoProc, thread |-> Sched(c)]]
      /\ locked = [l \in Locks |-> Free]
      /\ code = [t \in Thread |-> IF t = initproc THEN ForkRet
                                  ELSE IF t \in Proc THEN <<>> ELSE Loop]
      /\ ptable = [p \in Proc |-> IF p = initproc THEN [Unused EXCEPT !.state = "RUNNABLE"]
                                  ELSE Unused]
      /\ scan = [c \in Cpu |-> 1] /\ ticks = 0 /\ panic = "none"
  BY DEF Init
<1>2. \A c \in Cpu : /\ cpus[c].if = TRUE /\ cpus[c].ncli = 0 /\ cpus[c].thread = Sched(c)
                     /\ cpus[c].proc = NoProc /\ cpus[c] \in Flags
  BY <1>1, SchedNotProc DEF Flags
<1>3. \A c \in Cpu : T(c) = Sched(c) /\ Myproc(c) = NoProc
  BY <1>2 DEF T, Myproc
<1>4. /\ Unused \in Entry /\ Unused.state = "UNUSED" /\ Unused.parent = NoProc
      /\ ~Unused.killed
  BY DEF Unused, Entry, PState
<1>5. PICK e : e = [Unused EXCEPT !.state = "RUNNABLE"]
  OBVIOUS
<1>6. e \in Entry /\ e.state = "RUNNABLE" /\ e.parent = NoProc /\ ~e.killed
  BY <1>5 DEF Unused, Entry, PState
<1>7. /\ ptable \in Table /\ ptable[initproc] = e
      /\ \A p \in Proc \ {initproc} : ptable[p] = Unused
  BY <1>1, <1>4, <1>5, <1>6, InitIsProc DEF Table
<1>8. \A p \in Proc : State(p) # "RUNNING" /\ State(p) # "ZOMBIE" /\ ptable[p].parent = NoProc
  <2> TAKE p \in Proc
  <2>1. CASE p = initproc
    BY <1>6, <1>7, <2>1 DEF State
  <2>2. CASE p # initproc
    BY <1>4, <1>7, <2>2 DEF State
  <2> QED
    BY <2>1, <2>2
<1>9. Typed
  <2>1. cpus \in [Cpu -> Flags]
    BY <1>1, <1>2
  <2>2. locked \in [Locks -> Cpu \cup {Free}]
    BY <1>1
  <2>3. scan \in [Cpu -> 1..NPROC + 1] /\ ticks \in 0..TICKS - 1
    BY <1>1, SmpConstants
  <2> QED
    BY <1>7, <2>1, <2>2, <2>3 DEF Typed, Table
<1>10. /\ code = [t \in Thread |-> code[t]]
       /\ code[initproc] = ForkRet
       /\ \A p \in Proc \ {initproc} : code[p] = <<>>
       /\ \A c \in Cpu : code[Sched(c)] = Loop
  BY <1>1, InitIsProc, SchedNotProc
<1>11. /\ CodeOf(initproc, ForkRet) /\ Waits(ForkRet) /\ Handling(ForkRet)
       /\ ~Left(ForkRet) /\ \A p : ~Copies(ForkRet, p) /\ ~Readies(ForkRet, p)
  <2>1. Piece(initproc, ForkRet, "release", TRUE, FALSE, {"release", "iret"})
    BY ForkRetFits, InitIsProc
  <2>2. /\ CodeOf(initproc, ForkRet) /\ HasTable(ForkRet, 1) /\ ~HasTicks(ForkRet, 1)
        /\ \A x \in Range(ForkRet) : x[1] \in {"release", "iret"}
        /\ Handling(ForkRet) <=> {"release", "iret"} \cap Restoring # {}
    BY <2>1, PieceCode
  <2>3. Handling(ForkRet)
    BY <2>2 DEF Restoring
  <2>4. ~Left(ForkRet) /\ \A p : ~Copies(ForkRet, p) /\ ~Readies(ForkRet, p)
    BY <2>2, OutMakes
  <2> QED
    BY <2>2, <2>3, <2>4 DEF Waits
<1>12. ASSUME NEW c \in Cpu
       PROVE  /\ CodeOf(Sched(c), Loop) /\ ~HasTable(Loop, 1) /\ ~HasTicks(Loop, 1)
              /\ Name(Loop, 1) = "acquire" /\ \A p : ~Copies(Loop, p) /\ ~Readies(Loop, p)
  <2>1. Piece(Sched(c), Loop, "acquire", FALSE, FALSE, {"acquire", "pick"})
    BY LoopFits
  <2>2. /\ CodeOf(Sched(c), Loop) /\ ~HasTable(Loop, 1) /\ ~HasTicks(Loop, 1)
        /\ Name(Loop, 1) = "acquire" /\ \A x \in Range(Loop) : x[1] \in {"acquire", "pick"}
    BY <2>1, PieceCode
  <2>3. \A p : ~Copies(Loop, p) /\ ~Readies(Loop, p)
    BY <2>2, OutMakes
  <2> QED
    BY <2>2, <2>3
<1>13. \A t \in Thread : t \in Proc \/ \E c \in Cpu : t = Sched(c)
  BY DEF Thread
<1>14. Codes
  <2>1. ASSUME NEW t \in Thread  PROVE CodeOf(t, code[t])
    <3>1. CASE t = initproc
      BY <1>10, <1>11, <3>1
    <3>2. CASE t \in Proc \ {initproc}
      BY <1>10, <3>2, NoCode
    <3>3. ASSUME NEW c \in Cpu, t = Sched(c)  PROVE CodeOf(t, code[t])
      BY <1>10, <1>12, <3>3
    <3> QED
      BY <1>13, <3>1, <3>2, <3>3
  <2> QED
    BY <1>10, <2>1 DEF Codes
<1>15. Forks
  <2>1. ASSUME NEW t \in Thread, NEW p \in Proc  PROVE ~Copies(code[t], p) /\ ~Readies(code[t], p)
    <3>1. CASE t = initproc
      BY <1>10, <1>11, <3>1
    <3>2. CASE t \in Proc \ {initproc}
      BY <1>10, <3>2, NoCode DEF Makes
    <3>3. ASSUME NEW c \in Cpu, t = Sched(c)  PROVE ~Copies(code[t], p) /\ ~Readies(code[t], p)
      BY <1>10, <1>12, <3>3
    <3> QED
      BY <1>13, <3>1, <3>2, <3>3
  <2> QED
    BY <2>1 DEF Forks, Makes
<1>16. Running /\ Idle
  BY <1>3, <1>8, SchedNotProc DEF Running, Runs, Idle
<1>17. Parked
  <2> SUFFICES ASSUME NEW p \in Proc  PROVE ParkedAs(ptable[p].state, code[p])
    BY DEF Parked, State
  <2>1. CASE p = initproc
    BY <1>6, <1>7, <1>10, <1>11, <2>1 DEF ParkedAs
  <2>2. CASE p # initproc
    BY <1>4, <1>7, <1>10, <2>2, NoCode
  <2> QED
    BY <2>1, <2>2
<1>18. Locking
  <2> SUFFICES ASSUME NEW c \in Cpu  PROVE Right(c, Loop, cpus[c], locked)
    BY <1>3, <1>10 DEF Locking, Todo
  <2>1. locked["ptable"] # c /\ locked["tickslock"] # c
    BY <1>1, FreeIsNoCpu
  <2>2. cpus[c].ncli = 0 /\ cpus[c].thread \notin Proc
    BY <1>2, SchedNotProc
  <2> QED
    BY <1>12, <2>1, <2>2 DEF Right, Count
<1>19. Related(ptable)
  BY <1>4, <1>6, <1>7, <1>8, InitIsProc DEF Related, Alive, State
<1> QED
  BY <1>1, <1>9, <1>14, <1>15, <1>16, <1>17, <1>18, <1>19 DEF IInv

LEMMA StepHolds ==
    ASSUME IInv, NEW c \in Cpu, Step(c)
    PROVE  IInv'
<1>1. CASE AcquireLock(c)
  BY <1>1, AcquireStep
<1>2. CASE Spin(c)
  BY <1>2, SpinStep
<1>3. CASE ReleaseLock(c)
  BY <1>3, ReleaseStep
<1>4. CASE Resumed(c)
  BY <1>4, ResumedStep
<1>5. CASE Pick(c)
  BY <1>5, PickStep
<1>6. CASE NextRound(c)
  BY <1>6, NextRoundStep
<1>7. CASE YieldCpu(c)
  BY <1>7, YieldStep
<1>8. CASE GoToSleep(c)
  BY <1>8, SleepStep
<1>9. CASE WakeAll(c)
  BY <1>9, WakeStep
<1>10. CASE AllocProc(c)
  BY <1>10, AllocStep
<1>11. CASE CopyProc(c)
  BY <1>11, CopyStep
<1>12. CASE MakeReady(c)
  BY <1>12, ReadyStep
<1>13. CASE ExitProc(c)
  BY <1>13, ExitStep
<1>14. CASE WaitChild(c)
  BY <1>14, WaitStep
<1>15. CASE KillProc(c)
  BY <1>15, KillStep
<1>16. CASE CheckKilled(c)
  BY <1>16, CheckKilledStep
<1>17. CASE Tick(c)
  BY <1>17, TickStep
<1>18. CASE ClockYield(c)
  BY <1>18, ClockYieldStep
<1>19. CASE Iret(c)
  BY <1>19, IretStep
<1>20. CASE Nap(c)
  BY <1>20, NapStep
<1>21. CASE NapOn(c)
  BY <1>21, NapOnStep
<1> QED
  BY <1>1, <1>2, <1>3, <1>4, <1>5, <1>6, <1>7, <1>8, <1>9, <1>10, <1>11, <1>12, <1>13,
     <1>14, <1>15, <1>16, <1>17, <1>18, <1>19, <1>20, <1>21 DEF Step

LEMMA NextHolds ==
    ASSUME IInv, "exit" \notin Calls[initproc], [Next]_vars
    PROVE  IInv'
<1>1. ASSUME NEW c \in Cpu, Step(c)  PROVE IInv'
  BY <1>1, StepHolds
<1>2. ASSUME NEW c \in Cpu, EnterSyscall(c)  PROVE IInv'
  BY <1>2, EnterStep
<1>3. ASSUME NEW c \in Cpu, ClockInterrupt(c)  PROVE IInv'
  BY <1>3, InterruptStep
<1>4. CASE UNCHANGED vars
  <2>1. /\ panic' = panic /\ cpus' = cpus /\ locked' = locked /\ code' = code
        /\ ptable' = ptable /\ scan' = scan /\ ticks' = ticks
    BY <1>4 DEF vars
  <2>2. Typed' /\ Codes' /\ panic' = "none"
    BY <2>1 DEF IInv, Typed, Codes
  <2>3. Forks'
    BY <2>1 DEF IInv, Forks, State
  <2>4. Running'
    BY <2>1 DEF IInv, Running, Runs, T, Myproc, State
  <2>5. Parked' /\ Idle'
    BY <2>1 DEF IInv, Parked, Idle, T, State
  <2>6. Locking'
    BY <2>1 DEF IInv, Locking, Todo, T
  <2>7. Related(ptable)'
    BY <2>1 DEF IInv, Related
  <2> QED
    BY <2>2, <2>3, <2>4, <2>5, <2>6, <2>7 DEF IInv
<1> QED
  BY <1>1, <1>2, <1>3, <1>4 DEF Next

-----------------------------------------------------------------------------
(* What the invariant says of the system *)

\* There are two locks; who has which tells how many.
LEMMA LocksHeld ==
    ASSUME NEW a \in BOOLEAN, NEW b \in BOOLEAN, NEW H,
           H \subseteq Locks, "ptable" \in H <=> a, "tickslock" \in H <=> b
    PROVE  Cardinality(H) = Count(a) + Count(b)
<1>1. Cardinality({}) = 0 /\ IsFiniteSet({})
  BY FS_EmptySet
<1>2. \A x : IsFiniteSet({x}) /\ Cardinality({x}) = 1
  BY FS_Singleton
<1>3. Cardinality({"ptable", "tickslock"}) = 2
  <2>1. "tickslock" \notin {"ptable"}
    OBVIOUS
  <2>2. Cardinality({"ptable"} \cup {"tickslock"}) = Cardinality({"ptable"}) + 1
    BY <1>2, <2>1, FS_AddElement
  <2>3. {"ptable"} \cup {"tickslock"} = {"ptable", "tickslock"}
    OBVIOUS
  <2>4. Cardinality({"ptable"}) = 1
    BY <1>2
  <2> QED
    BY <2>2, <2>3, <2>4
<1>4. CASE a /\ b
  <2>1. H = {"ptable", "tickslock"}
    BY <1>4 DEF Locks
  <2> QED
    BY <1>3, <1>4, <2>1 DEF Count
<1>5. CASE a /\ ~b
  <2>1. H = {"ptable"}
    BY <1>5 DEF Locks
  <2>2. Cardinality(H) = 1
    BY <1>2, <2>1
  <2>3. Count(a) = 1 /\ Count(b) = 0
    BY <1>5 DEF Count
  <2> QED
    BY <2>2, <2>3
<1>6. CASE ~a /\ b
  <2>1. H = {"tickslock"}
    BY <1>6 DEF Locks
  <2>2. Cardinality(H) = 1
    BY <1>2, <2>1
  <2>3. Count(a) = 0 /\ Count(b) = 1
    BY <1>6 DEF Count
  <2> QED
    BY <2>2, <2>3
<1>7. CASE ~a /\ ~b
  <2>1. H = {}
    BY <1>7 DEF Locks
  <2>2. Cardinality(H) = 0
    BY <1>1, <2>1
  <2>3. Count(a) = 0 /\ Count(b) = 0
    BY <1>7 DEF Count
  <2> QED
    BY <2>2, <2>3
<1> QED
  BY <1>4, <1>5, <1>6, <1>7

\* What a processor has that spins.
LEMMA SpinIs ==
    ASSUME IInv, NEW c \in Cpu, At(c, "spin")
    PROVE  /\ Arg(c) \in Locks /\ locked[Arg(c)] # c
           /\ Arg(c) = "tickslock" => locked["ptable"] # c
           /\ ~(HasTable(code[T(c)], 1) /\ HasTicks(code[T(c)], 1))
<1> DEFINE s == code[T(c)]
           n == Name(Tail(s), 1)
<1>1. /\ s # <<>> /\ s[1] \in Op /\ s[1][1] = "spin" /\ CodeOf(T(c), s) /\ Arg(c) = s[1][2]
      /\ Right(c, s, cpus[c], locked)
  BY FirstIs, ThreadIs
<1>2. Arg(c) \in Locks
  BY <1>1, OpParts
<1>3. CASE Arg(c) = "tickslock"
  <2>1. Moves(s[1], n, FALSE, FALSE, FALSE, TRUE)
    BY <1>1, <1>3, MovesTable
  <2>2. ~HasTable(s, 1) /\ ~HasTicks(s, 1)
    BY <1>1, <2>1, Behind
  <2> QED
    BY <1>1, <1>3, <2>2 DEF Right, Locks
<1>4. CASE Arg(c) = "ptable"
  <2>1. Moves(s[1], n, FALSE, FALSE, TRUE, FALSE) \/ Moves(s[1], n, FALSE, TRUE, TRUE, TRUE)
    BY <1>1, <1>4, MovesTable
  <2>2. ~HasTable(s, 1)
    <3>1. CASE Moves(s[1], n, FALSE, FALSE, TRUE, FALSE)
      BY <1>1, <3>1, Behind
    <3>2. CASE Moves(s[1], n, FALSE, TRUE, TRUE, TRUE)
      BY <1>1, <3>2, Behind
    <3> QED
      BY <2>1, <3>1, <3>2
  <2> QED
    BY <1>1, <1>4, <2>2 DEF Right, Locks
<1> QED
  BY <1>2, <1>3, <1>4 DEF Locks

\* At spin is where the code says so.
LEMMA SpinName ==
    ASSUME IInv, NEW c \in Cpu
    PROVE  At(c, "spin") <=> Name(code[T(c)], 1) = "spin"
<1>1. At(c, "spin") => Name(code[T(c)], 1) = "spin"
  BY FirstIs
<1>2. ASSUME Name(code[T(c)], 1) = "spin"  PROVE At(c, "spin")
  <2>1. code[T(c)] # <<>>
    <3>1. Name(<<>>, 1) = "user"
      BY EmptyCode
    <3> QED
      BY <1>2, <3>1
  <2>2. code[T(c)] \in Seq(Op)
    BY ThreadIs DEF CodeOf
  <2>3. Head(code[T(c)]) = code[T(c)][1] /\ Name(code[T(c)], 1) = code[T(c)][1][1]
    BY <2>1, <2>2, HeadIs
  <2> QED
    BY <1>2, <2>1, <2>3 DEF At, Todo, IInv
<1> QED
  BY <1>1, <1>2

LEMMA NcliHolds == IInv => NcliExact
<1> SUFFICES ASSUME IInv, NEW c \in Cpu
             PROVE  /\ cpus[c].ncli = Cardinality({l \in Locks : holding(c, l)})
                                      + (IF At(c, "spin") THEN 1 ELSE 0)
                    /\ cpus[c].ncli > 0 => ~cpus[c].if
  BY DEF NcliExact
<1> DEFINE H == {l \in Locks : holding(c, l)}
           s == code[T(c)]
<1>1. Right(c, s, cpus[c], locked)
  BY ThreadIs
<1>2. PICK a \in BOOLEAN : HasTable(s, 1) <=> a
  OBVIOUS
<1>3. PICK b \in BOOLEAN : HasTicks(s, 1) <=> b
  OBVIOUS
<1>4. H \subseteq Locks /\ ("ptable" \in H <=> a) /\ ("tickslock" \in H <=> b)
  BY <1>1, <1>2, <1>3 DEF Right, holding, Locks
<1> HIDE DEF H
<1>5. Cardinality(H) = Count(a) + Count(b)
  BY <1>4, LocksHeld
<1>6. /\ cpus[c].ncli = Count(a) + Count(b) + Count(Name(s, 1) = "spin")
      /\ cpus[c].ncli > 0 => ~cpus[c].if
  BY <1>1, <1>2, <1>3 DEF Right, Count
<1>7. Count(Name(s, 1) = "spin") = IF At(c, "spin") THEN 1 ELSE 0
  BY SpinName DEF Count
<1> QED
  BY <1>5, <1>6, <1>7 DEF H

LEMMA TypesHold == IInv => TypeOK
<1> SUFFICES ASSUME IInv  PROVE TypeOK
  OBVIOUS
<1>1. Typed
  BY DEF IInv
<1>2. Cardinality(Locks) = 2
  <2>1. Cardinality(Locks) = Count(TRUE) + Count(TRUE)
    BY FreeIsNoCpu, LocksHeld
  <2> QED
    BY <2>1 DEF Count
<1>3. ASSUME NEW c \in Cpu
      PROVE  cpus[c] \in [if : BOOLEAN, ncli : 0..Cardinality(Locks), intena : BOOLEAN,
                          proc : {NoProc} \cup Proc, thread : Thread]
  <2> DEFINE s == code[T(c)]
  <2>1. cpus[c] \in Flags /\ Right(c, s, cpus[c], locked)
    BY ThreadIs
  <2>2. Name(s, 1) = "spin" => ~(HasTable(s, 1) /\ HasTicks(s, 1))
    BY SpinIs, SpinName
  <2>3. cpus[c].ncli \in 0..2
    BY <2>1, <2>2 DEF Right, Count
  <2>4. cpus[c].ncli \in 0..Cardinality(Locks)
    BY <1>2, <2>3
  <2> QED
    BY <2>1, <2>4 DEF Flags
<1>4. cpus \in [Cpu -> [if : BOOLEAN, ncli : 0..Cardinality(Locks), intena : BOOLEAN,
                         proc : {NoProc} \cup Proc, thread : Thread]]
  BY <1>1, <1>3 DEF Typed
<1>5. code \in [Thread -> Seq(Op)]
  BY DEF IInv, Typed, Codes, CodeOf
<1>6. ptable \in [Proc ->
          [state : {"UNUSED", "EMBRYO", "SLEEPING", "RUNNABLE", "RUNNING", "ZOMBIE"},
           parent : {NoProc} \cup Proc, chan : {NoChan, TickChan} \cup Proc,
           killed : BOOLEAN]]
  BY <1>1 DEF Typed, Entry, PState
<1> QED
  BY <1>1, <1>4, <1>5, <1>6 DEF TypeOK, Typed

\* A zombie does not run.
LEMMA NoPanicHolds == IInv => NoPanic
<1> SUFFICES ASSUME IInv, NEW c \in Cpu, At(c, "zombie exit")  PROVE FALSE
  BY DEF NoPanic, IInv
<1>1. /\ code[T(c)][1] \in Op /\ code[T(c)][1][1] = "zombie exit"
      /\ code[T(c)][1] \in Range(code[T(c)]) /\ May(T(c), "zombie exit")
  BY FirstIs
<1>2. Left(code[T(c)])
  <2>1. code[T(c)][1] = <<"zombie exit">>
    BY <1>1, OpParts
  <2> QED
    BY <1>1, <2>1 DEF Left
<1>3. T(c) \in Proc /\ State(T(c)) = "RUNNING"
  BY <1>1, ThreadIs DEF May, SchedOps
<1> QED
  BY <1>2, <1>3 DEF IInv, Parked, ParkedAs

LEMMA UserHolds == IInv => UserInterruptible
<1> SUFFICES ASSUME IInv, NEW c \in Cpu, InUser(c)  PROVE cpus[c].if
  BY DEF UserInterruptible
<1>1. T(c) \in Proc /\ code[T(c)] = <<>>
  BY DEF InUser
<1>2. /\ ~HasTable(<<>>, 1) /\ ~HasTicks(<<>>, 1) /\ Name(<<>>, 1) = "user" /\ ~Handling(<<>>)
  BY EmptyCode DEF Handling
<1>3. Right(c, <<>>, cpus[c], locked) /\ cpus[c].thread = T(c)
  BY <1>1, ThreadIs
<1> QED
  BY <1>1, <1>2, <1>3 DEF Right, Count

LEMMA OneCpuHolds == IInv => OneCpu
<1> SUFFICES ASSUME IInv  PROVE OneCpu
  OBVIOUS
<1>1. \A c, d \in Cpu : T(c) = T(d) => c = d
  BY DEF IInv, Running
<1>2. ASSUME NEW c \in Cpu, Myproc(c) # NoProc  PROVE T(c) = Myproc(c) /\ T(c) \in Proc
  BY <1>2, ThreadIs
<1>3. ASSUME NEW p \in Proc  PROVE State(p) = "RUNNING" <=> \E c \in Cpu : Myproc(c) = p
  <2>1. ASSUME State(p) = "RUNNING"  PROVE \E c \in Cpu : Myproc(c) = p
    <3>1. PICK c \in Cpu : T(c) = p
      BY <2>1 DEF IInv, Running
    <3> QED
      BY <3>1, ThreadIs
  <2>2. ASSUME NEW c \in Cpu, Myproc(c) = p  PROVE State(p) = "RUNNING"
    <3>1. Myproc(c) # NoProc
      BY <2>2 DEF NoProc, Proc
    <3> QED
      BY <1>2, <2>2, <3>1, ThreadIs
  <2> QED
    BY <2>1, <2>2
<1> QED
  BY <1>1, <1>2, <1>3 DEF OneCpu

LEMMA CycleHolds == IInv => NoSpinCycle
<1> SUFFICES ASSUME IInv, NEW c \in Cpu, NEW d \in Cpu, At(c, "spin"), At(d, "spin"),
                    locked[Arg(c)] = d, locked[Arg(d)] = c
             PROVE  FALSE
  BY DEF NoSpinCycle
<1>1. /\ Arg(c) \in Locks /\ locked[Arg(c)] # c
      /\ Arg(c) = "tickslock" => locked["ptable"] # c
  BY SpinIs
<1>2. /\ Arg(d) \in Locks /\ locked[Arg(d)] # d
      /\ Arg(d) = "tickslock" => locked["ptable"] # d
  BY SpinIs
<1> QED
  BY <1>1, <1>2 DEF Locks

LEMMA SoundHolds == IInv => KernelSound
BY TypesHold, NoPanicHolds, NcliHolds, UserHolds, OneCpuHolds, CycleHolds DEF KernelSound

LEMMA WokenHolds == IInv => ReapersWoken
<1> SUFFICES ASSUME IInv  PROVE ReapersWoken
  OBVIOUS
<1>1. Related(ptable) /\ ptable \in Table
  BY ThreadIs DEF IInv, Typed, Table
<1>2. ASSUME NEW p \in Proc, State(p) = "SLEEPING", ptable[p].chan = p, NEW q \in Children(p)
      PROVE  State(q) # "ZOMBIE"
  <2>1. q \in Proc /\ ptable[q].parent = p /\ p # NoProc
    BY DEF Children, NoProc, Proc
  <2> QED
    BY <1>1, <1>2, <2>1 DEF Related, State
<1>3. ASSUME NEW p \in Proc \ {initproc}, State(p) \notin {"UNUSED", "EMBRYO"}
      PROVE  /\ ptable[p].parent # NoProc
             /\ State(ptable[p].parent) \notin {"UNUSED", "EMBRYO", "ZOMBIE"}
  BY <1>1, <1>3 DEF Related, State, Alive
<1> QED
  BY <1>2, <1>3 DEF ReapersWoken, WaiterWoken, Fathered

-----------------------------------------------------------------------------
(* The theorems *)

\* The strengthening that everything else follows from: code and locks fit, a
\* process is on the processor that says so, and who rests comes back where the
\* scheduler hands ptable.lock to it. exit of init is a panic of its own
\* (proc.c: "init exiting"), and init is assumed not to call it.
THEOREM KernelInvariant ==
    ASSUME "exit" \notin Calls[initproc]
    PROVE  Spec => []IInv
<1>1. Init => IInv
  BY InitHolds
<1>2. IInv /\ [Next]_vars => IInv'
  BY NextHolds
<1> QED
  BY <1>1, <1>2, PTL DEF Spec

\* No panic in acquire, release or sched, ncli exact through every switch,
\* interrupts on in user mode, a process on one processor, no spinning in a circle.
THEOREM KernelIsSound ==
    ASSUME "exit" \notin Calls[initproc]
    PROVE  Spec => []KernelSound
<1>1. Spec => []IInv
  BY KernelInvariant
<1>2. IInv => KernelSound
  BY SoundHolds
<1> QED
  BY <1>1, <1>2, PTL

\* Nobody sleeps in wait over a dead child, and every child has a parent that is
\* there to wait for it, whoever exits, is killed or is woken in between.
THEOREM ReapersAreWoken ==
    ASSUME "exit" \notin Calls[initproc]
    PROVE  Spec => []ReapersWoken
<1>1. Spec => []IInv
  BY KernelInvariant
<1>2. IInv => ReapersWoken
  BY WokenHolds
<1> QED
  BY <1>1, <1>2, PTL
=============================================================================
