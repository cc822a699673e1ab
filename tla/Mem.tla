--------------------------------- MODULE Mem ---------------------------------
(***************************************************************************)
(* The memory of project2: the page allocator, page directories, and what  *)
(* fork, exec, exec2, sbrk, thread_create, setmemorylimit and wait do to   *)
(* them.  A process stands for its main thread and for the stacks of the   *)
(* threads it makes.  Each call is one step: ptable.lock is held, or the   *)
(* page directory it works on is nobody else's yet.  Addresses count units *)
(* of half a page, so that sizes need not be page-aligned.                 *)
(***************************************************************************)
EXTENDS Integers, FiniteSets, FiniteSetsExt, Sequences, SequencesExt

CONSTANTS
    Proc, NTABLE,
    MAXPAGE,     \* pages a process gets beyond its program
    Frames,      \* how many physical pages there may be
    Programs,    \* pages of the programs that are run
    Stacks,      \* stack sizes of exec2, in pages
    Requests,    \* what sbrk is asked for
    Limits,
    None

ASSUME MemConstants ==
    /\ NTABLE \in Nat \ {0} /\ MAXPAGE \in Nat \ {0}
    /\ Frames \subseteq Nat /\ Programs \subseteq Nat \ {0}
    /\ Stacks \subseteq Nat /\ Requests \subseteq Int /\ Limits \subseteq Nat

VARIABLES
    frames,      \* physical pages of the machine
    free,        \* how many are on the free list
    space,       \* the page directory of a process, or None
    kstack,      \* kernel stacks of a process: its own, and its threads'
    proc,        \* sz, base, tstack and memlimit of a process, and what has become
                 \* of retval, the field that ends where tstack begins
    heir,        \* processes with slots marked that are their parent's
    lost,        \* kernel stacks of threads that were not made
    ended        \* "none", or what ended the run: a panic, or what ruins a process

vars == <<frames, free, space, kstack, proc, heir, lost, ended>>

PGSIZE == 2
PTES == 2                     \* entries of a page table
NVA == NTABLE * PTES          \* pages below KERNBASE
KERNBASE == NVA * PGSIZE
Va == 0..NVA - 1
PDX(va) == va \div PTES
Kernel == NTABLE              \* index of the kernel's page table
PageUp(a) == (a + PGSIZE - 1) \div PGSIZE     \* PGROUNDUP, as a page number
Unused == [sz |-> 0, base |-> 0, tstack |-> {}, memlimit |-> 0, retval |-> "whole"]

-----------------------------------------------------------------------------
(* vm.c. These work on m: the number of free pages, and a page directory   *)
(* with its tables and the user pages it maps. err says what has failed.   *)

Blank == [dir |-> FALSE, tab |-> {}, pte |-> {}]
Working(n, s) == [free |-> n, dir |-> s.dir, tab |-> s.tab, pte |-> s.pte, err |-> "none"]
Fail(m, why) == [m EXCEPT !.err = why]
SpaceOf(m) == [dir |-> m.dir, tab |-> m.tab, pte |-> m.pte]

\* kalloc; which page it is does not matter.
kalloc(m) == IF m.free = 0 THEN Fail(m, "no memory") ELSE [m EXCEPT !.free = @ - 1]

\* walkpgdir, making the page table if there is none.
walkpgdir(m, pdx) ==
    IF m.err # "none" \/ pdx \in m.tab THEN m
    ELSE LET k == kalloc(m)
         IN  IF k.err = "none" THEN [k EXCEPT !.tab = @ \cup {pdx}] ELSE k

\* Mutant: the page is not given back if there is no room for its table.
AllocPageLost(m, va) ==
    LET w == walkpgdir(kalloc(m), PDX(va))
    IN  IF m.err # "none" THEN m
        ELSE IF w.err # "none" THEN w
        ELSE IF va \in w.pte THEN Fail(w, "remap")
        ELSE [w EXCEPT !.pte = @ \cup {va}]

\* kalloc, and mappages of the one page.
AllocPage(m, va) ==
    LET k == kalloc(m)
        w == walkpgdir(k, PDX(va))
    IN  IF m.err # "none" THEN m
        ELSE IF k.err # "none" THEN k
        ELSE IF w.err # "none" THEN [w EXCEPT !.free = @ + 1]
        ELSE IF va \in w.pte THEN Fail(w, "remap")
        ELSE [w EXCEPT !.pte = @ \cup {va}]

Pages(from, to) == [k \in 1..(IF to > from THEN to - from ELSE 0) |-> from + k - 1]

deallocuvm(m, oldsz, newsz) ==
    LET gone == m.pte \cap (PageUp(newsz)..PageUp(oldsz) - 1)
    IN  [m EXCEPT !.free = @ + Cardinality(gone), !.pte = @ \ gone]

\* What was allocated before memory ran out is freed again.
allocuvm(m, oldsz, newsz) ==
    IF m.err # "none" THEN m
    ELSE IF newsz >= KERNBASE THEN Fail(m, "too large")
    ELSE LET n == FoldLeft(AllocPage, m, Pages(PageUp(oldsz), PageUp(newsz)))
         IN  IF n.err = "no memory" THEN deallocuvm(n, newsz, oldsz) ELSE n

\* freevm: how many pages are free then.
freevm(m) == deallocuvm(m, KERNBASE, 0).free + Cardinality(m.tab) + 1

\* setupkvm: a directory, and the page table of the kernel's part.
setupkvm(n) ==
    LET d == kalloc(Working(n, Blank))
        k == walkpgdir([d EXCEPT !.dir = TRUE], Kernel)
    IN  IF d.err # "none" THEN d
        ELSE IF k.err # "none" THEN Fail(Working(freevm(k), Blank), "no memory")
        ELSE k

\* copyuvm: the pages of s below sz, which must all be there.
copyuvm(n, s, sz) ==
    LET m == FoldLeft(LAMBDA x, va : IF x.err = "none" /\ va \notin s.pte
                                     THEN Fail(x, "page not present")
                                     ELSE AllocPage(x, va),
                      setupkvm(n), Pages(0, PageUp(sz)))
    IN  IF m.err = "no memory" /\ m.dir
        THEN Fail(Working(freevm(m), Blank), "no memory") ELSE m

-----------------------------------------------------------------------------
Running == ended = "none"
Live == {p \in Proc : space[p] # None}

\* userinit: a page at address 0.
Init ==
    /\ frames \in Frames
    /\ LET m == AllocPage(setupkvm(frames - 1), 0)
           p == Min(Proc)
       IN  /\ free = m.free
           /\ space = [q \in Proc |-> IF q = p THEN SpaceOf(m) ELSE None]
           /\ kstack = [q \in Proc |-> IF q = p THEN 1 ELSE 0]
           /\ proc = [q \in Proc |-> IF q = p
                        THEN [Unused EXCEPT !.sz = PGSIZE, !.base = PGSIZE]
                        ELSE Unused]
    /\ heir = {} /\ lost = 0
    /\ ended = "none"

Ends(what) == ended' = what /\ UNCHANGED <<frames, free, space, kstack, proc, heir, lost>>

\* fork. If there is no room for the copy it gives back what it took, and returns
\* with ptable.lock held: the next one to ask for it ends the kernel.
Fork(p) ==
    /\ Running /\ p \in Live /\ free > 0
    /\ \E q \in Proc \ Live :
          LET m == copyuvm(free - 1, space[p], proc[p].sz)
          IN  IF m.err = "no memory"
              THEN /\ free' = m.free + 1
                   /\ ended' = "lock kept"
                   /\ UNCHANGED <<frames, space, kstack, proc, heir, lost>>
              ELSE IF m.err # "none" THEN Ends(m.err)
              ELSE /\ free' = m.free
                   /\ space' = [space EXCEPT ![q] = SpaceOf(m)]
                   /\ kstack' = [kstack EXCEPT ![q] = 1]
                   /\ proc' = [proc EXCEPT ![q] = [proc[p] EXCEPT !.base = proc[p].sz,
                                                               !.retval = "whole"]]
                   /\ heir' = IF proc[p].tstack = {} THEN heir ELSE heir \cup {q}
                   /\ UNCHANGED <<frames, lost, ended>>

\* exec and exec2: a new directory for the program, a page that the user cannot
\* touch and the stack; the old directory is freed if all has gone well.
Exec(p, pages, stacks) ==
    LET program == allocuvm(setupkvm(free), 0, pages * PGSIZE)
        size == (pages + 1 + stacks) * PGSIZE
        m == IF program.err = "none" /\ proc[p].memlimit # 0 /\ size > proc[p].memlimit
             THEN Fail(program, "limit")
             ELSE allocuvm(program, pages * PGSIZE, size)
    IN  /\ Running /\ p \in Live /\ kstack[p] = 1
        /\ IF m.err # "none"
           THEN /\ free' = IF m.dir THEN freevm(m) ELSE m.free
                /\ UNCHANGED <<space, proc, heir>>
           ELSE /\ free' = freevm(Working(m.free, space[p]))
                /\ space' = [space EXCEPT ![p] = SpaceOf(m)]
                /\ proc' = [proc EXCEPT ![p].sz = size, ![p].base = size,
                                        ![p].tstack = {}]
                /\ heir' = heir \ {p}
        /\ UNCHANGED <<frames, kstack, lost, ended>>

ExecOne(p) == \E pages \in Programs : Exec(p, pages, 1)
Exec2(p) == \E pages \in Programs, stacks \in Stacks : Exec(p, pages, stacks)

Slots(p) == 0..MAXPAGE - 1 \ proc[p].tstack
SlotAddr(p, i) == proc[p].base + i * PGSIZE

\* Mutant: the last free slots are taken.
TakenLast(p, n) ==
    LET want == IF n <= PGSIZE THEN 1 ELSE PageUp(n)
    IN  {i \in Slots(p) : Cardinality({j \in Slots(p) : j > i}) < want}

\* The slots growproc takes: the first free ones, one at least.
Taken(p, n) ==
    LET want == IF n <= PGSIZE THEN 1 ELSE PageUp(n)
    IN  {i \in Slots(p) : Cardinality({j \in Slots(p) : j < i}) < want}

OverLimit(p, n) ==
    proc[p].memlimit # 0 /\ PageUp(proc[p].sz + n) * PGSIZE > proc[p].memlimit

GrowOne(m, p, i) == allocuvm(m, SlotAddr(p, i), SlotAddr(p, i) + PGSIZE)

\* sbrk, by any thread: a page that cannot be had ends the kernel.
GrowProc(p) ==
    /\ Running /\ p \in Live
    /\ \E n \in Requests :
          /\ proc[p].sz + n >= 0
          /\ ~OverLimit(p, n)
          /\ LET m == FoldLeft(LAMBDA x, i : GrowOne(x, p, i), Working(free, space[p]),
                               SetToSortSeq(Taken(p, n), <))
             IN  IF m.err # "none"
                 THEN Ends(IF m.err = "remap" THEN "remap" ELSE "growproc error")
                 ELSE IF Cardinality(Taken(p, n)) * PGSIZE < n
                 THEN Ends("sbrk fell short")
                 ELSE IF n <= 0 THEN Ends("sbrk grew")
                 ELSE /\ free' = m.free
                      /\ space' = [space EXCEPT ![p] = SpaceOf(m)]
                      /\ proc' = [proc EXCEPT
                           ![p].tstack = @ \cup Taken(p, n),
                           ![p].sz = @ + Cardinality(Taken(p, n)) * PGSIZE]
                      /\ UNCHANGED <<frames, kstack, heir, lost, ended>>

\* thread_create: a kernel stack, and a page of the process for the stack. What
\* is refused leaves the kernel stack behind; and where the limit refuses it with
\* no slot free, tstack[-1] is reset, the highest byte of retval.
Create(p) ==
    /\ Running /\ p \in Live /\ free > 0
    /\ LET i == Min(Slots(p))
           m == GrowOne(Working(free - 1, space[p]), p, i)
       IN  IF proc[p].memlimit # 0 /\ proc[p].memlimit < proc[p].sz + PGSIZE
           THEN /\ free' = free - 1
                /\ lost' = lost + 1
                /\ proc' = IF Slots(p) = {} THEN [proc EXCEPT ![p].retval = "cut"]
                           ELSE proc
                /\ UNCHANGED <<space, kstack, ended>>
           ELSE IF Slots(p) = {} THEN Ends("need more memory")
           ELSE IF m.err = "remap" THEN Ends("remap")
           ELSE IF m.err # "none"
           THEN /\ free' = m.free
                /\ space' = [space EXCEPT ![p] = SpaceOf(m)]
                /\ lost' = lost + 1
                /\ UNCHANGED <<kstack, proc, ended>>
           ELSE /\ free' = m.free
                /\ space' = [space EXCEPT ![p] = SpaceOf(m)]
                /\ kstack' = [kstack EXCEPT ![p] = @ + 1]
                /\ proc' = [proc EXCEPT ![p].tstack = @ \cup {i},
                                        ![p].sz = Max({@, SlotAddr(p, i) + PGSIZE})]
                /\ UNCHANGED <<lost, ended>>
    /\ UNCHANGED <<frames, heir>>

\* thread_join: the kernel stack is freed; the other one stays, and marked.
Join(p) ==
    /\ Running /\ kstack[p] > 1
    /\ free' = free + 1
    /\ kstack' = [kstack EXCEPT ![p] = @ - 1]
    /\ UNCHANGED <<frames, space, proc, heir, lost, ended>>

SetMemoryLimit(p) ==
    /\ Running /\ p \in Live
    /\ \E limit \in Limits :
          /\ limit = 0 \/ limit >= proc[p].sz
          /\ proc' = [proc EXCEPT ![p].memlimit = limit]
    /\ UNCHANGED <<frames, free, space, kstack, heir, lost, ended>>

\* A child exits with its threads and is waited for.
Wait(p) ==
    /\ Running /\ p \in Live /\ p # Min(Proc)
    /\ free' = freevm(Working(free, space[p])) + kstack[p]
    /\ space' = [space EXCEPT ![p] = None]
    /\ kstack' = [kstack EXCEPT ![p] = 0]
    /\ proc' = [proc EXCEPT ![p] = Unused]
    /\ heir' = heir \ {p}
    /\ UNCHANGED <<frames, lost, ended>>

Next == \E p \in Proc :
    \/ Fork(p) \/ ExecOne(p) \/ Exec2(p) \/ GrowProc(p) \/ Create(p) \/ Join(p)
    \/ SetMemoryLimit(p) \/ Wait(p)

Spec == Init /\ [][Next]_vars

-----------------------------------------------------------------------------
\* Every variable has its type.
TypeOK ==
    /\ frames \in Frames /\ free \in 0..frames /\ lost \in 0..frames
    /\ kstack \in [Proc -> 0..frames] /\ heir \subseteq Live
    /\ proc \in [Proc -> [sz : 0..KERNBASE, base : 0..KERNBASE,
                          tstack : SUBSET (0..MAXPAGE - 1), memlimit : Nat,
                          retval : {"whole", "cut"}]]
    /\ ended \in {"none", "lock kept", "page not present", "remap",
                  "growproc error", "sbrk fell short", "sbrk grew",
                  "need more memory"}

Uses(p) ==
    kstack[p] + (IF p \in Live THEN Cardinality(space[p].pte) + Cardinality(space[p].tab) + 1
                 ELSE 0)

\* Every page is free or in use: a call that runs out of memory half-way gives
\* back what it took and nothing else, also fork with a copy half made; but for the
\* kernel stacks thread_create leaves behind (vm.c:234-251, 329-345).
PagesExact == free + lost + FoldSet(LAMBDA p, n : n + Uses(p), 0, Proc) = frames

\* Stacks of threads and memory of sbrk are never given the same address
\* (growproc and thread_create share tstack).
NoRemap == ended # "remap"

\* A limit is never passed, neither by the program of a later exec nor by
\* stacks of threads or sbrk of a whole or half a page. The child of a process
\* with marked slots passes it.
LimitKept ==
    Running => \A p \in Live \ heir :
        proc[p].memlimit # 0 => proc[p].sz <= proc[p].memlimit

\* Every page that is mapped is the program's or in a marked slot, so that no
\* other call is given its address.
Marked(p) == {SlotAddr(p, i) \div PGSIZE : i \in proc[p].tstack}
Inside ==
    Running => \A p \in Live : \A va \in Va :
        va \in space[p].pte => va < proc[p].base \div PGSIZE \/ va \in Marked(p)

Whole(p) == \A va \in Va : va * PGSIZE < proc[p].sz => va \in space[p].pte

\* Memory lies without a hole from address 0 to sz, so that fork can copy it;
\* but not in the child of a process with marked slots.
NoHoles == Running => \A p \in Live \ heir : Whole(p)

\* Every page is accounted for, also after a call that ran out of them.
FramesExact == TypeOK /\ PagesExact

\* Address spaces: within the limit, below sz, without holes or double maps.
SpaceSound == NoRemap /\ LimitKept /\ Inside /\ NoHoles
=============================================================================
