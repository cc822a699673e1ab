-------------------------------- MODULE Boot --------------------------------
(***************************************************************************)
(* The start of project3 on several processors: the boot processor runs    *)
(* main(), starts the others one after the other with a piece of code they *)
(* share, and makes the first process, which sets the file system up.      *)
(* Every processor has a list of routines and a position in it; a routine  *)
(* is a step, and the routines of different processors mix.                *)
(***************************************************************************)
EXTENDS Integers, Sequences, FiniteSets

CONSTANTS
    Processor, Bsp,     \* the processors, and the one that boots
    Table,              \* the processors in the order of the MP table
    ApicId,             \* the ids of their local APICs
    MAXCPU,             \* how many the kernel has room for
    Low, High, NoPage,  \* free pages below 4 MB and above
    KPAGES,             \* pages of a page directory with the kernel's part
    Serial              \* the machine has a serial port

ASSUME BootConstants ==
    /\ IsFiniteSet(Processor) /\ Table \in Seq(Processor)
    /\ MAXCPU \in Nat \ {0}
    /\ \A i, j \in DOMAIN Table : Table[i] = Table[j] => i = j
    /\ \E i \in DOMAIN Table : i <= MAXCPU /\ Table[i] = Bsp
    /\ ApicId \in [Processor -> Nat]
    /\ \A i \in DOMAIN Table : ApicId[Table[i]] = i - 1
    /\ IsFiniteSet(Low) /\ Low \cap High = {} /\ NoPage \notin Low \cup High
    /\ Serial \in BOOLEAN
    /\ KPAGES \in Nat /\ Cardinality(Low) >= 2 * KPAGES + Len(Table) + 2

VARIABLES
    pos,          \* where a processor is in its list
    freelist,     \* the free pages
    uselock,      \* kmem.use_lock
    found,        \* cpus[0] to cpus[ncpu - 1]
    pgdir,        \* the page directory of a processor: none, entry or kernel
    stack,        \* its stack, or NoPage before it has one from startothers
    shared,       \* the stack that startothers puts in front of the shared code
    turn,         \* where startothers is in cpus
    waiting,      \* it waits for that processor
    started,      \* the processors whose flag started is set
    ready,        \* the tables that have been filled
    route,        \* the APIC that gets the interrupts of a device
    first         \* how far the first process is

memory  == <<freelist, uselock, pgdir, stack>>
others  == <<shared, turn, waiting, started>>
devices == <<found, ready, route>>
bootvars == <<pos, freelist, uselock, found, pgdir, stack, shared, turn,
              waiting, started, ready, route, first>>

NoRoute == -1
Device == {"keyboard", "serial", "disk"}

\* Mutant: all memory is freed before the other processors start.
MainKinitEarly ==
    <<"kinit1", "kvmalloc", "mpinit", "lapicinit", "seginit", "picinit",
      "ioapicinit", "consoleinit", "uartinit", "pinit", "tvinit", "binit",
      "fileinit", "ideinit", "kinit2", "startothers", "userinit", "runnable",
      "mpmain", "scheduler">>

\* main(). userinit is two routines: the second makes the process runnable.
Main ==
    <<"kinit1", "kvmalloc", "mpinit", "lapicinit", "seginit", "picinit",
      "ioapicinit", "consoleinit", "uartinit", "pinit", "tvinit", "binit",
      "fileinit", "ideinit", "startothers", "kinit2", "userinit", "runnable",
      "mpmain", "scheduler">>

\* entryother.S and mpenter().
MpEnter ==
    <<"off", "start", "switchkvm", "seginit", "lapicinit", "mpmain",
      "scheduler">>

Place(c) == IF c = Bsp THEN Main[pos[c]] ELSE MpEnter[pos[c]]
GoOn(c) == pos' = [pos EXCEPT ![c] = @ + 1]
Listed == {found[i] : i \in DOMAIN found}

\* entry.S has given the boot processor entrypgdir and a stack.
BootInit ==
    /\ pos = [c \in Processor |-> 1]
    /\ freelist = {} /\ uselock = FALSE
    /\ found = <<>>
    /\ pgdir = [c \in Processor |-> IF c = Bsp THEN "entry" ELSE "none"]
    /\ stack = [c \in Processor |-> NoPage]
    /\ shared = NoPage /\ turn = 1 /\ waiting = FALSE /\ started = {}
    /\ ready = {} /\ route = [d \in Device |-> NoRoute]
    /\ first = "none"

-----------------------------------------------------------------------------
(* main()                                                                  *)

\* The list is a stack: kinit2 puts its pages in front.
Newest == IF freelist \cap High # {} THEN freelist \cap High ELSE freelist

\* n pages off the list; which ones does not matter.
kalloc(n) ==
    /\ Cardinality(freelist) >= n
    /\ freelist' = freelist \ CHOOSE pages \in SUBSET freelist :
                                  Cardinality(pages) = n

kinit1 ==
    /\ Place(Bsp) = "kinit1" /\ GoOn(Bsp)
    /\ freelist' = Low
    /\ UNCHANGED <<uselock, pgdir, stack, others, devices, first>>

\* setupkvm and switchkvm.
kvmalloc ==
    /\ Place(Bsp) = "kvmalloc" /\ GoOn(Bsp)
    /\ kalloc(KPAGES)
    /\ pgdir' = [pgdir EXCEPT ![Bsp] = "kernel"]
    /\ UNCHANGED <<uselock, stack, others, devices, first>>

mpinit ==
    /\ Place(Bsp) = "mpinit" /\ GoOn(Bsp)
    /\ found' = SubSeq(Table, 1, IF Len(Table) < MAXCPU THEN Len(Table)
                                                        ELSE MAXCPU)
    /\ UNCHANGED <<memory, others, ready, route, first>>

\* What a processor sets up for itself.
Own(c) ==
    /\ Place(c) \in {"lapicinit", "seginit"} /\ GoOn(c)
    /\ UNCHANGED <<memory, others, devices, first>>

\* What all processors use: the masks of the old controller, the locks of the
\* process table, the gates, the buffers, the file table.
Tables == {"picinit", "pinit", "tvinit", "binit", "fileinit"}

Fill ==
    /\ Place(Bsp) \in Tables /\ GoOn(Bsp)
    /\ ready' = ready \cup {Place(Bsp)}
    /\ UNCHANGED <<memory, others, found, route, first>>

\* All interrupts are disabled.
ioapicinit ==
    /\ Place(Bsp) = "ioapicinit" /\ GoOn(Bsp)
    /\ route' = [d \in Device |-> NoRoute]
    /\ UNCHANGED <<memory, others, found, ready, first>>

\* ioapicenable(): the index of a processor is taken for the id of its APIC.
ioapicenable(d, cpunum) ==
    /\ route' = [route EXCEPT ![d] = cpunum]
    /\ UNCHANGED <<memory, others, found, ready, first>>

consoleinit ==
    /\ Place(Bsp) = "consoleinit" /\ GoOn(Bsp)
    /\ ioapicenable("keyboard", 0)

uartinit ==
    /\ Place(Bsp) = "uartinit" /\ GoOn(Bsp)
    /\ ioapicenable("serial", IF Serial THEN 0 ELSE NoRoute)

\* The disk interrupts the last processor.
ideinit ==
    /\ Place(Bsp) = "ideinit" /\ GoOn(Bsp)
    /\ ioapicenable("disk", Len(found) - 1)

-----------------------------------------------------------------------------
(* startothers()                                                           *)

AtTurn == Place(Bsp) = "startothers" /\ ~waiting /\ turn \in DOMAIN found

Skip ==
    /\ AtTurn /\ found[turn] = Bsp
    /\ turn' = turn + 1
    /\ UNCHANGED <<pos, memory, shared, waiting, started, devices, first>>

\* A stack for the next processor, and lapicstartap.
StartAp ==
    /\ AtTurn /\ found[turn] # Bsp
    /\ freelist # {}
    /\ shared' = CHOOSE page \in Newest : TRUE
    /\ freelist' = freelist \ {shared'}
    /\ waiting' = TRUE
    /\ GoOn(found[turn])
    /\ UNCHANGED <<uselock, pgdir, stack, turn, started, devices, first>>

\* Mutant: nobody waits for a processor to have read its stack.
AwaitNobody ==
    /\ Place(Bsp) = "startothers" /\ waiting
    /\ waiting' = FALSE /\ turn' = turn + 1
    /\ UNCHANGED <<pos, memory, shared, started, devices, first>>

Await ==
    /\ Place(Bsp) = "startothers" /\ waiting /\ found[turn] \in started
    /\ waiting' = FALSE /\ turn' = turn + 1
    /\ UNCHANGED <<pos, memory, shared, started, devices, first>>

AllStarted ==
    /\ Place(Bsp) = "startothers" /\ ~waiting /\ turn \notin DOMAIN found
    /\ GoOn(Bsp)
    /\ UNCHANGED <<memory, others, devices, first>>

\* entryother.S: entrypgdir, and the stack that start-4 has by now.
start(c) ==
    /\ Place(c) = "start" /\ GoOn(c)
    /\ pgdir' = [pgdir EXCEPT ![c] = "entry"]
    /\ stack' = [stack EXCEPT ![c] = shared]
    /\ UNCHANGED <<freelist, uselock, others, devices, first>>

switchkvm(c) ==
    /\ Place(c) = "switchkvm" /\ GoOn(c)
    /\ pgdir' = [pgdir EXCEPT ![c] = "kernel"]
    /\ UNCHANGED <<freelist, uselock, stack, others, devices, first>>

\* idtinit and the flag; then the processor schedules.
mpmain(c) ==
    /\ Place(c) = "mpmain" /\ GoOn(c)
    /\ started' = started \cup {c}
    /\ UNCHANGED <<memory, shared, turn, waiting, devices, first>>

-----------------------------------------------------------------------------
(* The rest of memory and the first process                                *)

kinit2 ==
    /\ Place(Bsp) = "kinit2" /\ GoOn(Bsp)
    /\ freelist' = freelist \cup High
    /\ uselock' = TRUE
    /\ UNCHANGED <<pgdir, stack, others, devices, first>>

\* allocproc, setupkvm and inituvm: a kernel stack, a page directory, and the
\* page of initcode.
userinit ==
    /\ Place(Bsp) = "userinit" /\ GoOn(Bsp)
    /\ kalloc(KPAGES + 2)
    /\ first' = "embryo"
    /\ UNCHANGED <<uselock, pgdir, stack, others, devices>>

Runnable ==
    /\ Place(Bsp) = "runnable" /\ GoOn(Bsp)
    /\ first' = "runnable"
    /\ UNCHANGED <<memory, others, devices>>

\* A scheduler dispatches the first process.
Dispatch(c) ==
    /\ Place(c) = "scheduler"
    /\ \/ first = "runnable" /\ first' = "forkret"
       \/ first = "answered" /\ first' = "recovered"
    /\ UNCHANGED <<pos, memory, others, devices>>

\* In forkret it reads the superblock and the log, and sleeps until the disk
\* has answered.
Request ==
    /\ first = "forkret"
    /\ first' = "asleep"
    /\ UNCHANGED <<pos, memory, others, devices>>

\* ideintr, on the processor that the interrupt goes to.
Interrupt(c) ==
    /\ first = "asleep" /\ ApicId[c] = route["disk"] /\ Place(c) = "scheduler"
    /\ first' = "answered"
    /\ UNCHANGED <<pos, memory, others, devices>>

Booted == first = "recovered" /\ Place(Bsp) = "scheduler"

BootNext ==
    \/ kinit1 \/ kvmalloc \/ mpinit \/ Fill \/ ioapicinit \/ consoleinit
    \/ uartinit \/ ideinit \/ Skip \/ StartAp \/ Await \/ AllStarted
    \/ kinit2 \/ userinit \/ Runnable \/ Request
    \/ \E c \in Processor : \/ Own(c) \/ start(c) \/ switchkvm(c) \/ mpmain(c)
                            \/ Dispatch(c) \/ Interrupt(c)

BootSpec == BootInit /\ [][BootNext]_bootvars

-----------------------------------------------------------------------------
(* What a start must keep                                                  *)

\* A processor in C code has a stack of its own that is not free, and that its
\* page directory maps (entrypgdir maps 4 MB only).
OwnStack ==
    \A c \in Processor \ {Bsp} : pos[c] > 2 =>
        /\ stack[c] \in (Low \cup High) \ freelist
        /\ pgdir[c] = "entry" => stack[c] \in Low
        /\ \A d \in Processor \ {c} : stack[d] # stack[c]

\* Who takes a lock asks mycpu() which processor it is.
AsksMycpu(c) ==
    \/ Place(c) \in {"seginit", "startothers", "userinit", "runnable",
                     "mpmain", "scheduler"}
    \/ c = Bsp /\ uselock

\* mycpu() finds whoever asks: its APIC is mapped, and its id in the table.
KnowsItself ==
    \A c \in Processor : AsksMycpu(c) => pgdir[c] = "kernel" /\ c \in Listed

\* lapicinit finds the APIC; it does nothing if mpinit has not set its address.
ApicFound == \A c \in Processor : Place(c) = "lapicinit" => c \in Listed

\* Nobody takes interrupts whose gates are not filled, or runs a process
\* without the tables that system calls use.
Served == \A c \in Processor : Place(c) = "scheduler" => Tables \subseteq ready

\* While the free list has no lock, only the boot processor uses it.
UnlockedAlone == ~uselock => first = "none"

Routed(d) ==
    \E c \in Listed : ApicId[c] = route[d] /\ (c = Bsp \/ c \in started)

\* The first process waits for an interrupt that a processor will take, and
\* so are keys and, with a serial port, what comes in there.
DevicesAnswer ==
    first = "asleep" =>
        Routed("disk") /\ Routed("keyboard") /\ (Serial => Routed("serial"))

\* Every processor starts on its own stack, knows itself and finds what it
\* needs, whichever of them goes first.
BootSound ==
    /\ OwnStack /\ KnowsItself /\ ApicFound
    /\ Served /\ UnlockedAlone /\ DevicesAnswer
=============================================================================
