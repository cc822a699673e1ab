------------------------------ MODULE LogCore -------------------------------
(***************************************************************************)
(* What the write-ahead log of projects 1 and 2 and the buffered log of    *)
(* project3 have in common: the disk, the block cache, log_write, the      *)
(* steps of commit, a crash and the recovery.  One action per write to the *)
(* disk, during which other processes run.                                 *)
(*                                                                         *)
(* The contents of a block are a version.  An operation of the file system *)
(* updates the blocks of one file under its inode lock, each to the next   *)
(* version; the history variable done has what the completed ones wrote.   *)
(***************************************************************************)
EXTENDS Integers, Sequences, FiniteSets

CONSTANTS
    Proc,         \* processes that use the file system
    Block,        \* disk blocks of the file system
    File,         \* the sets of blocks that operations update
    NoFile,       \* stands for a process that is in no operation
    VERSIONS,     \* block contents are counted modulo this
    LOGSIZE,      \* blocks of the log on disk, its header included
    MAXOPBLOCKS   \* most blocks an operation writes

ASSUME LogConstants ==
    /\ IsFiniteSet(Block)
    /\ File \subseteq SUBSET Block
    /\ NoFile \notin File
    /\ \A f \in File : Cardinality(f) <= MAXOPBLOCKS
    /\ \A f, g \in File : f = g \/ f \cap g = {}
    /\ VERSIONS \in Nat /\ VERSIONS > 1
    /\ LOGSIZE \in Nat /\ LOGSIZE > 1
    /\ MAXOPBLOCKS \in Nat \ {0}

VARIABLES
    outstanding,  \* log.outstanding
    committing,   \* log.committing
    lh,           \* log.lh, the blocks of the running transaction
    cache,        \* the contents of the blocks seen through the cache
    dirty,        \* the cached blocks with B_DIRTY
    home,         \* disk: the blocks of the file system
    logd,         \* disk: the data blocks of the log
    head,         \* disk: the header of the log
    pc,           \* where a process stands
    file,         \* the file its operation is on
    todo,         \* the blocks of it still to be written
    tail,         \* the local variable tail of write_log and install_trans
    booting,      \* initlog is recovering
    panic,        \* the kernel has panicked
    done          \* the contents by the operations that have completed

mem  == <<outstanding, committing, lh, cache, dirty>>
disk == <<home, logd, head>>
vars == <<outstanding, committing, lh, cache, dirty, home, logd, head, pc,
          file, todo, tail, booting, panic, done>>

Version == 0..(VERSIONS - 1)
Slot    == 1..(LOGSIZE - 1)

Up == ~booting /\ ~panic

InLh(b) == \E i \in DOMAIN lh : lh[i] = b

\* What recovery would make of the disk.
Recovered ==
    [b \in Block |->
        IF \E i \in DOMAIN head : head[i] = b
        THEN logd[CHOOSE i \in DOMAIN head :
                     /\ head[i] = b
                     /\ \A j \in DOMAIN head : head[j] = b => j <= i]
        ELSE home[b]]

Init ==
    /\ outstanding = 0
    /\ committing = FALSE
    /\ lh = << >>
    /\ cache = [b \in Block |-> 0]
    /\ dirty = {}
    /\ home = [b \in Block |-> 0]
    /\ logd = [s \in Slot |-> 0]
    /\ head = << >>
    /\ pc = [p \in Proc |-> "idle"]
    /\ file = [p \in Proc |-> NoFile]
    /\ todo = [p \in Proc |-> {}]
    /\ tail = [p \in Proc |-> 0]
    /\ booting = FALSE
    /\ panic = FALSE
    /\ done = [b \in Block |-> 0]

\* wakeup(&log), with the calling process at the place next.
Woken(p, next) ==
    [q \in Proc |-> IF q = p THEN next
                    ELSE IF pc[q] = "asleep" THEN "begin" ELSE pc[q]]

Goto(p, next) == pc' = [pc EXCEPT ![p] = next]

-----------------------------------------------------------------------------
(* An operation: begin_op, writes under the inode lock, end_op *)

\* A system call on the file f comes to begin_op.
Call(p, f) ==
    /\ Up
    /\ pc[p] = "idle"
    /\ file' = [file EXCEPT ![p] = f]
    /\ todo' = [todo EXCEPT ![p] = f]
    /\ Goto(p, "begin")
    /\ UNCHANGED <<mem, disk, tail, booting, panic, done>>

\* The log may be too small for one more operation.
NoSpace == Len(lh) + (outstanding + 1) * MAXOPBLOCKS > LOGSIZE

BeginSleep(p) ==
    /\ Up
    /\ pc[p] = "begin"
    /\ committing \/ NoSpace
    /\ Goto(p, "asleep")
    /\ UNCHANGED <<mem, disk, file, todo, tail, booting, panic, done>>

\* Another operation is half way through the same file.
Locked(p) ==
    \E q \in Proc \ {p} : /\ pc[q] = "op" /\ file[q] = file[p]
                          /\ todo[q] # file[q] /\ todo[q] # {}

TooBig == Len(lh) >= LOGSIZE - 1

\* bread, a modification, log_write and brelse, under the lock of the buffer:
\* panic("too big a transaction") and panic("log_write outside of trans").
LogWrite(p, b) ==
    /\ Up
    /\ pc[p] = "op" /\ b \in todo[p] /\ ~Locked(p)
    /\ cache' = [cache EXCEPT ![b] = (@ + 1) % VERSIONS]
    /\ panic' = (TooBig \/ outstanding < 1)
    /\ lh' = IF InLh(b) \/ panic' THEN lh ELSE Append(lh, b)
    /\ dirty' = dirty \cup {b}
    /\ todo' = [todo EXCEPT ![p] = @ \ {b}]
    /\ UNCHANGED <<outstanding, committing, disk, pc, file, tail, booting,
                   done>>

\* What end_op does first, whatever the log is: panic("log.committing") in the
\* middle of a commit.
Ending(p) == Up /\ pc[p] = "op" /\ todo[p] = {}

Completed(p) ==
    /\ outstanding' = outstanding - 1
    /\ panic' = committing
    /\ file' = [file EXCEPT ![p] = NoFile]
    /\ done' = [b \in Block |-> IF b \in file[p] THEN (done[b] + 1) % VERSIONS
                                                 ELSE done[b]]

-----------------------------------------------------------------------------
(* commit and recovery *)

\* Mutant: commit goes straight to the header.
CommitEntryHead == IF lh = << >> THEN "finish" ELSE "head"

\* Where commit() starts.
CommitEntry == IF lh = << >> THEN "finish" ELSE "copy"

CopyToLog(p) ==
    /\ ~panic
    /\ pc[p] = "copy" /\ tail[p] < Len(lh)
    /\ logd' = [logd EXCEPT ![tail[p] + 1] = cache[lh[tail[p] + 1]]]
    /\ tail' = [tail EXCEPT ![p] = @ + 1]
    /\ UNCHANGED <<mem, home, head, pc, file, todo, booting, panic, done>>

CopyDone(p) ==
    /\ ~panic
    /\ pc[p] = "copy" /\ tail[p] >= Len(lh)
    /\ Goto(p, "head")
    /\ UNCHANGED <<mem, disk, file, todo, tail, booting, panic, done>>

\* The point at which the transaction commits.
WriteHead(p) ==
    /\ ~panic
    /\ pc[p] = "head"
    /\ head' = lh
    /\ tail' = [tail EXCEPT ![p] = 0]
    /\ Goto(p, "install")
    /\ UNCHANGED <<mem, home, logd, file, todo, booting, panic, done>>

Install(p) ==
    /\ ~panic
    /\ pc[p] = "install" /\ tail[p] < Len(lh)
    /\ LET b == lh[tail[p] + 1]
           v == logd[tail[p] + 1]
       IN  /\ home' = [home EXCEPT ![b] = v]
           /\ cache' = [cache EXCEPT ![b] = v]
           /\ dirty' = dirty \ {b}
    /\ tail' = [tail EXCEPT ![p] = @ + 1]
    /\ UNCHANGED <<outstanding, committing, lh, logd, head, pc, file, todo,
                   booting, panic, done>>

\* Mutant: install_trans stops one block early.
InstallDoneEarly(p) ==
    /\ ~panic
    /\ pc[p] = "install" /\ tail[p] >= Len(lh) - 1
    /\ lh' = << >>
    /\ tail' = [tail EXCEPT ![p] = 0]
    /\ Goto(p, "erase")
    /\ UNCHANGED <<outstanding, committing, cache, dirty, disk, file, todo,
                   booting, panic, done>>

\* log.lh.n = 0
InstallDone(p) ==
    /\ ~panic
    /\ pc[p] = "install" /\ tail[p] >= Len(lh)
    /\ lh' = << >>
    /\ tail' = [tail EXCEPT ![p] = 0]
    /\ Goto(p, "erase")
    /\ UNCHANGED <<outstanding, committing, cache, dirty, disk, file, todo,
                   booting, panic, done>>

\* The second write_head; after a recovery the system is up.
Erase(p) ==
    /\ ~panic
    /\ pc[p] = "erase"
    /\ head' = lh
    /\ Goto(p, IF booting THEN "idle" ELSE "finish")
    /\ booting' = FALSE
    /\ UNCHANGED <<mem, home, logd, file, todo, tail, panic, done>>

\* Power is lost at any time, recovery included; p is the first process of
\* the next boot and runs initlog, which starts by reading the header.
Crash(p) ==
    /\ outstanding' = 0
    /\ committing' = FALSE
    /\ lh' = head
    /\ cache' = home
    /\ dirty' = {}
    /\ pc' = [q \in Proc |-> IF q = p THEN "install" ELSE "idle"]
    /\ file' = [q \in Proc |-> NoFile]
    /\ todo' = [q \in Proc |-> {}]
    /\ tail' = [q \in Proc |-> 0]
    /\ booting' = TRUE
    /\ panic' = FALSE
    /\ done' = Recovered
    /\ UNCHANGED disk

Disk(p) == CopyToLog(p) \/ CopyDone(p) \/ WriteHead(p) \/ Install(p)
           \/ InstallDone(p) \/ Erase(p)
=============================================================================
