------------------------------ MODULE BufCache -------------------------------
(***************************************************************************)
(* The buffer cache of project3 (bio.c), with the sleep lock of a buffer   *)
(* (sleeplock.c) and the disk driver's queue of requests (ide.c).  A step  *)
(* is what happens under one spin lock: bcache.lock, the lock in a sleep   *)
(* lock, or idelock.  A process holds one buffer at a time.                *)
(***************************************************************************)
EXTENDS Integers, FiniteSets, Sequences, Functions

CONSTANTS
    Proc, Block,
    Value,       \* what a block may contain
    Buf,         \* the buffers
    PINNED,      \* how many of them the log may keep dirty
    None

ASSUME BufCacheConstants ==
    /\ IsFiniteSet(Buf) /\ IsFiniteSet(Proc)
    /\ PINNED \in Nat
    /\ None \notin Proc \cup Buf \cup Block \cup ({"lock", "disk"} \X (Buf \cup {None}))

VARIABLES
    buf,         \* the buffers
    bcache,      \* the list of them, most recently used first
    idequeue,    \* the requests; the first one is at the disk
    disk,        \* the contents of the blocks
    pc,          \* where a process is
    at,          \* the buffer it has asked for, or None
    chan,        \* what it sleeps on, or None
    panic        \* "none", or the message

vars == <<buf, bcache, idequeue, disk, pc, at, chan, panic>>

RNBUF == Cardinality(Buf)
Data == UNION {Value[b] : b \in Block}
Empty == [blockno |-> None, valid |-> FALSE, dirty |-> FALSE, refcnt |-> 0,
          locked |-> None, data |-> None]
Asleep(p) == chan[p] # None
Runs(p) == panic = "none" /\ ~Asleep(p)
Panic(what) == panic' = what /\ UNCHANGED <<buf, bcache, idequeue, disk, pc, at, chan>>

\* binit. The buffers have no other names, so their order is any.
Init ==
    /\ buf = [i \in Buf |-> Empty]
    /\ bcache \in Injection(1..RNBUF, Buf)
    /\ idequeue = <<>>
    /\ disk \in {d \in [Block -> Data] : \A b \in Block : d[b] \in Value[b]}
    /\ pc = [p \in Proc |-> "idle"]
    /\ at = [p \in Proc |-> None]
    /\ chan = [p \in Proc |-> None]
    /\ panic = "none"

Wakeup(c) == chan' = [p \in Proc |-> IF chan[p] = c THEN None ELSE chan[p]]
LockChan(i) == <<"lock", i>>
DiskChan(i) == <<"disk", i>>

Cached(b) == {i \in Buf : buf[i].blockno = b}

\* The buffers that may be recycled, and the one that is: the last of the list.
Unused == {i \in Buf : buf[i].refcnt = 0 /\ ~buf[i].dirty}
LeastRecent(i) ==
    \E k \in 1..RNBUF : /\ i = bcache[k] /\ i \in Unused
                        /\ \A j \in k+1..RNBUF : bcache[j] \notin Unused

\* The list with i moved to its front.
MovedToFront(i) ==
    [k \in 1..RNBUF |->
        IF k = 1 THEN i
        ELSE IF \E j \in 1..k-1 : bcache[j] = i THEN bcache[k] ELSE bcache[k-1]]

\* bget, up to the acquiresleep.
Bget(p) ==
    /\ Runs(p) /\ pc[p] = "idle"
    /\ \E b \in Block :
          IF Cached(b) = {} /\ Unused = {} THEN Panic("bget: no buffers")
          ELSE \E i \in Buf :
                   /\ IF Cached(b) # {}
                      THEN /\ i \in Cached(b)
                           /\ buf' = [buf EXCEPT ![i].refcnt = @ + 1]
                      ELSE /\ LeastRecent(i)
                           /\ buf' = [buf EXCEPT ![i] = [@ EXCEPT !.blockno = b, !.valid = FALSE,
                                                         !.dirty = FALSE, !.refcnt = 1]]
                   /\ at' = [at EXCEPT ![p] = i]
                   /\ pc' = [pc EXCEPT ![p] = "bget"]
                   /\ UNCHANGED <<bcache, idequeue, disk, chan, panic>>

\* Mutant: the lock is taken, whoever has it.
AcquireTaken(p) ==
    /\ Runs(p) /\ pc[p] = "bget"
    /\ LET i == at[p]
       IN  /\ buf' = [buf EXCEPT ![i].locked = p]
           /\ pc' = [pc EXCEPT ![p] = IF buf[i].valid THEN "has" ELSE "iderw"]
    /\ UNCHANGED <<bcache, idequeue, disk, at, chan, panic>>

\* acquiresleep, and what bread does next.
AcquireSleep(p) ==
    /\ Runs(p) /\ pc[p] = "bget"
    /\ LET i == at[p]
       IN  IF buf[i].locked # None
           THEN chan' = [chan EXCEPT ![p] = LockChan(i)] /\ UNCHANGED <<buf, pc>>
           ELSE /\ buf' = [buf EXCEPT ![i].locked = p]
                /\ pc' = [pc EXCEPT ![p] = IF buf[i].valid THEN "has" ELSE "iderw"]
                /\ UNCHANGED chan
    /\ UNCHANGED <<bcache, idequeue, disk, at, panic>>

\* idestart: the data of a write goes to the disk at once.
Started(queue, d) ==
    IF queue = <<>> \/ ~buf[Head(queue)].dirty THEN d
    ELSE [d EXCEPT ![buf[Head(queue)].blockno] = buf[Head(queue)].data]

Ready(i) == buf[i].valid /\ ~buf[i].dirty

\* iderw, up to the sleep: who calls it does not have what it asks for.
IdeRw(p) ==
    /\ Runs(p) /\ pc[p] = "iderw"
    /\ LET i == at[p]
       IN  IF Ready(i) THEN Panic("iderw: nothing to do")
           ELSE /\ idequeue' = Append(idequeue, i)
                /\ disk' = IF idequeue = <<>> THEN Started(idequeue', disk) ELSE disk
                /\ chan' = [chan EXCEPT ![p] = DiskChan(i)]
                /\ pc' = [pc EXCEPT ![p] = "wait"]
                /\ UNCHANGED <<buf, bcache, at, panic>>

\* The loop of iderw, after a wakeup.
IdeWait(p) ==
    /\ Runs(p) /\ pc[p] = "wait"
    /\ IF Ready(at[p])
       THEN pc' = [pc EXCEPT ![p] = "has"] /\ UNCHANGED chan
       ELSE chan' = [chan EXCEPT ![p] = DiskChan(at[p])] /\ UNCHANGED pc
    /\ UNCHANGED <<buf, bcache, idequeue, disk, at, panic>>

\* ideintr: the disk is done with the first request.
IdeIntr ==
    /\ panic = "none" /\ idequeue # <<>>
    /\ LET i == Head(idequeue)
       IN  /\ buf' = [buf EXCEPT ![i].valid = TRUE, ![i].dirty = FALSE,
                        ![i].data = IF buf[i].dirty THEN @ ELSE disk[buf[i].blockno]]
           /\ Wakeup(DiskChan(i))
    /\ idequeue' = Tail(idequeue)
    /\ disk' = Started(Tail(idequeue), disk)
    /\ UNCHANGED <<bcache, pc, at, panic>>

\* log_write of a changed block: it is pinned until the log has installed it.
LogWrite(p) ==
    /\ Runs(p) /\ pc[p] = "has"
    /\ Cardinality({i \in Buf : buf[i].dirty} \ {at[p]}) < PINNED
    /\ \E v \in Value[buf[at[p]].blockno] : buf' = [buf EXCEPT ![at[p]].data = v, ![at[p]].dirty = TRUE]
    /\ UNCHANGED <<bcache, idequeue, disk, pc, at, chan, panic>>

\* bwrite of a changed block, or of one that is pinned.
BWrite(p) ==
    /\ Runs(p) /\ pc[p] = "has"
    /\ \E v \in Value[buf[at[p]].blockno] : buf' = [buf EXCEPT ![at[p]].data = v, ![at[p]].dirty = TRUE]
    /\ pc' = [pc EXCEPT ![p] = "iderw"]
    /\ UNCHANGED <<bcache, idequeue, disk, at, chan, panic>>

\* Mutant: nobody is woken.
ReleaseSilently(p) ==
    /\ Runs(p) /\ pc[p] = "has"
    /\ buf' = [buf EXCEPT ![at[p]].locked = None]
    /\ pc' = [pc EXCEPT ![p] = "brelse"]
    /\ UNCHANGED <<bcache, idequeue, disk, at, chan, panic>>

\* brelse: first the sleep lock.
ReleaseSleep(p) ==
    /\ Runs(p) /\ pc[p] = "has"
    /\ IF buf[at[p]].locked # p THEN Panic("brelse")
       ELSE /\ buf' = [buf EXCEPT ![at[p]].locked = None]
            /\ Wakeup(LockChan(at[p]))
            /\ pc' = [pc EXCEPT ![p] = "brelse"]
            /\ UNCHANGED <<bcache, idequeue, disk, at, panic>>

\* Then, under bcache.lock, the count; a buffer nobody waits for moves to the front.
Brelse(p) ==
    /\ Runs(p) /\ pc[p] = "brelse"
    /\ LET i == at[p]
       IN  /\ buf' = [buf EXCEPT ![i].refcnt = @ - 1]
           /\ bcache' = IF buf[i].refcnt = 1 THEN MovedToFront(i) ELSE bcache
    /\ pc' = [pc EXCEPT ![p] = "idle"]
    /\ at' = [at EXCEPT ![p] = None]
    /\ UNCHANGED <<idequeue, disk, chan, panic>>

Step(p) ==
    \/ Bget(p) \/ AcquireSleep(p) \/ IdeRw(p) \/ IdeWait(p) \/ LogWrite(p)
    \/ BWrite(p) \/ ReleaseSleep(p) \/ Brelse(p)

Next == IdeIntr \/ \E p \in Proc : Step(p)

Spec == Init /\ [][Next]_vars

-----------------------------------------------------------------------------
\* Every variable has its type, and the list has every buffer once.
TypeOK ==
    /\ buf \in [Buf -> [blockno : Block \cup {None}, valid : BOOLEAN, dirty : BOOLEAN,
                        refcnt : 0..Cardinality(Proc), locked : Proc \cup {None},
                        data : Data \cup {None}]]
    /\ bcache \in Injection(1..RNBUF, Buf)
    /\ idequeue \in Seq(Buf)
    /\ disk \in [Block -> Data]
    /\ pc \in [Proc -> {"idle", "bget", "iderw", "wait", "has", "brelse"}]
    /\ at \in [Proc -> Buf \cup {None}]
    /\ chan \in [Proc -> {None} \cup ({"lock", "disk"} \X Buf)]
    /\ \A p \in Proc : Asleep(p) => chan[p] \in {LockChan(at[p]), DiskChan(at[p])}
    /\ panic \in {"none", "bget: no buffers", "iderw: nothing to do", "brelse"}

\* A block has one buffer, whatever the order of lookups, releases and recycling.
OneBuffer == \A b \in Block : Cardinality({i \in Buf : buf[i].blockno = b}) <= 1

\* A buffer counts those who hold it or wait for it, so it is not recycled
\* between bget's release of bcache.lock and its acquiresleep (bio.c:70-73).
CountsExact == \A i \in Buf : buf[i].refcnt = Cardinality({p \in Proc : at[p] = i})

\* A request belongs to the process that holds the buffer and waits for it, and
\* none is queued twice.
QueueSound ==
    /\ IsInjective(idequeue)
    /\ \A i \in Range(idequeue) :
          buf[i].locked # None /\ at[buf[i].locked] = i /\ pc[buf[i].locked] = "wait"

\* Who sleeps has someone to wake it: the holder of the lock, or the disk.
NoLostWakeup ==
    \A p \in Proc :
        /\ chan[p] = LockChan(at[p]) => buf[at[p]].locked # None
        /\ chan[p] = DiskChan(at[p]) => at[p] \in Range(idequeue)

\* A buffer that may be recycled has nothing the disk does not have.
Clean == \A i \in Buf : Ready(i) => buf[i].data = disk[buf[i].blockno]

\* The kernel panics only in bget, and only when every buffer is one that a process
\* has asked for or that the log has pinned: no user is counted twice or forgotten.
OnlyFullPanics ==
    panic # "none" => /\ panic = "bget: no buffers"
                      /\ \A i \in Buf : buf[i].dirty \/ \E p \in Proc : at[p] = i

\* The promise: one holder for a block, and it sees what the last one left.
Has(p) == pc[p] = "has" \/ (pc[p] \in {"iderw", "wait"} /\ buf[at[p]].valid)
Holds(p, b) == Has(p) /\ buf[at[p]].blockno = b
Content ==
    [b \in Block |->
        IF \E i \in Cached(b) : buf[i].valid
        THEN buf[CHOOSE i \in Cached(b) : buf[i].valid].data ELSE disk[b]]
Holder ==
    [b \in Block |->
        IF \E p \in Proc : Holds(p, b) THEN CHOOSE p \in Proc : Holds(p, b) ELSE None]
View == [p \in Proc |-> IF Has(p) THEN buf[at[p]].data ELSE None]
Store == INSTANCE BlockStore WITH content <- Content, holder <- Holder, view <- View
OneCopy == Store!Spec

\* The cache and the disk queue: one buffer for a block, users counted, waiters
\* served, what may be recycled is on the disk, and no panic but for want of buffers.
BuffersSound ==
    /\ TypeOK /\ OneBuffer /\ CountsExact
    /\ QueueSound /\ NoLostWakeup /\ Clean /\ OnlyFullPanics
=============================================================================
