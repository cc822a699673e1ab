------------------------------ MODULE LogFacts -------------------------------
(***************************************************************************)
(* What the proofs about the two logs have in common: the invariant of the *)
(* steps of LogCore, and what begin_op and end_op must be like to keep it, *)
(* whichever log they belong to.                                           *)
(***************************************************************************)
EXTENDS LogClaims, FiniteSetTheorems, TLAPS

-----------------------------------------------------------------------------
(* The invariant *)

\* Those between begin_op and end_op, and those of them whose update of b is
\* in the cache and not yet counted in done.
Ops == {p \in Proc : pc[p] = "op"}
Written(b) == {p \in Ops : b \in file[p] /\ b \notin todo[p]}

\* outstanding counts the operations under way.
Counted == IsFiniteSet(Ops) /\ outstanding = Cardinality(Ops)

\* An operation has a file, all of which is to do until begin_op has returned.
Tasks ==
    \A p \in Proc :
        /\ pc[p] \in {"begin", "asleep", "limit", "enter"} =>
              file[p] \in File /\ todo[p] = file[p]
        /\ pc[p] = "op" => file[p] \in File /\ todo[p] \subseteq file[p]

\* Who is in commit or recovery is alone, and the flags say which it is.
Alone ==
    /\ \A p, q \in Proc : Committing(p) /\ Committing(q) => p = q
    /\ \A p \in Proc : Committing(p) => committing \/ booting
    /\ ~(committing /\ booting)
    /\ committing \/ booting => outstanding = 0
    /\ \A p \in Proc : Committing(p) /\ booting => pc[p] \in {"install", "erase"}
    /\ panic => outstanding > 0

Distinct(s) == \A i, j \in DOMAIN s : s[i] = s[j] => i = j

\* No block is twice in a header.
Headers == Distinct(lh) /\ Distinct(head)

\* Between commits the header on disk is empty.
AtRest == (\A p \in Proc : ~Committing(p)) => head = << >>

\* While the system works the cache has what was done, and what the operations
\* under way have written.
Contents ==
    ~panic =>
        /\ Pinned
        /\ ~booting => \A b \in Block :
                          cache[b] = (done[b] + Cardinality(Written(b))) % VERSIONS

\* What commit and recovery have achieved at each of their places.
Copying(p) ==
    pc[p] = "copy" =>
        /\ head = << >>
        /\ tail[p] <= Len(lh)
        /\ \A i \in 1..tail[p] : logd[i] = done[lh[i]]
Copied(p) ==
    pc[p] = "head" =>
        /\ head = << >>
        /\ \A i \in 1..Len(lh) : logd[i] = done[lh[i]]
Installing(p) ==
    pc[p] = "install" =>
        /\ head = lh
        /\ tail[p] <= Len(lh)
        /\ \A i \in 1..Len(lh) : logd[i] = done[lh[i]]
        /\ \A b \in Block : ~InLh(b) => home[b] = done[b]
        /\ \A i \in 1..tail[p] : home[lh[i]] = done[lh[i]] /\ cache[lh[i]] = done[lh[i]]
Installed(p) ==
    pc[p] = "erase" =>
        /\ lh = << >> /\ home = done /\ cache = done
        /\ \A i \in 1..Len(head) : logd[i] = done[head[i]]
Finished(p) ==
    pc[p] = "finish" => lh = << >> /\ head = << >> /\ home = done

Phases ==
    \A p \in Proc : Copying(p) /\ Copied(p) /\ Installing(p) /\ Installed(p) /\ Finished(p)

Common ==
    /\ TypeOK /\ Counted /\ Tasks /\ Alone
    /\ Headers /\ AtRest /\ Contents /\ Phases

-----------------------------------------------------------------------------
(* The steps of a log *)

\* Those of LogCore.
Core(p) ==
    \/ \E f \in File : Call(p, f)
    \/ BeginSleep(p)
    \/ \E b \in Block : LogWrite(p, b)
    \/ Disk(p) \/ Crash(p)

\* begin_op sees to something before it counts the operation.
Turns(p) ==
    /\ Up /\ pc[p] \in {"begin", "limit"}
    /\ pc' \in [Proc -> Place] /\ pc'[p] \in {"limit", "enter"}
    /\ \A q \in Proc \ {p} : pc'[q] = pc[q]
    /\ UNCHANGED <<mem, disk, file, todo, tail, booting, panic, done>>

\* begin_op counts the operation, while nobody commits.
Enters(p) ==
    /\ Up /\ pc[p] \in {"begin", "enter"} /\ ~committing
    /\ outstanding' = outstanding + 1
    /\ Goto(p, "op")
    /\ UNCHANGED <<committing, lh, cache, dirty, disk, file, todo, tail,
                   booting, panic, done>>

\* A commit starts.
ToCommit(p) ==
    /\ committing' = TRUE
    /\ tail' = [tail EXCEPT ![p] = 0]
    /\ pc'[p] = CommitEntry

\* Others may have been woken.
OthersWoken(p) ==
    /\ pc' \in [Proc -> Place]
    /\ \A q \in Proc \ {p} :
          pc'[q] = pc[q] \/ (pc[q] = "asleep" /\ pc'[q] = "begin")

\* end_op
Leaves(p) ==
    /\ Ending(p) /\ Completed(p) /\ OthersWoken(p)
    /\ pc'[p] = "idle"
    /\ UNCHANGED <<committing, lh, cache, dirty, disk, todo, tail, booting>>

\* The last end_op, if it commits.
LeavesLast(p) ==
    /\ Ending(p) /\ outstanding = 1 /\ Completed(p) /\ OthersWoken(p)
    /\ ToCommit(p)
    /\ UNCHANGED <<lh, cache, dirty, disk, todo, booting>>

\* A commit without an operation that ends.
Starts(p) ==
    /\ Up /\ pc[p] \in {"idle", "limit"}
    /\ outstanding = 0 /\ ~committing
    /\ ToCommit(p) /\ OthersWoken(p)
    /\ UNCHANGED <<outstanding, lh, cache, dirty, disk, file, todo, booting,
                   panic, done>>

\* A commit ends; begin_op goes on, if it was one for begin_op.
Finishes(p) ==
    /\ Up /\ pc[p] = "finish"
    /\ committing' = FALSE
    /\ OthersWoken(p)
    /\ \/ pc'[p] = "idle"
       \/ pc'[p] = "enter" /\ file[p] \in File /\ todo[p] = file[p]
    /\ UNCHANGED <<outstanding, lh, cache, dirty, disk, file, todo, tail,
                   booting, panic, done>>

Moves(p) ==
    \/ Core(p) \/ Turns(p) \/ Enters(p) \/ Leaves(p) \/ LeavesLast(p)
    \/ Starts(p) \/ Finishes(p)

-----------------------------------------------------------------------------
(* Counting modulo the number of versions *)

LEMMA RemainderOf ==
    ASSUME NEW v \in Nat, v > 1, NEW q \in Nat, NEW r \in 0..v - 1
    PROVE  (v * q + r) % v = r
OBVIOUS

LEMMA RemainderType ==
    ASSUME NEW v \in Nat, v > 1, NEW n \in Nat
    PROVE  n % v \in 0..v - 1
OBVIOUS

LEMMA RemainderSmall ==
    ASSUME NEW v \in Nat, v > 1, NEW d \in 0..v - 1
    PROVE  d \in Nat /\ d % v = d /\ (d + 0) % v = d
OBVIOUS

\* A whole turn makes no difference.
LEMMA RemainderTurn ==
    ASSUME NEW v \in Nat, v > 1, NEW n \in Nat
    PROVE  (v + n) % v = n % v
<1> DEFINE q == n \div v
           r == n % v
<1>1. q \in Nat /\ r \in 0..v - 1 /\ n = v * q + r
  OBVIOUS
<1> HIDE DEF q, r
<1>2. v + n = v * (q + 1) + r /\ q + 1 \in Nat
  BY <1>1
<1>3. (v + n) % v = r
  BY <1>1, <1>2, RemainderOf
<1> QED
  BY <1>1, <1>2, <1>3 DEF r

\* One more, counted before or after the remainder is taken.
LEMMA RemainderNext ==
    ASSUME NEW v \in Nat, v > 1, NEW n \in Nat
    PROVE  ((n % v) + 1) % v = (n + 1) % v
<1> DEFINE q == n \div v
           r == n % v
<1>1. q \in Nat /\ r \in 0..v - 1 /\ n = v * q + r
  OBVIOUS
<1> HIDE DEF q, r
<1>2. CASE r + 1 < v
  <2>1. n + 1 = v * q + (r + 1) /\ r + 1 \in 0..v - 1
    BY <1>1, <1>2
  <2>2. (n + 1) % v = r + 1 /\ (r + 1) % v = r + 1
    BY <1>1, <2>1, RemainderOf
  <2> QED
    BY <2>2 DEF r
<1>3. CASE r + 1 = v
  <2>1. n + 1 = v * (q + 1) + 0 /\ q + 1 \in Nat /\ 0 \in 0..v - 1
    BY <1>1, <1>3
  <2>2. v = v * 1 + 0 /\ 1 \in Nat
    OBVIOUS
  <2>3. (n + 1) % v = 0 /\ v % v = 0
    BY <2>1, <2>2, RemainderOf
  <2> QED
    BY <2>3, <1>3 DEF r
<1> QED
  BY <1>1, <1>2, <1>3

LEMMA RemainderMoved ==
    ASSUME NEW v \in Nat, v > 1, NEW d \in 0..v - 1, NEW n \in Nat
    PROVE  (((d + 1) % v) + n) % v = (d + 1 + n) % v
<1>1. CASE d + 1 < v
  BY <1>1
<1>2. CASE d + 1 = v
  <2>1. v = v * 1 + 0 /\ 1 \in Nat /\ 0 \in 0..v - 1
    OBVIOUS
  <2>2. v % v = 0 /\ (v + n) % v = n % v
    BY <2>1, RemainderOf, RemainderTurn
  <2> QED
    BY <1>2, <2>2
<1> QED
  BY <1>1, <1>2

-----------------------------------------------------------------------------
(* Types *)

\* One version later is a version.
LEMMA VersionNext ==
    /\ 0 \in Version
    /\ \A x \in Version : (x + 1) % VERSIONS \in Version
BY LogConstants, RemainderType DEF Version

\* The contents after a recovery.
LEMMA RecoveredType ==
    ASSUME TypeOK, Distinct(head)
    PROVE  /\ Recovered \in [Block -> Version]
           /\ \A i \in 1..Len(head) : Recovered[head[i]] = logd[i]
           /\ \A b \in Block : (\A i \in 1..Len(head) : head[i] # b) => Recovered[b] = home[b]
<1>1. /\ head \in Seq(Block) /\ DOMAIN head = 1..Len(head) /\ Len(head) \in Nat
      /\ \A i \in 1..Len(head) : head[i] \in Block /\ logd[i] \in Version
  BY LogConstants DEF TypeOK, Slot
<1> DEFINE last(b) == CHOOSE i \in DOMAIN head :
                         /\ head[i] = b
                         /\ \A j \in DOMAIN head : head[j] = b => j <= i
<1>2. ASSUME NEW i \in 1..Len(head)
      PROVE  last(head[i]) = i
  <2>1. \A j \in DOMAIN head : head[j] = head[i] => j = i
    BY <1>1 DEF Distinct
  <2> QED
    BY <1>1, <2>1
<1>3. ASSUME NEW i \in 1..Len(head)
      PROVE  Recovered[head[i]] = logd[i]
  BY <1>1, <1>2 DEF Recovered
<1>4. ASSUME NEW b \in Block, \A i \in 1..Len(head) : head[i] # b
      PROVE  Recovered[b] = home[b]
  BY <1>1, <1>4 DEF Recovered
<1>5. ASSUME NEW b \in Block
      PROVE  Recovered[b] \in Version
  <2>1. CASE \E i \in 1..Len(head) : head[i] = b
    BY <1>1, <1>3, <2>1
  <2>2. CASE \A i \in 1..Len(head) : head[i] # b
    BY <1>4, <2>2 DEF TypeOK
  <2> QED
    BY <2>1, <2>2
<1>6. Recovered = [b \in Block |-> Recovered[b]]
  BY DEF Recovered
<1> QED
  BY <1>3, <1>4, <1>5, <1>6

LEMMA Sizes == VERSIONS \in Nat /\ VERSIONS > 1 /\ LOGSIZE \in Nat /\ LOGSIZE > 1
BY LogConstants

LEMMA TypeInit == ASSUME Init PROVE TypeOK
<1>1. /\ lh \in Seq(Block) /\ Len(lh) < LOGSIZE
      /\ head \in Seq(Block) /\ Len(head) < LOGSIZE
  BY Sizes DEF Init
<1>2. 0 \in Version /\ 0 \in 0..LOGSIZE
  BY Sizes, VersionNext
<1>3. /\ cache \in [Block -> Version] /\ home \in [Block -> Version]
      /\ logd \in [Slot -> Version] /\ done \in [Block -> Version]
      /\ tail \in [Proc -> 0..LOGSIZE] /\ todo \in [Proc -> SUBSET Block]
      /\ file \in [Proc -> File \cup {NoFile}]
  BY <1>2 DEF Init
<1>4. pc \in [Proc -> Place]
  BY DEF Init, Place
<1> QED
  BY <1>1, <1>2, <1>3, <1>4 DEF Init, TypeOK

LEMMA TypeCore ==
    ASSUME TypeOK, Headers, NEW p \in Proc, Core(p)
    PROVE  TypeOK'
<1> USE Sizes
<1>1. \/ \E f \in File : Call(p, f)
      \/ BeginSleep(p)
      \/ \E b \in Block : LogWrite(p, b)
      \/ CopyToLog(p) \/ CopyDone(p) \/ WriteHead(p) \/ Install(p)
      \/ InstallDone(p) \/ Erase(p) \/ Crash(p)
  BY DEF Core, Disk
<1>2. ASSUME NEW f \in File, Call(p, f) PROVE TypeOK'
  <2>1. f \in SUBSET Block
    BY LogConstants
  <2> QED
    BY <1>2, <2>1 DEF TypeOK, Call, Goto, mem, disk, Place
<1>3. CASE BeginSleep(p)
  BY <1>3 DEF TypeOK, BeginSleep, Goto, mem, disk, Place
<1>4. ASSUME NEW b \in Block, LogWrite(p, b) PROVE TypeOK'
  <2>1. cache' \in [Block -> Version]
    BY <1>4, VersionNext DEF TypeOK, LogWrite
  <2>2. panic' \in BOOLEAN
    BY <1>4 DEF LogWrite
  <2>3. lh' \in Seq(Block) /\ Len(lh') < LOGSIZE
    <3>1. CASE lh' = lh
      BY <3>1 DEF TypeOK
    <3>2. CASE lh' = Append(lh, b) /\ ~TooBig
      BY <3>2 DEF TypeOK, TooBig
    <3> QED
      BY <1>4, <3>1, <3>2 DEF LogWrite
  <2> QED
    BY <1>4, <2>1, <2>2, <2>3 DEF TypeOK, LogWrite, disk
<1>5. CASE CopyToLog(p)
  BY <1>5 DEF TypeOK, CopyToLog, mem, Slot
<1>6. CASE CopyDone(p)
  BY <1>6 DEF TypeOK, CopyDone, Goto, mem, disk, Place
<1>7. CASE WriteHead(p)
  BY <1>7 DEF TypeOK, WriteHead, Goto, mem, Place
<1>8. CASE Install(p)
  <2>1. lh[tail[p] + 1] \in Block /\ logd[tail[p] + 1] \in Version
    BY <1>8 DEF TypeOK, Install, Slot
  <2> QED
    BY <1>8, <2>1 DEF TypeOK, Install
<1>9. CASE InstallDone(p)
  <2>1. lh' \in Seq(Block) /\ Len(lh') < LOGSIZE
    BY <1>9 DEF InstallDone
  <2> QED
    BY <1>9, <2>1 DEF TypeOK, InstallDone, Goto, disk, Place
<1>10. CASE Erase(p)
  BY <1>10 DEF TypeOK, Erase, Goto, mem, Place
<1>11. CASE Crash(p)
  <2>1. Recovered \in [Block -> Version]
    BY RecoveredType DEF Headers
  <2>2. /\ pc' \in [Proc -> Place] /\ file' \in [Proc -> File \cup {NoFile}]
        /\ todo' \in [Proc -> SUBSET Block] /\ tail' \in [Proc -> 0..LOGSIZE]
    BY <1>11 DEF Crash, Place
  <2>3. <<home, logd, head>>' = <<home, logd, head>>
    BY <1>11 DEF Crash, disk
  <2> QED
    BY <1>11, <2>1, <2>2, <2>3 DEF TypeOK, Crash
<1> QED
  BY <1>1, <1>2, <1>3, <1>4, <1>5, <1>6, <1>7, <1>8, <1>9, <1>10, <1>11

\* Nobody in an operation is nobody counted, and the other way round.
LEMMA CountedFacts ==
    ASSUME TypeOK, Counted
    PROVE  /\ outstanding = 0 <=> Ops = {}
           /\ \A p \in Ops : outstanding > 0 /\ (outstanding = 1 => Ops = {p})
<1>1. IsFiniteSet(Ops) /\ outstanding = Cardinality(Ops) /\ outstanding \in Nat
  BY DEF Counted, TypeOK
<1>2. outstanding = 0 <=> Ops = {}
  BY <1>1, FS_EmptySet
<1>3. ASSUME NEW p \in Ops, outstanding = 1 PROVE Ops = {p}
  <2>1. \E x : Ops = {x}
    BY <1>1, <1>3, FS_Singleton
  <2> QED
    BY <2>1
<1> QED
  BY <1>1, <1>2, <1>3

\* An operation that ends is one later version of its blocks.
LEMMA CompletedType ==
    ASSUME TypeOK, NEW p \in Proc, outstanding > 0, Completed(p)
    PROVE  /\ outstanding' \in Nat /\ panic' \in BOOLEAN
           /\ file' \in [Proc -> File \cup {NoFile}]
           /\ done' \in [Block -> Version]
<1>1. done' = [b \in Block |-> IF b \in file[p] THEN (done[b] + 1) % VERSIONS ELSE done[b]]
  BY DEF Completed
<1>2. \A b \in Block : done[b] \in Version
  BY DEF TypeOK
<1>3. done' \in [Block -> Version]
  BY <1>1, <1>2, VersionNext
<1>4. /\ outstanding' = outstanding - 1 /\ outstanding \in Nat
      /\ panic' = committing /\ committing \in BOOLEAN
  BY DEF Completed, TypeOK
<1>5. file' \in [Proc -> File \cup {NoFile}]
  BY DEF Completed, TypeOK
<1> QED
  BY <1>3, <1>4, <1>5

LEMMA TypeStep ==
    ASSUME TypeOK, Counted, Headers, NEW p \in Proc, Moves(p)
    PROVE  TypeOK'
<1>1. CASE Core(p)
  BY <1>1, TypeCore
<1>2. CASE Turns(p)
  BY <1>2 DEF TypeOK, Turns, mem, disk
<1>3. CASE Enters(p)
  BY <1>3 DEF TypeOK, Enters, Goto, disk, Place
<1>4. 0 \in 0..LOGSIZE
  BY Sizes
<1>5. CASE Leaves(p) \/ LeavesLast(p)
  <2>1. p \in Ops
    BY <1>5 DEF Leaves, LeavesLast, Ending, Ops
  <2>2. outstanding > 0 /\ Completed(p)
    BY <1>5, <2>1, CountedFacts DEF Leaves, LeavesLast
  <2>3. /\ outstanding' \in Nat /\ panic' \in BOOLEAN
        /\ file' \in [Proc -> File \cup {NoFile}] /\ done' \in [Block -> Version]
    BY <2>2, CompletedType
  <2>4. /\ pc' \in [Proc -> Place]
        /\ <<lh, cache, dirty, home, logd, head, todo, booting>>'
             = <<lh, cache, dirty, home, logd, head, todo, booting>>
    BY <1>5 DEF Leaves, LeavesLast, OthersWoken, disk
  <2>5. committing' \in BOOLEAN /\ tail' \in [Proc -> 0..LOGSIZE]
    <3>1. tail \in [Proc -> 0..LOGSIZE] /\ committing \in BOOLEAN
      BY DEF TypeOK
    <3> QED
      BY <1>4, <1>5, <3>1 DEF Leaves, LeavesLast, ToCommit
  <2> QED
    BY <2>3, <2>4, <2>5 DEF TypeOK
<1>6. CASE Starts(p)
  BY <1>4, <1>6 DEF TypeOK, Starts, ToCommit, OthersWoken, disk
<1>7. CASE Finishes(p)
  BY <1>7 DEF TypeOK, Finishes, OthersWoken, disk
<1> QED
  BY <1>1, <1>2, <1>3, <1>5, <1>6, <1>7 DEF Moves

-----------------------------------------------------------------------------
(* Who is where *)

\* Who is woken was asleep.
LEMMA OthersStay ==
    ASSUME NEW p \in Proc, OthersWoken(p), NEW q \in Proc \ {p}
    PROVE  /\ Committing(q)' = Committing(q)
           /\ pc'[q] = "op" <=> pc[q] = "op"
           /\ pc[q] # "asleep" => pc'[q] = pc[q]
BY DEF OthersWoken, Committing

\* How an action moves the processes between the operations.
LEMMA OpsMoves ==
    ASSUME TypeOK, NEW p \in Proc
    PROVE  /\ \A f \in File : Call(p, f) => Ops' = Ops
           /\ Enters(p) => p \notin Ops /\ Ops' = Ops \cup {p}
           /\ Leaves(p) \/ LeavesLast(p) => p \in Ops /\ Ops' = Ops \ {p}
           /\ BeginSleep(p) \/ Turns(p) \/ Disk(p) \/ Starts(p) \/ Finishes(p) => Ops' = Ops
           /\ \A b \in Block : LogWrite(p, b) => p \in Ops /\ Ops' = Ops
           /\ Crash(p) => Ops' = {}
<1>1. pc \in [Proc -> Place]
  BY DEF TypeOK
<1>2. ASSUME NEW f \in File, Call(p, f) PROVE Ops' = Ops
  BY <1>1, <1>2 DEF Ops, Call, Goto
<1>3. ASSUME Enters(p) PROVE p \notin Ops /\ Ops' = Ops \cup {p}
  BY <1>1, <1>3 DEF Ops, Enters, Goto
<1>4. ASSUME Leaves(p) PROVE p \in Ops /\ Ops' = Ops \ {p}
  BY <1>4, OthersStay DEF Ops, Leaves, Ending
<1>5. ASSUME LeavesLast(p) PROVE p \in Ops /\ Ops' = Ops \ {p}
  BY <1>5, OthersStay DEF Ops, LeavesLast, Ending, ToCommit, CommitEntry
<1>6. ASSUME BeginSleep(p) \/ Turns(p) PROVE Ops' = Ops
  BY <1>1, <1>6 DEF Ops, BeginSleep, Turns, Goto
<1>7. ASSUME Disk(p) PROVE Ops' = Ops
  <2>1. CASE CopyToLog(p) \/ Install(p)
    BY <2>1 DEF Ops, CopyToLog, Install
  <2>2. CASE CopyDone(p) \/ WriteHead(p) \/ InstallDone(p)
    BY <1>1, <2>2 DEF Ops, CopyDone, WriteHead, InstallDone, Goto
  <2>3. CASE Erase(p)
    BY <1>1, <2>3 DEF Ops, Erase, Goto
  <2> QED
    BY <1>7, <2>1, <2>2, <2>3 DEF Disk
<1>8. ASSUME Starts(p) \/ Finishes(p) PROVE Ops' = Ops
  BY <1>8, OthersStay DEF Ops, Starts, Finishes, ToCommit, CommitEntry
<1>9. ASSUME NEW b \in Block, LogWrite(p, b) PROVE p \in Ops /\ Ops' = Ops
  BY <1>9 DEF Ops, LogWrite
<1>10. ASSUME Crash(p) PROVE Ops' = {}
  BY <1>10 DEF Ops, Crash
<1> QED
  BY <1>2, <1>3, <1>4, <1>5, <1>6, <1>7, <1>8, <1>9, <1>10

\* Every action does the one thing to the count that it does to the processes.
LEMMA CountedStep ==
    ASSUME TypeOK, Counted, NEW p \in Proc, Moves(p)
    PROVE  Counted'
<1>1. \/ \E f \in File : Call(p, f)
      \/ BeginSleep(p) \/ Turns(p) \/ Enters(p)
      \/ \E b \in Block : LogWrite(p, b)
      \/ Leaves(p) \/ LeavesLast(p) \/ Starts(p)
      \/ Disk(p) \/ Finishes(p) \/ Crash(p)
  BY DEF Moves, Core
<1>2. IsFiniteSet(Ops) /\ outstanding = Cardinality(Ops) /\ outstanding \in Nat
  BY DEF Counted, TypeOK
<1>3. CASE Ops' = Ops /\ outstanding' = outstanding
  BY <1>2, <1>3 DEF Counted
<1>4. CASE Enters(p)
  <2>1. p \notin Ops /\ Ops' = Ops \cup {p} /\ outstanding' = outstanding + 1
    BY <1>4, OpsMoves DEF Enters
  <2> QED
    BY <1>2, <2>1, FS_AddElement DEF Counted
<1>5. CASE Leaves(p) \/ LeavesLast(p)
  <2>1. p \in Ops /\ Ops' = Ops \ {p} /\ outstanding' = outstanding - 1
    BY <1>5, OpsMoves DEF Leaves, LeavesLast, Completed
  <2> QED
    BY <1>2, <2>1, FS_RemoveElement DEF Counted
<1>6. CASE Crash(p)
  <2>1. Ops' = {} /\ outstanding' = 0
    BY <1>6, OpsMoves DEF Crash
  <2> QED
    BY <2>1, FS_EmptySet DEF Counted
<1>7. ASSUME NEW f \in File, Call(p, f) PROVE Counted'
  BY <1>3, <1>7, OpsMoves DEF Call, mem
<1>8. ASSUME NEW b \in Block, LogWrite(p, b) PROVE Counted'
  BY <1>3, <1>8, OpsMoves DEF LogWrite
<1>9. CASE BeginSleep(p) \/ Turns(p) \/ Starts(p) \/ Finishes(p)
  BY <1>3, <1>9, OpsMoves DEF BeginSleep, Turns, Starts, Finishes, mem
<1>10. CASE Disk(p)
  <2>1. outstanding' = outstanding
    BY <1>10 DEF Disk, CopyToLog, CopyDone, WriteHead, Install, InstallDone, Erase, mem
  <2> QED
    BY <1>3, <1>10, <2>1, OpsMoves
<1> QED
  BY <1>1, <1>4, <1>5, <1>6, <1>7, <1>8, <1>9, <1>10

LEMMA TasksStep ==
    ASSUME TypeOK, Tasks, NEW p \in Proc, Moves(p)
    PROVE  Tasks'
<1>1. \/ \E f \in File : Call(p, f)
      \/ BeginSleep(p) \/ Turns(p) \/ Enters(p)
      \/ \E b \in Block : LogWrite(p, b)
      \/ Leaves(p) \/ LeavesLast(p) \/ Starts(p)
      \/ CopyToLog(p) \/ CopyDone(p) \/ WriteHead(p) \/ Install(p)
      \/ InstallDone(p) \/ Erase(p) \/ Finishes(p) \/ Crash(p)
  BY DEF Moves, Core, Disk
<1>2. /\ pc \in [Proc -> Place] /\ file \in [Proc -> File \cup {NoFile}]
      /\ todo \in [Proc -> SUBSET Block]
  BY DEF TypeOK
<1>3. ASSUME NEW f \in File, Call(p, f) PROVE Tasks'
  BY <1>2, <1>3 DEF Tasks, Call, Goto
<1>4. CASE BeginSleep(p)
  BY <1>2, <1>4 DEF Tasks, BeginSleep, Goto
<1>5. CASE Enters(p)
  BY <1>2, <1>5 DEF Tasks, Enters, Goto
<1>6. ASSUME NEW b \in Block, LogWrite(p, b) PROVE Tasks'
  BY <1>2, <1>6 DEF Tasks, LogWrite
<1>7. ASSUME pc'[p] \notin {"begin", "asleep", "limit", "enter", "op"}, OthersWoken(p),
             todo' = todo, \A q \in Proc \ {p} : file'[q] = file[q]
      PROVE  Tasks'
  BY <1>7 DEF Tasks, OthersWoken
<1>8. CASE Leaves(p) \/ LeavesLast(p) \/ Starts(p)
  BY <1>2, <1>7, <1>8 DEF Leaves, LeavesLast, Starts, Completed, ToCommit, CommitEntry
<1>9. CASE CopyToLog(p) \/ Install(p)
  BY <1>9 DEF Tasks, CopyToLog, Install
<1>10. CASE CopyDone(p) \/ WriteHead(p) \/ InstallDone(p)
  BY <1>2, <1>10 DEF Tasks, CopyDone, WriteHead, InstallDone, Goto
<1>11. CASE Erase(p)
  BY <1>2, <1>11 DEF Tasks, Erase, Goto
<1>12. CASE Finishes(p)
  BY <1>12 DEF Tasks, Finishes, OthersWoken
<1>13. CASE Crash(p)
  BY <1>13 DEF Tasks, Crash
<1>14. CASE Turns(p)
  BY <1>14 DEF Tasks, Turns
<1> QED
  BY <1>1, <1>3, <1>4, <1>5, <1>6, <1>8, <1>9, <1>10, <1>11, <1>12, <1>13, <1>14

\* How an action moves the processes between the places of commit.
LEMMA CommitMoves ==
    ASSUME TypeOK, NEW p \in Proc
    PROVE  /\ \A f \in File : Call(p, f) => \A q \in Proc : Committing(q)' = Committing(q)
           /\ \A b \in Block : LogWrite(p, b) => \A q \in Proc : Committing(q)' = Committing(q)
           /\ BeginSleep(p) \/ Turns(p) \/ Enters(p) \/ Leaves(p) =>
                \A q \in Proc : Committing(q)' = Committing(q)
           /\ LeavesLast(p) \/ Starts(p) => \A q \in Proc : Committing(q)' = (q = p \/ Committing(q))
           /\ CopyToLog(p) \/ CopyDone(p) \/ WriteHead(p) \/ Install(p) \/ InstallDone(p) =>
                Committing(p) /\ \A q \in Proc : Committing(q)' = Committing(q)
           /\ Erase(p) => /\ Committing(p)
                          /\ \A q \in Proc : Committing(q)' =
                                IF booting THEN q # p /\ Committing(q) ELSE Committing(q)
           /\ Finishes(p) => /\ Committing(p)
                           /\ \A q \in Proc : Committing(q)' = (q # p /\ Committing(q))
           /\ Crash(p) => \A q \in Proc : Committing(q)' = (q = p)
<1>1. pc \in [Proc -> Place]
  BY DEF TypeOK
<1>2. ASSUME NEW f \in File, Call(p, f), NEW q \in Proc
      PROVE  Committing(q)' = Committing(q)
  BY <1>1, <1>2 DEF Committing, Call, Goto
<1>3. ASSUME NEW b \in Block, LogWrite(p, b), NEW q \in Proc
      PROVE  Committing(q)' = Committing(q)
  BY <1>3 DEF Committing, LogWrite
<1>4. ASSUME BeginSleep(p) \/ Turns(p) \/ Enters(p), NEW q \in Proc
      PROVE  Committing(q)' = Committing(q)
  BY <1>1, <1>4 DEF Committing, BeginSleep, Turns, Enters, Goto
<1>5. ASSUME Leaves(p), NEW q \in Proc
      PROVE  Committing(q)' = Committing(q)
  <2>1. ~Committing(p) /\ ~Committing(p)' /\ OthersWoken(p)
    BY <1>5 DEF Committing, Leaves, Ending
  <2>2. CASE q = p
    BY <2>1, <2>2 DEF Committing
  <2>3. CASE q \in Proc \ {p}
    BY <2>1, <2>3, OthersStay DEF Committing
  <2> QED
    BY <2>2, <2>3
<1>6. ASSUME LeavesLast(p) \/ Starts(p), NEW q \in Proc
      PROVE  Committing(q)' = (q = p \/ Committing(q))
  <2>1. Committing(p)' /\ OthersWoken(p)
    BY <1>6 DEF Committing, LeavesLast, Starts, ToCommit, CommitEntry
  <2>2. CASE q = p
    BY <2>1, <2>2 DEF Committing
  <2>3. CASE q \in Proc \ {p}
    BY <2>1, <2>3, OthersStay DEF Committing
  <2> QED
    BY <2>2, <2>3
<1>7. ASSUME CopyToLog(p) \/ Install(p)
      PROVE  Committing(p) /\ \A q \in Proc : Committing(q)' = Committing(q)
  BY <1>7 DEF Committing, CopyToLog, Install
<1>8. ASSUME CopyDone(p) \/ WriteHead(p) \/ InstallDone(p)
      PROVE  Committing(p) /\ \A q \in Proc : Committing(q)' = Committing(q)
  BY <1>1, <1>8 DEF Committing, CopyDone, WriteHead, InstallDone, Goto
<1>9. ASSUME Erase(p)
      PROVE  /\ Committing(p)
             /\ \A q \in Proc : Committing(q)' =
                   IF booting THEN q # p /\ Committing(q) ELSE Committing(q)
  BY <1>1, <1>9 DEF Committing, Erase, Goto
<1>10. ASSUME Finishes(p)
       PROVE  /\ Committing(p)
              /\ \A q \in Proc : Committing(q)' = (q # p /\ Committing(q))
  <2>1. Committing(p) /\ ~Committing(p)' /\ OthersWoken(p)
    BY <1>10 DEF Committing, Finishes
  <2>2. \A q \in Proc \ {p} : Committing(q)' = Committing(q)
    BY <2>1, OthersStay
  <2> QED
    BY <2>1, <2>2 DEF Committing
<1>11. ASSUME Crash(p), NEW q \in Proc
       PROVE  Committing(q)' = (q = p)
  BY <1>11 DEF Committing, Crash
<1> QED
  BY <1>2, <1>3, <1>4, <1>5, <1>6, <1>7, <1>8, <1>9, <1>10, <1>11

\* While an operation is under way nobody is in commit or recovery.
LEMMA OpsExclude ==
    ASSUME TypeOK, Counted, Alone, NEW p \in Ops
    PROVE  /\ ~committing /\ ~booting
           /\ \A q \in Proc : ~Committing(q)
<1>1. outstanding > 0 /\ outstanding \in Nat
  BY CountedFacts DEF TypeOK
<1>2. ~committing /\ ~booting
  BY <1>1 DEF Alone
<1> QED
  BY <1>2 DEF Alone

LEMMA AloneStep ==
    ASSUME TypeOK, Counted, Alone, NEW p \in Proc, Moves(p)
    PROVE  Alone'
<1>1. \/ \E f \in File : Call(p, f)
      \/ BeginSleep(p) \/ Turns(p) \/ Enters(p)
      \/ \E b \in Block : LogWrite(p, b)
      \/ Leaves(p) \/ LeavesLast(p) \/ Starts(p)
      \/ CopyToLog(p) \/ CopyDone(p) \/ WriteHead(p) \/ Install(p)
      \/ InstallDone(p) \/ Erase(p) \/ Finishes(p) \/ Crash(p)
  BY DEF Moves, Core, Disk
<1>2. /\ pc \in [Proc -> Place] /\ outstanding \in Nat
      /\ committing \in BOOLEAN /\ booting \in BOOLEAN /\ panic \in BOOLEAN
  BY DEF TypeOK
<1>3. ASSUME \A q \in Proc : Committing(q)' = Committing(q),
             <<outstanding, committing, booting, panic>>'
               = <<outstanding, committing, booting, panic>>,
             \A q \in Proc : Committing(q) => pc'[q] = pc[q] \/ pc'[q] \in {"install", "erase"} \/ ~booting
      PROVE  Alone'
  BY <1>2, <1>3 DEF Alone
<1>4. ASSUME NEW f \in File, Call(p, f) PROVE Alone'
  <2>1. \A q \in Proc : Committing(q)' = Committing(q)
    BY <1>4, CommitMoves
  <2> QED
    BY <1>3, <1>4, <2>1 DEF Call, mem, Up
<1>5. CASE BeginSleep(p) \/ Turns(p)
  <2>1. \A q \in Proc : Committing(q)' = Committing(q)
    BY <1>5, CommitMoves
  <2> QED
    BY <1>3, <1>5, <2>1 DEF BeginSleep, Turns, mem, Up
<1>6. CASE Enters(p)
  <2>1. \A q \in Proc : Committing(q)' = Committing(q)
    BY <1>6, CommitMoves
  <2>2. /\ ~committing /\ ~booting /\ ~panic /\ outstanding' = outstanding + 1
        /\ <<committing, booting, panic>>' = <<committing, booting, panic>>
    BY <1>6 DEF Enters, Up
  <2> QED
    BY <1>2, <2>1, <2>2 DEF Alone
<1>7. ASSUME NEW b \in Block, LogWrite(p, b) PROVE Alone'
  <2>1. p \in Ops /\ \A q \in Proc : Committing(q)' = Committing(q)
    BY <1>7, CommitMoves, OpsMoves
  <2>2. outstanding > 0 /\ ~committing /\ ~booting /\ \A q \in Proc : ~Committing(q)
    BY <2>1, OpsExclude, CountedFacts
  <2>3. <<outstanding, committing, booting>>' = <<outstanding, committing, booting>>
    BY <1>7 DEF LogWrite
  <2> QED
    BY <1>2, <2>1, <2>2, <2>3 DEF Alone
<1>8. CASE Leaves(p)
  <2>1. p \in Ops /\ \A q \in Proc : Committing(q)' = Committing(q)
    BY <1>8, CommitMoves, OpsMoves
  <2>2. ~committing /\ ~booting /\ \A q \in Proc : ~Committing(q)
    BY <2>1, OpsExclude
  <2>3. /\ panic' = committing /\ committing' = committing /\ booting' = booting
    BY <1>8 DEF Leaves, Completed
  <2> QED
    BY <1>2, <2>1, <2>2, <2>3 DEF Alone
<1>9. CASE LeavesLast(p)
  <2>1. p \in Ops /\ \A q \in Proc : Committing(q)' = (q = p \/ Committing(q))
    BY <1>9, CommitMoves, OpsMoves
  <2>2. ~committing /\ ~booting /\ \A q \in Proc : ~Committing(q)
    BY <2>1, OpsExclude
  <2>3. /\ outstanding = 1 /\ outstanding' = outstanding - 1 /\ panic' = committing
        /\ committing' = TRUE /\ booting' = booting
    BY <1>9 DEF LeavesLast, Completed, ToCommit
  <2> QED
    BY <1>2, <2>1, <2>2, <2>3 DEF Alone
<1>10. CASE CopyToLog(p) \/ Install(p)
  <2>1. \A q \in Proc : Committing(q)' = Committing(q)
    BY <1>10, CommitMoves
  <2>2. /\ <<outstanding, committing, booting, panic>>'
              = <<outstanding, committing, booting, panic>>
        /\ pc' = pc
    BY <1>10 DEF CopyToLog, Install, mem
  <2> QED
    BY <1>3, <2>1, <2>2
<1>11. CASE CopyDone(p) \/ WriteHead(p) \/ InstallDone(p)
  <2>1. Committing(p) /\ \A q \in Proc : Committing(q)' = Committing(q)
    BY <1>11, CommitMoves
  <2>2. <<outstanding, committing, booting, panic>>'
           = <<outstanding, committing, booting, panic>>
    BY <1>11 DEF CopyDone, WriteHead, InstallDone, mem
  <2>3. /\ \A q \in Proc \ {p} : pc'[q] = pc[q]
        /\ pc'[p] \in {"install", "erase"} \/ pc[p] = "copy"
    BY <1>2, <1>11 DEF CopyDone, WriteHead, InstallDone, Goto
  <2>4. pc[p] = "copy" => ~booting
    BY <2>1 DEF Alone
  <2> QED
    BY <1>3, <2>1, <2>2, <2>3, <2>4
<1>12. CASE Erase(p)
  <2>1. /\ Committing(p)
        /\ \A q \in Proc : Committing(q)' = IF booting THEN q # p /\ Committing(q)
                                                       ELSE Committing(q)
    BY <1>12, CommitMoves
  <2>2. /\ <<outstanding, committing, panic>>' = <<outstanding, committing, panic>>
        /\ booting' = FALSE
    BY <1>12 DEF Erase, mem
  <2>3. CASE booting
    BY <1>2, <2>1, <2>2, <2>3 DEF Alone
  <2>4. CASE ~booting
    BY <1>2, <2>1, <2>2, <2>4 DEF Alone
  <2> QED
    BY <2>3, <2>4
<1>13. CASE Finishes(p)
  <2>1. /\ Committing(p)
        /\ \A q \in Proc : Committing(q)' = (q # p /\ Committing(q))
    BY <1>13, CommitMoves
  <2>2. /\ <<outstanding, booting, panic>>' = <<outstanding, booting, panic>>
        /\ committing' = FALSE /\ ~booting
    BY <1>13 DEF Finishes, Up
  <2> QED
    BY <1>2, <2>1, <2>2 DEF Alone
<1>14. CASE Crash(p)
  <2>1. \A q \in Proc : Committing(q)' = (q = p)
    BY <1>14, CommitMoves
  <2>2. /\ outstanding' = 0 /\ committing' = FALSE /\ booting' = TRUE /\ panic' = FALSE
        /\ pc'[p] = "install"
    BY <1>14 DEF Crash
  <2> QED
    BY <2>1, <2>2 DEF Alone
<1>15. CASE Starts(p)
  <2>1. \A q \in Proc : Committing(q)' = (q = p \/ Committing(q))
    BY <1>15, CommitMoves
  <2>2. ~committing /\ ~booting /\ \A q \in Proc : ~Committing(q)
    BY <1>15 DEF Starts, Up, Alone
  <2>3. /\ outstanding' = 0 /\ ~panic' /\ committing' = TRUE /\ booting' = booting
    BY <1>15 DEF Starts, ToCommit, Up
  <2> QED
    BY <1>2, <2>1, <2>2, <2>3 DEF Alone
<1> QED
  BY <1>1, <1>4, <1>5, <1>6, <1>7, <1>8, <1>9, <1>10, <1>11, <1>12, <1>13, <1>14, <1>15

LEMMA HeadersStep ==
    ASSUME TypeOK, Headers, NEW p \in Proc, Moves(p)
    PROVE  Headers'
<1>1. \/ \E f \in File : Call(p, f)
      \/ BeginSleep(p) \/ Turns(p) \/ Enters(p)
      \/ \E b \in Block : LogWrite(p, b)
      \/ Leaves(p) \/ LeavesLast(p) \/ Starts(p)
      \/ CopyToLog(p) \/ CopyDone(p) \/ WriteHead(p) \/ Install(p)
      \/ InstallDone(p) \/ Erase(p) \/ Finishes(p) \/ Crash(p)
  BY DEF Moves, Core, Disk
<1>2. lh \in Seq(Block) /\ head \in Seq(Block)
  BY DEF TypeOK
<1>3. CASE lh' \in {lh, head, << >>} /\ head' \in {lh, head}
  BY <1>3 DEF Headers, Distinct
<1>4. ASSUME NEW b \in Block, LogWrite(p, b) PROVE Headers'
  <2>1. head' = head
    BY <1>4 DEF LogWrite, disk
  <2>2. CASE lh' = lh
    BY <1>3, <2>1, <2>2
  <2>3. CASE lh' = Append(lh, b) /\ ~InLh(b)
    <3>1. \A i \in 1..Len(lh) : lh[i] # b
      BY <1>2, <2>3 DEF InLh
    <3>2. Distinct(lh')
      BY <1>2, <2>3, <3>1 DEF Headers, Distinct
    <3> QED
      BY <2>1, <3>2 DEF Headers, Distinct
  <2> QED
    BY <1>4, <2>2, <2>3 DEF LogWrite
<1>5. ASSUME NEW f \in File, Call(p, f) PROVE Headers'
  BY <1>3, <1>5 DEF Call, mem, disk
<1>6. CASE \/ BeginSleep(p) \/ Turns(p) \/ Enters(p) \/ Leaves(p) \/ LeavesLast(p)
           \/ Starts(p) \/ Finishes(p)
  BY <1>3, <1>6 DEF BeginSleep, Turns, Enters, Leaves, LeavesLast, Starts, Finishes, mem, disk
<1>7. CASE CopyToLog(p) \/ CopyDone(p) \/ WriteHead(p) \/ Install(p) \/ InstallDone(p) \/ Erase(p)
  BY <1>3, <1>7 DEF CopyToLog, CopyDone, WriteHead, Install, InstallDone, Erase, mem, disk
<1>8. CASE Crash(p)
  BY <1>3, <1>8 DEF Crash, disk
<1> QED
  BY <1>1, <1>4, <1>5, <1>6, <1>7, <1>8

LEMMA AtRestStep ==
    ASSUME TypeOK, AtRest, Phases, NEW p \in Proc, Moves(p)
    PROVE  AtRest'
<1>1. \/ \E f \in File : Call(p, f)
      \/ BeginSleep(p) \/ Turns(p) \/ Enters(p)
      \/ \E b \in Block : LogWrite(p, b)
      \/ Leaves(p) \/ LeavesLast(p) \/ Starts(p)
      \/ CopyToLog(p) \/ CopyDone(p) \/ WriteHead(p) \/ Install(p)
      \/ InstallDone(p) \/ Erase(p) \/ Finishes(p) \/ Crash(p)
  BY DEF Moves, Core, Disk
<1>2. CASE (\A q \in Proc : Committing(q)' = Committing(q)) /\ head' = head
  BY <1>2 DEF AtRest
<1>3. CASE Committing(p)'
  BY <1>3 DEF AtRest
<1>4. ASSUME NEW f \in File, Call(p, f) PROVE AtRest'
  <2>1. \A q \in Proc : Committing(q)' = Committing(q)
    BY <1>4, CommitMoves
  <2> QED
    BY <1>2, <1>4, <2>1 DEF Call, disk
<1>5. CASE BeginSleep(p) \/ Turns(p) \/ Enters(p) \/ Leaves(p)
  <2>1. \A q \in Proc : Committing(q)' = Committing(q)
    BY <1>5, CommitMoves
  <2>2. head' = head
    BY <1>5 DEF BeginSleep, Turns, Enters, Leaves, disk
  <2> QED
    BY <1>2, <2>1, <2>2
<1>6. ASSUME NEW b \in Block, LogWrite(p, b) PROVE AtRest'
  <2>1. \A q \in Proc : Committing(q)' = Committing(q)
    BY <1>6, CommitMoves
  <2> QED
    BY <1>2, <1>6, <2>1 DEF LogWrite, disk
<1>7. CASE LeavesLast(p) \/ Starts(p) \/ Crash(p)
  BY <1>3, <1>7, CommitMoves
<1>8. CASE CopyToLog(p) \/ CopyDone(p) \/ WriteHead(p) \/ Install(p) \/ InstallDone(p)
  BY <1>3, <1>8, CommitMoves
<1>9. CASE Erase(p)
  <2>1. lh = << >> /\ head' = lh
    BY <1>9 DEF Erase, Phases, Installed
  <2> QED
    BY <2>1 DEF AtRest
<1>10. CASE Finishes(p)
  <2>1. head = << >> /\ head' = head
    BY <1>10 DEF Finishes, Phases, Finished, disk
  <2> QED
    BY <2>1 DEF AtRest
<1> QED
  BY <1>1, <1>4, <1>5, <1>6, <1>7, <1>8, <1>9, <1>10

\* Only log_write and end_op change how many updates of a block are not done yet.
LEMMA WrittenMoves ==
    ASSUME TypeOK, Tasks, NEW p \in Proc, NEW b \in Block
    PROVE  /\ \A f \in File : Call(p, f) => Written(b)' = Written(b)
           /\ BeginSleep(p) \/ Turns(p) \/ Enters(p) \/ Disk(p) \/ Starts(p) \/ Finishes(p) =>
                Written(b)' = Written(b)
           /\ \A c \in Block : LogWrite(p, c) =>
                IF b = c THEN p \notin Written(b) /\ Written(b)' = Written(b) \cup {p}
                ELSE Written(b)' = Written(b)
           /\ Leaves(p) \/ LeavesLast(p) =>
                IF b \in file[p] THEN p \in Written(b) /\ Written(b)' = Written(b) \ {p}
                ELSE Written(b)' = Written(b)
<1>1. /\ pc \in [Proc -> Place] /\ file \in [Proc -> File \cup {NoFile}]
      /\ todo \in [Proc -> SUBSET Block]
  BY DEF TypeOK
<1>2. ASSUME NEW f \in File, Call(p, f) PROVE Written(b)' = Written(b)
  <2>1. Ops' = Ops /\ p \notin Ops
    BY <1>1, <1>2, OpsMoves DEF Ops, Call
  <2> QED
    BY <1>1, <1>2, <2>1 DEF Written, Call, Ops
<1>3. ASSUME Enters(p) PROVE Written(b)' = Written(b)
  <2>1. Ops' = Ops \cup {p} /\ p \notin Ops /\ todo[p] = file[p]
    BY <1>3, OpsMoves DEF Enters, Tasks
  <2>2. file' = file /\ todo' = todo
    BY <1>3 DEF Enters
  <2> QED
    BY <2>1, <2>2 DEF Written
<1>4. ASSUME BeginSleep(p) \/ Turns(p) \/ Disk(p) \/ Starts(p) \/ Finishes(p)
      PROVE  Written(b)' = Written(b)
  <2>1. Ops' = Ops
    BY <1>4, OpsMoves
  <2>2. file' = file /\ todo' = todo
    BY <1>4 DEF BeginSleep, Turns, Starts, Finishes, Disk, CopyToLog, CopyDone, WriteHead, Install, InstallDone, Erase
  <2> QED
    BY <2>1, <2>2 DEF Written
<1>5. ASSUME NEW c \in Block, LogWrite(p, c)
      PROVE  IF b = c THEN p \notin Written(b) /\ Written(b)' = Written(b) \cup {p}
             ELSE Written(b)' = Written(b)
  <2>1. Ops' = Ops /\ p \in Ops
    BY <1>5, OpsMoves
  <2>2. /\ file' = file /\ todo' = [todo EXCEPT ![p] = @ \ {c}]
        /\ c \in todo[p] /\ todo[p] \subseteq file[p]
    BY <1>5 DEF LogWrite, Tasks
  <2>3. \A q \in Ops : todo'[q] = IF q = p THEN todo[p] \ {c} ELSE todo[q]
    BY <1>1, <2>2 DEF Ops
  <2> QED
    BY <2>1, <2>2, <2>3 DEF Written
<1>6. ASSUME Leaves(p) \/ LeavesLast(p)
      PROVE  IF b \in file[p] THEN p \in Written(b) /\ Written(b)' = Written(b) \ {p}
             ELSE Written(b)' = Written(b)
  <2>1. Ops' = Ops \ {p} /\ p \in Ops
    BY <1>6, OpsMoves
  <2>2. /\ file' = [file EXCEPT ![p] = NoFile] /\ todo' = todo /\ todo[p] = {}
    BY <1>6 DEF Leaves, LeavesLast, Ending, Completed
  <2>3. \A q \in Ops' : file'[q] = file[q]
    BY <1>1, <2>1, <2>2 DEF Ops
  <2> QED
    BY <2>1, <2>2, <2>3 DEF Written
<1> QED
  BY <1>2, <1>3, <1>4, <1>5, <1>6

LEMMA WrittenFinite ==
    ASSUME TypeOK, Counted, NEW b \in Block
    PROVE  /\ IsFiniteSet(Written(b)) /\ Cardinality(Written(b)) \in Nat
           /\ outstanding = 0 => Cardinality(Written(b)) = 0
<1>1. IsFiniteSet(Ops) /\ Written(b) \subseteq Ops
  BY DEF Counted, Written
<1>2. IsFiniteSet(Written(b))
  BY <1>1, FS_Subset
<1>3. outstanding = 0 => Written(b) = {}
  BY <1>1, CountedFacts
<1> QED
  BY <1>2, <1>3, FS_CardinalityType, FS_EmptySet

\* In a commit the cache has what the operations have done.
LEMMA CacheDone ==
    ASSUME TypeOK, Counted, Contents, ~panic, ~booting, outstanding = 0
    PROVE  cache = done
<1>1. cache \in [Block -> Version] /\ done \in [Block -> Version]
  BY DEF TypeOK
<1>2. ASSUME NEW b \in Block PROVE cache[b] = done[b]
  <2>1. cache[b] = (done[b] + Cardinality(Written(b))) % VERSIONS
    BY DEF Contents
  <2>2. Cardinality(Written(b)) = 0
    BY WrittenFinite
  <2>3. done[b] \in 0..VERSIONS - 1
    BY <1>1 DEF Version
  <2> QED
    BY <2>1, <2>2, <2>3, Sizes
<1> QED
  BY <1>1, <1>2

LEMMA CacheMet ==
    TypeOK /\ Counted /\ Contents /\ ~panic /\ ~booting /\ outstanding = 0 => cache = done
BY CacheDone

LEMMA ContentsStep ==
    ASSUME TypeOK, Counted, Tasks, Alone, Contents, Phases, NEW p \in Proc, Moves(p), TypeOK', Counted'
    PROVE  Contents'
<1>1. \/ \E f \in File : Call(p, f)
      \/ BeginSleep(p) \/ Turns(p) \/ Enters(p)
      \/ \E b \in Block : LogWrite(p, b)
      \/ Leaves(p) \/ LeavesLast(p) \/ Starts(p)
      \/ CopyToLog(p) \/ CopyDone(p) \/ WriteHead(p) \/ Install(p)
      \/ InstallDone(p) \/ Erase(p) \/ Finishes(p) \/ Crash(p)
  BY DEF Moves, Core, Disk
<1>2. /\ cache \in [Block -> Version] /\ home \in [Block -> Version]
      /\ done \in [Block -> Version] /\ dirty \in SUBSET Block
      /\ lh \in Seq(Block) /\ DOMAIN lh = 1..Len(lh) /\ Len(lh) \in Nat
      /\ VERSIONS \in Nat /\ VERSIONS > 1 /\ Version = 0..VERSIONS - 1
  BY Sizes DEF TypeOK, Version
<1>3. ASSUME NEW b \in Block
      PROVE  /\ Cardinality(Written(b)') \in Nat
             /\ outstanding' = 0 => Cardinality(Written(b)') = 0
  <2>1. IsFiniteSet(Ops') /\ outstanding' = Cardinality(Ops') /\ Written(b)' \subseteq Ops'
    BY DEF Counted, Written
  <2>2. IsFiniteSet(Written(b)')
    BY <2>1, FS_Subset
  <2>3. outstanding' = 0 => Written(b)' = {}
    BY <2>1, FS_EmptySet
  <2> QED
    BY <2>2, <2>3, FS_CardinalityType, FS_EmptySet
<1>4. ASSUME <<lh, cache, dirty, home, done, booting, panic>>'
               = <<lh, cache, dirty, home, done, booting, panic>>,
             \A b \in Block : Written(b)' = Written(b)
      PROVE  Contents'
  BY <1>4 DEF Contents, Pinned, InLh
<1>5. ASSUME NEW f \in File, Call(p, f) PROVE Contents'
  BY <1>4, <1>5, WrittenMoves DEF Call, mem, disk
<1>6. CASE BeginSleep(p) \/ Turns(p) \/ Enters(p) \/ Starts(p) \/ Finishes(p)
  <2>1. \A b \in Block : Written(b)' = Written(b)
    BY <1>6, WrittenMoves
  <2> QED
    BY <1>4, <1>6, <2>1 DEF BeginSleep, Turns, Enters, Starts, Finishes, mem, disk
<1>7. CASE CopyToLog(p) \/ CopyDone(p) \/ WriteHead(p)
  <2>1. \A b \in Block : Written(b)' = Written(b)
    <3>1. Disk(p)
      BY <1>7 DEF Disk
    <3> QED
      BY <3>1, WrittenMoves
  <2> QED
    BY <1>4, <1>7, <2>1 DEF CopyToLog, CopyDone, WriteHead, mem, disk
<1>8. ASSUME NEW c \in Block, LogWrite(p, c), ~panic' PROVE Contents'
  <2>1. /\ ~panic /\ ~booting /\ home' = home /\ done' = done
        /\ cache' = [cache EXCEPT ![c] = (@ + 1) % VERSIONS]
        /\ lh' = IF InLh(c) THEN lh ELSE Append(lh, c)
        /\ dirty' = dirty \cup {c}
    BY <1>8 DEF LogWrite, Up, disk
  <2>2. InLh(c)' /\ \A b \in Block : InLh(b) => InLh(b)'
    <3>1. CASE InLh(c)
      BY <2>1, <3>1 DEF InLh
    <3>2. CASE ~InLh(c)
      <4>1. lh' = Append(lh, c)
        BY <2>1, <3>2
      <4>2. /\ Len(lh) + 1 \in DOMAIN lh' /\ lh'[Len(lh) + 1] = c
            /\ \A i \in DOMAIN lh : i \in DOMAIN lh' /\ lh'[i] = lh[i]
        BY <1>2, <4>1
      <4> QED
        BY <4>2 DEF InLh
    <3> QED
      BY <3>1, <3>2
  <2>3. Pinned'
    BY <1>2, <2>1, <2>2 DEF Contents, Pinned
  <2>4. ASSUME NEW b \in Block
        PROVE  cache'[b] = (done'[b] + Cardinality(Written(b)')) % VERSIONS
    <3>1. /\ IsFiniteSet(Written(b)) /\ Cardinality(Written(b)) \in Nat
          /\ cache[b] = (done[b] + Cardinality(Written(b))) % VERSIONS
      BY <2>1, WrittenFinite DEF Contents
    <3>2. CASE b = c
      <4>1. Cardinality(Written(b)') = Cardinality(Written(b)) + 1
        BY <1>8, <3>1, <3>2, WrittenMoves, FS_AddElement
      <4>2. cache'[b] = (((done[b] + Cardinality(Written(b))) % VERSIONS) + 1) % VERSIONS
        BY <1>2, <2>1, <3>1, <3>2
      <4>3. done[b] + Cardinality(Written(b)) \in Nat /\ done[b] \in Nat
        <5>1. done[b] \in 0..VERSIONS - 1 /\ VERSIONS \in Nat /\ VERSIONS > 1
          BY <1>2
        <5>2. done[b] \in Nat
          BY <5>1, RemainderSmall
        <5>3. Cardinality(Written(b)) \in Nat
          BY <3>1
        <5> QED
          BY <5>2, <5>3
      <4>4. cache'[b] = ((done[b] + Cardinality(Written(b))) + 1) % VERSIONS
        BY <1>2, <4>2, <4>3, RemainderNext
      <4>5. (done[b] + Cardinality(Written(b))) + 1 = done[b] + (Cardinality(Written(b)) + 1)
        BY <3>1, <4>3
      <4> QED
        BY <2>1, <4>1, <4>4, <4>5
    <3>3. CASE b # c
      <4>1. Written(b)' = Written(b)
        BY <1>8, <3>3, WrittenMoves
      <4>2. cache'[b] = cache[b]
        BY <1>2, <2>1, <3>3
      <4> QED
        BY <2>1, <3>1, <4>1, <4>2
    <3> QED
      BY <3>2, <3>3
  <2> QED
    BY <2>3, <2>4 DEF Contents
<1>9. ASSUME Leaves(p) \/ LeavesLast(p) PROVE Contents'
  <2>1. /\ ~panic /\ ~booting
        /\ <<lh, cache, dirty, home>>' = <<lh, cache, dirty, home>>
        /\ done' = [b \in Block |-> IF b \in file[p] THEN (done[b] + 1) % VERSIONS ELSE done[b]]
    BY <1>9 DEF Leaves, LeavesLast, Ending, Completed, Up, disk
  <2>2. Pinned'
    BY <2>1 DEF Contents, Pinned, InLh
  <2>3. ASSUME NEW b \in Block
        PROVE  cache'[b] = (done'[b] + Cardinality(Written(b)')) % VERSIONS
    <3>1. /\ IsFiniteSet(Written(b)) /\ Cardinality(Written(b)) \in Nat
          /\ cache[b] = (done[b] + Cardinality(Written(b))) % VERSIONS
          /\ Cardinality(Written(b)') \in Nat
      BY <2>1, <1>3, WrittenFinite DEF Contents
    <3>2. CASE b \in file[p]
      <4>1. p \in Written(b) /\ Written(b)' = Written(b) \ {p}
        BY <1>9, <3>2, WrittenMoves
      <4>2. Cardinality(Written(b)') = Cardinality(Written(b)) - 1
        BY <3>1, <4>1, FS_RemoveElement
      <4>3. done[b] \in 0..VERSIONS - 1 /\ done'[b] = (done[b] + 1) % VERSIONS
        BY <1>2, <2>1, <3>2
      <4>4. (done'[b] + Cardinality(Written(b)')) % VERSIONS
              = (done[b] + 1 + Cardinality(Written(b)')) % VERSIONS
        BY <1>2, <3>1, <4>3, RemainderMoved
      <4>5. done[b] + 1 + Cardinality(Written(b)') = done[b] + Cardinality(Written(b))
        BY <3>1, <4>2, <4>3
      <4> QED
        BY <2>1, <3>1, <4>4, <4>5
    <3>3. CASE b \notin file[p]
      <4>1. Written(b)' = Written(b)
        BY <1>9, <3>3, WrittenMoves
      <4>2. done'[b] = done[b]
        BY <2>1, <3>3
      <4> QED
        BY <2>1, <3>1, <4>1, <4>2
    <3> QED
      BY <3>2, <3>3
  <2> QED
    BY <2>2, <2>3 DEF Contents
<1>10. ASSUME outstanding' = 0, Pinned', ~booting' => cache' = done' PROVE Contents'
  <2>1. ASSUME ~booting', NEW b \in Block
        PROVE  cache'[b] = (done'[b] + Cardinality(Written(b)')) % VERSIONS
    <3>1. Cardinality(Written(b)') = 0
      BY <1>10, <1>3
    <3>2. done'[b] \in 0..VERSIONS - 1
      BY <1>2 DEF TypeOK
    <3>3. (done'[b] + 0) % VERSIONS = done'[b]
      BY <3>2, Sizes, RemainderSmall
    <3>4. cache'[b] = done'[b]
      BY <1>10, <2>1
    <3> QED
      BY <3>1, <3>3, <3>4
  <2> QED
    BY <1>10, <2>1 DEF Contents
<1>11. ASSUME Committing(p), ~panic
       PROVE  outstanding = 0 /\ Pinned /\ (~booting => cache = done)
  <2>1. outstanding = 0
    BY <1>11 DEF Alone
  <2> QED
    BY <1>11, <2>1, CacheDone DEF Contents
<1>12. ASSUME Install(p) PROVE Contents'
  <2> DEFINE b == lh[tail[p] + 1]
             v == logd[tail[p] + 1]
  <2>1. /\ ~panic /\ Committing(p) /\ pc[p] = "install"
        /\ tail[p] < Len(lh) /\ tail[p] \in Nat
        /\ home' = [home EXCEPT ![b] = v] /\ cache' = [cache EXCEPT ![b] = v]
        /\ dirty' = dirty \ {b} /\ lh' = lh /\ done' = done
        /\ outstanding' = outstanding /\ booting' = booting
    BY <1>12 DEF Install, Committing, TypeOK
  <2>2. tail[p] + 1 \in 1..Len(lh) /\ b \in Block
    BY <1>2, <2>1
  <2>3. v = done[b]
    BY <2>1, <2>2 DEF Phases, Installing
  <2> HIDE DEF b, v
  <2>4. Pinned'
    BY <1>2, <1>11, <2>1, <2>2 DEF Pinned, InLh
  <2>5. ~booting => cache' = done
    BY <1>2, <1>11, <2>1, <2>2, <2>3
  <2> QED
    BY <1>10, <1>11, <2>1, <2>4, <2>5
<1>13. ASSUME InstallDone(p) PROVE Contents'
  <2>1. /\ ~panic /\ Committing(p) /\ pc[p] = "install"
        /\ tail[p] >= Len(lh) /\ tail[p] \in Nat
        /\ <<home, cache, dirty, done, outstanding, booting>>'
             = <<home, cache, dirty, done, outstanding, booting>>
    BY <1>13 DEF InstallDone, Committing, TypeOK, disk
  <2>2. ASSUME NEW b \in Block PROVE cache[b] = home[b]
    <3>1. CASE InLh(b)
      BY <1>2, <2>1, <3>1 DEF InLh, Phases, Installing
    <3>2. CASE ~InLh(b)
      BY <1>11, <2>1, <3>2 DEF Pinned
    <3> QED
      BY <3>1, <3>2
  <2>3. Pinned'
    BY <2>1, <2>2 DEF Pinned
  <2> QED
    BY <1>10, <1>11, <2>1, <2>3
<1>14. ASSUME Erase(p) PROVE Contents'
  <2>1. /\ ~panic /\ Committing(p) /\ cache = done
        /\ <<lh, home, cache, dirty, done, outstanding>>'
             = <<lh, home, cache, dirty, done, outstanding>>
    BY <1>14 DEF Erase, Committing, Phases, Installed, mem
  <2>2. Pinned'
    BY <1>11, <2>1 DEF Pinned, InLh
  <2> QED
    BY <1>10, <1>11, <2>1, <2>2
<1>15. CASE Crash(p)
  <2>1. cache' = home /\ home' = home /\ booting'
    BY <1>15 DEF Crash, disk
  <2> QED
    BY <2>1 DEF Contents, Pinned
<1>16. ASSUME NEW c \in Block, LogWrite(p, c), panic' PROVE Contents'
  BY <1>16 DEF Contents
<1> QED
  BY <1>1, <1>5, <1>6, <1>7, <1>8, <1>9, <1>12, <1>13, <1>14, <1>15, <1>16

LEMMA PhasesStep ==
    ASSUME TypeOK, Counted, Tasks, Alone, Headers, AtRest, Contents, Phases, NEW p \in Proc, Moves(p),
           TypeOK', Counted', Contents'
    PROVE  Phases'
<1>1. \/ \E f \in File : Call(p, f)
      \/ BeginSleep(p) \/ Turns(p) \/ Enters(p)
      \/ \E b \in Block : LogWrite(p, b)
      \/ Leaves(p) \/ LeavesLast(p) \/ Starts(p)
      \/ CopyToLog(p) \/ CopyDone(p) \/ WriteHead(p) \/ Install(p)
      \/ InstallDone(p) \/ Erase(p) \/ Finishes(p) \/ Crash(p)
  BY DEF Moves, Core, Disk
<1>2. /\ pc \in [Proc -> Place] /\ tail \in [Proc -> 0..LOGSIZE]
      /\ cache \in [Block -> Version] /\ home \in [Block -> Version]
      /\ done \in [Block -> Version] /\ logd \in [Slot -> Version]
      /\ lh \in Seq(Block) /\ DOMAIN lh = 1..Len(lh) /\ Len(lh) \in Nat /\ Len(lh) < LOGSIZE
      /\ head \in Seq(Block) /\ Len(head) \in Nat
  BY DEF TypeOK
<1>3. ASSUME NEW q \in Proc, ~Committing(q)'
      PROVE  Copying(q)' /\ Copied(q)' /\ Installing(q)' /\ Installed(q)' /\ Finished(q)'
  BY <1>3 DEF Committing, Copying, Copied, Installing, Installed, Finished
<1>4. ASSUME \A q \in Proc \ {p} : ~Committing(q)',
             Copying(p)', Copied(p)', Installing(p)', Installed(p)', Finished(p)'
      PROVE  Phases'
  BY <1>3, <1>4 DEF Phases
<1>5. ASSUME <<lh, cache, home, logd, head, tail, done>>'
               = <<lh, cache, home, logd, head, tail, done>>,
             \A q \in Proc \ {p} : pc'[q] = pc[q],
             pc'[p] \in {"begin", "asleep", "limit", "enter", "op"}
      PROVE  Phases'
  <2>1. ASSUME NEW q \in Proc
        PROVE  Copying(q)' /\ Copied(q)' /\ Installing(q)' /\ Installed(q)' /\ Finished(q)'
    <3>1. CASE q = p
      BY <1>3, <1>5, <3>1 DEF Committing
    <3>2. CASE q # p
      BY <1>5, <3>2 DEF Phases, Copying, Copied, Installing, Installed, Finished, InLh
    <3> QED
      BY <3>1, <3>2
  <2> QED
    BY <2>1 DEF Phases
<1>6. ASSUME Committing(p), \A q \in Proc : Committing(q)' => Committing(q)
      PROVE  /\ \A q \in Proc \ {p} : ~Committing(q)'
             /\ outstanding = 0 /\ ~panic
             /\ ~booting => cache = done
             /\ \A b \in Block : ~InLh(b) => cache[b] = home[b]
  <2>1. outstanding = 0 /\ ~panic /\ \A q \in Proc \ {p} : ~Committing(q)
    BY <1>6 DEF Alone
  <2>2. ~booting => cache = done
    BY <2>1, CacheDone
  <2> QED
    BY <1>6, <2>1, <2>2 DEF Contents, Pinned
<1>7. ASSUME NEW f \in File, Call(p, f) PROVE Phases'
  BY <1>2, <1>5, <1>7 DEF Call, Goto, mem, disk
<1>8. CASE BeginSleep(p) \/ Turns(p)
  BY <1>2, <1>5, <1>8 DEF BeginSleep, Turns, Goto, mem, disk
<1>9. CASE Enters(p)
  BY <1>2, <1>5, <1>9 DEF Enters, Goto, disk
<1>10. ASSUME NEW b \in Block, LogWrite(p, b) PROVE Phases'
  <2>1. p \in Ops /\ \A q \in Proc : Committing(q)' = Committing(q)
    BY <1>10, CommitMoves, OpsMoves
  <2>2. \A q \in Proc : ~Committing(q)'
    BY <2>1, OpsExclude
  <2> QED
    BY <1>3, <2>2 DEF Phases
<1>11. CASE Leaves(p)
  <2>1. p \in Ops /\ \A q \in Proc : Committing(q)' = Committing(q)
    BY <1>11, CommitMoves, OpsMoves
  <2>2. \A q \in Proc : ~Committing(q)'
    BY <2>1, OpsExclude
  <2> QED
    BY <1>3, <2>2 DEF Phases
<1>12. CASE LeavesLast(p) \/ Starts(p)
  <2>1. \A q \in Proc : Committing(q)' = (q = p \/ Committing(q))
    BY <1>12, CommitMoves
  <2>2. ~committing /\ ~booting /\ \A q \in Proc : ~Committing(q)
    <3>1. CASE LeavesLast(p)
      BY <3>1, OpsMoves, OpsExclude
    <3>2. CASE Starts(p)
      BY <3>2 DEF Starts, Up, Alone
    <3> QED
      BY <1>12, <3>1, <3>2
  <2>3. /\ <<lh, home, head>>' = <<lh, home, head>> /\ ~panic' /\ ~booting'
        /\ outstanding' = 0 /\ tail'[p] = 0
        /\ pc'[p] = IF lh = << >> THEN "finish" ELSE "copy"
    <3>1. /\ <<lh, home, head>>' = <<lh, home, head>> /\ ~panic' /\ booting' = booting
          /\ outstanding' = 0 /\ tail' = [tail EXCEPT ![p] = 0] /\ pc'[p] = CommitEntry
      BY <1>12, <2>2 DEF LeavesLast, Starts, ToCommit, Completed, Up, disk
    <3> QED
      BY <1>2, <2>2, <3>1 DEF CommitEntry
  <2>4. head = << >>
    BY <2>2 DEF AtRest
  <2>5. CASE lh = << >>
    <3>1. \A b \in Block : cache'[b] = home'[b]
      BY <2>3, <2>5 DEF Contents, Pinned, InLh
    <3>2. (TypeOK /\ Counted /\ Contents /\ ~panic /\ ~booting /\ outstanding = 0)'
      BY <2>3
    <3>3. (cache = done)'
      BY <3>2, CacheMet, PTL
    <3>4. home' = done'
      BY <3>1, <3>3 DEF TypeOK
    <3>5. Finished(p)'
      BY <2>3, <2>4, <2>5, <3>4 DEF Finished
    <3> QED
      BY <1>4, <2>1, <2>2, <2>3, <2>5, <3>5 DEF Copying, Copied, Installing, Installed
  <2>6. CASE lh # << >>
    <3>1. Copying(p)'
      BY <1>2, <2>3, <2>4 DEF Copying
    <3> QED
      BY <1>4, <2>1, <2>2, <2>3, <2>6, <3>1 DEF Copied, Installing, Installed, Finished
  <2> QED
    BY <2>5, <2>6
<1>13. CASE CopyToLog(p)
  <2>1. Committing(p) /\ \A q \in Proc : Committing(q)' = Committing(q)
    BY <1>13, CommitMoves
  <2>2. /\ pc[p] = "copy" /\ pc'[p] = "copy" /\ tail[p] \in Nat /\ tail[p] < Len(lh)
        /\ tail'[p] = tail[p] + 1
        /\ logd' = [logd EXCEPT ![tail[p] + 1] = cache[lh[tail[p] + 1]]]
        /\ <<lh, head, done>>' = <<lh, head, done>>
    BY <1>2, <1>13 DEF CopyToLog, mem
  <2>3. ~booting
    BY <2>1, <2>2 DEF Alone
  <2>4. ASSUME NEW i \in 1..tail[p] + 1 PROVE logd'[i] = done[lh[i]]
    <3>1. i \in Slot /\ tail[p] + 1 \in Slot
      BY <1>2, <2>2, Sizes DEF Slot
    <3>2. cache = done
      BY <1>6, <2>1, <2>3
    <3>3. CASE i = tail[p] + 1
      BY <1>2, <2>2, <3>1, <3>2, <3>3
    <3>4. CASE i # tail[p] + 1
      <4>1. i \in 1..tail[p]
        BY <2>2, <3>4
      <4>2. logd[i] = done[lh[i]]
        BY <2>2, <4>1 DEF Phases, Copying
      <4> QED
        BY <1>2, <2>2, <3>1, <3>4, <4>2
    <3> QED
      BY <3>3, <3>4
  <2>5. head = << >> /\ tail[p] + 1 <= Len(lh)
    BY <1>2, <2>2 DEF Phases, Copying
  <2>6. Copying(p)'
    BY <2>2, <2>4, <2>5 DEF Copying
  <2> QED
    BY <1>4, <1>6, <2>1, <2>2, <2>6 DEF Copied, Installing, Installed, Finished
<1>14. CASE CopyDone(p)
  <2>1. Committing(p) /\ \A q \in Proc : Committing(q)' = Committing(q)
    BY <1>14, CommitMoves
  <2>2. /\ pc[p] = "copy" /\ pc'[p] = "head" /\ tail[p] \in Nat /\ tail[p] >= Len(lh)
        /\ <<lh, head, done, logd>>' = <<lh, head, done, logd>>
    BY <1>2, <1>14 DEF CopyDone, Goto, mem, disk
  <2>3. Copied(p)'
    BY <1>2, <2>2 DEF Phases, Copying, Copied
  <2> QED
    BY <1>4, <1>6, <2>1, <2>2, <2>3 DEF Copying, Installing, Installed, Finished
<1>15. CASE WriteHead(p)
  <2>1. Committing(p) /\ \A q \in Proc : Committing(q)' = Committing(q)
    BY <1>15, CommitMoves
  <2>2. /\ pc[p] = "head" /\ pc'[p] = "install" /\ tail'[p] = 0 /\ head' = lh
        /\ <<lh, done, logd, home, cache>>' = <<lh, done, logd, home, cache>>
    BY <1>2, <1>15 DEF WriteHead, Goto, mem
  <2>3. ~booting
    BY <2>1, <2>2 DEF Alone
  <2>4. \A b \in Block : ~InLh(b) => home[b] = done[b]
    BY <1>6, <2>1, <2>3
  <2>5. Installing(p)'
    BY <1>2, <2>2, <2>4 DEF Phases, Copied, Installing, InLh
  <2> QED
    BY <1>4, <1>6, <2>1, <2>2, <2>5 DEF Copying, Copied, Installed, Finished
<1>16. CASE Install(p)
  <2> DEFINE b == lh[tail[p] + 1]
             v == logd[tail[p] + 1]
  <2>1. Committing(p) /\ \A q \in Proc : Committing(q)' = Committing(q)
    BY <1>16, CommitMoves
  <2>2. /\ pc[p] = "install" /\ pc'[p] = "install"
        /\ tail[p] \in Nat /\ tail[p] < Len(lh) /\ tail'[p] = tail[p] + 1
        /\ home' = [home EXCEPT ![b] = v] /\ cache' = [cache EXCEPT ![b] = v]
        /\ <<lh, head, done, logd>>' = <<lh, head, done, logd>>
    BY <1>2, <1>16 DEF Install
  <2>3. tail[p] + 1 \in 1..Len(lh) /\ b \in Block
    BY <1>2, <2>2
  <2>4. v = done[b] /\ InLh(b)
    BY <1>2, <2>2, <2>3 DEF Phases, Installing, InLh
  <2>5. ASSUME NEW i \in 1..tail[p] + 1
        PROVE  home'[lh[i]] = done[lh[i]] /\ cache'[lh[i]] = done[lh[i]]
    <3>1. i \in 1..Len(lh) /\ lh[i] \in Block
      BY <1>2, <2>2, <2>3
    <3>2. i \in 1..tail[p] \/ lh[i] = b
      BY <2>2
    <3>3. CASE lh[i] = b
      BY <1>2, <2>2, <2>3, <2>4, <3>3
    <3>4. CASE lh[i] # b
      <4>1. home[lh[i]] = done[lh[i]] /\ cache[lh[i]] = done[lh[i]]
        BY <2>2, <3>2, <3>4 DEF Phases, Installing
      <4> QED
        BY <1>2, <2>2, <3>1, <3>4, <4>1
    <3> QED
      BY <3>3, <3>4
  <2>6. ASSUME NEW c \in Block, ~InLh(c) PROVE home'[c] = done[c]
    <3>1. c # b /\ home[c] = done[c]
      BY <2>2, <2>4, <2>6 DEF Phases, Installing
    <3> QED
      BY <1>2, <2>2, <3>1
  <2> HIDE DEF b, v
  <2>7. head = lh /\ tail[p] + 1 <= Len(lh) /\ \A i \in 1..Len(lh) : logd[i] = done[lh[i]]
    BY <1>2, <2>2 DEF Phases, Installing
  <2>8. Installing(p)'
    BY <2>2, <2>5, <2>6, <2>7 DEF Installing, InLh
  <2> QED
    BY <1>4, <1>6, <2>1, <2>2, <2>8 DEF Copying, Copied, Installed, Finished
<1>17. CASE InstallDone(p)
  <2>1. Committing(p) /\ \A q \in Proc : Committing(q)' = Committing(q)
    BY <1>17, CommitMoves
  <2>2. /\ pc[p] = "install" /\ pc'[p] = "erase" /\ tail[p] \in Nat /\ tail[p] >= Len(lh)
        /\ lh' = << >>
        /\ <<home, cache, head, done, logd>>' = <<home, cache, head, done, logd>>
    BY <1>2, <1>17 DEF InstallDone, Goto, disk
  <2>3. ASSUME NEW b \in Block PROVE home[b] = done[b] /\ cache[b] = done[b]
    <3>1. CASE InLh(b)
      BY <1>2, <2>2, <3>1 DEF InLh, Phases, Installing
    <3>2. CASE ~InLh(b)
      <4>1. home[b] = done[b]
        BY <2>2, <3>2 DEF Phases, Installing
      <4> QED
        BY <1>6, <2>1, <3>2, <4>1
    <3> QED
      BY <3>1, <3>2
  <2>4. home = done /\ cache = done
    BY <1>2, <2>3
  <2>5. \A i \in 1..Len(head) : logd[i] = done[head[i]]
    BY <2>2 DEF Phases, Installing
  <2>6. Installed(p)'
    BY <2>2, <2>4, <2>5 DEF Installed
  <2> QED
    BY <1>4, <1>6, <2>1, <2>2, <2>6 DEF Copying, Copied, Installing, Finished
<1>18. CASE Erase(p)
  <2>1. Committing(p) /\ \A q \in Proc : Committing(q)' => Committing(q)
    BY <1>18, CommitMoves
  <2>2. /\ pc[p] = "erase" /\ pc'[p] \in {"idle", "finish"}
        /\ head' = lh /\ <<lh, home, done>>' = <<lh, home, done>>
    BY <1>2, <1>18 DEF Erase, Goto, mem
  <2>3. Finished(p)'
    BY <2>2 DEF Phases, Installed, Finished
  <2> QED
    BY <1>4, <1>6, <2>1, <2>2, <2>3 DEF Copying, Copied, Installing, Installed
<1>19. CASE Finishes(p)
  <2>1. Committing(p) /\ \A q \in Proc : Committing(q)' = (q # p /\ Committing(q))
    BY <1>19, CommitMoves
  <2>2. \A q \in Proc : ~Committing(q)'
    BY <1>6, <2>1
  <2> QED
    BY <1>3, <2>2 DEF Phases
<1>20. CASE Crash(p)
  <2>1. \A q \in Proc : Committing(q)' = (q = p)
    BY <1>20, CommitMoves
  <2>2. /\ pc'[p] = "install" /\ tail'[p] = 0 /\ lh' = head /\ done' = Recovered
        /\ <<home, logd, head>>' = <<home, logd, head>>
    BY <1>20 DEF Crash, disk
  <2>3. /\ \A i \in 1..Len(head) : Recovered[head[i]] = logd[i]
        /\ \A b \in Block : (\A i \in 1..Len(head) : head[i] # b) => Recovered[b] = home[b]
    BY RecoveredType DEF Headers
  <2>4. Installing(p)'
    <3>1. \A b \in Block : ~InLh(b)' => \A i \in 1..Len(head) : head[i] # b
      BY <1>2, <2>2 DEF InLh
    <3>2. \A b \in Block : ~InLh(b)' => home'[b] = done'[b]
      BY <2>2, <2>3, <3>1
    <3>3. \A i \in 1..Len(lh') : logd'[i] = done'[lh'[i]]
      BY <2>2, <2>3
    <3>4. head' = lh' /\ tail'[p] <= Len(lh') /\ 1..tail'[p] = {}
      BY <1>2, <2>2
    <3> QED
      BY <3>2, <3>3, <3>4 DEF Installing
  <2> QED
    BY <1>4, <2>1, <2>2, <2>4 DEF Copying, Copied, Installed, Finished
<1> QED
  BY <1>1, <1>7, <1>8, <1>9, <1>10, <1>11, <1>12, <1>13, <1>14, <1>15, <1>16, <1>17,
     <1>18, <1>19, <1>20

LEMMA CommonInit == ASSUME Init PROVE Common
<1>1. TypeOK
  BY TypeInit
<1>2. Ops = {} /\ (\A b \in Block : Written(b) = {})
  BY DEF Init, Ops, Written
<1>3. Counted
  BY <1>2, FS_EmptySet DEF Init, Counted
<1>4. \A p \in Proc : pc[p] = "idle"
  BY DEF Init
<1>5. Tasks /\ Alone /\ Phases
  BY <1>4 DEF Init, Tasks, Alone, Phases, Committing, Copying, Copied, Installing,
              Installed, Finished
<1>6. Headers /\ AtRest
  BY DEF Init, Headers, Distinct, AtRest
<1>7. Contents
  <2>1. Pinned
    BY DEF Init, Pinned
  <2>2. ASSUME NEW b \in Block
        PROVE  cache[b] = (done[b] + Cardinality(Written(b))) % VERSIONS
    <3>1. cache[b] = 0 /\ done[b] = 0 /\ Cardinality(Written(b)) = 0
      BY <1>2, FS_EmptySet DEF Init
    <3> QED
      BY <3>1, Sizes, RemainderSmall
  <2> QED
    BY <2>1, <2>2 DEF Contents
<1> QED
  BY <1>1, <1>3, <1>5, <1>6, <1>7 DEF Common

\* Whatever moves as begin_op, log_write, end_op, commit and recovery may keeps
\* the invariant.
LEMMA CommonStep ==
    ASSUME Common, NEW p \in Proc, Moves(p)
    PROVE  Common'
<1>1. TypeOK' /\ Counted'
  BY TypeStep, CountedStep DEF Common
<1>2. Tasks' /\ Alone' /\ Headers' /\ AtRest'
  BY TasksStep, AloneStep, HeadersStep, AtRestStep DEF Common
<1>3. Contents'
  BY <1>1, ContentsStep DEF Common
<1>4. Phases'
  BY <1>1, <1>3, PhasesStep DEF Common
<1> QED
  BY <1>1, <1>2, <1>3, <1>4 DEF Common

LEMMA CommonStutter ==
    ASSUME Common, UNCHANGED vars
    PROVE  Common'
<1>1. TypeOK' /\ Counted' /\ Tasks'
  BY DEF Common, vars, TypeOK, Counted, Tasks, Ops
<1>2. Alone' /\ Headers' /\ AtRest'
  BY DEF Common, vars, Alone, Headers, Distinct, AtRest, Committing
<1>3. Contents'
  BY DEF Common, vars, Contents, Pinned, InLh, Written, Ops
<1>4. Phases'
  BY DEF Common, vars, Phases, Copying, Copied, Installing, Installed, Finished, InLh
<1> QED
  BY <1>1, <1>2, <1>3, <1>4 DEF Common

-----------------------------------------------------------------------------
(* What recovery makes of the disk *)

\* With an empty header the recovery changes nothing.
LEMMA NothingToRecover ==
    TypeOK /\ head = << >> => Recovered = home
BY DEF TypeOK, Recovered

\* From write_head to the end of a commit, and during a recovery, a crash
\* loses nothing.
Lasting == \A p \in Proc : pc[p] \in {"install", "erase"} => Recovered = done

LEMMA CommittedLasts == TypeOK /\ Headers /\ Phases => Lasting
<1> SUFFICES ASSUME TypeOK, Headers, Phases,
                    NEW p \in Proc, pc[p] \in {"install", "erase"}
             PROVE  Recovered = done
  BY DEF Lasting
<1>1. /\ Recovered \in [Block -> Version] /\ done \in [Block -> Version]
      /\ \A i \in 1..Len(head) : Recovered[head[i]] = logd[i]
      /\ \A b \in Block : (\A i \in 1..Len(head) : head[i] # b) => Recovered[b] = home[b]
  BY RecoveredType DEF Headers, TypeOK
<1>2. \A i \in 1..Len(head) : logd[i] = done[head[i]]
  BY DEF Phases, Installing, Installed
<1>3. \A b \in Block : (\A i \in 1..Len(head) : head[i] # b) => home[b] = done[b]
  <2>1. DOMAIN head = 1..Len(head)
    BY DEF TypeOK
  <2> QED
    BY <2>1 DEF Phases, Installing, Installed, InLh
<1>4. \A b \in Block : Recovered[b] = done[b]
  BY <1>1, <1>2, <1>3
<1> QED
  BY <1>1, <1>4

LEMMA StoreInit == Init => Store!Init
<1> SUFFICES ASSUME Init PROVE Store!Init
  OBVIOUS
<1>1. head = << >> /\ home = done /\ done = [b \in Block |-> 0]
  BY DEF Init
<1>2. Recovered = home
  BY TypeInit, NothingToRecover, <1>1
<1> QED
  BY <1>1, <1>2 DEF Store!Init

\* What completes at end_op is one operation, on all the blocks of its file.
LEMMA CompletedUpdates ==
    ASSUME TypeOK, Tasks, NEW p \in Proc, pc[p] = "op", Completed(p), UNCHANGED disk
    PROVE  \E f \in File : Store!Update(f)
<1>1. file[p] \in File
  BY DEF Tasks
<1>2. Recovered' = Recovered
  BY DEF Recovered, disk
<1>3. Store!Update(file[p])
  BY <1>2 DEF Completed, Store!Update, Store!Updated
<1> QED
  BY <1>1, <1>3

\* Every step is an update, a commit, a crash or none of them to the store.
LEMMA StoreStep ==
    ASSUME Common, Common', NEW p \in Proc, Moves(p)
    PROVE  [Store!Next]_<<done, Recovered>>
<1>1. ASSUME <<done, home, logd, head>>' = <<done, home, logd, head>>
      PROVE  <<done, Recovered>>' = <<done, Recovered>>
  BY <1>1 DEF Recovered
<1>2. \/ \E f \in File : Call(p, f)
      \/ BeginSleep(p) \/ Turns(p) \/ Enters(p)
      \/ \E b \in Block : LogWrite(p, b)
      \/ Leaves(p) \/ LeavesLast(p) \/ Starts(p)
      \/ CopyToLog(p) \/ CopyDone(p) \/ WriteHead(p) \/ Install(p)
      \/ InstallDone(p) \/ Erase(p) \/ Finishes(p) \/ Crash(p)
  BY DEF Moves, Core, Disk
<1>3. TypeOK /\ Tasks /\ Headers /\ Phases /\ pc \in [Proc -> Place]
  BY DEF Common, TypeOK
<1>4. (TypeOK /\ Headers /\ Phases)'
  BY DEF Common
<1>5. Lasting
  BY <1>3, CommittedLasts
<1>6. Lasting'
  BY <1>4, CommittedLasts, PTL
<1>7. (head = << >> => Recovered = home)'
  BY <1>4, NothingToRecover, PTL
<1>8. CASE \/ \E f \in File : Call(p, f)
           \/ BeginSleep(p) \/ Turns(p) \/ Enters(p) \/ Starts(p)
           \/ \E b \in Block : LogWrite(p, b)
           \/ CopyDone(p) \/ InstallDone(p) \/ Finishes(p)
  BY <1>1, <1>8 DEF Call, BeginSleep, Turns, Enters, Starts, LogWrite, CopyDone, InstallDone,
                    Finishes, disk
<1>9. CASE Leaves(p) \/ LeavesLast(p)
  <2>1. pc[p] = "op" /\ Completed(p) /\ UNCHANGED disk
    BY <1>9 DEF Leaves, LeavesLast, Ending
  <2> QED
    BY <1>3, <2>1, CompletedUpdates DEF Store!Next
<1>10. CASE CopyToLog(p)
  <2>1. head = << >> /\ head' = << >> /\ home' = home /\ done' = done
    BY <1>3, <1>10 DEF CopyToLog, Phases, Copying
  <2>2. Recovered' = Recovered
    BY <1>3, <1>7, <2>1, NothingToRecover
  <2> QED
    BY <2>1, <2>2
<1>11. CASE WriteHead(p)
  <2>1. pc'[p] = "install" /\ done' = done
    BY <1>3, <1>11 DEF WriteHead, Goto
  <2>2. Recovered' = done
    BY <1>6, <2>1 DEF Lasting
  <2> QED
    BY <2>1, <2>2 DEF Store!Next, Store!Persist
<1>12. CASE Install(p)
  <2>1. pc[p] = "install" /\ pc'[p] = "install" /\ done' = done
    BY <1>12 DEF Install
  <2> QED
    BY <1>5, <1>6, <2>1 DEF Lasting
<1>13. CASE Erase(p)
  <2>1. /\ pc[p] = "erase" /\ lh = << >> /\ home = done
        /\ head' = << >> /\ home' = home /\ done' = done
    BY <1>3, <1>13 DEF Erase, Phases, Installed
  <2> QED
    BY <1>5, <1>7, <2>1 DEF Lasting
<1>14. CASE Crash(p)
  <2>1. done' = Recovered /\ Recovered' = Recovered
    BY <1>14 DEF Crash, disk, Recovered
  <2> QED
    BY <2>1 DEF Store!Next, Store!Crash
<1> QED
  BY <1>2, <1>8, <1>9, <1>10, <1>11, <1>12, <1>13, <1>14

\* What the operations S have still to write, and all that is still to come.
Pairs(S, t) == {pb \in S \X Block : pb[2] \in t[pb[1]]}

Pending == Pairs(Ops, todo)

\* log.c:132, "this op might exhaust log space": what the log holds and what
\* is to come fit in it, with one block to spare for each operation.
Enough ==
    /\ ~panic
    /\ outstanding > 0 =>
         Len(lh) + Cardinality(Pending) + outstanding <= LOGSIZE

\* Operations that have at most n blocks each to write have n times their
\* number together: number the blocks of each.
LEMMA PairsBound ==
    ASSUME NEW S, IsFiniteSet(S), NEW t, NEW n \in Nat,
           \A p \in S : t[p] \subseteq Block /\ Cardinality(t[p]) <= n
    PROVE  /\ IsFiniteSet(Pairs(S, t))
           /\ Cardinality(Pairs(S, t)) \in Nat
           /\ Cardinality(Pairs(S, t)) <= Cardinality(S) * n
<1> DEFINE num(p) == CHOOSE g : g \in Bijection(1..Cardinality(t[p]), t[p])
           nth(p, b) == CHOOSE i \in 1..Cardinality(t[p]) : num(p)[i] = b
           f == [pb \in Pairs(S, t) |-> <<pb[1], nth(pb[1], pb[2])>>]
<1>1. ASSUME NEW p \in S, NEW b \in t[p]
      PROVE  nth(p, b) \in 1..n /\ num(p)[nth(p, b)] = b
  <2>1. IsFiniteSet(t[p]) /\ Cardinality(t[p]) <= n
    BY LogConstants, FS_Subset
  <2>2. Cardinality(t[p]) \in Nat /\ num(p) \in Bijection(1..Cardinality(t[p]), t[p])
    BY <2>1, FS_CardinalityType DEF ExistsBijection
  <2>3. \E i \in 1..Cardinality(t[p]) : num(p)[i] = b
    BY <2>2 DEF Bijection, Surjection
  <2>4. nth(p, b) \in 1..Cardinality(t[p]) /\ num(p)[nth(p, b)] = b
    BY <2>3
  <2> QED
    BY <2>1, <2>2, <2>4
<1> HIDE DEF num, nth
<1>2. \A pb \in Pairs(S, t) : pb = <<pb[1], pb[2]>> /\ pb[1] \in S /\ pb[2] \in t[pb[1]]
  BY DEF Pairs
<1>3. f \in [Pairs(S, t) -> S \X (1..n)]
  BY <1>1, <1>2
<1>4. ASSUME NEW x \in Pairs(S, t), NEW y \in Pairs(S, t), f[x] = f[y]
      PROVE  x = y
  <2>1. x[1] = y[1] /\ nth(x[1], x[2]) = nth(y[1], y[2])
    BY <1>4
  <2>2. num(x[1])[nth(x[1], x[2])] = x[2] /\ num(y[1])[nth(y[1], y[2])] = y[2]
    BY <1>1, <1>2
  <2>3. x[2] = y[2]
    BY <2>1, <2>2
  <2> QED
    BY <1>2, <2>1, <2>3
<1>5. f \in Injection(Pairs(S, t), S \X (1..n))
  BY <1>3, <1>4 DEF Injection, IsInjective
<1>6. IsFiniteSet(1..n) /\ Cardinality(1..n) = n
  BY FS_Interval
<1>7. IsFiniteSet(S \X (1..n)) /\ Cardinality(S \X (1..n)) = Cardinality(S) * n
  BY <1>6, FS_Product
<1> HIDE DEF f
<1>8. /\ IsFiniteSet(Pairs(S, t))
      /\ Cardinality(Pairs(S, t)) <= Cardinality(S \X (1..n))
  BY <1>5, <1>7, FS_Injection
<1> QED
  BY <1>7, <1>8, FS_CardinalityType

\* An operation that writes fewer than MAXOPBLOCKS blocks.
SmallOps == \A f \in File : Cardinality(f) < MAXOPBLOCKS

LEMMA PendingBound ==
    ASSUME SmallOps, NEW S, IsFiniteSet(S), NEW t,
           \A p \in S : \E f \in File : t[p] \subseteq f
    PROVE  /\ IsFiniteSet(Pairs(S, t))
           /\ Cardinality(Pairs(S, t)) \in Nat
           /\ Cardinality(Pairs(S, t)) + Cardinality(S) <= Cardinality(S) * MAXOPBLOCKS
<1>1. MAXOPBLOCKS - 1 \in Nat
  BY LogConstants
<1>2. ASSUME NEW p \in S
      PROVE  t[p] \subseteq Block /\ Cardinality(t[p]) <= MAXOPBLOCKS - 1
  <2>1. PICK f \in File : t[p] \subseteq f
    BY <1>2
  <2>2. f \subseteq Block /\ IsFiniteSet(f) /\ Cardinality(f) < MAXOPBLOCKS
    BY LogConstants, FS_Subset DEF SmallOps
  <2>3. IsFiniteSet(t[p]) /\ Cardinality(t[p]) <= Cardinality(f)
    BY <2>1, <2>2, FS_Subset
  <2>4. Cardinality(t[p]) \in Nat /\ Cardinality(f) \in Nat /\ MAXOPBLOCKS \in Nat
    BY <2>2, <2>3, FS_CardinalityType, LogConstants
  <2> QED
    BY <2>1, <2>2, <2>3, <2>4
<1>3. /\ IsFiniteSet(Pairs(S, t)) /\ Cardinality(Pairs(S, t)) \in Nat
      /\ Cardinality(Pairs(S, t)) <= Cardinality(S) * (MAXOPBLOCKS - 1)
  BY <1>1, <1>2, PairsBound
<1>4. Cardinality(S) \in Nat /\ MAXOPBLOCKS \in Nat
  BY FS_CardinalityType, LogConstants
<1>5. Cardinality(S) * (MAXOPBLOCKS - 1) + Cardinality(S) = Cardinality(S) * MAXOPBLOCKS
  BY <1>4
<1>6. Cardinality(S) * (MAXOPBLOCKS - 1) \in Int /\ Cardinality(S) * MAXOPBLOCKS \in Int
  BY <1>4
<1> QED
  BY <1>3, <1>4, <1>5, <1>6

\* u has what t has, less b at p.
Shrunk(S, t, u, p, b) ==
    \A q \in S : u[q] = IF q = p THEN t[q] \ {b} ELSE t[q]

\* A block written leaves the pairs.
LEMMA PairsLess ==
    ASSUME NEW S, NEW t, IsFiniteSet(Pairs(S, t)), NEW p \in S, NEW b \in t[p],
           b \in Block, NEW u, Shrunk(S, t, u, p, b)
    PROVE  /\ Cardinality(Pairs(S, u)) = Cardinality(Pairs(S, t)) - 1
           /\ Cardinality(Pairs(S, t)) \in Nat
<1>1. <<p, b>> \in Pairs(S, t)
  BY DEF Pairs
<1>2. Pairs(S, u) = Pairs(S, t) \ {<<p, b>>}
  <2>1. ASSUME NEW x \in S \X Block
        PROVE  x[2] \in u[x[1]] <=> x[2] \in t[x[1]] /\ x # <<p, b>>
    <3>1. x = <<x[1], x[2]>> /\ x[1] \in S
      OBVIOUS
    <3>2. x = <<p, b>> <=> x[1] = p /\ x[2] = b
      BY <3>1
    <3>3. u[x[1]] = IF x[1] = p THEN t[x[1]] \ {b} ELSE t[x[1]]
      BY <3>1 DEF Shrunk
    <3> QED
      BY <3>1, <3>2, <3>3
  <2> QED
    BY <2>1 DEF Pairs
<1>3. Cardinality(Pairs(S, t) \ {<<p, b>>}) = Cardinality(Pairs(S, t)) - 1
  BY <1>1, FS_RemoveElement
<1> QED
  BY <1>2, <1>3, FS_CardinalityType

\* begin_op only counts an operation for which there is space.
Fitting(p) ==
    \/ Core(p) \/ Turns(p) \/ (Enters(p) /\ ~NoSpace) \/ Leaves(p) \/ LeavesLast(p)
    \/ Starts(p) \/ Finishes(p)

LEMMA EnoughStep ==
    ASSUME SmallOps, Common, Common', Enough, NEW p \in Proc, Fitting(p)
    PROVE  Enough'
<1>1. \/ \E f \in File : Call(p, f)
      \/ BeginSleep(p) \/ Turns(p) \/ (Enters(p) /\ ~NoSpace)
      \/ \E b \in Block : LogWrite(p, b)
      \/ Leaves(p) \/ LeavesLast(p) \/ Starts(p)
      \/ CopyToLog(p) \/ CopyDone(p) \/ WriteHead(p) \/ Install(p)
      \/ InstallDone(p) \/ Erase(p) \/ Finishes(p) \/ Crash(p)
  BY DEF Fitting, Core, Disk
<1>2. /\ outstanding \in Nat /\ lh \in Seq(Block) /\ Len(lh) \in Nat
      /\ todo \in [Proc -> SUBSET Block]
      /\ LOGSIZE \in Nat /\ MAXOPBLOCKS \in Nat
      /\ IsFiniteSet(Ops) /\ outstanding = Cardinality(Ops) /\ Ops \subseteq Proc
  BY LogConstants DEF Common, TypeOK, Counted, Ops
<1>3. /\ outstanding' \in Nat /\ IsFiniteSet(Ops') /\ outstanding' = Cardinality(Ops')
      /\ \A q \in Ops' : \E f \in File : todo'[q] \subseteq f
  BY DEF Common, TypeOK, Counted, Tasks, Ops
<1>4. \A q \in Ops : \E f \in File : todo[q] \subseteq f
  BY DEF Common, Tasks, Ops
<1>5. IsFiniteSet(Pending) /\ Cardinality(Pending) \in Nat
  BY <1>2, <1>4, PendingBound DEF Pending
<1>6. ASSUME ~panic', outstanding' = outstanding, Ops' = Ops, Len(lh') = Len(lh),
             \A q \in Ops : todo'[q] = todo[q]
      PROVE  Enough'
  <2>1. Pending' = Pending
    BY <1>6 DEF Pending, Pairs
  <2> QED
    BY <1>6, <2>1 DEF Enough
<1>7. ASSUME ~panic', outstanding' = 0
      PROVE  Enough'
  BY <1>7 DEF Enough
<1>8. ~panic /\ (outstanding > 0 =>
                   Len(lh) + Cardinality(Pending) + outstanding <= LOGSIZE)
  BY DEF Enough
<1>9. TypeOK /\ Counted /\ Alone
  BY DEF Common
<1>10. ASSUME NEW f \in File, Call(p, f) PROVE Enough'
  <2>1. Ops' = Ops /\ p \notin Ops
    BY <1>9, <1>10, OpsMoves DEF Call, Ops
  <2> QED
    BY <1>2, <1>6, <1>8, <1>10, <2>1 DEF Call, mem
<1>11. CASE BeginSleep(p) \/ Turns(p)
  BY <1>6, <1>8, <1>9, <1>11, OpsMoves DEF BeginSleep, Turns, mem
<1>12. CASE Enters(p) /\ ~NoSpace
  <2>1. /\ ~panic' /\ lh' = lh /\ outstanding' = outstanding + 1
        /\ Len(lh) + (outstanding + 1) * MAXOPBLOCKS <= LOGSIZE
    <3>1. ~(Len(lh) + (outstanding + 1) * MAXOPBLOCKS > LOGSIZE)
      BY <1>12 DEF NoSpace
    <3>2. (outstanding + 1) * MAXOPBLOCKS \in Int
      BY <1>2
    <3> QED
      BY <1>2, <1>8, <1>12, <3>1, <3>2 DEF Enters
  <2>2. /\ Cardinality(Pending') \in Nat
        /\ Cardinality(Pending') + outstanding' <= outstanding' * MAXOPBLOCKS
    BY <1>3, PendingBound DEF Pending
  <2> DEFINE room == (outstanding + 1) * MAXOPBLOCKS
  <2>3. /\ room \in Int /\ Len(lh) + room <= LOGSIZE
        /\ Cardinality(Pending') + outstanding' <= room
    BY <1>2, <2>1, <2>2
  <2> HIDE DEF room
  <2>4. Len(lh') + Cardinality(Pending') + outstanding' <= LOGSIZE
    <3>1. /\ lh' = lh /\ Len(lh) \in Nat /\ outstanding' \in Nat
          /\ Cardinality(Pending') \in Nat /\ LOGSIZE \in Nat
      BY <1>2, <1>3, <2>1, <2>2
    <3> QED
      BY <2>3, <3>1
  <2> QED
    BY <2>1, <2>4 DEF Enough
<1>13. ASSUME NEW b \in Block, LogWrite(p, b) PROVE Enough'
  <2>1. p \in Ops /\ Ops' = Ops /\ b \in todo[p] /\ outstanding' = outstanding
        /\ \A q \in Ops : todo'[q] = IF q = p THEN todo[q] \ {b} ELSE todo[q]
    BY <1>2, <1>9, <1>13, OpsMoves DEF LogWrite
  <2>2. outstanding > 0
    BY <1>9, <2>1, CountedFacts
  <2>3. /\ Cardinality(Pairs(Ops, todo')) = Cardinality(Pairs(Ops, todo)) - 1
        /\ Cardinality(Pairs(Ops, todo')) \in Nat
    <3>1. Cardinality(Pairs(Ops, todo')) = Cardinality(Pairs(Ops, todo)) - 1
      <4>1. Shrunk(Ops, todo, todo', p, b)
        BY <2>1 DEF Shrunk
      <4>2. IsFiniteSet(Pairs(Ops, todo))
        BY <1>5 DEF Pending
      <4>3. p \in Ops /\ b \in todo[p] /\ b \in Block
        BY <1>13, <2>1
      <4> QED
        BY <4>1, <4>2, <4>3, PairsLess
    <3>2. Cardinality(Pairs(Ops, todo')) \in Nat
      BY <1>3, <2>1, PendingBound
    <3> QED
      BY <3>1, <3>2
  <2>4. Cardinality(Pending') = Cardinality(Pending) - 1 /\ Cardinality(Pending') \in Nat
    BY <2>1, <2>3 DEF Pending
  <2>5. ~panic'
    <3>1. Len(lh) + 1 < LOGSIZE
      BY <1>2, <1>5, <1>8, <2>2, <2>4
    <3>2. panic' => Len(lh) >= LOGSIZE - 1 \/ outstanding < 1
      BY <1>13 DEF LogWrite, TooBig
    <3> QED
      BY <1>2, <2>2, <3>1, <3>2
  <2>6. Len(lh') <= Len(lh) + 1 /\ Len(lh') \in Nat
    BY <1>2, <1>13 DEF LogWrite
  <2> QED
    BY <1>2, <1>5, <1>8, <2>1, <2>2, <2>4, <2>5, <2>6 DEF Enough
<1>14. CASE Leaves(p)
  <2>1. p \in Ops /\ Ops' = Ops \ {p} /\ todo[p] = {} /\ ~committing
    BY <1>9, <1>14, OpsMoves, OpsExclude DEF Leaves, Ending
  <2>2. /\ ~panic' /\ outstanding > 0 /\ outstanding' = outstanding - 1
        /\ lh' = lh /\ todo' = todo
    BY <1>9, <1>14, <2>1, CountedFacts DEF Leaves, Completed
  <2>3. Pending' = Pending
    BY <2>1, <2>2 DEF Pending, Pairs
  <2> QED
    BY <1>2, <1>5, <1>8, <2>2, <2>3 DEF Enough
<1>15. CASE LeavesLast(p)
  <2>1. p \in Ops /\ ~committing
    BY <1>9, <1>15, OpsMoves, OpsExclude
  <2> QED
    BY <1>2, <1>7, <1>15, <2>1 DEF LeavesLast, Completed
<1>16. CASE CopyToLog(p) \/ CopyDone(p) \/ WriteHead(p) \/ Install(p) \/ Erase(p)
  <2>1. Ops' = Ops
    BY <1>9, <1>16, OpsMoves DEF Disk
  <2> QED
    BY <1>6, <1>16, <2>1 DEF CopyToLog, CopyDone, WriteHead, Install, Erase, mem
<1>17. CASE InstallDone(p)
  <2>1. outstanding = 0
    BY <1>17 DEF InstallDone, Common, Alone, Committing
  <2> QED
    BY <1>7, <1>17, <2>1 DEF InstallDone
<1>18. CASE Starts(p) \/ Finishes(p)
  BY <1>6, <1>8, <1>9, <1>18, OpsMoves DEF Starts, Finishes
<1>19. CASE Crash(p)
  BY <1>7, <1>19 DEF Crash
<1> QED
  BY <1>1, <1>10, <1>11, <1>12, <1>13, <1>14, <1>15, <1>16, <1>17, <1>18, <1>19

LEMMA EnoughStutter ==
    ASSUME Enough, UNCHANGED vars
    PROVE  Enough'
<1>1. Pending' = Pending
  BY DEF vars, Pending, Pairs, Ops
<1> QED
  BY <1>1 DEF vars, Enough
=============================================================================
