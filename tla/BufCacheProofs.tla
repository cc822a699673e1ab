---------------------------- MODULE BufCacheProofs ----------------------------
(***************************************************************************)
(* The buffer cache of project3, proved for every number of processes,     *)
(* blocks and buffers: one buffer for a block, exact counts, no lost       *)
(* wakeup, what may be recycled is on the disk, and the cache implements   *)
(* BlockStore.                                                             *)
(***************************************************************************)
EXTENDS BufCache, FiniteSetTheorems, TLAPS

-----------------------------------------------------------------------------
(* The inductive invariant *)

InIde == {"iderw", "wait"}
Users(i) == {p \in Proc : at[p] = i}

\* A process that has asked for a buffer is on its way, and those from
\* acquiresleep to releasesleep hold its lock.
Places ==
    \A p \in Proc :
        /\ pc[p] = "idle" <=> at[p] = None
        /\ pc[p] \in InIde \cup {"has"} => buf[at[p]].locked = p
        /\ chan[p] = LockChan(at[p]) => pc[p] = "bget"
        /\ chan[p] = DiskChan(at[p]) => pc[p] = "wait"
Locks ==
    \A i \in Buf : buf[i].locked # None =>
        /\ at[buf[i].locked] = i
        /\ pc[buf[i].locked] \in InIde \cup {"has"}

\* Who is in the list for a block, and what it has of it.
Named ==
    \A i, j \in Buf : buf[i].blockno # None /\ buf[i].blockno = buf[j].blockno => i = j
Filled ==
    \A i \in Buf :
        /\ buf[i].refcnt > 0 \/ buf[i].valid => buf[i].blockno # None
        /\ buf[i].dirty => buf[i].valid
        /\ buf[i].valid => buf[i].data \in Data

\* The driver is called for what is not there yet, and a request for it is
\* queued until it is.
Requests ==
    \A p \in Proc :
        /\ pc[p] = "iderw" => ~Ready(at[p])
        /\ pc[p] = "has" => buf[at[p]].valid
        /\ pc[p] = "wait" => (Ready(at[p]) <=> at[p] \notin Range(idequeue))

\* The write at the disk is done but for the interrupt.
AtDisk ==
    idequeue # <<>> /\ buf[Head(idequeue)].dirty =>
        disk[buf[Head(idequeue)].blockno] = buf[Head(idequeue)].data

IInv ==
    /\ TypeOK /\ Places /\ Locks /\ Named /\ CountsExact /\ Filled
    /\ Requests /\ QueueSound /\ NoLostWakeup /\ Clean /\ AtDisk

-----------------------------------------------------------------------------
(* What the invariant says of one process and of one buffer *)

Status == [blockno : Block \cup {None}, valid : BOOLEAN, dirty : BOOLEAN,
           refcnt : 0..Cardinality(Proc), locked : Proc \cup {None},
           data : Data \cup {None}]

LEMMA Types ==
    ASSUME TypeOK
    PROVE  /\ buf \in [Buf -> Status]
           /\ \A i \in Buf : /\ buf[i].blockno \in Block \cup {None}
                             /\ buf[i].valid \in BOOLEAN /\ buf[i].dirty \in BOOLEAN
                             /\ buf[i].refcnt \in Nat
                             /\ buf[i].locked \in Proc \cup {None}
           /\ pc \in [Proc -> {"idle", "bget", "iderw", "wait", "has", "brelse"}]
           /\ at \in [Proc -> Buf \cup {None}]
           /\ chan \in [Proc -> {None} \cup ({"lock", "disk"} \X Buf)]
           /\ idequeue \in Seq(Buf)
           /\ disk \in [Block -> Data]
<1>1. Cardinality(Proc) \in Nat
  BY BufCacheConstants, FS_CardinalityType
<1>2. buf \in [Buf -> Status]
  BY DEF TypeOK, Status
<1>3. ASSUME NEW i \in Buf
      PROVE  /\ buf[i].blockno \in Block \cup {None}
             /\ buf[i].valid \in BOOLEAN /\ buf[i].dirty \in BOOLEAN
             /\ buf[i].refcnt \in Nat
             /\ buf[i].locked \in Proc \cup {None}
  <2>1. buf[i] \in Status
    BY <1>2
  <2> QED
    BY <1>1, <2>1 DEF Status
<1>4. /\ pc \in [Proc -> {"idle", "bget", "iderw", "wait", "has", "brelse"}]
      /\ at \in [Proc -> Buf \cup {None}]
      /\ chan \in [Proc -> {None} \cup ({"lock", "disk"} \X Buf)]
      /\ idequeue \in Seq(Buf)
      /\ disk \in [Block -> Data]
  BY DEF TypeOK
<1> QED
  BY <1>2, <1>3, <1>4

LEMMA Names ==
    /\ None \notin Proc /\ None \notin Buf /\ None \notin Block
    /\ \A i \in Buf : LockChan(i) # None /\ DiskChan(i) # None
    /\ \A i, j \in Buf : /\ LockChan(i) # DiskChan(j)
                         /\ LockChan(i) = LockChan(j) => i = j
                         /\ DiskChan(i) = DiskChan(j) => i = j
    /\ LockChan(None) # None /\ DiskChan(None) # None
BY BufCacheConstants DEF LockChan, DiskChan

LEMMA Busy ==
    ASSUME TypeOK, Places, NEW p \in Proc, pc[p] # "idle"
    PROVE  at[p] \in Buf
BY Types DEF Places

\* Users of a buffer are counted.
LEMMA Counts ==
    ASSUME TypeOK, CountsExact, NEW i \in Buf
    PROVE  /\ IsFiniteSet(Users(i)) /\ Cardinality(Users(i)) \in Nat
           /\ buf[i].refcnt = Cardinality(Users(i))
           /\ buf[i].refcnt = 0 <=> Users(i) = {}
<1>1. IsFiniteSet(Users(i))
  BY BufCacheConstants, FS_Subset DEF Users
<1>2. buf[i].refcnt = Cardinality(Users(i))
  BY DEF CountsExact, Users
<1> QED
  BY <1>1, <1>2, FS_CardinalityType, FS_EmptySet

\* No buffer counts more than the processes there are.
LEMMA CountsFit ==
    ASSUME NEW i
    PROVE  /\ IsFiniteSet(Users(i)) /\ Cardinality(Users(i)) \in Nat
           /\ Cardinality(Users(i)) \in 0..Cardinality(Proc)
           /\ IsFiniteSet(Users(i)') /\ Cardinality(Users(i)') \in Nat
           /\ Cardinality(Users(i)') \in 0..Cardinality(Proc)
<1>1. Users(i) \in SUBSET Proc /\ Users(i)' \in SUBSET Proc
  BY DEF Users
<1>2. /\ IsFiniteSet(Users(i)) /\ Cardinality(Users(i)) <= Cardinality(Proc)
      /\ IsFiniteSet(Users(i)') /\ Cardinality(Users(i)') <= Cardinality(Proc)
  BY <1>1, BufCacheConstants, FS_Subset
<1>3. /\ Cardinality(Proc) \in Nat
      /\ Cardinality(Users(i)) \in Nat /\ Cardinality(Users(i)') \in Nat
  BY <1>2, BufCacheConstants, FS_CardinalityType
<1> QED
  BY <1>2, <1>3

\* A process more at the buffer i is one more of its users.
LEMMA CountsJoin ==
    ASSUME at \in [Proc -> Buf \cup {None}], NEW p \in Proc, NEW i \in Buf, at[p] = None,
           at' = [at EXCEPT ![p] = i]
    PROVE  /\ Cardinality(Users(i)') = Cardinality(Users(i)) + 1
           /\ \A j \in Buf \ {i} : Users(j)' = Users(j)
<1>1. Users(i)' = Users(i) \cup {p} /\ p \notin Users(i)
  BY Names DEF Users
<1>2. Cardinality(Users(i) \cup {p}) = Cardinality(Users(i)) + 1
  BY <1>1, CountsFit, FS_AddElement
<1>3. \A j \in Buf \ {i} : Users(j)' = Users(j)
  BY Names DEF Users
<1> QED
  BY <1>1, <1>2, <1>3

\* And one that leaves it is one less.
LEMMA CountsLeave ==
    ASSUME at \in [Proc -> Buf \cup {None}], NEW p \in Proc, NEW i \in Buf, at[p] = i,
           at' = [at EXCEPT ![p] = None]
    PROVE  /\ Cardinality(Users(i)') = Cardinality(Users(i)) - 1
           /\ \A j \in Buf \ {i} : Users(j)' = Users(j)
<1>1. Users(i)' = Users(i) \ {p} /\ p \in Users(i)
  BY Names DEF Users
<1>2. Cardinality(Users(i) \ {p}) = Cardinality(Users(i)) - 1
  BY <1>1, CountsFit, FS_RemoveElement
<1>3. \A j \in Buf \ {i} : Users(j)' = Users(j)
  BY Names DEF Users
<1> QED
  BY <1>1, <1>2, <1>3

\* A buffer whose lock is held has one holder.
LEMMA Holding ==
    ASSUME TypeOK, Places, Locks, NEW p \in Proc, NEW q \in Proc,
           pc[p] \in InIde \cup {"has"}, pc[q] \in InIde \cup {"has"}, at[p] = at[q]
    PROVE  p = q
BY DEF Places

\* Who sleeps does so at one of two places.
LEMMA Sleeping ==
    ASSUME TypeOK, Places, NEW p \in Proc
    PROVE  \/ chan[p] = None
           \/ pc[p] = "bget" /\ chan[p] = LockChan(at[p])
           \/ pc[p] = "wait" /\ chan[p] = DiskChan(at[p])
BY DEF TypeOK, Asleep, Places

\* Requests in the queue are at processes that wait.
LEMMA Queued ==
    ASSUME TypeOK, Places, Locks, QueueSound, NEW p \in Proc, pc[p] # "idle",
           pc[p] \in {"iderw", "has"}
    PROVE  at[p] \notin Range(idequeue)
BY Busy DEF Places, QueueSound, InIde

-----------------------------------------------------------------------------
(* A panic, and a step that changes nothing *)

Message == {"none", "bget: no buffers", "iderw: nothing to do", "brelse"}

LEMMA PanicStep ==
    ASSUME IInv, UNCHANGED <<buf, bcache, idequeue, disk, pc, at, chan>>, panic' \in Message
    PROVE  IInv'
<1>1. UNCHANGED <<buf, bcache, idequeue, disk, pc, at, chan>> /\ panic' \in Message
  OBVIOUS
<1>2. /\ TypeOK /\ Places /\ Locks /\ Named /\ CountsExact /\ Filled
      /\ Requests /\ QueueSound /\ NoLostWakeup /\ Clean /\ AtDisk
  BY DEF IInv
<1>3. TypeOK'
  BY <1>1, <1>2 DEF TypeOK, Asleep, Message
<1>4. Places' /\ Locks' /\ Named'
  BY <1>1, <1>2 DEF Places, Locks, Named
<1>5. CountsExact' /\ Filled'
  BY <1>1, <1>2 DEF CountsExact, Filled
<1>6. Requests' /\ QueueSound'
  BY <1>1, <1>2 DEF Requests, Ready, QueueSound
<1>7. NoLostWakeup' /\ Clean' /\ AtDisk'
  BY <1>1, <1>2 DEF NoLostWakeup, Clean, Ready, AtDisk
<1> QED
  BY <1>3, <1>4, <1>5, <1>6, <1>7 DEF IInv

-----------------------------------------------------------------------------
(* bget *)

\* bget finds the block.
LEMMA BgetHitStep ==
    ASSUME IInv, NEW p \in Proc, NEW i \in Buf, pc[p] = "idle", chan[p] = None,
           buf[i].blockno # None,
           buf' = [buf EXCEPT ![i].refcnt = @ + 1],
           at' = [at EXCEPT ![p] = i], pc' = [pc EXCEPT ![p] = "bget"],
           UNCHANGED <<bcache, idequeue, disk, chan, panic>>
    PROVE  IInv'
<1>1. /\ TypeOK /\ Places /\ Locks /\ Named /\ CountsExact /\ Filled
      /\ Requests /\ QueueSound /\ NoLostWakeup /\ Clean /\ AtDisk
  BY DEF IInv
<1>2. /\ pc \in [Proc -> {"idle", "bget", "iderw", "wait", "has", "brelse"}]
      /\ at \in [Proc -> Buf \cup {None}] /\ at[p] = None
      /\ buf \in [Buf -> Status] /\ idequeue \in Seq(Buf)
      /\ \A j \in Buf : buf[j].refcnt \in Nat /\ buf[j].locked \in Proc \cup {None}
  BY <1>1, Types DEF Places
<1>3. /\ \A q \in Proc : at'[q] = IF q = p THEN i ELSE at[q]
      /\ \A q \in Proc : pc'[q] = IF q = p THEN "bget" ELSE pc[q]
  BY <1>2
<1>4. \A j \in Buf :
         /\ buf'[j].blockno = buf[j].blockno /\ buf'[j].valid = buf[j].valid
         /\ buf'[j].dirty = buf[j].dirty /\ buf'[j].locked = buf[j].locked
         /\ buf'[j].data = buf[j].data
         /\ buf'[j].refcnt = IF j = i THEN buf[j].refcnt + 1 ELSE buf[j].refcnt
  <2>1. ASSUME NEW j \in Buf
        PROVE  /\ buf'[j].blockno = buf[j].blockno /\ buf'[j].valid = buf[j].valid
               /\ buf'[j].dirty = buf[j].dirty /\ buf'[j].locked = buf[j].locked
               /\ buf'[j].data = buf[j].data
               /\ buf'[j].refcnt = IF j = i THEN buf[j].refcnt + 1 ELSE buf[j].refcnt
    <3>1. buf[j] \in Status /\ buf'[j] = IF j = i THEN [buf[i] EXCEPT !.refcnt = @ + 1] ELSE buf[j]
      BY <1>2
    <3> QED
      BY <3>1 DEF Status
  <2> QED
    BY <2>1
<1>5. \A j \in Buf : buf'[j].refcnt = Cardinality(Users(j)')
  <2>1. \A j \in Buf : buf[j].refcnt = Cardinality(Users(j))
    BY <1>1, Counts
  <2>2. /\ Cardinality(Users(i)') = Cardinality(Users(i)) + 1
        /\ \A j \in Buf \ {i} : Users(j)' = Users(j)
    BY <1>2, CountsJoin
  <2> QED
    BY <1>4, <2>1, <2>2
<1>6. TypeOK'
  <2>1. buf'[i].refcnt \in 0..Cardinality(Proc)
    BY <1>5, CountsFit
  <2>2. buf[i].refcnt + 1 \in 0..Cardinality(Proc)
    BY <1>4, <2>1
  <2>3. [buf[i] EXCEPT !.refcnt = @ + 1] \in Status
    BY <1>2, <2>2 DEF Status
  <2>4. buf' \in [Buf -> Status]
    BY <1>2, <2>3
  <2>5. \A q \in Proc : Asleep(q)' => chan'[q] \in {LockChan(at'[q]), DiskChan(at'[q])}
    BY <1>1, <1>3 DEF TypeOK, Asleep
  <2> QED
    BY <1>1, <1>2, <2>4, <2>5 DEF TypeOK, Status
<1>7. Places'
  BY <1>1, <1>2, <1>3, <1>4, Busy, Names DEF Places, InIde
<1>8. Locks'
  BY <1>1, <1>2, <1>3, <1>4 DEF Locks, InIde
<1>9. Named' /\ Filled'
  BY <1>1, <1>4 DEF Named, Filled
<1>10. Requests'
  BY <1>1, <1>2, <1>3, <1>4, Busy DEF Requests, Ready
<1>11. QueueSound'
  BY <1>1, <1>2, <1>3, <1>4 DEF QueueSound, Range
<1>12. NoLostWakeup'
  BY <1>1, <1>2, <1>3, <1>4, Names, Sleeping, Busy DEF NoLostWakeup
<1>13. Clean' /\ AtDisk'
  BY <1>1, <1>2, <1>4 DEF Clean, Ready, AtDisk
<1>14. CountsExact'
  BY <1>5 DEF CountsExact, Users
<1> QED
  BY <1>14, <1>6, <1>7, <1>8, <1>9, <1>10, <1>11, <1>12, <1>13 DEF IInv

\* bget recycles the least recently used buffer.
LEMMA BgetRecycleStep ==
    ASSUME IInv, NEW p \in Proc, NEW i \in Buf, NEW b \in Block, pc[p] = "idle", chan[p] = None,
           Cached(b) = {}, buf[i].refcnt = 0, ~buf[i].dirty,
           buf' = [buf EXCEPT ![i] = [@ EXCEPT !.blockno = b, !.valid = FALSE,
                                               !.dirty = FALSE, !.refcnt = 1]],
           at' = [at EXCEPT ![p] = i], pc' = [pc EXCEPT ![p] = "bget"],
           UNCHANGED <<bcache, idequeue, disk, chan, panic>>
    PROVE  IInv'
<1>1. /\ TypeOK /\ Places /\ Locks /\ Named /\ CountsExact /\ Filled
      /\ Requests /\ QueueSound /\ NoLostWakeup /\ Clean /\ AtDisk
  BY DEF IInv
<1>2. /\ pc \in [Proc -> {"idle", "bget", "iderw", "wait", "has", "brelse"}]
      /\ at \in [Proc -> Buf \cup {None}] /\ at[p] = None
      /\ buf \in [Buf -> Status] /\ idequeue \in Seq(Buf)
      /\ \A j \in Buf : buf[j].refcnt \in Nat /\ buf[j].locked \in Proc \cup {None}
  BY <1>1, Types DEF Places
<1>3. /\ \A q \in Proc : at'[q] = IF q = p THEN i ELSE at[q]
      /\ \A q \in Proc : pc'[q] = IF q = p THEN "bget" ELSE pc[q]
  BY <1>2
<1>4. /\ \A j \in Buf \ {i} : buf'[j] = buf[j]
      /\ buf'[i].blockno = b /\ ~buf'[i].valid /\ ~buf'[i].dirty /\ buf'[i].refcnt = 1
      /\ buf'[i].locked = buf[i].locked
  <2>1. buf[i] \in Status
    BY <1>2
  <2> QED
    BY <1>2, <2>1 DEF Status
<1>5. /\ Users(i) = {} /\ (\A q \in Proc : at[q] # i)
      /\ buf[i].locked = None /\ i \notin Range(idequeue)
  <2>1. Users(i) = {}
    BY <1>1, Counts
  <2>2. \A q \in Proc : at[q] # i
    BY <2>1 DEF Users
  <2>3. buf[i].locked = None
    BY <1>1, <1>2, <2>2 DEF Locks
  <2> QED
    BY <1>1, <2>1, <2>2, <2>3 DEF QueueSound
<1>6. \A j \in Buf : buf[j].blockno # b
  BY DEF Cached
<1>7. \A j \in Buf : buf'[j].refcnt = Cardinality(Users(j)')
  <2>1. \A j \in Buf : buf[j].refcnt = Cardinality(Users(j))
    BY <1>1, Counts
  <2>2. /\ Cardinality(Users(i)') = Cardinality(Users(i)) + 1
        /\ \A j \in Buf \ {i} : Users(j)' = Users(j)
    BY <1>2, CountsJoin
  <2>3. buf'[i].refcnt = Cardinality(Users(i)')
    BY <1>4, <1>5, <2>2, FS_EmptySet
  <2>4. \A j \in Buf \ {i} : buf'[j].refcnt = buf[j].refcnt
    BY <1>4
  <2> QED
    BY <2>1, <2>2, <2>3, <2>4
<1>8. TypeOK'
  <2>1. 1 \in 0..Cardinality(Proc)
    BY <1>4, <1>7, CountsFit
  <2>2. [buf[i] EXCEPT !.blockno = b, !.valid = FALSE, !.dirty = FALSE, !.refcnt = 1] \in Status
    <3>1. buf[i] \in Status /\ b \in Block
      BY <1>2
    <3> QED
      BY <2>1, <3>1 DEF Status
  <2>3. buf' \in [Buf -> Status]
    BY <1>2, <2>2
  <2>4. \A q \in Proc : Asleep(q)' => chan'[q] \in {LockChan(at'[q]), DiskChan(at'[q])}
    BY <1>1, <1>3 DEF TypeOK, Asleep
  <2> QED
    BY <1>1, <1>2, <2>3, <2>4 DEF TypeOK, Status
<1>9. Places'
  BY <1>1, <1>2, <1>3, <1>4, <1>5, Busy, Names DEF Places, InIde
<1>10. Locks'
  BY <1>1, <1>2, <1>3, <1>4, <1>5 DEF Locks, InIde
<1>11. Named' /\ Filled'
  BY <1>1, <1>4, <1>6, Names DEF Named, Filled
<1>12. Requests'
  BY <1>1, <1>2, <1>3, <1>4, <1>5, Busy DEF Requests, Ready
<1>13. QueueSound'
  BY <1>1, <1>2, <1>3, <1>4, <1>5 DEF QueueSound, Range
<1>14. NoLostWakeup'
  BY <1>1, <1>2, <1>3, <1>4, <1>5, Names, Sleeping, Busy DEF NoLostWakeup
<1>15. Clean'
  BY <1>1, <1>2, <1>4 DEF Clean, Ready
<1>16. AtDisk'
  BY <1>1, <1>2, <1>4 DEF AtDisk
<1>17. CountsExact'
  BY <1>7 DEF CountsExact, Users
<1> QED
  BY <1>8, <1>9, <1>10, <1>11, <1>12, <1>13, <1>14, <1>15, <1>16, <1>17 DEF IInv

-----------------------------------------------------------------------------
(* The sleep lock of a buffer *)

\* acquiresleep of a lock that is taken.
LEMMA AcquireWaits ==
    ASSUME IInv, NEW p \in Proc, pc[p] = "bget", buf[at[p]].locked # None,
           chan' = [chan EXCEPT ![p] = LockChan(at[p])],
           UNCHANGED <<buf, bcache, idequeue, disk, pc, at, panic>>
    PROVE  IInv'
<1>1. /\ TypeOK /\ Places /\ Locks /\ Named /\ CountsExact /\ Filled
      /\ Requests /\ QueueSound /\ NoLostWakeup /\ Clean /\ AtDisk
  BY DEF IInv
<1>2. /\ chan \in [Proc -> {None} \cup ({"lock", "disk"} \X Buf)] /\ at[p] \in Buf
  BY <1>1, Types, Busy
<1>3. \A q \in Proc : chan'[q] = IF q = p THEN LockChan(at[p]) ELSE chan[q]
  BY <1>2
<1>4. TypeOK'
  <2>1. chan' \in [Proc -> {None} \cup ({"lock", "disk"} \X Buf)]
    BY <1>2 DEF LockChan
  <2>2. \A q \in Proc : Asleep(q)' => chan'[q] \in {LockChan(at'[q]), DiskChan(at'[q])}
    BY <1>1, <1>3 DEF TypeOK, Asleep
  <2> QED
    BY <1>1, <2>1, <2>2 DEF TypeOK
<1>5. Places'
  BY <1>1, <1>2, <1>3, Names DEF Places
<1>6. Locks' /\ Named' /\ CountsExact'
  BY <1>1 DEF Locks, Named, CountsExact
<1>7. Filled' /\ Requests' /\ QueueSound'
  BY <1>1 DEF Filled, Requests, Ready, QueueSound
<1>8. NoLostWakeup'
  BY <1>1, <1>2, <1>3, Names DEF NoLostWakeup
<1>9. Clean' /\ AtDisk'
  BY <1>1 DEF Clean, Ready, AtDisk
<1> QED
  BY <1>4, <1>5, <1>6, <1>7, <1>8, <1>9 DEF IInv

\* The holder of i is x now, and nothing else of a buffer has changed.
LockSet(i, x) ==
    /\ buf' \in [Buf -> Status]
    /\ \A j \in Buf :
         /\ buf'[j].blockno = buf[j].blockno /\ buf'[j].valid = buf[j].valid
         /\ buf'[j].dirty = buf[j].dirty /\ buf'[j].refcnt = buf[j].refcnt
         /\ buf'[j].data = buf[j].data
         /\ buf'[j].locked = IF j = i THEN x ELSE buf[j].locked

LEMMA LockChanges ==
    ASSUME TypeOK, NEW i \in Buf, NEW x \in Proc \cup {None},
           buf' = [buf EXCEPT ![i].locked = x]
    PROVE  LockSet(i, x)
<1>1. buf \in [Buf -> Status]
  BY Types
<1>2. [buf[i] EXCEPT !.locked = x] \in Status
  BY <1>1 DEF Status
<1>3. buf' \in [Buf -> Status]
  BY <1>1, <1>2
<1>4. ASSUME NEW j \in Buf
      PROVE  /\ buf'[j].blockno = buf[j].blockno /\ buf'[j].valid = buf[j].valid
             /\ buf'[j].dirty = buf[j].dirty /\ buf'[j].refcnt = buf[j].refcnt
             /\ buf'[j].data = buf[j].data
             /\ buf'[j].locked = IF j = i THEN x ELSE buf[j].locked
  <2>1. buf[j] \in Status /\ buf'[j] = IF j = i THEN [buf[i] EXCEPT !.locked = x] ELSE buf[j]
    BY <1>1
  <2> QED
    BY <2>1 DEF Status
<1> QED
  BY <1>3, <1>4 DEF LockSet

\* acquiresleep of a lock that is free.
LEMMA AcquireTakes ==
    ASSUME IInv, NEW p \in Proc, pc[p] = "bget", chan[p] = None, buf[at[p]].locked = None,
           buf' = [buf EXCEPT ![at[p]].locked = p],
           pc' = [pc EXCEPT ![p] = IF buf[at[p]].valid THEN "has" ELSE "iderw"],
           UNCHANGED <<bcache, idequeue, disk, chan, at, panic>>
    PROVE  IInv'
<1>1. /\ TypeOK /\ Places /\ Locks /\ Named /\ CountsExact /\ Filled
      /\ Requests /\ QueueSound /\ NoLostWakeup /\ Clean /\ AtDisk
  BY DEF IInv
<1> DEFINE i == at[p]
<1>2. /\ pc \in [Proc -> {"idle", "bget", "iderw", "wait", "has", "brelse"}]
      /\ at \in [Proc -> Buf \cup {None}] /\ i \in Buf /\ idequeue \in Seq(Buf)
      /\ \A j \in Buf : buf[j].locked \in Proc \cup {None}
  BY <1>1, Types, Busy
<1>3. /\ buf' \in [Buf -> Status]
      /\ \A j \in Buf :
           /\ buf'[j].blockno = buf[j].blockno /\ buf'[j].valid = buf[j].valid
           /\ buf'[j].dirty = buf[j].dirty /\ buf'[j].refcnt = buf[j].refcnt
           /\ buf'[j].data = buf[j].data
           /\ buf'[j].locked = IF j = i THEN p ELSE buf[j].locked
  <2>1. LockSet(i, p)
    BY <1>1, <1>2, LockChanges
  <2> QED
    BY <2>1 DEF LockSet
<1>4. \A q \in Proc : pc'[q] = IF q = p THEN IF buf[i].valid THEN "has" ELSE "iderw" ELSE pc[q]
  BY <1>2
<1> HIDE DEF i
<1>5. TypeOK'
  <2>1. pc' \in [Proc -> {"idle", "bget", "iderw", "wait", "has", "brelse"}]
    BY <1>2
  <2> QED
    BY <1>1, <1>3, <2>1 DEF TypeOK, Status, Asleep
<1>6. Places'
  BY <1>1, <1>2, <1>3, <1>4, Names DEF Places, InIde, i
<1>7. Locks'
  BY <1>1, <1>2, <1>3, <1>4, Names DEF Locks, InIde, i
<1>8. Named' /\ CountsExact'
  BY <1>1, <1>3 DEF Named, CountsExact
<1>9. Filled'
  BY <1>1, <1>3 DEF Filled
<1>10. Requests'
  BY <1>1, <1>2, <1>3, <1>4, Busy DEF Requests, Ready, i
<1>11. QueueSound'
  BY <1>1, <1>2, <1>3, <1>4 DEF QueueSound, Range, i
<1>12. NoLostWakeup'
  BY <1>1, <1>2, <1>3, Names, Sleeping, Busy DEF NoLostWakeup
<1>13. Clean' /\ AtDisk'
  BY <1>1, <1>2, <1>3 DEF Clean, Ready, AtDisk
<1> QED
  BY <1>5, <1>6, <1>7, <1>8, <1>9, <1>10, <1>11, <1>12, <1>13 DEF IInv

\* releasesleep.
LEMMA ReleaseStep ==
    ASSUME IInv, NEW p \in Proc, pc[p] = "has", chan[p] = None,
           buf' = [buf EXCEPT ![at[p]].locked = None],
           Wakeup(LockChan(at[p])), pc' = [pc EXCEPT ![p] = "brelse"],
           UNCHANGED <<bcache, idequeue, disk, at, panic>>
    PROVE  IInv'
<1>1. /\ TypeOK /\ Places /\ Locks /\ Named /\ CountsExact /\ Filled
      /\ Requests /\ QueueSound /\ NoLostWakeup /\ Clean /\ AtDisk
  BY DEF IInv
<1> DEFINE i == at[p]
<1>2. /\ pc \in [Proc -> {"idle", "bget", "iderw", "wait", "has", "brelse"}]
      /\ at \in [Proc -> Buf \cup {None}] /\ i \in Buf /\ idequeue \in Seq(Buf)
      /\ chan \in [Proc -> {None} \cup ({"lock", "disk"} \X Buf)]
      /\ \A j \in Buf : buf[j].locked \in Proc \cup {None}
  BY <1>1, Types, Busy
<1>3. /\ buf' \in [Buf -> Status]
      /\ \A j \in Buf :
           /\ buf'[j].blockno = buf[j].blockno /\ buf'[j].valid = buf[j].valid
           /\ buf'[j].dirty = buf[j].dirty /\ buf'[j].refcnt = buf[j].refcnt
           /\ buf'[j].data = buf[j].data
           /\ buf'[j].locked = IF j = i THEN None ELSE buf[j].locked
  <2>1. LockSet(i, None)
    BY <1>1, <1>2, LockChanges
  <2> QED
    BY <2>1 DEF LockSet
<1>4. /\ \A q \in Proc : pc'[q] = IF q = p THEN "brelse" ELSE pc[q]
      /\ \A q \in Proc : chan'[q] = IF chan[q] = LockChan(i) THEN None ELSE chan[q]
      /\ chan' \in [Proc -> {None} \cup ({"lock", "disk"} \X Buf)]
  BY <1>2 DEF Wakeup
<1>5. buf[i].locked = p
  BY <1>1 DEF Places
<1> HIDE DEF i
<1>6. TypeOK'
  <2>1. pc' \in [Proc -> {"idle", "bget", "iderw", "wait", "has", "brelse"}]
    BY <1>2
  <2>2. \A q \in Proc : Asleep(q)' => chan'[q] \in {LockChan(at'[q]), DiskChan(at'[q])}
    BY <1>1, <1>4 DEF TypeOK, Asleep
  <2> QED
    BY <1>1, <1>3, <1>4, <2>1, <2>2 DEF TypeOK, Status
<1>7. Places'
  BY <1>1, <1>2, <1>3, <1>4, <1>5, Names, Sleeping, Busy DEF Places, InIde, i
<1>8. Locks'
  BY <1>1, <1>2, <1>3, <1>4, <1>5, Names DEF Locks, InIde, i
<1>9. Named' /\ CountsExact'
  BY <1>1, <1>3 DEF Named, CountsExact
<1>10. Filled'
  BY <1>1, <1>3 DEF Filled
<1>11. Requests'
  BY <1>1, <1>2, <1>3, <1>4, Busy DEF Requests, Ready, i
<1>12. QueueSound'
  BY <1>1, <1>2, <1>3, <1>4, <1>5 DEF QueueSound, Range, i
<1>13. NoLostWakeup'
  BY <1>1, <1>2, <1>3, <1>4, Names, Sleeping, Busy DEF NoLostWakeup
<1>14. Clean' /\ AtDisk'
  BY <1>1, <1>2, <1>3 DEF Clean, Ready, AtDisk
<1> QED
  BY <1>6, <1>7, <1>8, <1>9, <1>10, <1>11, <1>12, <1>13, <1>14 DEF IInv

-----------------------------------------------------------------------------
(* The queue of requests and the disk *)

LEMMA AppendQueue ==
    ASSUME NEW q \in Seq(Buf), IsInjective(q), NEW i \in Buf, i \notin Range(q)
    PROVE  /\ Append(q, i) \in Seq(Buf) /\ IsInjective(Append(q, i))
           /\ Range(Append(q, i)) = Range(q) \cup {i}
           /\ Append(q, i) # << >>
           /\ Head(Append(q, i)) = IF q = << >> THEN i ELSE Head(q)
<1>1. /\ DOMAIN q = 1..Len(q) /\ Len(q) \in Nat
      /\ DOMAIN Append(q, i) = 1..Len(q) + 1
      /\ \A k \in 1..Len(q) : Append(q, i)[k] = q[k]
      /\ Append(q, i)[Len(q) + 1] = i
  OBVIOUS
<1>2. \A k \in 1..Len(q) : q[k] # i
  BY <1>1 DEF Range
<1>3. IsInjective(Append(q, i))
  BY <1>1, <1>2 DEF IsInjective
<1>4. Range(Append(q, i)) = Range(q) \cup {i}
  <2>1. Range(Append(q, i)) \subseteq Range(q) \cup {i}
    BY <1>1 DEF Range
  <2>2. Range(q) \subseteq Range(Append(q, i))
    BY <1>1 DEF Range
  <2>3. Len(q) + 1 \in 1..Len(q) + 1
    BY <1>1
  <2>4. i \in Range(Append(q, i))
    BY <1>1, <2>3 DEF Range
  <2> QED
    BY <2>1, <2>2, <2>4
<1>5. Head(Append(q, i)) = IF q = << >> THEN i ELSE Head(q)
  OBVIOUS
<1>6. Append(q, i) \in Seq(Buf) /\ Append(q, i) # << >>
  <2>1. Append(q, i) \in Seq(Buf) /\ Len(Append(q, i)) = Len(q) + 1
    OBVIOUS
  <2>2. Len(<< >>) = 0 /\ Len(q) \in Nat
    OBVIOUS
  <2>3. Len(Append(q, i)) # Len(<< >>)
    BY <2>1, <2>2
  <2> QED
    BY <2>1, <2>3
<1> QED
  BY <1>3, <1>4, <1>5, <1>6

LEMMA TailQueue ==
    ASSUME NEW q \in Seq(Buf), IsInjective(q), q # << >>
    PROVE  /\ Tail(q) \in Seq(Buf) /\ IsInjective(Tail(q))
           /\ Range(Tail(q)) = Range(q) \ {Head(q)}
           /\ Head(q) \in Range(q) /\ Head(q) \in Buf
<1>1. /\ DOMAIN q = 1..Len(q) /\ Len(q) \in Nat \ {0}
      /\ Tail(q) \in Seq(Buf) /\ DOMAIN Tail(q) = 1..Len(q) - 1
      /\ \A k \in 1..Len(q) - 1 : Tail(q)[k] = q[k + 1]
      /\ Head(q) = q[1] /\ 1 \in 1..Len(q) /\ q[1] \in Buf
  OBVIOUS
<1>2. \A k, l \in 1..Len(q) : q[k] = q[l] => k = l
  BY <1>1 DEF IsInjective
<1>3. IsInjective(Tail(q))
  BY <1>1, <1>2 DEF IsInjective
<1>4. Head(q) \in Range(q)
  BY <1>1 DEF Range
<1>5. Range(Tail(q)) \subseteq Range(q) \ {Head(q)}
  BY <1>1, <1>2 DEF Range
<1>6. ASSUME NEW x \in Range(q), x # Head(q)
      PROVE  x \in Range(Tail(q))
  <2>1. PICK k \in 1..Len(q) : q[k] = x
    BY <1>1 DEF Range
  <2>2. k - 1 \in 1..Len(q) - 1 /\ Tail(q)[k - 1] = x
    BY <1>1, <1>6, <2>1
  <2> QED
    BY <1>1, <2>2 DEF Range
<1> QED
  BY <1>1, <1>3, <1>4, <1>5, <1>6

\* What idestart does to the disk.
LEMMA StartedDisk ==
    ASSUME TypeOK, Filled, NEW q \in Seq(Buf)
    PROVE  /\ Started(q, disk) \in [Block -> Data]
           /\ q # << >> /\ buf[Head(q)].dirty =>
                Started(q, disk)[buf[Head(q)].blockno] = buf[Head(q)].data
           /\ \A b \in Block :
                (q # << >> /\ buf[Head(q)].dirty => b # buf[Head(q)].blockno) =>
                   Started(q, disk)[b] = disk[b]
<1>1. disk \in [Block -> Data]
  BY Types
<1>2. CASE q = << >> \/ ~buf[Head(q)].dirty
  BY <1>1, <1>2 DEF Started
<1>3. CASE q # << >> /\ buf[Head(q)].dirty
  <2>1. Head(q) \in Buf
    BY <1>3
  <2>2. buf[Head(q)].blockno \in Block /\ buf[Head(q)].data \in Data
    BY <1>3, <2>1, Types DEF Filled
  <2>3. Started(q, disk) = [disk EXCEPT ![buf[Head(q)].blockno] = buf[Head(q)].data]
    BY <1>3 DEF Started
  <2> QED
    BY <1>1, <1>3, <2>2, <2>3
<1> QED
  BY <1>2, <1>3

\* It leaves alone what is clean.
LEMMA StartedClean ==
    ASSUME TypeOK, Named, Filled, NEW q \in Seq(Buf), NEW i \in Buf, Ready(i)
    PROVE  Started(q, disk)[buf[i].blockno] = disk[buf[i].blockno]
<1>1. buf[i].blockno \in Block
  BY Types DEF Filled, Ready
<1>2. q # << >> /\ buf[Head(q)].dirty => buf[i].blockno # buf[Head(q)].blockno
  <2>1. q # << >> => Head(q) \in Buf
    OBVIOUS
  <2> QED
    BY <1>1, <2>1, Names DEF Named, Filled, Ready
<1> QED
  BY <1>1, <1>2, StartedDisk

\* iderw puts the request into the queue and sleeps.
LEMMA IdeRwStep ==
    ASSUME IInv, NEW p \in Proc, pc[p] = "iderw", ~Ready(at[p]),
           idequeue' = Append(idequeue, at[p]),
           disk' = IF idequeue = << >> THEN Started(idequeue', disk) ELSE disk,
           chan' = [chan EXCEPT ![p] = DiskChan(at[p])],
           pc' = [pc EXCEPT ![p] = "wait"],
           UNCHANGED <<buf, bcache, at, panic>>
    PROVE  IInv'
<1>1. /\ TypeOK /\ Places /\ Locks /\ Named /\ CountsExact /\ Filled
      /\ Requests /\ QueueSound /\ NoLostWakeup /\ Clean /\ AtDisk
  BY DEF IInv
<1> DEFINE i == at[p]
<1>2. /\ pc \in [Proc -> {"idle", "bget", "iderw", "wait", "has", "brelse"}]
      /\ i \in Buf /\ idequeue \in Seq(Buf) /\ disk \in [Block -> Data]
      /\ chan \in [Proc -> {None} \cup ({"lock", "disk"} \X Buf)]
      /\ at \in [Proc -> Buf \cup {None}]
  BY <1>1, Types, Busy
<1>3. /\ \A q \in Proc : pc'[q] = IF q = p THEN "wait" ELSE pc[q]
      /\ \A q \in Proc : chan'[q] = IF q = p THEN DiskChan(i) ELSE chan[q]
      /\ chan' \in [Proc -> {None} \cup ({"lock", "disk"} \X Buf)]
  BY <1>2 DEF DiskChan
<1>4. buf[i].locked = p
  BY <1>1 DEF Places, InIde
<1>5. /\ idequeue' \in Seq(Buf) /\ IsInjective(idequeue')
      /\ Range(idequeue') = Range(idequeue) \cup {i} /\ idequeue' # << >>
      /\ Head(idequeue') = IF idequeue = << >> THEN i ELSE Head(idequeue)
  <2>1. i \notin Range(idequeue) /\ IsInjective(idequeue)
    BY <1>1, Queued DEF QueueSound
  <2> QED
    BY <1>2, <2>1, AppendQueue
<1> HIDE DEF i
<1>6. /\ disk' \in [Block -> Data]
      /\ \A j \in Buf : Ready(j) => disk'[buf[j].blockno] = disk[buf[j].blockno]
      /\ buf[Head(idequeue')].dirty =>
           disk'[buf[Head(idequeue')].blockno] = buf[Head(idequeue')].data
  <2>1. CASE idequeue = << >>
    <3>1. disk' = Started(idequeue', disk)
      BY <2>1
    <3>2. disk' \in [Block -> Data]
      BY <1>1, <1>5, <3>1, StartedDisk
    <3>3. ASSUME NEW j \in Buf, Ready(j)
          PROVE  disk'[buf[j].blockno] = disk[buf[j].blockno]
      <4>1. \A q \in Seq(Buf) : Started(q, disk)[buf[j].blockno] = disk[buf[j].blockno]
        BY <1>1, <3>3, StartedClean
      <4>2. Started(idequeue', disk)[buf[j].blockno] = disk[buf[j].blockno]
        BY <1>5, <4>1, Zenon
      <4> QED
        BY <3>1, <4>2, Zenon
    <3>4. buf[Head(idequeue')].dirty =>
            disk'[buf[Head(idequeue')].blockno] = buf[Head(idequeue')].data
      BY <1>1, <1>5, <3>1, StartedDisk
    <3> QED
      BY <3>2, <3>3, <3>4
  <2>2. CASE idequeue # << >>
    BY <1>1, <1>2, <1>5, <2>2 DEF AtDisk
  <2> QED
    BY <2>1, <2>2
<1>7. TypeOK'
  <2>1. pc' \in [Proc -> {"idle", "bget", "iderw", "wait", "has", "brelse"}]
    BY <1>2
  <2>2. \A q \in Proc : Asleep(q)' => chan'[q] \in {LockChan(at'[q]), DiskChan(at'[q])}
    BY <1>1, <1>3 DEF TypeOK, Asleep, i
  <2> QED
    BY <1>1, <1>3, <1>5, <1>6, <2>1, <2>2 DEF TypeOK
<1>8. Places'
  BY <1>1, <1>2, <1>3, <1>4, Names DEF Places, InIde, i
<1>9. Locks'
  BY <1>1, <1>2, <1>3 DEF Locks, InIde
<1>10. Named' /\ CountsExact' /\ Filled'
  BY <1>1 DEF Named, CountsExact, Filled
<1>11. Requests'
  <2>1. \A q \in Proc : pc[q] \in InIde \cup {"has"} /\ at[q] = i => q = p
    BY <1>1, Holding DEF InIde, i
  <2> QED
    BY <1>1, <1>2, <1>3, <1>5, <2>1 DEF Requests, Ready, InIde, i
<1>12. QueueSound'
  BY <1>1, <1>2, <1>3, <1>4, <1>5, Names DEF QueueSound, i
<1>13. NoLostWakeup'
  BY <1>1, <1>2, <1>3, <1>5, Names DEF NoLostWakeup, i
<1>14. Clean' /\ AtDisk'
  BY <1>1, <1>6 DEF Clean, Ready, AtDisk
<1> QED
  BY <1>7, <1>8, <1>9, <1>10, <1>11, <1>12, <1>13, <1>14 DEF IInv

\* The loop of iderw.
LEMMA IdeWaitStep ==
    ASSUME IInv, NEW p \in Proc, Runs(p), IdeWait(p)
    PROVE  IInv'
<1>1. /\ TypeOK /\ Places /\ Locks /\ Named /\ CountsExact /\ Filled
      /\ Requests /\ QueueSound /\ NoLostWakeup /\ Clean /\ AtDisk
  BY DEF IInv
<1> DEFINE i == at[p]
<1>2. pc[p] = "wait" /\ UNCHANGED <<buf, bcache, idequeue, disk, at, panic>>
  BY DEF IdeWait
<1>3. /\ pc \in [Proc -> {"idle", "bget", "iderw", "wait", "has", "brelse"}]
      /\ i \in Buf /\ chan \in [Proc -> {None} \cup ({"lock", "disk"} \X Buf)]
      /\ chan[p] = None
  BY <1>1, <1>2, Types, Busy DEF Runs, Asleep
<1>4. CASE Ready(i)
  <2>1. /\ chan' = chan
        /\ pc' \in [Proc -> {"idle", "bget", "iderw", "wait", "has", "brelse"}]
        /\ \A q \in Proc : pc'[q] = IF q = p THEN "has" ELSE pc[q]
    BY <1>3, <1>4 DEF IdeWait
  <2>2. i \notin Range(idequeue)
    BY <1>1, <1>2, <1>4 DEF Requests
  <2> HIDE DEF i
  <2>3. TypeOK'
    <3>1. \A q \in Proc : Asleep(q)' => chan'[q] \in {LockChan(at'[q]), DiskChan(at'[q])}
      BY <1>1, <1>2, <2>1 DEF TypeOK, Asleep
    <3>2. chan' \in [Proc -> {None} \cup ({"lock", "disk"} \X Buf)]
      BY <1>3, <2>1
    <3> QED
      BY <1>1, <1>2, <2>1, <3>1, <3>2 DEF TypeOK
  <2>4. Places'
    BY <1>1, <1>2, <1>3, <2>1, Names DEF Places, InIde, i
  <2>9. Locks'
    BY <1>1, <1>2, <1>3, <2>1, Types DEF Locks, InIde
  <2>5. Named' /\ CountsExact' /\ Filled'
    BY <1>1, <1>2 DEF Named, CountsExact, Filled
  <2>6. Requests'
    <3>1. buf[at[p]].valid
      BY <1>4 DEF Ready, i
    <3> QED
      BY <1>1, <1>2, <2>1, <3>1 DEF Requests, Ready
  <2>7. QueueSound'
    <3>1. \A j \in Range(idequeue) : j \in Buf /\ buf[j].locked \in Proc /\ buf[j].locked # p
      <4>1. Range(idequeue) \subseteq Buf
        BY <1>1, Types DEF Range
      <4> QED
        BY <1>1, <2>2, <4>1, Types DEF QueueSound, i
    <3> QED
      BY <1>1, <1>2, <2>1, <3>1 DEF QueueSound
  <2>8. NoLostWakeup' /\ Clean' /\ AtDisk'
    BY <1>1, <1>2, <2>1 DEF NoLostWakeup, Clean, Ready, AtDisk
  <2> QED
    BY <2>3, <2>4, <2>5, <2>6, <2>7, <2>8, <2>9 DEF IInv
<1>5. CASE ~Ready(i)
  <2>1. /\ pc' = pc
        /\ chan' \in [Proc -> {None} \cup ({"lock", "disk"} \X Buf)]
        /\ \A q \in Proc : chan'[q] = IF q = p THEN DiskChan(i) ELSE chan[q]
    BY <1>3, <1>5 DEF IdeWait, DiskChan
  <2>2. i \in Range(idequeue)
    BY <1>1, <1>2, <1>5 DEF Requests
  <2> HIDE DEF i
  <2>3. TypeOK'
    <3>1. \A q \in Proc : Asleep(q)' => chan'[q] \in {LockChan(at'[q]), DiskChan(at'[q])}
      BY <1>1, <1>2, <2>1 DEF TypeOK, Asleep, i
    <3> QED
      BY <1>1, <1>2, <2>1, <3>1 DEF TypeOK
  <2>4. Places' /\ Locks'
    BY <1>1, <1>2, <1>3, <2>1, Names DEF Places, Locks, i
  <2>5. Named' /\ CountsExact' /\ Filled'
    BY <1>1, <1>2 DEF Named, CountsExact, Filled
  <2>6. Requests' /\ QueueSound'
    BY <1>1, <1>2, <2>1 DEF Requests, Ready, QueueSound
  <2>7. NoLostWakeup'
    BY <1>1, <1>2, <1>3, <2>1, <2>2, Names DEF NoLostWakeup, i
  <2>8. Clean' /\ AtDisk'
    BY <1>1, <1>2 DEF Clean, Ready, AtDisk
  <2> QED
    BY <2>3, <2>4, <2>5, <2>6, <2>7, <2>8 DEF IInv
<1> QED
  BY <1>4, <1>5

-----------------------------------------------------------------------------
(* What changes the contents of a buffer *)

\* The buffer i has the contents x, dirty or not, and nothing else is new.
DataSet(i, x, d) ==
    /\ buf' \in [Buf -> Status]
    /\ \A j \in Buf :
         /\ buf'[j].blockno = buf[j].blockno /\ buf'[j].refcnt = buf[j].refcnt
         /\ buf'[j].locked = buf[j].locked
         /\ j # i => /\ buf'[j].valid = buf[j].valid /\ buf'[j].dirty = buf[j].dirty
                     /\ buf'[j].data = buf[j].data
    /\ buf'[i].valid /\ (buf'[i].dirty <=> d) /\ buf'[i].data = x

LEMMA DataChanges ==
    ASSUME TypeOK, NEW i \in Buf, NEW x \in Data, NEW d \in BOOLEAN,
           buf' = [buf EXCEPT ![i] = [@ EXCEPT !.valid = TRUE, !.dirty = d, !.data = x]]
    PROVE  DataSet(i, x, d)
<1>1. buf \in [Buf -> Status]
  BY Types
<1>2. [buf[i] EXCEPT !.valid = TRUE, !.dirty = d, !.data = x] \in Status
  BY <1>1 DEF Status
<1>3. buf' \in [Buf -> Status]
  BY <1>1, <1>2
<1>4. ASSUME NEW j \in Buf
      PROVE  /\ buf'[j].blockno = buf[j].blockno /\ buf'[j].refcnt = buf[j].refcnt
             /\ buf'[j].locked = buf[j].locked
             /\ j # i => /\ buf'[j].valid = buf[j].valid /\ buf'[j].dirty = buf[j].dirty
                         /\ buf'[j].data = buf[j].data
  <2>1. CASE j # i
    BY <1>1, <2>1
  <2>2. CASE j = i
    <3>1. /\ buf[i] \in Status
          /\ buf'[i] = [buf[i] EXCEPT !.valid = TRUE, !.dirty = d, !.data = x]
      BY <1>1
    <3> QED
      BY <2>2, <3>1 DEF Status
  <2> QED
    BY <2>1, <2>2
<1>5. buf'[i].valid /\ (buf'[i].dirty <=> d) /\ buf'[i].data = x
  <2>1. /\ buf[i] \in Status
        /\ buf'[i] = [buf[i] EXCEPT !.valid = TRUE, !.dirty = d, !.data = x]
    BY <1>1
  <2> QED
    BY <2>1 DEF Status
<1> QED
  BY <1>3, <1>4, <1>5 DEF DataSet

\* New contents in a buffer that is valid.
LEMMA ChangedData ==
    ASSUME TypeOK, NEW i \in Buf, buf[i].valid, NEW x \in Data,
           buf' = [buf EXCEPT ![i].data = x, ![i].dirty = TRUE]
    PROVE  DataSet(i, x, TRUE)
<1>1. buf \in [Buf -> Status] /\ buf[i].valid = TRUE
  BY Types
<1>2. [buf[i] EXCEPT !.data = x, !.dirty = TRUE]
        = [buf[i] EXCEPT !.valid = TRUE, !.dirty = TRUE, !.data = x]
  BY <1>1 DEF Status
<1>3. buf' = [buf EXCEPT ![i] = [@ EXCEPT !.valid = TRUE, !.dirty = TRUE, !.data = x]]
  BY <1>1, <1>2
<1> QED
  BY <1>3, DataChanges

\* The holder of a buffer changes it, and has it written out at once or not.
LEMMA ChangeStep ==
    ASSUME IInv, NEW p \in Proc, pc[p] = "has", chan[p] = None, NEW x \in Data,
           NEW next \in {"has", "iderw"},
           DataSet(at[p], x, TRUE), pc' = [pc EXCEPT ![p] = next],
           UNCHANGED <<bcache, idequeue, disk, at, chan, panic>>
    PROVE  IInv'
<1>1. /\ TypeOK /\ Places /\ Locks /\ Named /\ CountsExact /\ Filled
      /\ Requests /\ QueueSound /\ NoLostWakeup /\ Clean /\ AtDisk
  BY DEF IInv
<1> DEFINE i == at[p]
<1>2. /\ pc \in [Proc -> {"idle", "bget", "iderw", "wait", "has", "brelse"}]
      /\ at \in [Proc -> Buf \cup {None}] /\ i \in Buf /\ idequeue \in Seq(Buf)
      /\ \A j \in Buf : buf[j].locked \in Proc \cup {None}
  BY <1>1, Types, Busy
<1>3. /\ buf' \in [Buf -> Status]
      /\ \A j \in Buf :
           /\ buf'[j].blockno = buf[j].blockno /\ buf'[j].refcnt = buf[j].refcnt
           /\ buf'[j].locked = buf[j].locked
           /\ j # i => /\ buf'[j].valid = buf[j].valid /\ buf'[j].dirty = buf[j].dirty
                       /\ buf'[j].data = buf[j].data
      /\ buf'[i].valid /\ buf'[i].dirty /\ buf'[i].data = x
  BY DEF DataSet
<1>4. \A q \in Proc : pc'[q] = IF q = p THEN next ELSE pc[q]
  BY <1>2
<1>5. i \notin Range(idequeue) /\ Range(idequeue) \subseteq Buf
  BY <1>1, <1>2, Queued DEF Range
<1>6. \A q \in Proc : pc[q] \in InIde \cup {"has"} /\ at[q] = i => q = p
  BY <1>1, Holding DEF InIde
<1>7. buf[i].valid /\ buf[i].locked = p
  BY <1>1 DEF Requests, Places
<1> HIDE DEF i
<1>8. TypeOK'
  <2>1. pc' \in [Proc -> {"idle", "bget", "iderw", "wait", "has", "brelse"}]
    BY <1>2
  <2> QED
    BY <1>1, <1>3, <2>1 DEF TypeOK, Status, Asleep
<1>9. Places'
  BY <1>1, <1>2, <1>3, <1>4, <1>7, Names, Busy DEF Places, InIde, i
<1>10. Locks'
  BY <1>1, <1>2, <1>3, <1>4, <1>7 DEF Locks, InIde, i
<1>11. Named' /\ CountsExact'
  BY <1>1, <1>3 DEF Named, CountsExact
<1>12. Filled'
  BY <1>1, <1>2, <1>3, <1>7 DEF Filled
<1>13. Requests'
  BY <1>1, <1>2, <1>3, <1>4, <1>6, Busy DEF Requests, Ready, InIde, i
<1>14. QueueSound'
  BY <1>1, <1>2, <1>3, <1>4, <1>5 DEF QueueSound, i
<1>15. NoLostWakeup'
  <2>1. \A q \in Proc : chan[q] \in {LockChan(at[q]), DiskChan(at[q])} => at[q] \in Buf
    BY <1>1, Busy DEF Places
  <2> QED
    BY <1>1, <1>2, <1>3, <2>1 DEF NoLostWakeup
<1>16. Clean'
  BY <1>1, <1>2, <1>3 DEF Clean, Ready
<1>17. AtDisk'
  <2>1. idequeue # << >> => Head(idequeue) \in Range(idequeue)
    BY <1>1, <1>2, TailQueue DEF QueueSound
  <2> QED
    BY <1>1, <1>3, <1>5, <2>1 DEF AtDisk
<1> QED
  BY <1>8, <1>9, <1>10, <1>11, <1>12, <1>13, <1>14, <1>15, <1>16, <1>17 DEF IInv

\* The disk is done with the first request.
LEMMA IdeIntrStep ==
    ASSUME IInv, IdeIntr
    PROVE  IInv'
<1>1. /\ TypeOK /\ Places /\ Locks /\ Named /\ CountsExact /\ Filled
      /\ Requests /\ QueueSound /\ NoLostWakeup /\ Clean /\ AtDisk
  BY DEF IInv
<1> DEFINE i == Head(idequeue)
           x == IF buf[i].dirty THEN buf[i].data ELSE disk[buf[i].blockno]
<1>2. /\ pc \in [Proc -> {"idle", "bget", "iderw", "wait", "has", "brelse"}]
      /\ at \in [Proc -> Buf \cup {None}] /\ idequeue \in Seq(Buf)
      /\ disk \in [Block -> Data]
      /\ chan \in [Proc -> {None} \cup ({"lock", "disk"} \X Buf)]
      /\ \A j \in Buf : /\ buf[j].locked \in Proc \cup {None} /\ buf[j].dirty \in BOOLEAN
                        /\ buf[j].blockno \in Block \cup {None}
  BY <1>1, Types
<1>3. /\ idequeue # << >> /\ idequeue' = Tail(idequeue) /\ disk' = Started(Tail(idequeue), disk)
      /\ UNCHANGED <<bcache, pc, at, panic>>
  BY DEF IdeIntr
<1>4. /\ i \in Buf /\ i \in Range(idequeue)
      /\ idequeue' \in Seq(Buf) /\ IsInjective(idequeue')
      /\ Range(idequeue') = Range(idequeue) \ {i}
      /\ Range(idequeue) \subseteq Buf
  <2>1. IsInjective(idequeue)
    BY <1>1 DEF QueueSound
  <2>2. Range(idequeue) \subseteq Buf
    BY <1>2 DEF Range
  <2> QED
    BY <1>2, <1>3, <2>1, <2>2, TailQueue
<1>5. PICK h \in Proc : buf[i].locked = h /\ at[h] = i /\ pc[h] = "wait"
  BY <1>1, <1>2, <1>4 DEF QueueSound
<1>6. buf[i].blockno \in Block
  <2>1. h \in Users(i)
    BY <1>5 DEF Users
  <2>2. buf[i].refcnt \in Nat /\ buf[i].refcnt # 0
    BY <1>1, <1>4, <2>1, Counts
  <2> QED
    BY <1>1, <1>2, <1>4, <2>2 DEF Filled
<1>7. x \in Data
  BY <1>1, <1>2, <1>4, <1>6 DEF Filled
<1>8. /\ buf' \in [Buf -> Status]
      /\ \A j \in Buf :
           /\ buf'[j].blockno = buf[j].blockno /\ buf'[j].refcnt = buf[j].refcnt
           /\ buf'[j].locked = buf[j].locked
           /\ j # i => /\ buf'[j].valid = buf[j].valid /\ buf'[j].dirty = buf[j].dirty
                       /\ buf'[j].data = buf[j].data
      /\ buf'[i].valid /\ ~buf'[i].dirty /\ buf'[i].data = x
  <2>1. buf' = [buf EXCEPT ![i] = [@ EXCEPT !.valid = TRUE, !.dirty = FALSE, !.data = x]]
    BY <1>1, <1>4 DEF IdeIntr, TypeOK
  <2> HIDE DEF x
  <2>2. DataSet(i, x, FALSE)
    BY <1>1, <1>4, <1>7, <2>1, DataChanges
  <2> QED
    BY <2>2 DEF DataSet
<1>9. /\ \A q \in Proc : chan'[q] = IF chan[q] = DiskChan(i) THEN None ELSE chan[q]
      /\ chan' \in [Proc -> {None} \cup ({"lock", "disk"} \X Buf)]
  BY <1>2 DEF IdeIntr, Wakeup
<1>10. \A q \in Proc : pc[q] \in InIde \cup {"has"} /\ at[q] = i => q = h
  BY <1>1, <1>5, Holding DEF InIde
<1>11. /\ disk' \in [Block -> Data]
       /\ disk'[buf[i].blockno] = disk[buf[i].blockno]
       /\ \A j \in Buf : Ready(j) => disk'[buf[j].blockno] = disk[buf[j].blockno]
       /\ idequeue' # << >> /\ buf[Head(idequeue')].dirty =>
            disk'[buf[Head(idequeue')].blockno] = buf[Head(idequeue')].data
       /\ idequeue' # << >> => Head(idequeue') \in Buf \ {i}
  <2> DEFINE t == Tail(idequeue)
  <2>1. t \in Seq(Buf) /\ (t # << >> => Head(t) \in Buf \ {i})
    BY <1>1, <1>2, <1>3, <1>4, TailQueue DEF QueueSound
  <2> HIDE DEF t, i
  <2>2. /\ Started(t, disk) \in [Block -> Data]
        /\ t # << >> /\ buf[Head(t)].dirty =>
             Started(t, disk)[buf[Head(t)].blockno] = buf[Head(t)].data
        /\ \A b \in Block :
             (t # << >> /\ buf[Head(t)].dirty => b # buf[Head(t)].blockno) =>
                Started(t, disk)[b] = disk[b]
    BY <1>1, <2>1, StartedDisk
  <2>3. t # << >> => buf[i].blockno # buf[Head(t)].blockno
    BY <1>1, <1>4, <1>6, <2>1, Names DEF Named
  <2>4. Started(t, disk)[buf[i].blockno] = disk[buf[i].blockno]
    BY <1>6, <2>2, <2>3
  <2>5. \A j \in Buf : Ready(j) => Started(t, disk)[buf[j].blockno] = disk[buf[j].blockno]
    <3> SUFFICES ASSUME NEW j \in Buf, Ready(j)
                 PROVE  Started(t, disk)[buf[j].blockno] = disk[buf[j].blockno]
      OBVIOUS
    <3> QED
      BY <1>1, <2>1, StartedClean
  <2>6. disk' = Started(t, disk) /\ idequeue' = t
    BY <1>3 DEF t
  <2> QED
    BY <2>1, <2>2, <2>4, <2>5, <2>6
<1> HIDE DEF i, x
<1>12. TypeOK'
  <2>1. \A q \in Proc : Asleep(q)' => chan'[q] \in {LockChan(at'[q]), DiskChan(at'[q])}
    BY <1>1, <1>3, <1>9 DEF TypeOK, Asleep
  <2> QED
    BY <1>1, <1>3, <1>4, <1>8, <1>9, <1>11, <2>1 DEF TypeOK, Status
<1>13. Places'
  BY <1>1, <1>2, <1>3, <1>8, <1>9, Names, Sleeping, Busy DEF Places, InIde
<1>14. Locks'
  BY <1>1, <1>3, <1>8 DEF Locks
<1>21. Named'
  BY <1>1, <1>8 DEF Named
<1>22. CountsExact'
  <2>1. at' = at /\ \A j \in Buf : buf'[j].refcnt = buf[j].refcnt
    BY <1>3, <1>8
  <2> QED
    BY <1>1, <2>1 DEF CountsExact
<1>15. Filled'
  BY <1>1, <1>6, <1>7, <1>8, Names DEF Filled
<1>16. Requests'
  BY <1>1, <1>2, <1>3, <1>4, <1>5, <1>8, <1>10, Busy DEF Requests, Ready, InIde
<1>17. QueueSound'
  BY <1>1, <1>3, <1>4, <1>8 DEF QueueSound
<1>18. NoLostWakeup'
  <2>1. \A q \in Proc : chan[q] \in {LockChan(at[q]), DiskChan(at[q])} => at[q] \in Buf
    BY <1>1, Busy DEF Places
  <2>2. \A q \in Proc : chan'[q] = DiskChan(at[q]) \/ chan'[q] = LockChan(at[q]) =>
            chan'[q] = chan[q] /\ chan[q] # DiskChan(i)
    BY <1>1, <1>4, <1>9, Names, Sleeping, Busy
  <2> QED
    BY <1>1, <1>3, <1>4, <1>8, <2>1, <2>2 DEF NoLostWakeup
<1>19. Clean'
  <2>1. x = disk[buf[i].blockno]
    BY <1>1, <1>3 DEF AtDisk, x, i
  <2> QED
    BY <1>1, <1>4, <1>8, <1>11, <2>1 DEF Clean, Ready
<1>20. AtDisk'
  BY <1>8, <1>11 DEF AtDisk
<1> QED
  BY <1>12, <1>13, <1>14, <1>15, <1>16, <1>17, <1>18, <1>19, <1>20, <1>21, <1>22 DEF IInv

-----------------------------------------------------------------------------
(* brelse, once the sleep lock is released *)

\* The list still has every buffer once.
LEMMA MovedInList ==
    ASSUME bcache \in Injection(1..RNBUF, Buf), NEW i \in Buf
    PROVE  MovedToFront(i) \in Injection(1..RNBUF, Buf)
<1>1. /\ RNBUF \in Nat
      /\ bcache \in [1..RNBUF -> Buf]
      /\ \A k, l \in 1..RNBUF : bcache[k] = bcache[l] => k = l
  BY BufCacheConstants, FS_CardinalityType DEF RNBUF, Injection, IsInjective
<1> DEFINE Seen(k) == \E j \in 1..k-1 : bcache[j] = i
           New(k) == IF k = 1 THEN i ELSE IF Seen(k) THEN bcache[k] ELSE bcache[k-1]
<1>2. MovedToFront(i) = [k \in 1..RNBUF |-> New(k)]
  BY DEF MovedToFront
<1>3. ASSUME NEW k \in 1..RNBUF
      PROVE  New(k) \in Buf /\ (k # 1 => New(k) # i)
  <2>1. CASE k = 1
    BY <2>1
  <2>2. CASE k # 1 /\ Seen(k)
    BY <1>1, <2>2
  <2>3. CASE k # 1 /\ ~Seen(k)
    <3>1. k - 1 \in 1..k-1 /\ k - 1 \in 1..RNBUF
      BY <1>1, <2>3
    <3> QED
      BY <1>1, <2>3, <3>1
  <2> QED
    BY <2>1, <2>2, <2>3
<1>4. ASSUME NEW k \in 1..RNBUF, NEW l \in 1..RNBUF, k < l
      PROVE  New(k) # New(l)
  <2>1. CASE k = 1
    BY <1>1, <1>3, <1>4, <2>1
  <2>2. CASE k # 1
    <3>1. k - 1 \in 1..RNBUF /\ l - 1 \in 1..RNBUF /\ k # 1 /\ l # 1 /\ k - 1 # l - 1
      BY <1>1, <1>4, <2>2
    <3>2. Seen(k) => Seen(l)
      BY <1>1, <1>4
    <3>3. bcache[k] # bcache[l] /\ bcache[k - 1] # bcache[l - 1]
      BY <1>1, <1>4, <3>1
    <3>4. bcache[k - 1] # bcache[l]
      BY <1>1, <1>4, <3>1
    <3> HIDE DEF Seen
    <3> QED
      BY <3>1, <3>2, <3>3, <3>4
  <2> QED
    BY <2>1, <2>2
<1> HIDE DEF New
<1>5. MovedToFront(i) \in [1..RNBUF -> Buf]
  BY <1>2, <1>3
<1>6. ASSUME NEW k \in 1..RNBUF, NEW l \in 1..RNBUF, New(k) = New(l)
      PROVE  k = l
  <2>1. ~(k < l) /\ ~(l < k)
    BY <1>4, <1>6
  <2> QED
    BY <1>1, <2>1
<1>7. IsInjective(MovedToFront(i))
  BY <1>2, <1>6 DEF IsInjective
<1> QED
  BY <1>5, <1>7 DEF Injection

\* Then the count goes down.
LEMMA BrelseStep ==
    ASSUME IInv, NEW p \in Proc, Runs(p), Brelse(p)
    PROVE  IInv'
<1>1. /\ TypeOK /\ Places /\ Locks /\ Named /\ CountsExact /\ Filled
      /\ Requests /\ QueueSound /\ NoLostWakeup /\ Clean /\ AtDisk
  BY DEF IInv
<1>2. pc[p] = "brelse" /\ chan[p] = None
  BY DEF Brelse, Runs, Asleep
<1>19. PICK i \in Buf : at[p] = i
  BY <1>1, <1>2, Busy
<1>3. /\ pc \in [Proc -> {"idle", "bget", "iderw", "wait", "has", "brelse"}]
      /\ at \in [Proc -> Buf \cup {None}] 
      /\ buf \in [Buf -> Status] /\ idequeue \in Seq(Buf)
      /\ chan \in [Proc -> {None} \cup ({"lock", "disk"} \X Buf)]
      /\ \A j \in Buf : buf[j].refcnt \in Nat /\ buf[j].locked \in Proc \cup {None}
  BY <1>1, Types
<1>4. /\ buf' = [buf EXCEPT ![i].refcnt = @ - 1]
      /\ bcache' = IF buf[i].refcnt = 1 THEN MovedToFront(i) ELSE bcache
      /\ pc' = [pc EXCEPT ![p] = "idle"] /\ at' = [at EXCEPT ![p] = None]
      /\ UNCHANGED <<idequeue, disk, chan, panic>>
  BY <1>19 DEF Brelse
<1>5. /\ \A q \in Proc : at'[q] = IF q = p THEN None ELSE at[q]
      /\ \A q \in Proc : pc'[q] = IF q = p THEN "idle" ELSE pc[q]
  BY <1>3, <1>4
<1>6. \A j \in Buf :
         /\ buf'[j].blockno = buf[j].blockno /\ buf'[j].valid = buf[j].valid
         /\ buf'[j].dirty = buf[j].dirty /\ buf'[j].locked = buf[j].locked
         /\ buf'[j].data = buf[j].data
         /\ buf'[j].refcnt = IF j = i THEN buf[j].refcnt - 1 ELSE buf[j].refcnt
  <2>1. ASSUME NEW j \in Buf
        PROVE  /\ buf'[j].blockno = buf[j].blockno /\ buf'[j].valid = buf[j].valid
               /\ buf'[j].dirty = buf[j].dirty /\ buf'[j].locked = buf[j].locked
               /\ buf'[j].data = buf[j].data
               /\ buf'[j].refcnt = IF j = i THEN buf[j].refcnt - 1 ELSE buf[j].refcnt
    <3>1. buf[j] \in Status /\ buf'[j] = IF j = i THEN [buf[i] EXCEPT !.refcnt = @ - 1] ELSE buf[j]
      BY <1>3, <1>4
    <3> QED
      BY <3>1 DEF Status
  <2> QED
    BY <2>1
<1>7. \A j \in Buf : buf'[j].refcnt = Cardinality(Users(j)')
  <2>1. \A j \in Buf : buf[j].refcnt = Cardinality(Users(j))
    BY <1>1, Counts
  <2>2. /\ Cardinality(Users(i)') = Cardinality(Users(i)) - 1
        /\ \A j \in Buf \ {i} : Users(j)' = Users(j)
    BY <1>3, <1>4, <1>19, CountsLeave
  <2> QED
    BY <1>6, <2>1, <2>2
<1>8. TypeOK'
  <2>1. buf'[i].refcnt \in 0..Cardinality(Proc)
    BY <1>3, <1>7, CountsFit
  <2>2. buf[i].refcnt - 1 \in 0..Cardinality(Proc)
    BY <1>3, <1>6, <2>1
  <2>3. [buf[i] EXCEPT !.refcnt = @ - 1] \in Status
    <3>1. buf[i] \in Status
      BY <1>3
    <3> QED
      BY <2>2, <3>1 DEF Status
  <2>4. buf' \in [Buf -> Status]
    BY <1>3, <1>4, <2>3
  <2>5. \A q \in Proc : Asleep(q)' => chan'[q] \in {LockChan(at'[q]), DiskChan(at'[q])}
    BY <1>1, <1>2, <1>4, <1>5 DEF TypeOK, Asleep
  <2>6. bcache' \in Injection(1..RNBUF, Buf)
    BY <1>1, <1>3, <1>4, MovedInList DEF TypeOK
  <2>7. /\ pc' \in [Proc -> {"idle", "bget", "iderw", "wait", "has", "brelse"}]
        /\ at' \in [Proc -> Buf \cup {None}]
    BY <1>3, <1>4
  <2>8. /\ idequeue' \in Seq(Buf) /\ disk' \in [Block -> Data]
        /\ chan' \in [Proc -> {None} \cup ({"lock", "disk"} \X Buf)]
        /\ panic' \in {"none", "bget: no buffers", "iderw: nothing to do", "brelse"}
    BY <1>1, <1>4 DEF TypeOK
  <2>9. RNBUF' = RNBUF /\ Data' = Data
    BY DEF RNBUF, Data
  <2> QED
    BY <2>4, <2>5, <2>6, <2>7, <2>8, <2>9 DEF TypeOK, Status
<1>9. \A j \in Buf : buf[j].locked # p
  BY <1>1, <1>2, Names DEF Locks, InIde
<1>10. \A q \in Proc : chan[q] \in {LockChan(at[q]), DiskChan(at[q])} => at[q] \in Buf
  BY <1>1, Busy DEF Places
<1>11. Places'
  BY <1>1, <1>2, <1>3, <1>4, <1>5, <1>6, <1>9, Busy, Names DEF Places, InIde
<1>12. Locks'
  BY <1>1, <1>3, <1>5, <1>6, <1>9 DEF Locks, InIde
<1>13. Named' /\ Filled'
  BY <1>1, <1>3, <1>6 DEF Named, Filled
<1>14. Requests'
  BY <1>1, <1>3, <1>4, <1>5, <1>6, Busy DEF Requests, Ready
<1>15. QueueSound'
  <2>1. \A j \in Range(idequeue) : j \in Buf
    BY <1>3 DEF Range
  <2> QED
    BY <1>1, <1>3, <1>4, <1>5, <1>6, <1>9, <2>1 DEF QueueSound
<1>16. NoLostWakeup'
  BY <1>1, <1>2, <1>4, <1>5, <1>6, <1>10, Names DEF NoLostWakeup
<1>17. Clean' /\ AtDisk'
  BY <1>1, <1>3, <1>4, <1>6 DEF Clean, Ready, AtDisk
<1>18. CountsExact'
  BY <1>7 DEF CountsExact, Users
<1> QED
  BY <1>8, <1>11, <1>12, <1>13, <1>14, <1>15, <1>16, <1>17, <1>18 DEF IInv

-----------------------------------------------------------------------------
(* The invariant holds *)

LEMMA InvInit == Init => IInv
<1> SUFFICES ASSUME Init PROVE IInv
  OBVIOUS
<1>1. /\ buf = [i \in Buf |-> Empty] /\ idequeue = << >>
      /\ at = [p \in Proc |-> None] /\ pc = [p \in Proc |-> "idle"]
      /\ chan = [p \in Proc |-> None] /\ panic = "none"
      /\ disk \in [Block -> Data] /\ bcache \in Injection(1..RNBUF, Buf)
  BY DEF Init
<1>2. Range(idequeue) = {} /\ IsInjective(idequeue) /\ idequeue \in Seq(Buf)
  BY <1>1 DEF Range, IsInjective
<1>3. \A i \in Buf : Users(i) = {} /\ Cardinality(Users(i)) = 0
  BY <1>1, Names, FS_EmptySet DEF Users
<1>4. TypeOK
  <2>1. Empty \in Status
    <3>1. 0 \in 0..Cardinality(Proc)
      BY BufCacheConstants, FS_CardinalityType
    <3> QED
      BY <3>1 DEF Empty, Status
  <2>2. buf \in [Buf -> Status]
    BY <1>1, <2>1
  <2> QED
    BY <1>1, <1>2, <2>2 DEF TypeOK, Status, Asleep
<1>5. Places
  BY <1>1, Names DEF Places, InIde
<1>6. Locks /\ Named /\ Filled /\ Clean
  BY <1>1 DEF Locks, Named, Filled, Clean, Ready, Empty
<1>7. CountsExact
  BY <1>1, <1>3 DEF CountsExact, Users, Empty
<1>8. Requests /\ NoLostWakeup
  BY <1>1, Names DEF Requests, NoLostWakeup
<1>9. QueueSound /\ AtDisk
  BY <1>1, <1>2 DEF QueueSound, AtDisk
<1> QED
  BY <1>4, <1>5, <1>6, <1>7, <1>8, <1>9 DEF IInv

\* A block the log or a process writes.
LEMMA Written ==
    ASSUME IInv, NEW p \in Proc, pc[p] = "has", NEW v \in Value[buf[at[p]].blockno]
    PROVE  v \in Data /\ at[p] \in Buf
<1>1. TypeOK /\ Places /\ Filled /\ Requests
  BY DEF IInv
<1>2. at[p] \in Buf /\ buf[at[p]].valid
  BY <1>1, Busy DEF Requests
<1>3. buf[at[p]].blockno \in Block
  BY <1>1, <1>2, Types DEF Filled
<1> QED
  BY <1>2, <1>3 DEF Data

LEMMA BgetInv ==
    ASSUME IInv, NEW p \in Proc, Bget(p)
    PROVE  IInv'
<1>1. pc[p] = "idle" /\ chan[p] = None
  BY DEF Bget, Runs, Asleep
<1>2. PICK b \in Block :
         IF Cached(b) = {} /\ Unused = {} THEN Panic("bget: no buffers")
         ELSE \E i \in Buf :
                  /\ IF Cached(b) # {}
                     THEN /\ i \in Cached(b)
                          /\ buf' = [buf EXCEPT ![i].refcnt = @ + 1]
                     ELSE /\ LeastRecent(i)
                          /\ buf' = [buf EXCEPT ![i] = [@ EXCEPT !.blockno = b, !.valid = FALSE,
                                                         !.dirty = FALSE, !.refcnt = 1]]
                  /\ at' = [at EXCEPT ![p] = i]
                  /\ pc' = [pc EXCEPT ![p] = "bget"]
                  /\ UNCHANGED <<bcache, idequeue, disk, chan, panic>>
  BY DEF Bget
<1>3. CASE Cached(b) = {} /\ Unused = {}
  BY <1>2, <1>3, PanicStep DEF Panic, Message
<1>4. CASE ~(Cached(b) = {} /\ Unused = {})
  <2>1. PICK i \in Buf :
           /\ IF Cached(b) # {}
              THEN /\ i \in Cached(b)
                   /\ buf' = [buf EXCEPT ![i].refcnt = @ + 1]
              ELSE /\ LeastRecent(i)
                   /\ buf' = [buf EXCEPT ![i] = [@ EXCEPT !.blockno = b, !.valid = FALSE,
                                                  !.dirty = FALSE, !.refcnt = 1]]
           /\ at' = [at EXCEPT ![p] = i]
           /\ pc' = [pc EXCEPT ![p] = "bget"]
           /\ UNCHANGED <<bcache, idequeue, disk, chan, panic>>
    BY <1>2, <1>4
  <2>2. CASE Cached(b) # {}
    <3>1. buf[i].blockno # None
      BY <2>1, <2>2, Names DEF Cached
    <3> QED
      BY <1>1, <2>1, <2>2, <3>1, BgetHitStep
  <2>3. CASE Cached(b) = {}
    <3>1. buf[i].refcnt = 0 /\ ~buf[i].dirty
      BY <2>1, <2>3 DEF LeastRecent, Unused
    <3> QED
      BY <1>1, <2>1, <2>3, <3>1, BgetRecycleStep
  <2> QED
    BY <2>2, <2>3
<1> QED
  BY <1>3, <1>4

\* Every step of a process preserves it.
LEMMA StepInv ==
    ASSUME IInv, NEW p \in Proc, Step(p)
    PROVE  IInv'
<1>1. TypeOK /\ Places /\ Requests
  BY DEF IInv
<1>2. CASE Bget(p)
  BY <1>2, BgetInv
<1>3. CASE AcquireSleep(p)
  <2>1. pc[p] = "bget" /\ chan[p] = None
    BY <1>3 DEF AcquireSleep, Runs, Asleep
  <2>2. CASE buf[at[p]].locked # None
    BY <1>3, <2>1, <2>2, AcquireWaits DEF AcquireSleep
  <2>3. CASE buf[at[p]].locked = None
    BY <1>3, <2>1, <2>3, AcquireTakes DEF AcquireSleep
  <2> QED
    BY <2>2, <2>3
<1>4. CASE IdeRw(p)
  <2>1. pc[p] = "iderw" /\ ~Ready(at[p])
    BY <1>1, <1>4 DEF IdeRw, Requests
  <2> QED
    BY <1>4, <2>1, IdeRwStep DEF IdeRw
<1>5. CASE IdeWait(p)
  BY <1>5, IdeWaitStep DEF IdeWait
<1>6. CASE LogWrite(p)
  <2>1. pc[p] = "has" /\ chan[p] = None
    BY <1>6 DEF LogWrite, Runs, Asleep
  <2>2. PICK v \in Value[buf[at[p]].blockno] :
           buf' = [buf EXCEPT ![at[p]].data = v, ![at[p]].dirty = TRUE]
    BY <1>6 DEF LogWrite
  <2>3. v \in Data /\ at[p] \in Buf
    BY <2>1, Written
  <2>4. DataSet(at[p], v, TRUE)
    BY <1>1, <2>1, <2>2, <2>3, ChangedData DEF Requests
  <2>5. pc' = [pc EXCEPT ![p] = "has"]
    BY <1>1, <1>6, <2>1, Types DEF LogWrite
  <2> QED
    BY <1>6, <2>1, <2>3, <2>4, <2>5, ChangeStep DEF LogWrite
<1>7. CASE BWrite(p)
  <2>1. pc[p] = "has" /\ chan[p] = None
    BY <1>7 DEF BWrite, Runs, Asleep
  <2>2. PICK v \in Value[buf[at[p]].blockno] :
           buf' = [buf EXCEPT ![at[p]].data = v, ![at[p]].dirty = TRUE]
    BY <1>7 DEF BWrite
  <2>3. v \in Data /\ at[p] \in Buf
    BY <2>1, Written
  <2>4. DataSet(at[p], v, TRUE)
    BY <1>1, <2>1, <2>2, <2>3, ChangedData DEF Requests
  <2> QED
    BY <1>7, <2>1, <2>3, <2>4, ChangeStep DEF BWrite
<1>8. CASE ReleaseSleep(p)
  <2>1. pc[p] = "has" /\ chan[p] = None
    BY <1>8 DEF ReleaseSleep, Runs, Asleep
  <2>2. buf[at[p]].locked = p
    BY <1>1, <2>1 DEF Places
  <2> QED
    BY <1>8, <2>1, <2>2, ReleaseStep DEF ReleaseSleep
<1>9. CASE Brelse(p)
  BY <1>9, BrelseStep DEF Brelse
<1> QED
  BY <1>2, <1>3, <1>4, <1>5, <1>6, <1>7, <1>8, <1>9 DEF Step

LEMMA InvStep == IInv /\ [Next]_vars => IInv'
<1> SUFFICES ASSUME IInv, [Next]_vars PROVE IInv'
  OBVIOUS
<1>1. CASE IdeIntr
  BY <1>1, IdeIntrStep
<1>2. CASE \E p \in Proc : Step(p)
  BY <1>2, StepInv
<1>3. CASE UNCHANGED vars
  <2>1. panic' \in Message
    BY <1>3 DEF IInv, TypeOK, Message, vars
  <2> QED
    BY <1>3, <2>1, PanicStep DEF vars
<1> QED
  BY <1>1, <1>2, <1>3 DEF Next

\* The invariant of the buffer cache and the disk queue holds, whatever the
\* order of bget, acquiresleep, iderw, the disk's interrupts, log_write, bwrite
\* and brelse.
THEOREM CacheInvariant == Spec => []IInv
BY InvInit, InvStep, PTL DEF Spec

-----------------------------------------------------------------------------
(* What it means for the properties of the module *)

\* A block has one buffer.
LEMMA BlockHasOneBuffer == IInv => OneBuffer
<1> SUFFICES ASSUME IInv, NEW b \in Block PROVE Cardinality(Cached(b)) <= 1
  BY DEF OneBuffer, Cached
<1>1. \A i, j \in Cached(b) : i = j
  BY Names DEF IInv, Named, Cached
<1>2. CASE Cached(b) = {}
  BY <1>2, FS_EmptySet
<1>3. CASE Cached(b) # {}
  <2>1. PICK i \in Cached(b) : TRUE
    BY <1>3
  <2>2. Cached(b) = {i}
    BY <1>1, <2>1
  <2>3. Cardinality({i}) = 1
    BY FS_Singleton
  <2> QED
    BY <2>2, <2>3
<1> QED
  BY <1>2, <1>3

\* Whatever the processes do, a block has one buffer that counts its users, a
\* request is queued once and belongs to the holder of its buffer, who sleeps has
\* someone to wake it, and what may be recycled is on the disk.
THEOREM CacheIsSound ==
    Spec => [](TypeOK /\ OneBuffer /\ CountsExact /\ QueueSound /\ NoLostWakeup /\ Clean)
<1>1. IInv => TypeOK /\ OneBuffer /\ CountsExact /\ QueueSound /\ NoLostWakeup /\ Clean
  BY BlockHasOneBuffer DEF IInv
<1> QED
  BY <1>1, CacheInvariant, PTL

-----------------------------------------------------------------------------
(* Panics *)

\* A panic stops every process.
LEMMA OnlyWithoutPanic ==
    ASSUME NEW p \in Proc, Step(p)
    PROVE  panic = "none"
BY DEF Step, Bget, AcquireSleep, IdeRw, IdeWait, LogWrite, BWrite, ReleaseSleep, Brelse, Runs

\* A buffer that is not unused has a user or is pinned.
LEMMA AllTaken ==
    ASSUME IInv, Unused = {}
    PROVE  \A i \in Buf : buf[i].dirty \/ \E p \in Proc : at[p] = i
<1> SUFFICES ASSUME NEW i \in Buf, ~buf[i].dirty
             PROVE  \E p \in Proc : at[p] = i
  OBVIOUS
<1>1. TypeOK /\ CountsExact
  BY DEF IInv
<1>2. buf[i].refcnt # 0
  BY DEF Unused
<1>3. Users(i) # {}
  BY <1>1, <1>2, Counts
<1> QED
  BY <1>3 DEF Users

\* iderw always has something to do, releasesleep is the holder's, and bget gives
\* up when no buffer is unused.
LEMMA StepPanics ==
    ASSUME IInv, panic = "none", NEW p \in Proc, Step(p)
    PROVE  \/ panic' = "none"
           \/ panic' = "bget: no buffers" /\ Unused = {} /\ buf' = buf /\ at' = at
<1>1. Places /\ Requests
  BY DEF IInv
<1>2. CASE Bget(p)
  BY <1>2 DEF Bget, Panic
<1>3. CASE IdeRw(p)
  BY <1>1, <1>3 DEF IdeRw, Requests
<1>4. CASE ReleaseSleep(p)
  BY <1>1, <1>4 DEF ReleaseSleep, Places
<1>5. CASE \/ AcquireSleep(p) \/ IdeWait(p) \/ LogWrite(p) \/ BWrite(p) \/ Brelse(p)
  BY <1>5 DEF AcquireSleep, IdeWait, LogWrite, BWrite, Brelse
<1> QED
  BY <1>2, <1>3, <1>4, <1>5 DEF Step

\* iderw's "nothing to do" and brelse's panic cannot happen, however many processes
\* share however few buffers: only bget may have to give up.
THEOREM OnlyBgetPanics == Spec => [](panic \in {"none", "bget: no buffers"})
<1> DEFINE Safe == panic \in {"none", "bget: no buffers"}
<1>1. Init => Safe
  BY DEF Init
<1>2. IInv /\ Safe /\ [Next]_vars => Safe'
  <2> SUFFICES ASSUME IInv, Safe, [Next]_vars PROVE Safe'
    OBVIOUS
  <2>1. CASE IdeIntr
    BY <2>1 DEF IdeIntr
  <2>2. CASE \E p \in Proc : Step(p)
    <3>1. PICK p \in Proc : Step(p)
      BY <2>2
    <3>2. panic = "none"
      BY <3>1, OnlyWithoutPanic
    <3> QED
      BY <3>1, <3>2, StepPanics
  <2>3. CASE UNCHANGED vars
    BY <2>3 DEF vars
  <2> QED
    BY <2>1, <2>2, <2>3 DEF Next
<1> QED
  BY <1>1, <1>2, CacheInvariant, PTL DEF Spec

\* However few the buffers, the cache and the disk queue are sound, and bget gives
\* up only when every buffer is in use by a process or pinned by the log.
THEOREM BuffersAreSound == Spec => []BuffersSound
<1>1. Init => OnlyFullPanics
  BY DEF Init, OnlyFullPanics
<1>2. IInv /\ OnlyFullPanics /\ [Next]_vars => OnlyFullPanics'
  <2> SUFFICES ASSUME IInv, OnlyFullPanics, [Next]_vars PROVE OnlyFullPanics'
    OBVIOUS
  <2>1. CASE IdeIntr
    BY <2>1 DEF IdeIntr, OnlyFullPanics
  <2>2. CASE \E p \in Proc : Step(p)
    <3>1. PICK p \in Proc : Step(p)
      BY <2>2
    <3>2. panic = "none"
      BY <3>1, OnlyWithoutPanic
    <3>3. CASE panic' = "none"
      BY <3>3 DEF OnlyFullPanics
    <3>4. CASE panic' = "bget: no buffers" /\ Unused = {} /\ buf' = buf /\ at' = at
      BY <3>4, AllTaken DEF OnlyFullPanics
    <3> QED
      BY <3>1, <3>2, <3>3, <3>4, StepPanics
  <2>3. CASE UNCHANGED vars
    BY <2>3 DEF vars, OnlyFullPanics
  <2> QED
    BY <2>1, <2>2, <2>3 DEF Next
<1>3. IInv /\ OnlyFullPanics => BuffersSound
  BY BlockHasOneBuffer DEF IInv, BuffersSound
<1> QED
  BY <1>1, <1>2, <1>3, CacheInvariant, PTL DEF Spec

-----------------------------------------------------------------------------
(* The cache implements BlockStore *)

\* What a block contains, and who holds it.
ContentExact ==
    /\ \A i \in Buf : buf[i].valid =>
          buf[i].blockno \in Block /\ Content[buf[i].blockno] = buf[i].data
    /\ \A b \in Block : (\A i \in Buf : buf[i].blockno = b => ~buf[i].valid) =>
          Content[b] = disk[b]
HoldersExact ==
    /\ \A p \in Proc : Has(p) =>
          /\ at[p] \in Buf /\ buf[at[p]].valid /\ buf[at[p]].blockno \in Block
          /\ buf[at[p]].locked = p
    /\ \A p, q \in Proc : Has(p) /\ Has(q) /\ buf[at[p]].blockno = buf[at[q]].blockno => p = q
HolderExact ==
    /\ \A p \in Proc : Has(p) => Holder[buf[at[p]].blockno] = p
    /\ \A b \in Block : (\A p \in Proc : ~Holds(p, b)) => Holder[b] = None

LEMMA ContentIs == IInv => ContentExact
<1> SUFFICES ASSUME IInv PROVE ContentExact
  OBVIOUS
<1>1. TypeOK /\ Named /\ Filled
  BY DEF IInv
<1>2. ASSUME NEW i \in Buf, buf[i].valid
      PROVE  buf[i].blockno \in Block /\ Content[buf[i].blockno] = buf[i].data
  <2>1. buf[i].blockno \in Block
    BY <1>1, <1>2, Types DEF Filled
  <2> DEFINE b == buf[i].blockno
  <2>2. i \in Cached(b) /\ \A j \in Cached(b) : j = i
    BY <1>1, <2>1, Names DEF Cached, Named
  <2>3. (CHOOSE j \in Cached(b) : buf[j].valid) = i
    BY <1>2, <2>2
  <2> QED
    BY <1>2, <2>1, <2>2, <2>3 DEF Content
<1>3. ASSUME NEW b \in Block, \A i \in Buf : buf[i].blockno = b => ~buf[i].valid
      PROVE  Content[b] = disk[b]
  BY <1>3 DEF Content, Cached
<1> QED
  BY <1>2, <1>3 DEF ContentExact

LEMMA HoldersAre == IInv => HoldersExact
<1> SUFFICES ASSUME IInv PROVE HoldersExact
  OBVIOUS
<1>1. TypeOK /\ Places /\ Locks /\ Named /\ Filled /\ Requests
  BY DEF IInv
<1>2. ASSUME NEW p \in Proc, Has(p)
      PROVE  /\ pc[p] \in InIde \cup {"has"}
             /\ at[p] \in Buf /\ buf[at[p]].valid /\ buf[at[p]].blockno \in Block
             /\ buf[at[p]].locked = p
  <2>1. pc[p] \in InIde \cup {"has"} /\ pc[p] # "idle"
    BY <1>2 DEF Has, InIde
  <2>2. at[p] \in Buf /\ buf[at[p]].valid
    BY <1>1, <1>2, <2>1, Busy DEF Has, Requests
  <2> QED
    BY <1>1, <2>1, <2>2, Types DEF Filled, Places
<1>3. ASSUME NEW p \in Proc, NEW q \in Proc, Has(p), Has(q),
             buf[at[p]].blockno = buf[at[q]].blockno
      PROVE  p = q
  <2>1. at[p] = at[q]
    BY <1>1, <1>2, <1>3, Names DEF Named
  <2> QED
    BY <1>2, <1>3, <2>1
<1> QED
  BY <1>2, <1>3 DEF HoldersExact

LEMMA HolderIs == IInv => HolderExact
<1> SUFFICES ASSUME IInv PROVE HolderExact
  OBVIOUS
<1>1. HoldersExact
  BY HoldersAre
<1>2. ASSUME NEW p \in Proc, Has(p)
      PROVE  Holder[buf[at[p]].blockno] = p
  <2> DEFINE b == buf[at[p]].blockno
  <2>1. b \in Block /\ Holds(p, b) /\ \A q \in Proc : Holds(q, b) => q = p
    BY <1>1, <1>2 DEF HoldersExact, Holds
  <2> HIDE DEF b
  <2>2. (CHOOSE q \in Proc : Holds(q, b)) = p
    BY <2>1
  <2>3. Holder[b] = p
    BY <2>1, <2>2 DEF Holder
  <2> QED
    BY <2>3 DEF b
<1>3. ASSUME NEW b \in Block, \A p \in Proc : ~Holds(p, b)
      PROVE  Holder[b] = None
  BY <1>3 DEF Holder
<1> QED
  BY <1>2, <1>3 DEF HolderExact

\* The contents after a step.
LEMMA ContentBecomes ==
    ASSUME ContentExact', NEW c, c = [b \in Block |-> c[b]],
           \A i \in Buf : buf'[i].valid => c[buf'[i].blockno] = buf'[i].data,
           \A b \in Block : (\A i \in Buf : buf'[i].blockno = b => ~buf'[i].valid) =>
              c[b] = disk'[b]
    PROVE  Content' = c
<1>1. ASSUME NEW b \in Block
      PROVE  Content'[b] = c[b]
  <2>1. CASE \E i \in Buf : buf'[i].blockno = b /\ buf'[i].valid
    BY <2>1 DEF ContentExact
  <2>2. CASE \A i \in Buf : buf'[i].blockno = b => ~buf'[i].valid
    BY <2>2 DEF ContentExact
  <2> QED
    BY <2>1, <2>2
<1>2. Content' = [b \in Block |-> Content'[b]]
  BY DEF Content
<1> QED
  BY <1>1, <1>2, Zenon

LEMMA HolderBecomes ==
    ASSUME HoldersExact', HolderExact', NEW h, h = [b \in Block |-> h[b]],
           \A p \in Proc : Has(p)' => h[buf'[at'[p]].blockno] = p,
           \A b \in Block : (\A p \in Proc : ~Holds(p, b)') => h[b] = None
    PROVE  Holder' = h
<1>1. ASSUME NEW b \in Block
      PROVE  Holder'[b] = h[b]
  <2>1. CASE \E p \in Proc : Holds(p, b)'
    BY <2>1 DEF HolderExact, Holds
  <2>2. CASE \A p \in Proc : ~Holds(p, b)'
    BY <2>2 DEF HolderExact
  <2> QED
    BY <2>1, <2>2
<1>2. Holder' = [b \in Block |-> Holder'[b]]
  BY DEF Holder
<1> QED
  BY <1>1, <1>2, Zenon

\* What a process has is as it was.
SameHas(p) ==
    /\ Has(p)' <=> Has(p)
    /\ Has(p) => /\ buf'[at'[p]].blockno = buf[at[p]].blockno
                 /\ buf'[at'[p]].data = buf[at[p]].data

Abstract == <<Content, Holder, View>>
Exact == ContentExact /\ HoldersExact /\ HolderExact

LEMMA ExactNext ==
    ASSUME IInv, IInv'
    PROVE  Exact /\ Exact'
<1>1. IInv => Exact
  BY ContentIs, HoldersAre, HolderIs DEF Exact
<1> QED
  BY <1>1, ContentIs, HoldersAre, HolderIs, PTL DEF Exact

\* Nothing happens to the blocks.
LEMMA Stutters ==
    ASSUME Exact, Exact', Content' = Content, \A p \in Proc : SameHas(p)
    PROVE  UNCHANGED Abstract
<1>1. Holder' = Holder
  <2>1. Holder = [b \in Block |-> Holder[b]]
    BY DEF Holder
  <2>2. \A p \in Proc : Has(p)' => Holder[buf'[at'[p]].blockno] = p
    BY DEF SameHas, Exact, HolderExact
  <2>3. ASSUME NEW b \in Block, \A p \in Proc : ~Holds(p, b)'
        PROVE  Holder[b] = None
    BY <2>3 DEF SameHas, Holds, Exact, HolderExact
  <2> QED
    BY <2>1, <2>2, <2>3, HolderBecomes DEF Exact
<1>2. View' = View
  BY DEF View, SameHas
<1> QED
  BY <1>1, <1>2 DEF Abstract

\* A process is given a block.
LEMMA Takes ==
    ASSUME Exact, Exact', Content' = Content, NEW p \in Proc, ~Has(p), Has(p)',
           \A q \in Proc \ {p} : SameHas(q)
    PROVE  Store!Next
<1>1. PICK b \in Block : b = buf'[at'[p]].blockno
  BY DEF Exact, HoldersExact
<1>2. \A q \in Proc : ~Holds(q, b)
  BY <1>1 DEF Exact, HoldersExact, Holds, SameHas
<1>3. \A c \in Block : Holder[c] # p
  <2> SUFFICES ASSUME NEW c \in Block, Holder[c] = p PROVE FALSE
    OBVIOUS
  <2>1. PICK q \in Proc : Holds(q, c)
    BY Names DEF Exact, HolderExact
  <2>2. q = p
    BY <2>1 DEF Exact, HolderExact, Holds
  <2> QED
    BY <2>1, <2>2 DEF Holds
<1>4. Holder[b] = None
  BY <1>2 DEF Exact, HolderExact
<1>5. Holder' = [Holder EXCEPT ![b] = p]
  <2> DEFINE h == [Holder EXCEPT ![b] = p]
  <2>1. h = [c \in Block |-> IF c = b THEN p ELSE Holder[c]]
    BY DEF Holder
  <2> HIDE DEF h
  <2>2. h = [c \in Block |-> h[c]] /\ \A c \in Block : h[c] = IF c = b THEN p ELSE Holder[c]
    BY <2>1
  <2>3. ASSUME NEW q \in Proc, Has(q)'
        PROVE  h[buf'[at'[q]].blockno] = q
    <3>1. CASE q = p
      BY <1>1, <2>2, <3>1
    <3>2. CASE q # p
      BY <1>1, <2>2, <2>3, <3>2 DEF SameHas, Exact, HolderExact, HoldersExact
    <3> QED
      BY <3>1, <3>2
  <2>4. ASSUME NEW c \in Block, \A q \in Proc : ~Holds(q, c)'
        PROVE  h[c] = None
    <3>1. c # b
      BY <1>1, <2>4 DEF Holds
    <3>2. \A q \in Proc : ~Holds(q, c)
      BY <2>4 DEF Holds, SameHas
    <3> QED
      BY <2>2, <3>1, <3>2 DEF Exact, HolderExact
  <2>5. Holder' = h
    BY <2>2, <2>3, <2>4, HolderBecomes DEF Exact
  <2> QED
    BY <2>5 DEF h
<1>6. View' = [View EXCEPT ![p] = Content[b]]
  <2>1. buf'[at'[p]].data = Content[b]
    BY <1>1 DEF Exact, ContentExact, HoldersExact
  <2>2. \A q \in Proc : View'[q] = IF q = p THEN Content[b] ELSE View[q]
    BY <2>1 DEF View, SameHas
  <2> QED
    BY <2>2 DEF View
<1>7. Store!Take(p, b)
  BY <1>3, <1>4, <1>5, <1>6 DEF Store!Take
<1> QED
  BY <1>7 DEF Store!Next

\* The process that has a block changes it.
LEMMA Changes ==
    ASSUME Exact, Exact', NEW p \in Proc, Has(p), Has(p)', NEW b \in Block,
           buf[at[p]].blockno = b, buf'[at'[p]].blockno = b, NEW v \in Value[b],
           buf'[at'[p]].data = v, Content' = [Content EXCEPT ![b] = v],
           \A q \in Proc \ {p} : SameHas(q)
    PROVE  Store!Next
<1>1. Holder[b] = p
  BY DEF Exact, HolderExact
<1>2. Holder' = Holder
  <2>1. Holder = [c \in Block |-> Holder[c]]
    BY DEF Holder
  <2>2. ASSUME NEW q \in Proc, Has(q)'
        PROVE  Holder[buf'[at'[q]].blockno] = q
    BY <2>2 DEF SameHas, Exact, HolderExact
  <2>3. ASSUME NEW c \in Block, \A q \in Proc : ~Holds(q, c)'
        PROVE  Holder[c] = None
    BY <2>3 DEF SameHas, Holds, Exact, HolderExact
  <2> QED
    BY <2>1, <2>2, <2>3, HolderBecomes DEF Exact
<1>3. View' = [View EXCEPT ![p] = v]
  <2>1. \A q \in Proc : View'[q] = IF q = p THEN v ELSE View[q]
    BY DEF View, SameHas
  <2> QED
    BY <2>1 DEF View
<1>4. Store!Change(p, b)
  BY <1>1, <1>2, <1>3 DEF Store!Change
<1> QED
  BY <1>4 DEF Store!Next

\* And gives it back.
LEMMA Releases ==
    ASSUME Exact, Exact', Content' = Content, NEW p \in Proc, Has(p), ~Has(p)',
           \A q \in Proc \ {p} : SameHas(q)
    PROVE  Store!Next
<1>1. PICK b \in Block : b = buf[at[p]].blockno
  BY DEF Exact, HoldersExact
<1>2. Holder[b] = p
  BY <1>1 DEF Exact, HolderExact
<1>3. Holder' = [Holder EXCEPT ![b] = None]
  <2> DEFINE h == [Holder EXCEPT ![b] = None]
  <2>1. h = [c \in Block |-> IF c = b THEN None ELSE Holder[c]]
    BY DEF Holder
  <2> HIDE DEF h
  <2>2. h = [c \in Block |-> h[c]] /\ \A c \in Block : h[c] = IF c = b THEN None ELSE Holder[c]
    BY <2>1
  <2>3. ASSUME NEW q \in Proc, Has(q)'
        PROVE  h[buf'[at'[q]].blockno] = q
    <3>1. q # p /\ SameHas(q)
      BY <2>3
    <3>2. buf[at[q]].blockno # b /\ buf[at[q]].blockno \in Block
      BY <1>1, <2>3, <3>1 DEF SameHas, Exact, HoldersExact
    <3> QED
      BY <2>2, <2>3, <3>1, <3>2 DEF SameHas, Exact, HolderExact
  <2>4. ASSUME NEW c \in Block, \A q \in Proc : ~Holds(q, c)'
        PROVE  h[c] = None
    <3>1. CASE c = b
      BY <2>2, <3>1
    <3>2. CASE c # b
      <4>1. \A q \in Proc : ~Holds(q, c)
        BY <1>1, <2>4, <3>2 DEF Holds, SameHas
      <4> QED
        BY <2>2, <3>2, <4>1 DEF Exact, HolderExact
    <3> QED
      BY <3>1, <3>2
  <2>5. Holder' = h
    BY <2>2, <2>3, <2>4, HolderBecomes DEF Exact
  <2> QED
    BY <2>5 DEF h
<1>4. View' = [View EXCEPT ![p] = None]
  <2>1. \A q \in Proc : View'[q] = IF q = p THEN None ELSE View[q]
    BY DEF View, SameHas
  <2> QED
    BY <2>1 DEF View
<1>5. Store!Release(p, b)
  BY <1>2, <1>3, <1>4 DEF Store!Release
<1> QED
  BY <1>5 DEF Store!Next

\* The contents stay if the buffers keep theirs, and the disk too but for what
\* is in one.
LEMMA ContentKept ==
    ASSUME Exact, Exact',
           \A i \in Buf : /\ buf'[i].blockno = buf[i].blockno /\ buf'[i].data = buf[i].data
                          /\ buf'[i].valid <=> buf[i].valid,
           \A b \in Block : (\A i \in Buf : buf[i].blockno = b => ~buf[i].valid) =>
              disk'[b] = disk[b]
    PROVE  Content' = Content
<1>1. Content = [b \in Block |-> Content[b]]
  BY DEF Content
<1>2. \A i \in Buf : buf'[i].valid => Content[buf'[i].blockno] = buf'[i].data
  BY DEF Exact, ContentExact
<1>3. \A b \in Block : (\A i \in Buf : buf'[i].blockno = b => ~buf'[i].valid) =>
         Content[b] = disk'[b]
  BY DEF Exact, ContentExact
<1> QED
  BY <1>1, <1>2, <1>3, ContentBecomes DEF Exact

\* A process that does nothing has what it had.
LEMMA HasKept ==
    ASSUME NEW q \in Proc, at'[q] = at[q], pc'[q] = pc[q],
           pc[q] \in InIde \cup {"has"} =>
              /\ buf'[at[q]].blockno = buf[at[q]].blockno /\ buf'[at[q]].data = buf[at[q]].data
              /\ buf'[at[q]].valid <=> buf[at[q]].valid
    PROVE  SameHas(q)
BY DEF SameHas, Has, InIde

\* What idestart writes is in a buffer.
LEMMA StartedKeeps ==
    ASSUME TypeOK, Filled, NEW q \in Seq(Buf), NEW b \in Block,
           \A i \in Buf : buf[i].blockno = b => ~buf[i].valid
    PROVE  Started(q, disk)[b] = disk[b]
<1>1. q # << >> => Head(q) \in Buf
  OBVIOUS
<1>2. q # << >> /\ buf[Head(q)].dirty => b # buf[Head(q)].blockno
  BY <1>1 DEF Filled
<1> QED
  BY <1>2, StartedDisk

\* bget changes nothing that anybody has: what it recycles is clean.
LEMMA BgetRefines ==
    ASSUME IInv, IInv', NEW p \in Proc, Bget(p)
    PROVE  UNCHANGED Abstract
<1>1. TypeOK /\ Places /\ Locks /\ Named /\ CountsExact /\ Clean
  BY DEF IInv
<1>2. Exact /\ Exact'
  BY ExactNext
<1>3. /\ pc \in [Proc -> {"idle", "bget", "iderw", "wait", "has", "brelse"}]
      /\ at \in [Proc -> Buf \cup {None}] /\ buf \in [Buf -> Status]
      /\ pc[p] = "idle"
  BY <1>1, Types DEF Bget
<1>4. CASE UNCHANGED <<buf, pc, at, disk>>
  <2>1. Content' = Content
    BY <1>2, <1>4, ContentKept
  <2>2. \A q \in Proc : SameHas(q)
    BY <1>4, HasKept
  <2> QED
    BY <1>2, <2>1, <2>2, Stutters
<1>5. ASSUME NEW i \in Buf, NEW b \in Block, at' = [at EXCEPT ![p] = i],
             pc' = [pc EXCEPT ![p] = "bget"], disk' = disk,
             \A j \in Buf : j # i => buf'[j] = buf[j],
             \/ /\ buf'[i].blockno = buf[i].blockno /\ buf'[i].data = buf[i].data
                /\ buf'[i].valid <=> buf[i].valid
             \/ /\ Cached(b) = {} /\ buf[i].refcnt = 0 /\ ~buf[i].dirty
                /\ buf'[i].blockno = b /\ ~buf'[i].valid
      PROVE  UNCHANGED Abstract
  <2>1. SameHas(p)
    BY <1>3, <1>5 DEF SameHas, Has
  <2>2. CASE /\ buf'[i].blockno = buf[i].blockno /\ buf'[i].data = buf[i].data
             /\ buf'[i].valid <=> buf[i].valid
    <3>1. \A j \in Buf : /\ buf'[j].blockno = buf[j].blockno /\ buf'[j].data = buf[j].data
                         /\ buf'[j].valid <=> buf[j].valid
      BY <1>5, <2>2
    <3>2. Content' = Content
      BY <1>2, <1>5, <3>1, ContentKept
    <3>3. \A q \in Proc \ {p} : SameHas(q)
      <4> SUFFICES ASSUME NEW q \in Proc \ {p} PROVE SameHas(q)
        OBVIOUS
      <4>1. at'[q] = at[q] /\ pc'[q] = pc[q]
        BY <1>3, <1>5
      <4>2. pc[q] \in InIde \cup {"has"} => at[q] \in Buf
        BY <1>1, Busy DEF InIde
      <4> QED
        BY <3>1, <4>1, <4>2, HasKept
    <3> QED
      BY <1>2, <2>1, <3>2, <3>3, Stutters
  <2>3. CASE /\ Cached(b) = {} /\ buf[i].refcnt = 0 /\ ~buf[i].dirty
             /\ buf'[i].blockno = b /\ ~buf'[i].valid
    <3>1. \A q \in Proc : at[q] # i
      BY <1>1, <2>3, Counts DEF Users
    <3>2. \A q \in Proc \ {p} : SameHas(q)
      <4> SUFFICES ASSUME NEW q \in Proc \ {p} PROVE SameHas(q)
        OBVIOUS
      <4>1. at'[q] = at[q] /\ pc'[q] = pc[q]
        BY <1>3, <1>5
      <4>2. pc[q] \in InIde \cup {"has"} => at[q] \in Buf
        BY <1>1, Busy DEF InIde
      <4> QED
        BY <1>5, <3>1, <4>1, <4>2, HasKept
    <3>3. Content' = Content
      <4>1. Content = [c \in Block |-> Content[c]]
        BY DEF Content
      <4>2. ASSUME NEW j \in Buf, buf'[j].valid
            PROVE  Content[buf'[j].blockno] = buf'[j].data
        BY <1>2, <1>5, <2>3, <4>2 DEF Exact, ContentExact
      <4>3. ASSUME NEW c \in Block, \A j \in Buf : buf'[j].blockno = c => ~buf'[j].valid
            PROVE  Content[c] = disk'[c]
        <5>1. CASE buf[i].blockno = c /\ buf[i].valid
          <6>1. Content[c] = buf[i].data
            BY <1>2, <5>1 DEF Exact, ContentExact
          <6>2. buf[i].data = disk[c]
            BY <1>1, <2>3, <5>1 DEF Clean, Ready
          <6> QED
            BY <1>5, <6>1, <6>2
        <5>2. CASE ~(buf[i].blockno = c /\ buf[i].valid)
          <6>1. \A j \in Buf : buf[j].blockno = c => ~buf[j].valid
            BY <1>5, <4>3, <5>2
          <6> QED
            BY <1>2, <1>5, <6>1 DEF Exact, ContentExact
        <5> QED
          BY <5>1, <5>2
      <4> QED
        BY <1>2, <4>1, <4>2, <4>3, ContentBecomes DEF Exact
    <3> QED
      BY <1>2, <2>1, <3>2, <3>3, Stutters
  <2> QED
    BY <1>5, <2>2, <2>3
<1>6. CASE \E b \in Block : Cached(b) = {} /\ Unused = {} /\ Panic("bget: no buffers")
  BY <1>4, <1>6 DEF Panic
<1>7. CASE \E b \in Block, i \in Buf :
              /\ \/ buf' = [buf EXCEPT ![i].refcnt = @ + 1]
                 \/ /\ Cached(b) = {} /\ i \in Unused
                    /\ buf' = [buf EXCEPT ![i] = [@ EXCEPT !.blockno = b, !.valid = FALSE,
                                                   !.dirty = FALSE, !.refcnt = 1]]
              /\ at' = [at EXCEPT ![p] = i] /\ pc' = [pc EXCEPT ![p] = "bget"] /\ disk' = disk
  <2>1. PICK b \in Block, i \in Buf :
           /\ \/ buf' = [buf EXCEPT ![i].refcnt = @ + 1]
              \/ /\ Cached(b) = {} /\ i \in Unused
                 /\ buf' = [buf EXCEPT ![i] = [@ EXCEPT !.blockno = b, !.valid = FALSE,
                                                !.dirty = FALSE, !.refcnt = 1]]
           /\ at' = [at EXCEPT ![p] = i] /\ pc' = [pc EXCEPT ![p] = "bget"] /\ disk' = disk
    BY <1>7
  <2>2. \A j \in Buf : j # i => buf'[j] = buf[j]
    BY <1>3, <2>1
  <2>3. CASE buf' = [buf EXCEPT ![i].refcnt = @ + 1]
    <3>1. buf[i] \in Status /\ buf'[i] = [buf[i] EXCEPT !.refcnt = @ + 1]
      BY <1>3, <2>3
    <3>2. /\ buf'[i].blockno = buf[i].blockno /\ buf'[i].data = buf[i].data
          /\ buf'[i].valid <=> buf[i].valid
      BY <3>1 DEF Status
    <3> QED
      BY <1>5, <2>1, <2>2, <3>2
  <2>4. CASE /\ Cached(b) = {} /\ i \in Unused
             /\ buf' = [buf EXCEPT ![i] = [@ EXCEPT !.blockno = b, !.valid = FALSE,
                                            !.dirty = FALSE, !.refcnt = 1]]
    <3>1. /\ buf[i] \in Status
          /\ buf'[i] = [buf[i] EXCEPT !.blockno = b, !.valid = FALSE, !.dirty = FALSE, !.refcnt = 1]
      BY <1>3, <2>4
    <3>2. buf'[i].blockno = b /\ ~buf'[i].valid
      BY <3>1 DEF Status
    <3>3. buf[i].refcnt = 0 /\ ~buf[i].dirty
      BY <2>4 DEF Unused
    <3> QED
      BY <1>5, <2>1, <2>2, <2>4, <3>2, <3>3
  <2> QED
    BY <2>1, <2>3, <2>4
<1> QED
  BY <1>6, <1>7 DEF Bget, LeastRecent

\* acquiresleep takes the block when the buffer is valid already.
LEMMA AcquireRefines ==
    ASSUME IInv, IInv', NEW p \in Proc, AcquireSleep(p)
    PROVE  Store!Next \/ UNCHANGED Abstract
<1>1. TypeOK /\ Places /\ Locks
  BY DEF IInv
<1>2. Exact /\ Exact'
  BY ExactNext
<1>3. /\ pc \in [Proc -> {"idle", "bget", "iderw", "wait", "has", "brelse"}]
      /\ pc[p] = "bget" /\ UNCHANGED <<disk, at>> /\ at[p] \in Buf
  BY <1>1, Types, Busy DEF AcquireSleep
<1>4. \A i \in Buf : /\ buf'[i].blockno = buf[i].blockno /\ buf'[i].data = buf[i].data
                     /\ buf'[i].valid <=> buf[i].valid
  <2>1. CASE buf' = buf
    BY <2>1
  <2>2. CASE buf' = [buf EXCEPT ![at[p]].locked = p]
    BY <1>1, <1>3, <2>2, LockChanges DEF LockSet
  <2> QED
    BY <2>1, <2>2 DEF AcquireSleep
<1>5. Content' = Content
  BY <1>2, <1>3, <1>4, ContentKept
<1>6. \A q \in Proc : pc[q] \in InIde \cup {"has"} => at[q] \in Buf
  BY <1>1, Busy DEF InIde
<1>7. CASE pc' = pc
  <2>1. \A q \in Proc : SameHas(q)
    BY <1>3, <1>4, <1>6, <1>7, HasKept
  <2> QED
    BY <1>2, <1>5, <2>1, Stutters
<1>8. CASE pc' = [pc EXCEPT ![p] = IF buf[at[p]].valid THEN "has" ELSE "iderw"]
  <2>1. \A q \in Proc \ {p} : SameHas(q)
    <3> SUFFICES ASSUME NEW q \in Proc \ {p} PROVE SameHas(q)
      OBVIOUS
    <3>1. at'[q] = at[q] /\ pc'[q] = pc[q]
      BY <1>3, <1>8
    <3> QED
      BY <1>4, <1>6, <3>1, HasKept
  <2>2. ~Has(p)
    BY <1>3 DEF Has
  <2>3. CASE buf[at[p]].valid
    <3>1. Has(p)'
      BY <1>3, <1>8, <2>3 DEF Has
    <3> QED
      BY <1>2, <1>5, <2>1, <2>2, <3>1, Takes
  <2>4. CASE ~buf[at[p]].valid
    <3>1. ~Has(p)'
      BY <1>3, <1>4, <1>8, <2>4 DEF Has
    <3>2. SameHas(p)
      BY <2>2, <3>1 DEF SameHas
    <3> QED
      BY <1>2, <1>5, <2>1, <3>2, Stutters
  <2> QED
    BY <2>3, <2>4
<1> QED
  BY <1>7, <1>8 DEF AcquireSleep

\* iderw does not change what a buffer contains, nor who has it.
LEMMA IdeRefines ==
    ASSUME IInv, IInv', NEW p \in Proc, IdeRw(p) \/ IdeWait(p)
    PROVE  UNCHANGED Abstract
<1>1. TypeOK /\ Places /\ Locks /\ Filled
  BY DEF IInv
<1>2. Exact /\ Exact'
  BY ExactNext
<1>3. /\ pc \in [Proc -> {"idle", "bget", "iderw", "wait", "has", "brelse"}]
      /\ UNCHANGED <<buf, at>> /\ idequeue \in Seq(Buf) /\ pc[p] \in InIde /\ at[p] \in Buf
  BY <1>1, Types, Busy DEF IdeRw, IdeWait, InIde, Panic
<1>4. ASSUME NEW b \in Block, \A i \in Buf : buf[i].blockno = b => ~buf[i].valid
      PROVE  disk'[b] = disk[b]
  <2>1. CASE disk' = disk
    BY <2>1
  <2>2. CASE disk' = Started(Append(idequeue, at[p]), disk)
    <3> DEFINE t == Append(idequeue, at[p])
    <3>1. t \in Seq(Buf)
      BY <1>3
    <3> HIDE DEF t
    <3>2. Started(t, disk)[b] = disk[b]
      BY <1>1, <1>4, <3>1, StartedKeeps
    <3> QED
      BY <2>2, <3>2 DEF t
  <2> QED
    BY <2>1, <2>2 DEF IdeRw, IdeWait, Panic
<1>5. Content' = Content
  BY <1>2, <1>3, <1>4, ContentKept
<1>6. \A q \in Proc \ {p} : SameHas(q)
  <2> SUFFICES ASSUME NEW q \in Proc \ {p} PROVE SameHas(q)
    OBVIOUS
  <2>1. at'[q] = at[q] /\ pc'[q] = pc[q]
    BY <1>3 DEF IdeRw, IdeWait, Panic
  <2> QED
    BY <1>3, <2>1, HasKept
<1>7. SameHas(p)
  BY <1>3 DEF SameHas, Has, IdeRw, IdeWait, Ready, Panic
<1> QED
  BY <1>2, <1>5, <1>6, <1>7, Stutters

\* The interrupt gives the block to the process that reads it.
LEMMA IntrRefines ==
    ASSUME IInv, IInv', IdeIntr
    PROVE  Store!Next \/ UNCHANGED Abstract
<1>1. TypeOK /\ Places /\ Locks /\ Filled /\ Named /\ Requests /\ QueueSound /\ AtDisk
  BY DEF IInv
<1>2. Exact /\ Exact'
  BY ExactNext
<1>3. /\ buf \in [Buf -> Status] /\ idequeue \in Seq(Buf) /\ idequeue # << >>
      /\ \A j \in Buf : buf[j].dirty \in BOOLEAN /\ buf[j].locked \in Proc \cup {None}
      /\ UNCHANGED <<pc, at>> /\ disk' = Started(Tail(idequeue), disk)
  BY <1>1, Types DEF IdeIntr
<1>4. PICK i \in Buf : Head(idequeue) = i /\ i \in Range(idequeue)
  BY <1>1, <1>3, TailQueue DEF QueueSound
<1>5. PICK h \in Proc : buf[i].locked = h /\ at[h] = i /\ pc[h] = "wait"
  BY <1>1, <1>3, <1>4 DEF QueueSound
<1>6. /\ \A j \in Buf : j # i => buf'[j] = buf[j]
      /\ buf'[i] = [buf[i] EXCEPT !.valid = TRUE, !.dirty = FALSE,
                      !.data = IF buf[i].dirty THEN @ ELSE disk[buf[i].blockno]]
  BY <1>3, <1>4 DEF IdeIntr
<1>7. /\ buf'[i].valid /\ buf'[i].blockno = buf[i].blockno
      /\ buf'[i].data = IF buf[i].dirty THEN buf[i].data ELSE disk[buf[i].blockno]
  BY <1>3, <1>6 DEF Status
<1>8. \A b \in Block : (\A j \in Buf : buf[j].blockno = b => ~buf[j].valid) =>
         disk'[b] = disk[b]
  <2> SUFFICES ASSUME NEW b \in Block, \A j \in Buf : buf[j].blockno = b => ~buf[j].valid
               PROVE  disk'[b] = disk[b]
    OBVIOUS
  <2> DEFINE t == Tail(idequeue)
  <2>1. t \in Seq(Buf)
    BY <1>3
  <2> HIDE DEF t
  <2>2. Started(t, disk)[b] = disk[b]
    BY <1>1, <2>1, StartedKeeps
  <2> QED
    BY <1>3, <2>2 DEF t
<1>9. \A q \in Proc \ {h} : SameHas(q)
  <2> SUFFICES ASSUME NEW q \in Proc \ {h} PROVE SameHas(q)
    OBVIOUS
  <2>1. pc[q] \in InIde \cup {"has"} => at[q] \in Buf /\ at[q] # i
    BY <1>1, <1>5, Busy, Holding DEF InIde
  <2> QED
    BY <1>3, <1>6, <2>1, HasKept
<1>10. CASE buf[i].dirty
  <2>1. buf[i].valid
    BY <1>1, <1>10 DEF Filled
  <2>2. \A j \in Buf : /\ buf'[j].blockno = buf[j].blockno /\ buf'[j].data = buf[j].data
                       /\ buf'[j].valid <=> buf[j].valid
    BY <1>6, <1>7, <1>10, <2>1
  <2>3. Content' = Content
    BY <1>2, <1>8, <2>2, ContentKept
  <2>4. SameHas(h)
    BY <1>3, <1>5, <2>2, HasKept
  <2> QED
    BY <1>2, <1>9, <2>3, <2>4, Stutters
<1>11. CASE ~buf[i].dirty
  <2>1. ~buf[i].valid
    BY <1>1, <1>4, <1>5, <1>11 DEF Requests, Ready
  <2>2. buf[i].blockno \in Block /\ buf'[i].data = disk[buf[i].blockno]
    BY <1>2, <1>7, <1>11 DEF Exact, ContentExact
  <2>3. Content[buf[i].blockno] = disk[buf[i].blockno]
    <3>1. \A j \in Buf : buf[j].blockno = buf[i].blockno => j = i
      BY <1>1, <2>2, Names DEF Named
    <3> QED
      BY <1>2, <2>1, <2>2, <3>1 DEF Exact, ContentExact
  <2>4. Content' = Content
    <3>1. Content = [c \in Block |-> Content[c]]
      BY DEF Content
    <3>2. ASSUME NEW j \in Buf, buf'[j].valid
          PROVE  Content[buf'[j].blockno] = buf'[j].data
      <4>1. CASE j = i
        BY <1>7, <2>2, <2>3, <4>1
      <4>2. CASE j # i
        BY <1>2, <1>6, <3>2, <4>2 DEF Exact, ContentExact
      <4> QED
        BY <4>1, <4>2
    <3>3. ASSUME NEW c \in Block, \A j \in Buf : buf'[j].blockno = c => ~buf'[j].valid
          PROVE  Content[c] = disk'[c]
      <4>1. \A j \in Buf : buf[j].blockno = c => ~buf[j].valid
        BY <1>6, <1>7, <3>3
      <4> QED
        BY <1>2, <1>8, <4>1 DEF Exact, ContentExact
    <3> QED
      BY <1>2, <3>1, <3>2, <3>3, ContentBecomes DEF Exact
  <2>5. ~Has(h) /\ Has(h)'
    BY <1>3, <1>5, <1>7, <2>1 DEF Has
  <2> QED
    BY <1>2, <1>9, <2>4, <2>5, Takes
<1> QED
  BY <1>3, <1>10, <1>11

\* log_write and bwrite change the block.
LEMMA WriteRefines ==
    ASSUME IInv, IInv', NEW p \in Proc, LogWrite(p) \/ BWrite(p)
    PROVE  Store!Next
<1>1. TypeOK /\ Places /\ Locks /\ Named /\ Filled /\ Requests
  BY DEF IInv
<1>2. Exact /\ Exact'
  BY ExactNext
<1>3. /\ pc \in [Proc -> {"idle", "bget", "iderw", "wait", "has", "brelse"}]
      /\ pc[p] = "has" /\ UNCHANGED <<disk, at>> /\ buf \in [Buf -> Status]
      /\ pc' = pc \/ pc' = [pc EXCEPT ![p] = "iderw"]
  BY <1>1, Types DEF LogWrite, BWrite
<1>4. PICK i \in Buf : at[p] = i
  BY <1>1, <1>3, Busy
<1>5. PICK v \in Value[buf[i].blockno] : buf' = [buf EXCEPT ![i].data = v, ![i].dirty = TRUE]
  BY <1>4 DEF LogWrite, BWrite
<1>6. /\ buf[i].valid /\ buf[i].blockno \in Block /\ v \in Data
  <2>1. buf[i].valid
    BY <1>1, <1>3, <1>4 DEF Requests
  <2>2. buf[i].blockno \in Block
    BY <1>2, <2>1 DEF Exact, ContentExact
  <2> QED
    BY <1>5, <2>1, <2>2 DEF Data
<1>7. /\ \A j \in Buf : buf'[j].blockno = buf[j].blockno
      /\ \A j \in Buf : j # i => buf'[j] = buf[j]
      /\ buf'[i].valid /\ buf'[i].data = v
  <2>1. DataSet(i, v, TRUE)
    BY <1>1, <1>5, <1>6, ChangedData
  <2>2. \A j \in Buf : j # i => buf'[j] = buf[j]
    BY <1>3, <1>5
  <2> QED
    BY <2>1, <2>2 DEF DataSet
<1>8. \A q \in Proc \ {p} : SameHas(q)
  <2> SUFFICES ASSUME NEW q \in Proc \ {p} PROVE SameHas(q)
    OBVIOUS
  <2>1. at'[q] = at[q] /\ pc'[q] = pc[q]
    BY <1>3
  <2>2. pc[q] \in InIde \cup {"has"} => at[q] \in Buf /\ at[q] # i
    BY <1>1, <1>3, <1>4, Busy, Holding DEF InIde
  <2> QED
    BY <1>7, <2>1, <2>2, HasKept
<1>9. Has(p) /\ Has(p)'
  BY <1>3, <1>4, <1>7 DEF Has
<1>10. PICK b \in Block : b = buf[i].blockno
  BY <1>6
<1>11. Content' = [Content EXCEPT ![b] = v]
  <2> DEFINE c == [Content EXCEPT ![b] = v]
  <2>1. c = [d \in Block |-> IF d = b THEN v ELSE Content[d]]
    BY DEF Content
  <2> HIDE DEF c
  <2>2. c = [d \in Block |-> c[d]] /\ \A d \in Block : c[d] = IF d = b THEN v ELSE Content[d]
    BY <2>1
  <2>3. ASSUME NEW j \in Buf, buf'[j].valid
        PROVE  c[buf'[j].blockno] = buf'[j].data
    <3>1. CASE j = i
      BY <1>7, <1>10, <2>2, <3>1
    <3>2. CASE j # i
      <4>1. buf[j].valid /\ buf'[j].data = buf[j].data /\ buf[j].blockno \in Block
        BY <1>2, <1>7, <2>3, <3>2 DEF Exact, ContentExact
      <4>2. buf[j].blockno # b
        BY <1>1, <1>10, <3>2, <4>1, Names DEF Named
      <4> QED
        BY <1>2, <1>7, <2>2, <4>1, <4>2 DEF Exact, ContentExact
    <3> QED
      BY <3>1, <3>2
  <2>4. ASSUME NEW d \in Block, \A j \in Buf : buf'[j].blockno = d => ~buf'[j].valid
        PROVE  c[d] = disk'[d]
    <3>1. d # b
      BY <1>7, <1>10, <2>4
    <3>2. \A j \in Buf : buf[j].blockno = d => ~buf[j].valid
      BY <1>7, <1>10, <2>4, <3>1
    <3> QED
      BY <1>2, <1>3, <2>2, <3>1, <3>2 DEF Exact, ContentExact
  <2>5. Content' = c
    BY <1>2, <2>2, <2>3, <2>4, ContentBecomes DEF Exact
  <2> QED
    BY <2>5 DEF c
<1>12. /\ buf[at[p]].blockno = b /\ buf'[at'[p]].blockno = b /\ buf'[at'[p]].data = v
       /\ v \in Value[b]
  BY <1>3, <1>4, <1>5, <1>7, <1>10
<1> QED
  BY <1>2, <1>8, <1>9, <1>11, <1>12, Changes

\* releasesleep gives it back, and brelse has nothing to give.
LEMMA BrelseRefines ==
    ASSUME IInv, IInv', NEW p \in Proc, ReleaseSleep(p) \/ Brelse(p)
    PROVE  Store!Next \/ UNCHANGED Abstract
<1>1. TypeOK /\ Places /\ Locks
  BY DEF IInv
<1>2. Exact /\ Exact'
  BY ExactNext
<1>3. /\ pc \in [Proc -> {"idle", "bget", "iderw", "wait", "has", "brelse"}]
      /\ at \in [Proc -> Buf \cup {None}] /\ disk' = disk /\ buf \in [Buf -> Status]
      /\ pc[p] # "idle"
  BY <1>1, Types DEF ReleaseSleep, Brelse, Panic
<1>4. PICK i \in Buf : at[p] = i
  BY <1>1, <1>3, Busy
<1>5. \A j \in Buf : /\ buf'[j].blockno = buf[j].blockno /\ buf'[j].data = buf[j].data
                     /\ buf'[j].valid <=> buf[j].valid
  <2> SUFFICES ASSUME NEW j \in Buf
               PROVE  /\ buf'[j].blockno = buf[j].blockno /\ buf'[j].data = buf[j].data
                      /\ buf'[j].valid <=> buf[j].valid
    OBVIOUS
  <2>1. buf[j] \in Status
    BY <1>3
  <2>2. \/ buf'[j] = buf[j]
        \/ buf'[j] = [buf[j] EXCEPT !.locked = None]
        \/ buf'[j] = [buf[j] EXCEPT !.refcnt = @ - 1]
    BY <1>3, <1>4 DEF ReleaseSleep, Brelse, Panic
  <2> QED
    BY <2>1, <2>2 DEF Status
<1>6. Content' = Content
  BY <1>2, <1>3, <1>5, ContentKept
<1>7. \A q \in Proc \ {p} : SameHas(q)
  <2> SUFFICES ASSUME NEW q \in Proc \ {p} PROVE SameHas(q)
    OBVIOUS
  <2>1. at'[q] = at[q] /\ pc'[q] = pc[q]
    BY <1>3 DEF ReleaseSleep, Brelse, Panic
  <2>2. pc[q] \in InIde \cup {"has"} => at[q] \in Buf
    BY <1>1, Busy DEF InIde
  <2> QED
    BY <1>5, <2>1, <2>2, HasKept
<1>8. CASE ReleaseSleep(p)
  <2>1. pc[p] = "has" /\ pc' = [pc EXCEPT ![p] = "brelse"]
    BY <1>1, <1>8 DEF ReleaseSleep, Places
  <2>2. Has(p) /\ ~Has(p)'
    BY <1>3, <2>1 DEF Has
  <2> QED
    BY <1>2, <1>6, <1>7, <2>2, Releases
<1>9. CASE Brelse(p)
  <2>1. SameHas(p)
    BY <1>3, <1>9 DEF Brelse, SameHas, Has
  <2> QED
    BY <1>2, <1>6, <1>7, <2>1, Stutters
<1> QED
  BY <1>8, <1>9

LEMMA AbstractInit == Init => Store!Init
<1> SUFFICES ASSUME Init PROVE Store!Init
  OBVIOUS
<1>1. Exact
  BY InvInit, ContentIs, HoldersAre, HolderIs DEF Exact
<1>2. \A p \in Proc : ~Has(p)
  BY DEF Init, Has
<1>3. \A b \in Block : Content[b] = disk[b]
  BY <1>1 DEF Exact, ContentExact, Init, Empty
<1>4. Content \in [Block -> Data]
  <2>1. disk \in [Block -> Data]
    BY DEF Init
  <2>2. Content = [b \in Block |-> Content[b]]
    BY DEF Content
  <2> QED
    BY <1>3, <2>1, <2>2
<1>5. Holder = [b \in Block |-> None]
  <2>1. \A b \in Block : ~ \E p \in Proc : Holds(p, b)
    BY <1>2 DEF Holds
  <2> QED
    BY <2>1 DEF Holder
<1>6. View = [p \in Proc |-> None]
  BY <1>2 DEF View
<1> QED
  BY <1>4, <1>5, <1>6 DEF Store!Init, Data

LEMMA AbstractStep ==
    ASSUME IInv, IInv', [Next]_vars
    PROVE  [Store!Next]_<<Content, Holder, View>>
<1>1. CASE IdeIntr
  BY <1>1, IntrRefines DEF Abstract
<1>2. ASSUME NEW p \in Proc, Step(p) PROVE Store!Next \/ UNCHANGED Abstract
  BY <1>2, BgetRefines, AcquireRefines, IdeRefines, WriteRefines, BrelseRefines DEF Step
<1>3. CASE UNCHANGED vars
  <2>1. Exact /\ Exact'
    BY ExactNext
  <2>2. Content' = Content
    BY <1>3, <2>1, ContentKept DEF vars
  <2>3. \A p \in Proc : SameHas(p)
    BY <1>3, HasKept DEF vars
  <2> QED
    BY <2>1, <2>2, <2>3, Stutters DEF Abstract
<1> QED
  BY <1>1, <1>2, <1>3 DEF Next, Abstract

\* The cache implements BlockStore: bread takes a block, at the end of its
\* acquiresleep or at the disk's interrupt, log_write and bwrite change it and
\* brelse gives it back. What the disk, the queue of requests and the recycling
\* of buffers do in between is seen by nobody.
THEOREM OneCopyIsKept == Spec => OneCopy
<1>1. IInv /\ [Next]_vars => IInv'
  BY InvStep
<1>2. IInv /\ IInv' /\ [Next]_vars => [Store!Next]_<<Content, Holder, View>>
  BY AbstractStep
<1> QED
  BY AbstractInit, CacheInvariant, <1>1, <1>2, PTL DEF Spec, OneCopy, Store!Spec
=============================================================================
