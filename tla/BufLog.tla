------------------------------- MODULE BufLog -------------------------------
(***************************************************************************)
(* The buffered log of project3: end_op no longer commits.  The log grows  *)
(* in memory until begin_op finds NBUF blocks in it, or somebody calls     *)
(* sync.                                                                   *)
(***************************************************************************)
EXTENDS LogClaims

CONSTANTS
    NBUF,        \* logged blocks at which begin_op commits (30 in the code)
    Syncers      \* processes that call sync

ASSUME BufLogConstants ==
    /\ NBUF \in Nat \ {0}
    /\ Syncers \subseteq Proc

VARIABLE
    overlapped   \* history: since the last boot two processes have met in
                 \* commit, or one in commit and one past the test of begin_op

bufvars == <<vars, overlapped>>

\* begin_op when others are in the file system already.
Begin(p) ==
    /\ Up
    /\ pc[p] = "begin"
    /\ ~committing /\ ~NoSpace
    /\ outstanding > 0
    /\ outstanding' = outstanding + 1
    /\ Goto(p, "op")
    /\ UNCHANGED <<committing, lh, cache, dirty, disk, file, todo, tail,
                   booting, panic, done>>

\* The first one in gives up log.lock to see to the buffer limit.
BeginFirst(p) ==
    /\ Up
    /\ pc[p] = "begin"
    /\ ~committing /\ ~NoSpace
    /\ outstanding = 0
    /\ Goto(p, "limit")
    /\ UNCHANGED <<mem, disk, file, todo, tail, booting, panic, done>>

LimitBelow(p) ==
    /\ Up
    /\ pc[p] = "limit" /\ Len(lh) < NBUF
    /\ Goto(p, "enter")
    /\ UNCHANGED <<mem, disk, file, todo, tail, booting, panic, done>>

LimitReached(p) ==
    /\ Up
    /\ pc[p] = "limit" /\ Len(lh) >= NBUF
    /\ committing' = TRUE
    /\ tail' = [tail EXCEPT ![p] = 0]
    /\ Goto(p, CommitEntry)
    /\ UNCHANGED <<outstanding, lh, cache, dirty, disk, file, todo, booting,
                   panic, done>>

\* Mutant: the operation is not counted.
EnterUncounted(p) ==
    /\ Up
    /\ pc[p] = "enter"
    /\ Goto(p, "op")
    /\ UNCHANGED <<mem, disk, file, todo, tail, booting, panic, done>>

\* The end of begin_op after limit_check: nothing is tested again.
Enter(p) ==
    /\ Up
    /\ pc[p] = "enter"
    /\ outstanding' = outstanding + 1
    /\ Goto(p, "op")
    /\ UNCHANGED <<committing, lh, cache, dirty, disk, file, todo, tail,
                   booting, panic, done>>

EndOp(p) ==
    /\ Ending(p)
    /\ Completed(p)
    /\ pc' = IF outstanding > 1 THEN Woken(p, "idle")
                                ELSE [pc EXCEPT ![p] = "idle"]
    /\ UNCHANGED <<committing, lh, cache, dirty, disk, todo, tail, booting>>

\* sys_sync, up to its call of commit(): whoever else is in the file system.
Sync(p) ==
    /\ Up
    /\ p \in Syncers /\ pc[p] = "idle"
    /\ committing' = TRUE
    /\ tail' = [tail EXCEPT ![p] = 0]
    /\ Goto(p, CommitEntry)
    /\ UNCHANGED <<outstanding, lh, cache, dirty, disk, file, todo, booting,
                   panic, done>>

InSync(p) == file[p] = NoFile

\* The end of sys_sync and of limit_check.
Finish(p) ==
    /\ Up
    /\ pc[p] = "finish"
    /\ committing' = FALSE
    /\ pc' = Woken(p, IF InSync(p) THEN "idle" ELSE "enter")
    /\ UNCHANGED <<outstanding, lh, cache, dirty, disk, file, todo, tail,
                   booting, panic, done>>

\* What a process does once it has come to begin_op or sync.
Step(p) ==
    \/ BeginSleep(p) \/ Begin(p) \/ BeginFirst(p)
    \/ LimitBelow(p) \/ LimitReached(p) \/ Enter(p)
    \/ \E b \in Block : LogWrite(p, b)
    \/ EndOp(p)
    \/ Disk(p) \/ Finish(p)

-----------------------------------------------------------------------------
(* What the code takes for granted and does not see to *)

AtDisk(p) == pc[p] \in {"copy", "head", "install", "erase", "finish"}
Passed(p) == pc[p] \in {"limit", "enter", "op"}

\* A commit meets another one or an operation; or two first operations are past
\* the test of begin_op, of which one may commit when the other has begun.
Overlap ==
    \E p, q \in Proc : /\ p # q
                       /\ AtDisk(p) \/ pc[p] \in {"limit", "enter"}
                       /\ AtDisk(q) \/ Passed(q)

BufInit == Init /\ overlapped = FALSE

Next == \E p \in Proc :
            \/ /\ (\E f \in File : Call(p, f)) \/ Sync(p) \/ Step(p)
               /\ overlapped' = (overlapped \/ Overlap')
            \/ Crash(p) /\ overlapped' = FALSE

Spec == BufInit /\ [][Next]_bufvars

-----------------------------------------------------------------------------
(* As long as no commit has met an operation, the buffered log is as safe as *)
(* the original.  Where they do meet it is not, but the next boot starts      *)
(* afresh, from whatever the disk was left with.                              *)

\* "The logging system only commits when there are no FS system calls active"
\* (log.c:11): not the buffered log, whose header may be written for half an
\* operation.
OnlyQuietCommits == \A p \in Proc : pc[p] = "install" /\ Up => outstanding = 0

\* A commit finds the log alone, nothing panics, and what is not on the disk is
\* pinned and in the transaction.
BufferedSound == TypeOK /\ (~overlapped => CommitAlone /\ NoPanic /\ Pinned)

\* sync returns when everything that ended before it was called is on disk.
SyncDurable ==
    ~overlapped => \A p \in Proc : pc[p] = "finish" /\ InSync(p) => Recovered = done

\* Operations take effect as a whole, and a crash goes back to a moment when
\* some had, with recovery interrupted anywhere.
BufferedAtomic == [][~overlapped' => Store!Next]_<<done, Recovered>>
=============================================================================
