------------------------------ MODULE LogProofs -------------------------------
(***************************************************************************)
(* The write-ahead log of projects 1 and 2, proved for every number of     *)
(* processes and blocks and every size of the log: a commit finds the log  *)
(* alone, what is not on disk is pinned, an idle log is on disk, and       *)
(* operations are atomic across crashes.                                   *)
(***************************************************************************)
EXTENDS Log, LogFacts

-----------------------------------------------------------------------------
(* The invariant *)

\* Every operation that ended was committed: between them the log is empty.
Drained == (\A p \in Proc : ~Committing(p)) /\ outstanding = 0 => lh = << >>

IInv == Common /\ Drained

\* begin_op and end_op of this log are what the common invariant asks for.
LogMoves(p) ==
    \/ Core(p) \/ (Begin(p) /\ Enters(p))
    \/ (EndOp(p) /\ Leaves(p)) \/ (EndOpCommits(p) /\ LeavesLast(p))
    \/ (Finish(p) /\ Finishes(p))

LEMMA NextMoves ==
    ASSUME Common, Next
    PROVE  \E p \in Proc : LogMoves(p)
<1>1. PICK p \in Proc :
         \/ Core(p) \/ Begin(p) \/ EndOp(p) \/ EndOpCommits(p) \/ Finish(p)
  BY DEF Next, Step, Core
<1>2. pc \in [Proc -> Place]
  BY DEF Common, TypeOK
<1>3. ASSUME pc' = Woken(p, "idle") PROVE OthersWoken(p) /\ pc'[p] = "idle"
  BY <1>2, <1>3 DEF Woken, OthersWoken, Place
<1>4. Begin(p) => Enters(p)
  BY DEF Begin, Enters
<1>5. EndOp(p) => Leaves(p)
  BY <1>3 DEF EndOp, Leaves
<1>6. EndOpCommits(p) => LeavesLast(p)
  <2>1. EndOpCommits(p) => OthersWoken(p) /\ pc'[p] = CommitEntry
    BY <1>2 DEF EndOpCommits, Goto, OthersWoken, CommitEntry, Place
  <2> QED
    BY <2>1 DEF EndOpCommits, LeavesLast, ToCommit
<1>7. Finish(p) => Finishes(p)
  BY <1>3 DEF Finish, Finishes
<1> QED
  BY <1>1, <1>4, <1>5, <1>6, <1>7 DEF LogMoves

LEMMA DrainedStep ==
    ASSUME Common, Drained, Common', NEW p \in Proc, LogMoves(p)
    PROVE  Drained'
<1>1. \/ \E f \in File : Call(p, f)
      \/ BeginSleep(p)
      \/ \E b \in Block : LogWrite(p, b)
      \/ Begin(p) \/ EndOp(p) \/ (EndOpCommits(p) /\ LeavesLast(p))
      \/ CopyToLog(p) \/ CopyDone(p) \/ WriteHead(p) \/ Install(p)
      \/ InstallDone(p) \/ Erase(p) \/ Finish(p) \/ Crash(p)
  BY DEF LogMoves, Core, Disk
<1>2. TypeOK /\ Counted /\ Phases /\ outstanding \in Nat /\ outstanding' \in Nat
  BY DEF Common, TypeOK
<1>3. ASSUME outstanding' > 0 PROVE Drained'
  BY <1>3 DEF Drained
<1>4. ASSUME Committing(p)' PROVE Drained'
  BY <1>4 DEF Drained
<1>5. ASSUME <<outstanding, lh>>' = <<outstanding, lh>>,
             \A q \in Proc : Committing(q)' = Committing(q)
      PROVE  Drained'
  BY <1>5 DEF Drained
<1>6. ASSUME NEW f \in File, Call(p, f) PROVE Drained'
  BY <1>2, <1>5, <1>6, CommitMoves DEF Call, mem
<1>7. CASE BeginSleep(p)
  BY <1>2, <1>5, <1>7, CommitMoves DEF BeginSleep, mem
<1>8. ASSUME NEW b \in Block, LogWrite(p, b) PROVE Drained'
  <2>1. p \in Ops /\ outstanding' = outstanding
    BY <1>2, <1>8, OpsMoves DEF LogWrite
  <2> QED
    BY <1>2, <1>3, <2>1, CountedFacts
<1>9. CASE Begin(p)
  BY <1>2, <1>3, <1>9 DEF Begin
<1>10. CASE EndOp(p)
  BY <1>2, <1>3, <1>10 DEF EndOp, Completed
<1>11. CASE EndOpCommits(p) /\ LeavesLast(p)
  BY <1>2, <1>4, <1>11, CommitMoves
<1>12. CASE CopyToLog(p) \/ CopyDone(p) \/ WriteHead(p) \/ Install(p) \/ InstallDone(p)
  <2>1. Committing(p)'
    BY <1>2, <1>12, CommitMoves
  <2> QED
    BY <1>4, <2>1
<1>13. CASE Erase(p)
  BY <1>2, <1>13 DEF Erase, mem, Phases, Installed, Drained
<1>14. CASE Finish(p)
  BY <1>2, <1>14 DEF Finish, Phases, Finished, Drained
<1>15. CASE Crash(p)
  BY <1>2, <1>4, <1>15, CommitMoves
<1> QED
  BY <1>1, <1>6, <1>7, <1>8, <1>9, <1>10, <1>11, <1>12, <1>13, <1>14, <1>15

LEMMA InvInit == ASSUME Init PROVE IInv
<1>1. Common
  BY CommonInit
<1> QED
  BY <1>1 DEF Init, IInv, Drained

LEMMA InvStep == ASSUME IInv, [Next]_vars PROVE IInv'
<1>1. Common /\ Drained
  BY DEF IInv
<1>2. CASE Next
  <2>1. PICK p \in Proc : LogMoves(p)
    BY <1>1, <1>2, NextMoves
  <2>2. Moves(p)
    BY <2>1 DEF LogMoves, Moves
  <2>3. Common'
    BY <1>1, <2>2, CommonStep
  <2>4. Drained'
    BY <1>1, <2>1, <2>3, DrainedStep
  <2> QED
    BY <2>3, <2>4 DEF IInv
<1>3. CASE UNCHANGED vars
  <2>1. Common'
    BY <1>1, <1>3, CommonStutter
  <2>2. Drained'
    BY <1>1, <1>3 DEF vars, Drained, Committing
  <2> QED
    BY <2>1, <2>2 DEF IInv
<1> QED
  BY <1>2, <1>3

\* Whatever operations, commits and crashes come, the log keeps its invariant.
THEOREM LogInvariant == Spec => []IInv
<1>1. Init => IInv
  BY InvInit
<1>2. IInv /\ [Next]_vars => IInv'
  BY InvStep
<1> QED
  BY <1>1, <1>2, PTL DEF Spec

-----------------------------------------------------------------------------
(* What follows from it *)

\* Every variable keeps its type: in particular the list of a transaction and
\* the header stay within the blocks of the log.
THEOREM TypeCorrect == Spec => []TypeOK
<1>1. IInv => TypeOK
  BY DEF IInv, Common
<1> QED
  BY <1>1, LogInvariant, PTL

\* log.c:11, "only commits when there are no FS system calls active": commit()
\* and recover_from_log() run alone, however operations and crashes come.
THEOREM CommitsAlone == Spec => []CommitAlone
<1>1. IInv => CommitAlone
  BY DEF IInv, Common, Alone, CommitAlone
<1> QED
  BY <1>1, LogInvariant, PTL

\* When the last end_op has returned, or a recovery has ended, what all
\* completed operations wrote is on disk.
THEOREM IdleIsDurable == Spec => []IdleDurable
<1>1. IInv => IdleDurable
  <2> SUFFICES ASSUME IInv, ~booting, outstanding = 0, ~committing
               PROVE  Recovered = done
    BY DEF IdleDurable
  <2>1. TypeOK /\ Counted /\ Alone /\ AtRest /\ Contents /\ Drained
    BY DEF IInv, Common
  <2>2. ~panic /\ \A p \in Proc : ~Committing(p)
    BY <2>1 DEF Alone
  <2>3. head = << >> /\ lh = << >>
    BY <2>1, <2>2 DEF AtRest, Drained
  <2>4. cache = done
    BY <2>1, <2>2, CacheDone
  <2>5. \A b \in Block : cache[b] = home[b]
    BY <2>1, <2>2, <2>3 DEF Contents, Pinned, InLh
  <2>6. cache \in [Block -> Version] /\ home \in [Block -> Version]
    BY <2>1 DEF TypeOK
  <2> QED
    BY <2>1, <2>3, <2>4, <2>5, <2>6, NothingToRecover
<1> QED
  BY <1>1, LogInvariant, PTL

\* Operations take effect as a whole at their end_op, a commit makes all of
\* them last at its write_head, and a crash anywhere, in a commit or in a
\* recovery too, goes back to the last commit.
THEOREM OperationsAreAtomic == Spec => AtomicOps
<1>1. Init => Store!Init
  BY StoreInit
<1>2. IInv /\ IInv' /\ [Next]_vars => [Store!Next]_<<done, Recovered>>
  <2> SUFFICES ASSUME IInv, IInv', [Next]_vars
               PROVE  [Store!Next]_<<done, Recovered>>
    OBVIOUS
  <2>1. Common /\ Common'
    BY DEF IInv
  <2>2. CASE Next
    <3>1. PICK p \in Proc : Moves(p)
      BY <2>1, <2>2, NextMoves DEF LogMoves, Moves
    <3> QED
      BY <2>1, <3>1, StoreStep
  <2>3. CASE UNCHANGED vars
    BY <2>3 DEF vars, Recovered
  <2> QED
    BY <2>2, <2>3
<1> QED
  BY <1>1, <1>2, LogInvariant, PTL DEF Spec, AtomicOps, Store!Spec

\* A commit finds the log complete and alone, whatever the cache recycles was
\* not needed, and log_write and end_op never panic, for operations that write
\* fewer blocks than begin_op reserves: for those that write MAXOPBLOCKS the
\* header's block is missing (README, Findings).
THEOREM LogIsSound ==
    ASSUME SmallOps
    PROVE  Spec => []LogSound
<1>1. Init => IInv /\ Enough
  <2>1. Init => ~panic /\ outstanding = 0
    BY DEF Init
  <2> QED
    BY InvInit, <2>1 DEF Enough
<1>2. IInv /\ Enough /\ [Next]_vars => (IInv /\ Enough)'
  <2> SUFFICES ASSUME IInv, Enough, [Next]_vars PROVE IInv' /\ Enough'
    OBVIOUS
  <2>1. IInv' /\ Common /\ Common'
    BY InvStep DEF IInv
  <2>2. CASE Next
    <3>1. PICK p \in Proc : LogMoves(p)
      BY <2>1, <2>2, NextMoves
    <3>2. Fitting(p)
      BY <3>1 DEF LogMoves, Fitting, Begin
    <3> QED
      BY <2>1, <3>2, EnoughStep
  <2>3. CASE UNCHANGED vars
    BY <2>1, <2>3, EnoughStutter
  <2> QED
    BY <2>2, <2>3, <2>1
<1>3. IInv /\ Enough => LogSound
  BY DEF IInv, Common, Enough, LogSound, Alone, CommitAlone, NoPanic, Contents
<1> QED
  BY <1>1, <1>2, <1>3, PTL DEF Spec
=============================================================================
