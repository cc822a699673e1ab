-------------------------------- MODULE Log ---------------------------------
(***************************************************************************)
(* The log of projects 1 and 2 (log.c of xv6): the last operation to end   *)
(* commits for all of them.                                                *)
(***************************************************************************)
EXTENDS LogCore

\* Mutant: begin_op does not wait for a commit to end.
BeginWhileCommitting(p) ==
    /\ Up
    /\ pc[p] = "begin"
    /\ ~NoSpace
    /\ outstanding' = outstanding + 1
    /\ Goto(p, "op")
    /\ UNCHANGED <<committing, lh, cache, dirty, disk, file, todo, tail,
                   booting, panic, done>>

Begin(p) ==
    /\ Up
    /\ pc[p] = "begin"
    /\ ~committing /\ ~NoSpace
    /\ outstanding' = outstanding + 1
    /\ Goto(p, "op")
    /\ UNCHANGED <<committing, lh, cache, dirty, disk, file, todo, tail,
                   booting, panic, done>>

\* end_op with other operations under way: it gives its reservation back.
EndOp(p) ==
    /\ Ending(p)
    /\ outstanding > 1
    /\ Completed(p)
    /\ pc' = Woken(p, "idle")
    /\ UNCHANGED <<committing, lh, cache, dirty, disk, todo, tail, booting>>

\* The last end_op goes on with commit().
EndOpCommits(p) ==
    /\ Ending(p)
    /\ outstanding = 1
    /\ Completed(p)
    /\ committing' = TRUE
    /\ tail' = [tail EXCEPT ![p] = 0]
    /\ Goto(p, CommitEntry)
    /\ UNCHANGED <<lh, cache, dirty, disk, todo, booting>>

\* Mutant: the end of a commit wakes nobody.
FinishSilent(p) ==
    /\ Up
    /\ pc[p] = "finish"
    /\ committing' = FALSE
    /\ Goto(p, "idle")
    /\ UNCHANGED <<outstanding, lh, cache, dirty, disk, file, todo, tail,
                   booting, panic, done>>

Finish(p) ==
    /\ Up
    /\ pc[p] = "finish"
    /\ committing' = FALSE
    /\ pc' = Woken(p, "idle")
    /\ UNCHANGED <<outstanding, lh, cache, dirty, disk, file, todo, tail,
                   booting, panic, done>>

\* What a process does once it has come to begin_op.
Step(p) ==
    \/ BeginSleep(p) \/ Begin(p)
    \/ \E b \in Block : LogWrite(p, b)
    \/ EndOp(p) \/ EndOpCommits(p)
    \/ Disk(p) \/ Finish(p)

Next == \E p \in Proc : \/ \E f \in File : Call(p, f)
                        \/ Step(p)
                        \/ Crash(p)

Spec == Init /\ [][Next]_vars

\* Processes run and disk writes end; nobody has to call, or to crash.
LiveSpec == Spec /\ \A p \in Proc : WF_vars(Step(p))

\* When end_op returns and nobody else is in the file system, nothing is held
\* back: whatever has ended is on disk.
IdleDurable == ~booting /\ outstanding = 0 /\ ~committing => Recovered = done
=============================================================================
