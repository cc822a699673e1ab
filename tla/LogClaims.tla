----------------------------- MODULE LogClaims ------------------------------
(***************************************************************************)
(* What a log promises, the one of projects 1 and 2 and the one of         *)
(* project3.                                                               *)
(***************************************************************************)
EXTENDS LogCore

Place == {"idle", "begin", "asleep", "limit", "enter", "op", "copy", "head",
          "install", "erase", "finish"}

\* Every variable keeps its type; the log and its header fit the space they
\* have, and nobody is counted who is not in an operation.
TypeOK ==
    /\ outstanding \in Nat
    /\ committing \in BOOLEAN
    /\ lh \in Seq(Block)
    /\ Len(lh) < LOGSIZE
    /\ cache \in [Block -> Version]
    /\ dirty \in SUBSET Block
    /\ home \in [Block -> Version]
    /\ logd \in [Slot -> Version]
    /\ head \in Seq(Block)
    /\ Len(head) < LOGSIZE
    /\ pc \in [Proc -> Place]
    /\ file \in [Proc -> File \cup {NoFile}]
    /\ todo \in [Proc -> SUBSET Block]
    /\ tail \in [Proc -> 0..LOGSIZE]
    /\ booting \in BOOLEAN
    /\ panic \in BOOLEAN
    /\ done \in [Block -> Version]

Committing(p) == pc[p] \in {"copy", "head", "install", "erase", "finish"}

\* "The logging system only commits when there are no FS system calls active"
\* (log.c:11): while a process is in commit or in recovery, no other one is,
\* and no operation is under way.
CommitAlone ==
    \A p \in Proc : Committing(p) =>
        /\ \A q \in Proc \ {p} : ~Committing(q)
        /\ outstanding = 0

\* The reservations of begin_op are enough and end_op is never surprised by a
\* commit: the kernel does not panic.
NoPanic == ~panic

\* bio.c may recycle a clean buffer: what the cache has and the disk has not
\* is dirty, and is in the transaction that will write it.
Pinned == \A b \in Block : cache[b] # home[b] => b \in dirty /\ InLh(b)

\* A commit finds the log complete and alone, and the cache holds what it needs.
LogSound == TypeOK /\ CommitAlone /\ NoPanic /\ Pinned

\* Nobody sleeps in begin_op for ever: "it sleeps until the last outstanding
\* end_op() commits" (log.c:20).
SleeperWoken == \A p \in Proc : pc[p] = "asleep" ~> pc[p] # "asleep"

\* What recovery makes of the disk is at any time what some operations have
\* done together: an operation takes effect as a whole when it ends, a commit
\* makes all of them last, a crash goes back to the last commit.
Store == INSTANCE AtomicStore WITH mem <- done, stable <- Recovered

AtomicOps == Store!Spec
=============================================================================
