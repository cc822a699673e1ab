---------------------------- MODULE AtomicStore -----------------------------
(***************************************************************************)
(* What the log promises to the file system: operations take effect as a   *)
(* whole, and a crash goes back to what they had done together at some     *)
(* earlier moment, never to a part of one of them.                         *)
(***************************************************************************)
EXTENDS Integers

CONSTANTS
    Block,       \* disk blocks of the file system
    File,        \* sets of blocks that one operation updates together
    VERSIONS     \* contents of a block are versions, counted modulo this

VARIABLES
    mem,         \* the contents by the operations that have completed
    stable       \* the contents a crash would leave

Version == 0..(VERSIONS - 1)

Init ==
    /\ mem = [b \in Block |-> 0]
    /\ stable = mem

\* An operation on the blocks f completes.
Updated(m, f) ==
    [b \in Block |-> IF b \in f THEN (m[b] + 1) % VERSIONS ELSE m[b]]

Update(f) == mem' = Updated(mem, f) /\ UNCHANGED stable

Persist == stable' = mem /\ UNCHANGED mem

Crash == mem' = stable /\ UNCHANGED stable

Next == Persist \/ Crash \/ \E f \in File : Update(f)

Spec == Init /\ [][Next]_<<mem, stable>>
=============================================================================
