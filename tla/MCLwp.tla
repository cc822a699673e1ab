------------------------------- MODULE MCLwp -------------------------------
(* Small instances of Lwp. *)
EXTENDS Lwp, TLC

CONSTANTS s1, s2, s3, s4

\* All slots but init are alike.
Perms == Permutations(Slot \ {init})
=============================================================================
