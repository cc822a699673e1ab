------------------------------ MODULE MCBufLog ------------------------------
(* Model values and small instances for BufLog. *)
EXTENDS BufLog, TLC

CONSTANTS p1, p2, b1, b2

One == {{b1, b2}}
Perms == Permutations(Proc)
=============================================================================
