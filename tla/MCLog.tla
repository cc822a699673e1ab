------------------------------- MODULE MCLog --------------------------------
(* Model values and small instances for Log. *)
EXTENDS Log, LogClaims, TLC

CONSTANTS p1, p2, b1, b2, b3

Files == {{b1, b2}, {b3}}
Perms == Permutations(Proc)
=============================================================================
