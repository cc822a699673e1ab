-------------------------------- MODULE MCFs --------------------------------
(* A small instance of Fs: two processes that make different calls, on a     *)
(* name of the current directory, another one, and one in a subdirectory.    *)
EXTENDS Fs, TLC

CONSTANTS p1, p2, a, b

Paths == (p1 :> {<<a>>, <<b>>, <<a, b>>}) @@ (p2 :> {<<a>>})
Roles == (p1 :> {"open", "close", "unlink", "mkdir"})
         @@ (p2 :> {"link", "symlink", "chdir", "mkdir"})
=============================================================================
