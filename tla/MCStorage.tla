------------------------------ MODULE MCStorage -------------------------------
(* A small instance of Storage.                                              *)
EXTENDS Storage

\* The buffer cache: fewer buffers than blocks, so that every buffer is
\* recycled, and one that the log may pin. The contents of one block are told
\* apart: blocks do not depend on each other's.
CONSTANT Observed

Contents == [x \in Block |-> IF x = Observed THEN {0, 1} ELSE {0}]

\* Blocks of files: up to 37 blocks of three words in a file, which starts at
\* the ends of the direct, double and triple blocks.
RootWords == {2, 3}
StartWords == {2, 28, 55, 107}

\* The tree: three inodes besides the root, and blocks that hold a directory
\* with one name, so that the second one needs an indirect block.
CONSTANTS foo, bar

To(names) == [abs |-> FALSE, names |-> names]
Full(names) == [abs |-> TRUE, names |-> names]
Paths == {To(<<foo>>), To(<<bar>>), To(<<DotDot>>), Full(<<foo>>), Full(<<foo, bar>>)}
OpenModes == {{"read"}, {"create", "read", "write"}}
=============================================================================
