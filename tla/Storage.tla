------------------------------- MODULE Storage --------------------------------
(***************************************************************************)
(* What lies under the calls on files: the buffer cache (BufCache), the    *)
(* blocks of a file (FileBlocks), and the tree of directories on the disk  *)
(* (DiskFs).  They share no state, so that a run is a run of one of them:  *)
(* part says which.                                                        *)
(***************************************************************************)
EXTENDS BufCache, DiskFs, FileBlocks

VARIABLE part        \* which of them runs

storagevars == <<part, vars, filevars, treevars>>

Part == {"cache", "files", "tree"}

StorageInit ==
    /\ part \in Part
    /\ Init /\ FilesInit /\ TreeInit
    /\ part # "cache" => \A x, y \in Block : disk[x] = disk[y]

\* Only part p takes a step.
Only(p) ==
    /\ part = p /\ part' = p
    /\ p # "cache" => UNCHANGED vars
    /\ p # "files" => UNCHANGED filevars
    /\ p # "tree"  => UNCHANGED treevars

StorageNext ==
    \/ Only("cache") /\ Next
    \/ Only("files") /\ FilesNext
    \/ Only("tree") /\ TreeNext

StorageSpec == StorageInit /\ [][StorageNext]_storagevars

-----------------------------------------------------------------------------
(* The properties of BufCache are about every run, because a part that does *)
(* not run is as it was in the beginning.                                   *)

\* Every block of a file has one use, whichever of mkfs and the kernel took it, and
\* a chunk of a write logs nine blocks at most besides those of the bitmap (which may
\* make it more than the ten that begin_op reserves).
BlocksKept == part = "files" => BlocksSound

\* What mkfs and the kernel wrote is read back at its offset.
FilesKept == part = "files" => ReadBack

\* Bitmap, inodes and names agree on what each commit leaves on the disk.
DiskKept == part = "tree" => DiskSound

\* The directories are a tree.
TreeKept == part = "tree" => TreeSound
=============================================================================
