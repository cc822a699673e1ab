------------------------------- MODULE Machine -------------------------------
(* project3 from power on: the boot block loads the kernel (Loader), the      *)
(* kernel starts its processors and the first process (Boot), and then the    *)
(* processors run processes (Smp).                                            *)
EXTENDS Loader, Boot, Smp

MachineInit == LoadInit /\ BootInit /\ Init

MachineNext ==
    \/ at # "main" /\ LoadNext /\ UNCHANGED <<bootvars, vars>>
    \/ at = "main" /\ ~Booted /\ BootNext /\ UNCHANGED <<loadvars, vars>>
    \/ Booted /\ Next /\ UNCHANGED <<loadvars, bootvars>>

MachineSpec == MachineInit /\ [][MachineNext]_<<loadvars, bootvars, vars>>

\* The kernel is in memory as it was linked when main() starts, every processor
\* that main() starts has what it needs, and the first process reaches user
\* mode only after the disk has answered it.
StartSound == KernelLoaded /\ BootSound
=============================================================================
