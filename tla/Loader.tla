------------------------------- MODULE Loader -------------------------------
(***************************************************************************)
(* The boot block of project3: bootasm.S opens the address line A20 and    *)
(* enters protected mode, bootmain() reads the ELF header of the kernel    *)
(* and then its segments from the disk, in whole sectors and so often more *)
(* than a segment has, and entry.S turns paging on and calls main().       *)
(***************************************************************************)
EXTENDS Integers, Sequences

CONSTANTS
    SECTSIZE,       \* bytes of a sector
    MEG,            \* the address from which A20 counts
    Memory,         \* the physical addresses
    BOOT,           \* where the boot block is
    Magic,          \* what an ELF file starts with
    HEADER, Page,   \* the bytes of the first page, and where it is put
    Files           \* what may lie on the disk: bytes and program headers

\* kernel.ld: the segments come in increasing order, each as far from a sector
\* boundary in memory as in the file, and two share no sector.
Linked(file) ==
    \A i \in DOMAIN file.phdrs : LET ph == file.phdrs[i] IN
        /\ ph.paddr >= MEG /\ ph.paddr % SECTSIZE = ph.off % SECTSIZE
        /\ ph.filesz <= ph.memsz /\ ph.off + ph.filesz <= Len(file.bytes)
        /\ ph.paddr + ph.memsz + SECTSIZE \in Memory
        /\ \A j \in 1..(i - 1) : LET before == file.phdrs[j] IN
               before.paddr + before.memsz <= ph.paddr - (ph.paddr % SECTSIZE)

ASSUME LoaderConstants ==
    /\ SECTSIZE \in Nat \ {0} /\ MEG \in Nat \ {0} /\ MEG % SECTSIZE = 0
    /\ Memory \subseteq Nat /\ BOOT \in Nat /\ Page \in Nat
    /\ HEADER \in Nat /\ HEADER % SECTSIZE = 0
    /\ BOOT + SECTSIZE <= Page /\ Page + HEADER <= MEG
    /\ \A file \in Files : file.bytes \in Seq(Nat) /\ Linked(file)

VARIABLES
    cpu,        \* real (the BIOS jumps to start), protected or paging
    a20,        \* the address line is open
    file,       \* what is on the disk
    ram,        \* the bytes of the memory
    segment,    \* the program header that is being loaded; 0: the first page
    dst, last,  \* where the next sector goes, and where the segment ends
    sector,     \* that sector
    at          \* where the code is: start, bootmain, main or spin

target == <<segment, dst, last, sector>>
loadvars == <<cpu, a20, file, ram, target, at>>

Garbage == -1

\* With A20 closed, odd megabytes are even ones.
Line(addr) ==
    IF a20 \/ (addr \div MEG) % 2 = 0 THEN addr ELSE addr - MEG

\* The kernel starts at sector 1.
DiskByte(i) ==
    LET k == i - SECTSIZE IN
    IF k >= 0 /\ k < Len(file.bytes) THEN file.bytes[k + 1] ELSE Garbage

Phdr == file.phdrs[segment]

\* Memory after bytes have been put at the addresses from pa to before end.
Put(pa, end, Byte(_)) ==
    [addr \in Memory |->
        LET here == {k \in pa..(end - 1) : Line(k) = addr}
        IN  IF here = {} THEN ram[addr] ELSE Byte(CHOOSE k \in here : TRUE)]

LoadInit ==
    /\ cpu = "real" /\ a20 = FALSE
    /\ file \in Files
    /\ ram = [addr \in Memory |-> Garbage]
    /\ segment = 0 /\ dst = 0 /\ last = 0 /\ sector = 0
    /\ at = "start"

-----------------------------------------------------------------------------
\* seta20.1 and seta20.2.
Seta20 ==
    /\ at = "start" /\ ~a20
    /\ a20' = TRUE
    /\ UNCHANGED <<cpu, file, ram, target, at>>

\* Mutant: the first sector is not rounded down.
ReadsegUnrounded(pa, count, offset) ==
    /\ dst' = pa
    /\ last' = pa + count
    /\ sector' = (offset \div SECTSIZE) + 1

\* readseg() rounds down to a sector.
Readseg(pa, count, offset) ==
    /\ dst' = pa - (offset % SECTSIZE)
    /\ last' = pa + count
    /\ sector' = (offset \div SECTSIZE) + 1

\* start32, and the first lines of bootmain.
Start32 ==
    /\ at = "start" /\ a20
    /\ cpu' = "protected" /\ at' = "bootmain"
    /\ Readseg(Page, HEADER, 0)
    /\ UNCHANGED <<a20, file, ram, segment>>

\* waitdisk() and readsect(): a whole sector.
Readsect ==
    /\ at = "bootmain" /\ dst < last
    /\ LET Byte(addr) == DiskByte(sector * SECTSIZE + addr - dst)
       IN  ram' = Put(dst, dst + SECTSIZE, Byte)
    /\ dst' = dst + SECTSIZE /\ sector' = sector + 1
    /\ UNCHANGED <<cpu, a20, file, segment, last, at>>

NotElf == segment = 0 /\ ram[Page] # Magic

\* bootmain() returns, and bootasm.S spins.
Return ==
    /\ at = "bootmain" /\ dst >= last /\ NotElf
    /\ at' = "spin"
    /\ UNCHANGED <<cpu, a20, file, ram, target>>

Spinning == at = "spin" /\ UNCHANGED loadvars

\* stosb: the bytes that the file does not have are zero.
ZeroRest ==
    LET Byte(addr) == 0
    IN  ram' = IF segment = 0 THEN ram
               ELSE Put(Phdr.paddr + Phdr.filesz, Phdr.paddr + Phdr.memsz, Byte)

NextSegment ==
    /\ at = "bootmain" /\ dst >= last /\ ~NotElf
    /\ segment < Len(file.phdrs)
    /\ ZeroRest
    /\ segment' = segment + 1
    /\ LET ph == file.phdrs[segment + 1]
       IN  Readseg(ph.paddr, ph.filesz, ph.off)
    /\ UNCHANGED <<cpu, a20, file, at>>

\* entry(): entry.S turns paging on with entrypgdir and jumps to main.
Entry ==
    /\ at = "bootmain" /\ dst >= last /\ ~NotElf
    /\ segment = Len(file.phdrs)
    /\ ZeroRest
    /\ cpu' = "paging" /\ at' = "main"
    /\ UNCHANGED <<a20, file, target>>

LoadNext ==
    \/ Seta20 \/ Start32 \/ Readsect \/ NextSegment \/ Entry
    \/ Return \/ Spinning

LoadSpec == LoadInit /\ [][LoadNext]_loadvars

-----------------------------------------------------------------------------
\* A segment is in memory as its program header says.
InPlace(ph) ==
    \A i \in 0..(ph.memsz - 1) :
        ram[ph.paddr + i] = IF i < ph.filesz THEN file.bytes[ph.off + i + 1]
                                             ELSE 0

\* main() finds the kernel as it was linked, though sectors were read whole and
\* over what was there; the boot block never overwrites itself; and only what
\* is no ELF file leaves it spinning.
KernelLoaded ==
    /\ at = "main" =>
           /\ cpu = "paging"
           /\ \A i \in DOMAIN file.phdrs : InPlace(file.phdrs[i])
    /\ \A i \in 0..(SECTSIZE - 1) : ram[BOOT + i] = Garbage
    /\ at = "spin" <=> at # "bootmain" /\ at # "start" /\ file.bytes[1] # Magic
=============================================================================
