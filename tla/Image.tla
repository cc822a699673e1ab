-------------------------------- MODULE Image --------------------------------
(***************************************************************************)
(* What is in the memory of a user process: exec() builds it from a file   *)
(* and puts the arguments on the stack (exec.c, vm.c), sbrk moves its end, *)
(* and system calls fetch their arguments from it (syscall.c).  Mem has    *)
(* the pages that all this takes; here it is the bytes.                    *)
(***************************************************************************)
EXTENDS Integers, FiniteSets, Sequences, SequencesExt, TLC

CONSTANTS
    PAGE,        \* bytes of a page (PGSIZE)
    BYTE,        \* values of a byte; an int has two, so there are BYTE^2
    KERNEL,      \* where the kernel's part begins (KERNBASE)
    PAGES,       \* pages for user memory
    ARGMAX,      \* MAXARG
    Execs,       \* the files that are run
    Vectors,     \* the arguments that they are given
    Grow         \* what sbrk is asked for

WORD == 2
Addresses == BYTE * BYTE
Page(addr) == addr \div PAGE
PagesTo(addr) == (addr + PAGE - 1) \div PAGE

ASSUME ImageConstants ==
    /\ PAGE \in Nat \ {0} /\ BYTE \in Nat \ {0, 1}
    /\ PAGE % WORD = 0 /\ KERNEL % PAGE = 0 /\ 2 * KERNEL = Addresses
    /\ PAGES \in Nat \ {0} /\ ARGMAX \in Nat \ {0} /\ Grow \subseteq Int

VARIABLES
    mem,      \* the pages that are mapped: bytes, and whether users may see them
    size,     \* sz
    esp,      \* the stack pointer
    image     \* what exec was last given, while it is all there

imagevars == <<mem, size, esp, image>>

NoImage == [vector |-> <<>>, file |-> [phdrs |-> <<>>], size |-> 0]

\* A new image while it is built: ok until something fails.
New(pages, sz) == [ok |-> TRUE, pages |-> pages, sz |-> sz]
Bad(m) == [m EXCEPT !.ok = FALSE]
Zeroed == [bytes |-> [i \in 0..(PAGE - 1) |-> 0], user |-> TRUE]

-----------------------------------------------------------------------------
(* vm.c                                                                    *)

\* Pages up to newsz, if the image may have so many; a smaller size changes
\* nothing.
AllocUvm(m, newsz, room) ==
    IF newsz >= KERNEL \/ (newsz > m.sz /\ PagesTo(newsz) > room) THEN Bad(m)
    ELSE IF newsz < m.sz THEN m
    ELSE New([p \in 0..(PagesTo(newsz) - 1) |->
                IF p \in DOMAIN m.pages THEN m.pages[p] ELSE Zeroed], newsz)

\* uva2ka finds the pages that the user may see.
Seen(pages, p) == p \in DOMAIN pages /\ pages[p].user

\* Bytes at the addresses from addr on.
Write(pages, addr, bytes) ==
    [p \in DOMAIN pages |->
        [pages[p] EXCEPT !.bytes =
            [i \in 0..(PAGE - 1) |->
                LET k == p * PAGE + i - addr
                IN  IF k \in 0..(Len(bytes) - 1) THEN bytes[k + 1] ELSE @[i]]]]

copyout(m, va, bytes) ==
    IF \A i \in 0..(Len(bytes) - 1) : Seen(m.pages, Page(va + i))
    THEN [m EXCEPT !.pages = Write(@, va, bytes)] ELSE Bad(m)

\* The file may end before the segment does.
loaduvm(m, file, ph) ==
    IF ph.off + ph.filesz > Len(file.bytes) THEN Bad(m)
    ELSE [m EXCEPT !.pages =
             Write(@, ph.vaddr, SubSeq(file.bytes, ph.off + 1, ph.off + ph.filesz))]

clearpteu(m, addr) == [m EXCEPT !.pages[Page(addr)].user = FALSE]

-----------------------------------------------------------------------------
(* exec(): the segments, two pages for the stack, the arguments            *)

Load(m, file, ph, room) ==
    LET end == (ph.vaddr + ph.memsz) % Addresses
        grown == AllocUvm(m, end, room)
    IN  IF ~m.ok \/ ~ph.load THEN m
        ELSE IF \/ ph.memsz < ph.filesz \/ end < ph.vaddr
                \/ ~grown.ok \/ grown.sz = 0 \/ ph.vaddr % PAGE # 0
        THEN Bad(m)
        ELSE loaduvm(grown, file, ph)

Segments(file, room) ==
    FoldLeft(LAMBDA m, ph : Load(m, file, ph, room), New(<<>>, 0), file.phdrs)

\* Two pages behind the segments, the lower one out of the user's sight.
Stack(m, room) ==
    LET sz == PagesTo(m.sz) * PAGE
        grown == AllocUvm([m EXCEPT !.sz = sz], sz + 2 * PAGE, room)
    IN  IF ~m.ok \/ ~grown.ok THEN Bad(m) ELSE clearpteu(grown, sz)

Down(sp, n) == (sp + Addresses - n) % Addresses

\* Mutant: there is no byte for the end of a string.
PushUnended(s, arg) ==
    LET at == Down(s.sp, Len(arg))
        sp == at - (at % WORD)
    IN  [m |-> copyout(s.m, sp, arg), sp |-> sp, ptrs |-> Append(s.ptrs, sp)]

\* A string and its end, at an even address.
Push(s, arg) ==
    LET at == Down(s.sp, Len(arg) + 1)
        sp == at - (at % WORD)
    IN  [m |-> copyout(s.m, sp, arg \o <<0>>), sp |-> sp,
         ptrs |-> Append(s.ptrs, sp)]

InBytes(words) ==
    [i \in 1..(WORD * Len(words)) |->
        LET w == words[(i + 1) \div 2] IN IF i % 2 = 1 THEN w % BYTE ELSE w \div BYTE]

\* The arguments, and below them ustack: a return address, argc, argv.
Arguments(m, argv) ==
    LET pushed == FoldLeft(LAMBDA s, arg : IF s.m.ok THEN Push(s, arg) ELSE s,
                           [m |-> m, sp |-> m.sz, ptrs |-> <<>>], argv)
        argc == Len(argv)
        sp == Down(pushed.sp, (3 + argc + 1) * WORD)
        ustack == <<Addresses - 1, argc, sp + 3 * WORD>> \o pushed.ptrs \o <<0>>
    IN  IF ~m.ok \/ argc > ARGMAX \/ ~pushed.m.ok THEN [m |-> Bad(m), sp |-> 0]
        ELSE [m |-> copyout(pushed.m, sp, InBytes(ustack)), sp |-> sp]

\* The new image takes its pages beside the old one.
Built(file, argv) ==
    LET room == PAGES - Cardinality(DOMAIN mem)
    IN  IF ~file.elf THEN [m |-> Bad(New(<<>>, 0)), sp |-> 0]
        ELSE Arguments(Stack(Segments(file, room), room), argv)

exec(file, argv) ==
    LET built == Built(file, argv) IN
    IF built.m.ok
    THEN /\ mem' = built.m.pages /\ size' = built.m.sz /\ esp' = built.sp
         /\ image' = [vector |-> argv, file |-> file, size |-> built.m.sz]
    ELSE UNCHANGED imagevars

-----------------------------------------------------------------------------
(* syscall.c: what system calls fetch                                      *)

Refused == -1
Byte(addr) == mem[Page(addr)].bytes[addr % PAGE]

fetchint(addr) ==
    IF addr >= size \/ (addr + WORD) % Addresses > size THEN Refused
    ELSE Byte(addr) + BYTE * Byte(addr + 1)

\* Where the string at addr ends.
fetchstr(addr) ==
    LET ends == {i \in addr..(size - 1) : Byte(i) = 0}
    IN  IF addr >= size \/ ends = {} THEN Refused
        ELSE CHOOSE i \in ends : \A j \in ends : i <= j

argint(n) == fetchint((esp + WORD + WORD * n) % Addresses)

\* Mutant: only the end of the block is looked at.
argptrEnd(i, n) == i # Refused /\ n >= 0 /\ (i + n) % Addresses <= size

\* Whether a block of n bytes at i may be used.
argptr(i, n) ==
    /\ i # Refused /\ n >= 0
    /\ i < size /\ (i + n) % Addresses <= size

String(addr) == [i \in 1..(fetchstr(addr) - addr) |-> Byte(addr + i - 1)]

\* sys_exec: the strings that the array at uargv points to, or nothing.
Fetched(uargv) ==
    LET ptr(i) == fetchint((uargv + WORD * i) % Addresses)
        ends == {i \in 0..(ARGMAX - 1) : ptr(i) = 0}
        argc == CHOOSE i \in ends : \A j \in ends : i <= j
    IN  IF ends = {} \/ \E i \in 0..(argc - 1) :
                            ptr(i) = Refused \/ fetchstr(ptr(i)) = Refused
        THEN <<>>
        ELSE <<[i \in 1..argc |-> String(ptr(i - 1))]>>

-----------------------------------------------------------------------------
(* What a process does                                                     *)

\* userinit and inituvm: initcode in one page.
ImageInit ==
    /\ mem = (0 :> Zeroed) /\ size = PAGE /\ esp = PAGE
    /\ image = NoImage

\* It runs a file with some arguments, or with those that it was given;
\* sys_exec has room for one less than exec.
SysExec ==
    \E file \in Execs, argv \in Vectors :
        IF Len(argv) >= ARGMAX THEN UNCHANGED imagevars ELSE exec(file, argv)

ExecAgain ==
    \E file \in Execs :
        IF argint(1) = Refused \/ Fetched(argint(1)) = <<>>
        THEN UNCHANGED imagevars
        ELSE exec(file, Fetched(argint(1))[1])

\* growproc; a program that gives back everything cannot go on.
SysSbrk(n) ==
    LET old == New(mem, size)
        grown == AllocUvm(old, size + n, PAGES)
    IN  /\ size + n > 0
        /\ IF n > 0
           THEN IF grown.ok THEN mem' = grown.pages /\ size' = grown.sz
                            ELSE UNCHANGED <<mem, size>>
           ELSE /\ mem' = [p \in 0..(PagesTo(size + n) - 1) |-> mem[p]]
                /\ size' = size + n
        /\ image' = IF size' < image.size THEN NoImage ELSE image
        /\ esp' = esp

ImageNext == SysExec \/ ExecAgain \/ \E n \in Grow : SysSbrk(n)

ImageSpec == ImageInit /\ [][ImageNext]_imagevars

-----------------------------------------------------------------------------
\* Every page below the size is there, and no other.
Mapped == DOMAIN mem = 0..(PagesTo(size) - 1)

\* What a system call accepts is mapped, for every address and length.
AcceptedIsMapped ==
    LET Inside(addr, n) == \A i \in addr..(addr + n - 1) : Page(i) \in DOMAIN mem
    IN  \A addr \in 0..(Addresses - 1) :
            /\ fetchint(addr) # Refused => Inside(addr, WORD)
            /\ fetchstr(addr) # Refused => Inside(addr, fetchstr(addr) - addr + 1)
            /\ \A n \in {0, 1, PAGE, KERNEL - 1} : argptr(addr, n) => Inside(addr, n)

\* While nothing of it is given back, an image has the bytes of its file
\* and zeroes, a page that stops the stack, and the arguments, which a program
\* finds as the kernel would.
AsGiven ==
    image # NoImage =>
        /\ \A k \in DOMAIN image.file.phdrs : LET ph == image.file.phdrs[k] IN
               ph.load => \A i \in 0..(ph.memsz - 1) :
                   Byte(ph.vaddr + i) = IF i < ph.filesz
                                        THEN image.file.bytes[ph.off + i + 1] ELSE 0
        /\ \A p \in DOMAIN mem : mem[p].user <=> p # Page(image.size) - 2
        /\ argint(0) = Len(image.vector)
        /\ Fetched(argint(1)) = <<image.vector>>

ImageSound == Mapped /\ AcceptedIsMapped /\ AsGiven
=============================================================================
