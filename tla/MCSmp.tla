-------------------------------- MODULE MCSmp --------------------------------
(* A small instance of Machine: a kernel of three segments and a disk without *)
(* one; three processors to start; and then two processors, init and two      *)
(* processes.                                                                 *)
EXTENDS Machine

CONSTANTS a, b, c, p1, p2, p3, p4, p5, p6, p7, q1

\* A kernel: text, data that starts in the middle of a sector and has zeroes
\* behind it, and zeroes only.
Header(offset, filesz, paddr, memsz) ==
    [off |-> offset, filesz |-> filesz, paddr |-> paddr, memsz |-> memsz]

Segments ==
    <<Header(2, 2, 8, 2), Header(3, 3, 11, 4), Header(7, 0, 17, 2)>>

Disks ==
    { [bytes |-> <<9, 1, 2, 3, 4, 5, 6, 7>>, phdrs |-> Segments],
      [bytes |-> <<7>>, phdrs |-> <<>>] }

Addresses == 0..21
BootsSecond == <<b, a, c>>
Ids == [m \in {a, b, c} |-> CASE m = b -> 0 [] m = a -> 1 [] m = c -> 2]

Roles == << {"fork", "wait"}, {"fork", "exit", "kill"}, {"exit", "sleep"} >>
=============================================================================
