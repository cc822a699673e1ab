------------------------------- MODULE MCUser -------------------------------
(* A small instance of User.                                                *)
EXTENDS User

\* Memory: so few pages that every call runs out of them somewhere.
Sizes == {-1, 0, 1, 3}

\* Programs of an image: one segment, two and one that is not loaded, nothing;
\* and what exec refuses: no ELF file, one that ends too early, a segment that
\* is not aligned, larger in the file than in memory, or past the last address.
Text == [i \in 1..24 |-> (i % 15) + 1]
Segment(off, filesz, vaddr, memsz) ==
    [load |-> TRUE, off |-> off, filesz |-> filesz, vaddr |-> vaddr, memsz |-> memsz]
Elf(phdrs) == [elf |-> TRUE, bytes |-> Text, phdrs |-> phdrs]

Executables ==
    { Elf(<<Segment(2, 5, 0, 9)>>),
      Elf(<<Segment(0, 16, 0, 16), [Segment(0, 1, 3, 1) EXCEPT !.load = FALSE],
            Segment(17, 3, 16, 20)>>),
      Elf(<<Segment(1, 1, 0, 1), Segment(1, 0, 0, 0)>>),
      [Elf(<<>>) EXCEPT !.elf = FALSE],
      Elf(<<Segment(20, 9, 0, 9)>>),
      Elf(<<Segment(1, 3, 8, 4)>>),
      Elf(<<Segment(1, 3, 0, 2)>>),
      Elf(<<Segment(1, 0, 240, 32)>>) }

\* The last two: as many as sys_exec refuses, and more than the stack holds.
ArgumentLists ==
    { <<>>, <<<<1>>>>, <<<<1, 2, 3>>, <<>>>>, <<<<1>>, <<2>>, <<3>>>>,
      <<[i \in 1..14 |-> 7]>> }
Changes == {-20, -3, 2, 16}

\* Lines: every symbol, a program that is missing and a line that is wrong.
Typed == { <<"a", "&", ";", "a">>, <<"(", "a", "|", "a", ")", ">", "f", "&">>,
           <<"a", "<", "no", "|", "a">>, <<"no", ";", "a", ">", "f", ">", "g">>,
           <<"a", "&", "a">>, <<"(", "a", ";", "a", ")", "|", "a">> }

\* Keys: CTL and ALT on both sides, SHIFT twice and one that is none, CAPSLOCK,
\* a letter, a digit, and an arrow that has the code of another digit.
Key(code, escaped) == [code |-> code, escaped |-> escaped]
Keyboard104 ==
    { Key(29, FALSE), Key(29, TRUE), Key(42, FALSE), Key(42, TRUE), Key(54, FALSE),
      Key(56, TRUE), Key(58, FALSE), Key(30, FALSE), Key(72, FALSE), Key(72, TRUE) }
Map(letter) == [k \in {30, 72, 200} |-> CASE k = 30 -> letter [] k = 72 -> 56
                                          [] k = 200 -> 226]
NormalMap == Map(97)
ShiftMap == Map(65)
CtlMap == [k \in {30, 200} |-> IF k = 30 THEN 1 ELSE 226]
Cases == [k \in {65, 97} |-> 162 - k]

\* Screen: a message with an end of line, and two numbers with a sign.
Messages == {<<"a", "b", "nl">>}
LastWords == {<<"p", "q">>}
Negative == {-16, -5}
=============================================================================
