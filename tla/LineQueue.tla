------------------------------- MODULE LineQueue -------------------------------
(***************************************************************************)
(* What the console promises to the programs that read it, whatever its    *)
(* buffer looks like: the line being edited can be erased, a line that has *)
(* been ended is handed out in order, every byte once.                     *)
(***************************************************************************)
EXTENDS Naturals, Sequences, SequencesExt

CONSTANTS
    Byte,        \* what can be typed and read
    NEWLINE, END \* the bytes that end a line; END says end of file
VARIABLES
    edit,        \* the line being typed
    ready        \* what can be read

LineInit == edit = <<>> /\ ready \in Seq(Byte)

Type(c) ==
    c \notin {NEWLINE, END} /\ edit' = Append(edit, c) /\ UNCHANGED ready

\* The byte that ends a line, or finds no more room, makes all of it readable.
Commit(c) == ready' = ready \o Append(edit, c) /\ edit' = <<>>

Erase ==
    /\ \E n \in 0..Len(edit) - 1 : edit' = SubSeq(edit, 1, n)
    /\ UNCHANGED ready

\* A read takes bytes of one line, and no END with them; END is taken alone.
Take ==
    /\ \E n \in 1..Len(ready) :
          /\ ready' = SubSeq(ready, n + 1, Len(ready))
          /\ n > 1 => \A i \in 1..n : ready[i] # END
    /\ UNCHANGED edit

LineNext == (\E c \in Byte : Type(c) \/ Commit(c)) \/ Erase \/ Take

LineSpec == LineInit /\ [][LineNext]_<<edit, ready>>
=============================================================================
