------------------------------- MODULE Screen -------------------------------
(***************************************************************************)
(* Output on the console (console.c): processors print messages of the     *)
(* kernel, bytes that processes write and the echo of what is typed, one   *)
(* character after the other, onto a screen that scrolls.  For each one the *)
(* cursor is read from its port, the screen changed, and the cursor        *)
(* written back.  cons.lock keeps messages and these steps apart until a   *)
(* processor panics, which prints without it and then stops the others.    *)
(* What the screen shows from then on is not followed, only the cursor:    *)
(* a place past the end of the screen is one more panic.                   *)
(***************************************************************************)
EXTENDS Integers, FiniteSets, Sequences

CONSTANTS
    Cpu, Keyer,     \* the processors, and the one that keys interrupt
    COLS, LINES,    \* the size of the screen (80, 24)
    INPUT,          \* characters that can be typed and erased (INPUT_BUF)
    Texts, Panics,  \* what is printed
    Numbers, INT,   \* the numbers that are printed; an int has INT values
    Torn,           \* wrong places that a disturbed access to the cursor gives
    MAXJOBS,        \* how often something is printed
    NoCpu

ASSUME ScreenConstants ==
    /\ COLS \in Nat \ {0} /\ LINES \in Nat \ {0} /\ MAXJOBS \in Nat
    /\ INPUT \in 0..((LINES - 1) * COLS) /\ Keyer \in Cpu /\ NoCpu \notin Cpu
    /\ Torn \subseteq Nat
    /\ Numbers \subseteq (-(INT \div 2))..(INT \div 2 - 1)

VARIABLES
    crt, pos,       \* the screen, with a line below it, and the cursor's register
    conslock,       \* who has cons.lock
    locking,        \* cons.locking
    frozen,         \* panicked, the flag
    print,          \* what a processor prints
    typed,          \* how many characters could be erased
    out, jobs       \* what has been printed, after a panic by panics only, and in
                    \* how many jobs

screenvars == <<crt, pos, conslock, locking, frozen, print, typed, out, jobs>>

Clear == " "
MAXPOS == (LINES + 1) * COLS
Idle == [does |-> "idle", text |-> <<>>, locked |-> FALSE, job |-> 0,
         at |-> "consputc", cur |-> 0]
Does(c, what) == print[c].does = what

ClearScreen == [i \in 0..MAXPOS - 1 |-> Clear]

ScreenInit ==
    /\ crt = ClearScreen /\ pos = 0
    /\ conslock = NoCpu /\ locking = TRUE /\ frozen = FALSE
    /\ print = [c \in Cpu |-> Idle] /\ typed = 0
    /\ out = <<>> /\ jobs = 0

-----------------------------------------------------------------------------
(* cgaputc() and consputc()                                                *)

\* Processors that print at the same time disturb each other at the ports, of which
\* each half of the cursor takes two: what is read or written may then be another
\* place, on the screen or past its end.
Disturbed(c) == \E d \in Cpu \ {c} : print[d].does \in {"print", "panic"}
AtPort(c, place) == IF Disturbed(c) THEN Torn \cup {place} ELSE {place}

Moved(ch, at) ==
    CASE ch = "nl" -> at + COLS - (at % COLS)
      [] ch = "bs" -> IF at > 0 THEN at - 1 ELSE at
      [] OTHER     -> at + 1

\* Mutant: the line that has come up is not cleared.
ScrolledDirty(cells) ==
    [i \in DOMAIN cells |->
        IF i < (LINES - 1) * COLS THEN cells[i + COLS] ELSE cells[i]]

\* memmove and memset.
Scrolled(cells) ==
    [i \in DOMAIN cells |->
        IF i < (LINES - 1) * COLS THEN cells[i + COLS]
        ELSE IF i < LINES * COLS THEN Clear ELSE cells[i]]

Starts(c, does, text, locked) ==
    /\ jobs < MAXJOBS /\ jobs' = jobs + 1
    /\ print' = [print EXCEPT ![c] = [Idle EXCEPT
                    !.does = does, !.text = text, !.locked = locked, !.job = jobs']]

\* panic: what is under way on this processor is never finished.
BeginPanic(c) ==
    /\ locking' = FALSE /\ crt' = ClearScreen
    /\ \E text \in Panics : Starts(c, "panic", text, FALSE)

\* consputc, and cgaputc up to the reading of the cursor. A processor that finds
\* another one panicked stops for good.
Consputc(c) ==
    /\ print[c].does \in {"print", "panic"} /\ print[c].text # <<>>
    /\ print[c].at = "consputc"
    /\ IF frozen
       THEN /\ print' = [print EXCEPT ![c] = [Idle EXCEPT !.does = "frozen"]]
            /\ UNCHANGED out
       ELSE /\ \E cur \in AtPort(c, pos) :
                  print' = [print EXCEPT ![c].at = "store", ![c].cur = cur]
            /\ out' = IF locking \/ Does(c, "panic")
                      THEN Append(out, [ch |-> Head(print[c].text), job |-> print[c].job,
                                        does |-> print[c].does])
                      ELSE out
    /\ UNCHANGED <<crt, pos, conslock, locking, frozen, typed, jobs>>

\* cgaputc, from the cursor that was read to the one that is to be written.
StoreChar(c) ==
    /\ print[c].at = "store"
    /\ LET ch == Head(print[c].text)
           cur == print[c].cur
           to == Moved(ch, cur)
           cells == IF ch \in {"nl", "bs"} THEN crt ELSE [crt EXCEPT ![cur] = ch]
       IN  IF to > MAXPOS
           THEN BeginPanic(c)
           ELSE /\ crt' = IF ~locking THEN ClearScreen
                          ELSE IF to \div COLS >= LINES THEN Scrolled(cells) ELSE cells
                /\ print' = [print EXCEPT ![c].at = "move",
                               ![c].cur = IF to \div COLS >= LINES THEN to - COLS ELSE to]
                /\ UNCHANGED <<locking, jobs>>
    /\ UNCHANGED <<pos, conslock, frozen, typed, out>>

\* cgaputc, to the end.
MoveCursor(c) ==
    /\ print[c].at = "move"
    /\ pos' \in AtPort(c, print[c].cur)
    /\ crt' = IF ~locking THEN ClearScreen ELSE [crt EXCEPT ![print[c].cur] = Clear]
    /\ print' = [print EXCEPT ![c].text = Tail(@), ![c].at = "consputc", ![c].cur = 0]
    /\ UNCHANGED <<conslock, locking, frozen, typed, out, jobs>>

-----------------------------------------------------------------------------
(* printint()                                                              *)

Digits == <<"0", "1", "2", "3", "4", "5", "6", "7", "8", "9", "a", "b", "c",
            "d", "e", "f">>

\* x / base until it is 0; there are no more digits than INT.
Quotients(x, base) ==
    LET q[i \in Nat] == IF i = 0 THEN x ELSE q[i - 1] \div base
    IN  [i \in 0..(CHOOSE n \in 0..INT : q[n] < base /\ \A m \in 0..(n - 1) :
                                             q[m] >= base) |-> q[i]]

\* Mutant: the sign is not taken off.
printintRaw(xx, base, sign) ==
    LET q == Quotients((xx + INT) % INT, base)
        n == Cardinality(DOMAIN q)
    IN  (IF sign /\ xx < 0 THEN <<"-">> ELSE <<>>)
        \o [i \in 1..n |-> Digits[(q[n - i] % base) + 1]]

\* -xx of the least int is what it was, and right as an unsigned int.
printint(xx, base, sign) ==
    LET x == (IF sign /\ xx < 0 THEN INT - xx ELSE xx + INT) % INT
        q == Quotients(x, base)
        n == Cardinality(DOMAIN q)
    IN  (IF sign /\ xx < 0 THEN <<"-">> ELSE <<>>)
        \o [i \in 1..n |-> Digits[(q[n - i] % base) + 1]]

\* The arguments of cprintf in their places: numbers, in decimal or not, and
\* text as it is.
Formatted ==
    Texts \cup {printint(x, 10, TRUE) : x \in Numbers}
          \cup {printint(x, 16, FALSE) : x \in Numbers}

-----------------------------------------------------------------------------
(* Who prints                                                              *)

\* cprintf: without the lock after a panic.
Cprintf(c) ==
    /\ Does(c, "idle")
    /\ \E text \in Formatted :
           Starts(c, IF locking THEN "acquire" ELSE "print", text, locking)
    /\ UNCHANGED <<crt, pos, conslock, locking, frozen, typed, out>>

\* consolewrite.
ConsoleWrite(c) ==
    /\ Does(c, "idle")
    /\ \E text \in Texts : Starts(c, "acquire", text, TRUE)
    /\ UNCHANGED <<crt, pos, conslock, locking, frozen, typed, out>>

\* consoleintr: the echo of a character, of the end of a line, or of erasing
\* one or all.
Echo ==
    /\ Does(Keyer, "idle")
    /\ \/ /\ typed < INPUT /\ typed' = typed + 1
          /\ Starts(Keyer, "acquire", <<"k">>, TRUE)
       \/ /\ typed < INPUT /\ typed' = 0
          /\ Starts(Keyer, "acquire", <<"nl">>, TRUE)
       \/ /\ typed > 0
          /\ \E n \in {1, typed} :
                 /\ typed' = typed - n
                 /\ Starts(Keyer, "acquire", [i \in 1..n |-> "bs"], TRUE)
    /\ UNCHANGED <<crt, pos, conslock, locking, frozen, out>>

Acquire(c) ==
    /\ Does(c, "acquire") /\ conslock = NoCpu
    /\ conslock' = c
    /\ print' = [print EXCEPT ![c].does = "print"]
    /\ UNCHANGED <<crt, pos, locking, frozen, typed, out, jobs>>

Done(c) ==
    /\ Does(c, "print") /\ print[c].text = <<>>
    /\ conslock' = IF print[c].locked THEN NoCpu ELSE conslock
    /\ print' = [print EXCEPT ![c] = Idle]
    /\ UNCHANGED <<crt, pos, locking, frozen, typed, out, jobs>>

\* Who may come to panic: not who has interrupts off for cons.lock or in panic.
MayPanic(c) == Does(c, "idle") \/ (Does(c, "print") /\ ~print[c].locked)

\* Mutant: the others are stopped first.
PanicFrozen(c) ==
    /\ MayPanic(c) /\ BeginPanic(c) /\ frozen' = TRUE
    /\ UNCHANGED <<pos, conslock, typed, out>>

\* panic, also by an interrupt in the middle of what is printed without the lock.
PanicStarts(c) ==
    /\ MayPanic(c) /\ BeginPanic(c)
    /\ UNCHANGED <<pos, conslock, frozen, typed, out>>

Panicked(c) ==
    /\ Does(c, "panic") /\ print[c].text = <<>>
    /\ frozen' = TRUE
    /\ print' = [print EXCEPT ![c] = [Idle EXCEPT !.does = "frozen"]]
    /\ UNCHANGED <<crt, pos, conslock, locking, typed, out, jobs>>

ScreenNext ==
    \/ Echo
    \/ \E c \in Cpu : \/ Cprintf(c) \/ ConsoleWrite(c) \/ Acquire(c) \/ Consputc(c)
                      \/ StoreChar(c) \/ MoveCursor(c) \/ Done(c)
                      \/ PanicStarts(c) \/ Panicked(c)

ScreenSpec == ScreenInit /\ [][ScreenNext]_screenvars

-----------------------------------------------------------------------------
\* The cursor on paper without end, after so many characters.
Place ==
    LET place[k \in 0..Len(out)] ==
            IF k = 0 THEN 0
            ELSE CASE out[k].ch = "nl" -> (place[k - 1] \div COLS + 1) * COLS
                   [] out[k].ch = "bs" -> place[k - 1] - 1
                   [] OTHER            -> place[k - 1] + 1
    IN  place

\* What is at a place of the paper: the last character there, if it has not been
\* erased.
OnPaper(place, i) ==
    LET Put == {k \in 1..Len(out) : out[k].ch \notin {"nl", "bs"} /\ place[k - 1] = i}
        Erased == {k \in 1..Len(out) : out[k].ch = "bs" /\ place[k] = i}
        last == CHOOSE k \in Put : \A j \in Put : j <= k
    IN  IF Put = {} \/ \E k \in Erased : k > last THEN Clear ELSE out[last].ch

\* Until a processor panics, the screen is the end of that paper whenever no
\* character is on its way to it.
ScreenShows ==
    locking /\ (\A c \in Cpu : print[c].at = "consputc") =>
    LET place == Place
        line == CHOOSE n \in {place[k] \div COLS : k \in DOMAIN place} :
                    \A k \in DOMAIN place : place[k] \div COLS <= n
        above == IF line < LINES THEN 0 ELSE (line - LINES + 1) * COLS
    IN  /\ pos = place[Len(out)] - above
        /\ \A i \in 0..(LINES * COLS - 1) : crt[i] = OnPaper(place, above + i)

\* A number that is printed is the number: read back, it is the same.
Value(text, base) ==
    LET negative == text[1] = "-"
        n == Len(text)
        digit(i) == (CHOOSE d \in 1..base : Digits[d] = text[i]) - 1
        value[i \in 0..n] ==
            IF i = 0 \/ (i = 1 /\ negative) THEN 0 ELSE value[i - 1] * base + digit(i)
    IN  IF negative THEN -value[n] ELSE value[n]

NumbersRight ==
    \A x \in Numbers : /\ Value(printint(x, 10, TRUE), 10) = x
                       /\ Value(printint(x, 16, FALSE), 16) = x % INT

\* Until a processor panics, no message has another one in it.
MessagesWhole ==
    locking => \A i, j, k \in DOMAIN out :
        i < j /\ j < k /\ out[i].job = out[k].job => out[j].job = out[i].job

\* When a panic has stopped the processors, its message has gone to the serial port
\* whole, even if another one has cut it short: the screen may have lost any of it.
PanicHeard ==
    frozen => \E job \in 1..jobs :
        LET said == SelectSeq(out, LAMBDA e : e.does = "panic" /\ e.job = job)
        IN  [i \in DOMAIN said |-> said[i].ch] \in Panics

\* The console shows what has been printed, whole and in order, until a processor
\* panics; of a panic that has stopped the others the message is heard.
ScreenSound == ScreenShows /\ NumbersRight /\ MessagesWhole /\ PanicHeard
=============================================================================
