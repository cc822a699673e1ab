-------------------------------- MODULE Stream --------------------------------
(***************************************************************************)
(* A terminal and a pipeline of project3, from the keyboard to the screen: *)
(* the console's line buffer (console.c), pipes (pipe.c), the table of     *)
(* open files (file.c, sysfile.c), and on top of them init, the shell and  *)
(* the "cat | cat" that it runs.  A process has a sequence of operations   *)
(* still to do.  A system call is one step from lock to release, with two  *)
(* exceptions: kill can come between the look at killed and the sleep, and *)
(* fileclose gives a pipe up after it has given up the table's entry.      *)
(***************************************************************************)
EXTENDS Naturals, Sequences, SequencesExt, FiniteSets, FiniteSetsExt

CONSTANTS
    NPROC, NOFILE, NFILE,
    NPIPE,       \* the pages that there are for pipes
    PIPESIZE, INPUT_BUF,
    BUFSIZE,     \* what cat reads at a time
    UINT,        \* the counters of pipes and of the console are modulo this
    MAXTYPED,    \* bound of the model: the keys that nobody waits for, and those that are not ^D
    MAXFAULTS    \* bound of the model: kills, and forks that find no memory

ASSUME StreamConstants ==
    /\ {NPROC, NOFILE, NFILE, NPIPE, PIPESIZE, INPUT_BUF, BUFSIZE} \subseteq Nat \ {0}
    /\ UINT \in Nat /\ UINT > PIPESIZE /\ UINT > INPUT_BUF /\ INPUT_BUF > 1
    /\ UINT % PIPESIZE = 0 /\ UINT % INPUT_BUF = 0
    /\ MAXTYPED \in Nat /\ MAXFAULTS \in Nat

VARIABLES
    proc,        \* state, chan, killed and parent of a process
    code,        \* what a process has still to do
    ofile,       \* the file of a descriptor, or NoFile
    files,       \* the table of open files
    pipes,       \* the pipes, with what was put in them and got out of them
    input,       \* the console's buffer
    typed, faults

vars == <<proc, code, ofile, files, pipes, input, typed, faults>>

Proc == 1..NPROC
init == 1
NoProc == 0
Fd == 0..NOFILE - 1
File == 1..NFILE
NoFile == 0
Pipe == 1..NPIPE
ConsLock == 0          \* the console's lock; a pipe has its own
Byte == {"a", "nl", "eof"}
Blank == "blank"    \* what a cell of a buffer holds that is not in use
Key == Byte \cup {"bs", "kill"}
Error == <<"error">>

Op(p) == Head(code[p])
Is(p, what) == code[p] # <<>> /\ Op(p)[1] = what /\ proc[p].state = "RUNNABLE"
\* A system call begins: a process that has been killed does not get this far.
Call(p, what) == Is(p, what) /\ ~proc[p].killed
Then(p, ops) == [code EXCEPT ![p] = ops \o Tail(@)]

\* Programs.
Exit == <<<<"exit">>>>
Cat == <<<<"read", BUFSIZE>>, <<"cat">>>>
Shell == <<<<"read", 1>>, <<"gets", {}>>>>
Left(fd) == <<<<"close", 1>>, <<"dup", fd[2]>>, <<"close", fd[1]>>, <<"close", fd[2]>>>> \o Cat
Right(fd) == <<<<"close", 0>>, <<"dup", fd[1]>>, <<"close", fd[1]>>, <<"close", fd[2]>>>> \o Cat
Pipeline(fd) ==
    <<<<"fork", Left(fd)>>, <<"fork", Right(fd)>>, <<"close", fd[1]>>, <<"close", fd[2]>>,
      <<"wait", NoProc>>, <<"wait", NoProc>>>> \o Exit
\* A line with a word is the pipeline; an empty one is a command without words.
Runner(line) == IF "a" \in line THEN <<<<"pipe">>>> ELSE Exit

NoBody == [state |-> "UNUSED", chan |-> <<>>, killed |-> FALSE, parent |-> NoProc]
Unopened == [ref |-> 0, type |-> "NONE", pipe |-> 0, writable |-> FALSE]
Freed == [live |-> FALSE, data |-> [i \in 0..PIPESIZE - 1 |-> Blank], nread |-> 0, nwrite |-> 0,
          readopen |-> FALSE, writeopen |-> FALSE,
          put |-> <<>>, got |-> <<>>, failed |-> FALSE, eof |-> FALSE]

\* init has opened the console for its descriptors 0, 1 and 2, and the first
\* command has been typed ahead.
Init ==
    /\ proc = [p \in Proc |-> IF p = init THEN [NoBody EXCEPT !.state = "RUNNABLE"] ELSE NoBody]
    /\ code = [p \in Proc |-> IF p = init THEN <<<<"startsh">>>> ELSE <<>>]
    /\ ofile = [p \in Proc |-> [fd \in Fd |-> IF p = init /\ fd < 3 THEN 1 ELSE NoFile]]
    /\ files = [f \in File |-> IF f = 1
                               THEN [Unopened EXCEPT !.ref = 3, !.type = "CONSOLE", !.writable = TRUE]
                               ELSE Unopened]
    /\ pipes = [k \in Pipe |-> Freed]
    /\ input = [buf |-> [i \in 0..INPUT_BUF - 1 |-> CASE i = 0 -> "a" [] i = 1 -> "nl"
                                                       [] OTHER -> Blank],
                r |-> 0, w |-> 2, e |-> 2]
    /\ typed = 0 /\ faults = 0

-----------------------------------------------------------------------------
(* Sleep and wakeup                                                        *)

\* The lock of a pipe or of the console, while its holder is about to sleep.
Held(lock) == \E p \in Proc : Is(p, "sleep") /\ Op(p)[2][1] = lock

Woken(chan) ==
    [p \in Proc |-> IF proc[p].state = "SLEEPING" /\ proc[p].chan = chan
                    THEN [proc[p] EXCEPT !.state = "RUNNABLE", !.chan = <<>>] ELSE proc[p]]

Sleeping(p, chan) == [proc EXCEPT ![p].state = "SLEEPING", ![p].chan = chan]

\* sleep, after which the call goes on as the code says.
GoToSleep(p) ==
    /\ Is(p, "sleep")
    /\ proc' = Sleeping(p, Op(p)[2])
    /\ code' = Then(p, <<>>)
    /\ UNCHANGED <<ofile, files, pipes, input, typed, faults>>

-----------------------------------------------------------------------------
(* console.c                                                               *)

Plus(i, n) == (i + n) % UINT
Minus(i, j) == (UINT + i - j) % UINT
At(i) == input.buf[i % INPUT_BUF]

\* A ring with the cells blank that are not between two counters. Nothing reads
\* them before they are written again: InOrder and ConsoleIsQueue would see it.
Tidy(ring, size, first, last) ==
    [i \in DOMAIN ring |-> IF \E n \in 1..Minus(last, first) : Plus(first, n - 1) % size = i
                           THEN ring[i] ELSE Blank]
Cleared(in) == [in EXCEPT !.buf = Tidy(@, INPUT_BUF, in.r, in.e)]

Backspace == Cleared([input EXCEPT !.e = Minus(@, 1)])

\* ^U: back to the start of the line.
KillLine ==
    LET back == CHOOSE n \in 0..Minus(input.e, input.w) :
                   /\ n = Minus(input.e, input.w) \/ At(Minus(input.e, n + 1)) = "nl"
                   /\ \A i \in 1..n : At(Minus(input.e, i)) # "nl"
    IN  Cleared([input EXCEPT !.e = Minus(@, back)])

\* A byte more; it ends the line if it says so or fills the buffer.
Edited(c) ==
    LET e == Plus(input.e, 1)
        end == c \in {"nl", "eof"} \/ e = Plus(input.r, INPUT_BUF)
    IN  [input EXCEPT !.buf[input.e % INPUT_BUF] = c, !.e = e, !.w = IF end THEN e ELSE @]

\* A key for which there is no room, or nothing to erase, changes nothing.
consoleintr(c) ==
    /\ ~Held(ConsLock)
    /\ \/ c = "bs" /\ input.e # input.w /\ input' = Backspace /\ UNCHANGED proc
       \/ c = "kill" /\ input.e # input.w /\ input' = KillLine /\ UNCHANGED proc
       \/ /\ c \in Byte /\ Minus(input.e, input.r) < INPUT_BUF
          /\ input' = Edited(c)
          /\ proc' = IF input'.w # input.w THEN Woken(<<ConsLock, "input">>) ELSE proc
    /\ UNCHANGED <<code, ofile, files, pipes, faults>>

\* The user types, ahead too; the ^D that a cat waits for is never out of reach.
Awaited == \E p \in Proc : /\ proc[p].state = "SLEEPING" /\ proc[p].chan = <<ConsLock, "input">>
                          /\ Last(code[p])[1] = "cat"

Press(c) ==
    LET free == c = "eof" /\ Awaited IN
    /\ free \/ typed < MAXTYPED
    /\ typed' = IF free THEN typed ELSE typed + 1
    /\ consoleintr(c)

\* What read hands to the program: cat copies it, and ends with the input;
\* gets takes one byte at a time, and the shell ends with an empty line.
After(program, bytes) ==
    IF program[1] = "cat"
    THEN IF bytes \in {<<>>, Error} THEN Exit ELSE <<<<"write", bytes>>>> \o Cat
    ELSE LET line == program[2] \cup (IF bytes = Error THEN {} ELSE ToSet(bytes)) IN
         IF "nl" \notin line /\ bytes \notin {<<>>, Error}
         THEN <<<<"read", 1>>, <<"gets", line>>>>
         ELSE IF line = {} THEN Exit
         ELSE <<<<"fork", Runner(line)>>, <<"wait", NoProc>>>> \o Shell

ReadReturns(p, bytes) ==
    code' = [code EXCEPT ![p] = After(Head(Tail(@)), bytes) \o Tail(Tail(@))]

\* How many bytes consoleread takes of those that are ready, when it wants n.
ReadyBytes == [i \in 1..Minus(input.w, input.r) |-> At(Plus(input.r, i - 1))]
Chunk(n) ==
    LET ends == {i \in 1..Len(ReadyBytes) : ReadyBytes[i] \in {"nl", "eof"}} \cup {n, Len(ReadyBytes)}
    IN  Min(ends)

\* Mutant: ^D goes with the bytes before it.
PushbackNever(last, bytes) == 0

\* A ^D behind other bytes stays, so that the next read returns none.
Pushback(last, bytes) == IF last = "eof" /\ bytes # <<>> THEN 1 ELSE 0

\* consoleread, until it returns or is about to sleep.
ConsoleRead(p, n, got) ==
    LET k == Chunk(n)
        last == IF k = 0 THEN "a" ELSE ReadyBytes[k]
        bytes == got \o SelectSeq(SubSeq(ReadyBytes, 1, k), LAMBDA b : b # "eof")
    IN  /\ ~Held(ConsLock)
        /\ input' = Cleared([input EXCEPT !.r = Plus(@, k - Pushback(last, bytes))])
        /\ IF last \in {"nl", "eof"} \/ k = n THEN ReadReturns(p, bytes)
           ELSE IF proc[p].killed THEN ReadReturns(p, Error)
           ELSE code' = Then(p, <<<<"sleep", <<ConsLock, "input">>>>, <<"reading", n - k, bytes>>>>)
        /\ UNCHANGED <<proc, ofile, files, pipes, typed, faults>>

-----------------------------------------------------------------------------
(* pipe.c                                                                  *)

\* What is in a pipe, oldest byte first.
Queue(pipe) ==
    [i \in 1..Minus(pipe.nwrite, pipe.nread) |-> pipe.data[Plus(pipe.nread, i - 1) % PIPESIZE]]

\* Mutant: a pipe that nobody writes to any more has ended.
DrainOpenOnly(pipe, n) ==
    IF pipe.writeopen THEN SubSeq(Queue(pipe), 1, Min({n, Len(Queue(pipe))})) ELSE <<>>

Drain(pipe, n) == SubSeq(Queue(pipe), 1, Min({n, Len(Queue(pipe))}))

\* piperead, until it returns or is about to sleep.
PipeRead(p, k, n) ==
    LET bytes == Drain(pipes[k], n)
    IN  /\ ~Held(k)
        /\ IF Queue(pipes[k]) = <<>> /\ pipes[k].writeopen
           THEN /\ IF proc[p].killed THEN ReadReturns(p, Error)
                   ELSE code' = Then(p, <<<<"sleep", <<k, "nread">>>>, <<"reading", n, <<>>>>>>)
                /\ UNCHANGED <<proc, pipes>>
           ELSE /\ pipes' = [pipes EXCEPT
                      ![k].nread = Plus(@, Len(bytes)),
                      ![k].data = Tidy(@, PIPESIZE, Plus(pipes[k].nread, Len(bytes)), pipes[k].nwrite),
                      ![k].got = @ \o bytes, ![k].eof = bytes = <<>>]
                /\ proc' = Woken(<<k, "nwrite">>)
                /\ ReadReturns(p, bytes)
        /\ UNCHANGED <<ofile, files, input, typed, faults>>

Room(pipe) == PIPESIZE - Len(Queue(pipe))

Filled(pipe, bytes) ==
    [pipe EXCEPT !.nwrite = Plus(@, Len(bytes)),
                 !.data = [i \in DOMAIN @ |->
                     LET js == {j \in 1..Len(bytes) : Plus(pipe.nwrite, j - 1) % PIPESIZE = i}
                     IN  IF js = {} THEN @[i] ELSE bytes[Max(js)]]]

\* pipewrite, until it returns or is about to sleep with bytes left. cat exits
\* when its write fails.
PipeWrite(p, k, bytes) ==
    LET m == Min({Room(pipes[k]), Len(bytes)})
        filled == Filled(pipes[k], SubSeq(bytes, 1, m))
        rest == SubSeq(bytes, m + 1, Len(bytes))
        fails == rest # <<>> /\ (~pipes[k].readopen \/ proc[p].killed)
    IN  /\ ~Held(k)
        /\ pipes' = [pipes EXCEPT ![k] =
               [filled EXCEPT !.put = IF Op(p)[1] = "write" THEN @ \o bytes ELSE @,
                              !.failed = @ \/ fails]]
        /\ proc' = IF fails THEN proc ELSE Woken(<<k, "nread">>)
        /\ code' = IF fails THEN [code EXCEPT ![p] = Exit]
                   ELSE IF rest = <<>> THEN Then(p, <<>>)
                   ELSE Then(p, <<<<"sleep", <<k, "nwrite">>>>, <<"writing", rest>>>>)
        /\ UNCHANGED <<ofile, files, input, typed, faults>>

\* Mutant: the writer is not told that nobody reads any more.
CloseEndQuiet(pipe, writable) ==
    IF writable THEN [pipe EXCEPT !.writeopen = FALSE] ELSE pipe

CloseEnd(pipe, writable) ==
    IF writable THEN [pipe EXCEPT !.writeopen = FALSE] ELSE [pipe EXCEPT !.readopen = FALSE]

\* pipeclose. The page goes with the second end.
PipeClose(p) ==
    /\ Is(p, "pipeclose")
    /\ LET k == Op(p)[2]
           closed == CloseEnd(pipes[k], Op(p)[3])
       IN  /\ ~Held(k)
           /\ proc' = Woken(IF Op(p)[3] THEN <<k, "nread">> ELSE <<k, "nwrite">>)
           /\ pipes' = [pipes EXCEPT ![k] =
                  IF closed.readopen \/ closed.writeopen THEN closed ELSE Freed]
    /\ code' = Then(p, <<>>)
    /\ UNCHANGED <<ofile, files, input, typed, faults>>

-----------------------------------------------------------------------------
(* file.c, sysfile.c                                                       *)

Free(n, slots) == {s \in slots : Cardinality({t \in slots : t <= s}) <= n}
FreeFds(p) == {fd \in Fd : ofile[p][fd] = NoFile}
FreeFiles == {f \in File : files[f].ref = 0}

fileclose(f) == [files EXCEPT ![f] = IF @.ref = 1 THEN Unopened ELSE [@ EXCEPT !.ref = @ - 1]]

\* What fileclose has still to do when the last descriptor of a file is closed.
Closing(f) ==
    IF files[f].ref = 1 /\ files[f].type = "PIPE"
    THEN <<<<"pipeclose", files[f].pipe, files[f].writable>>>> ELSE <<>>

CloseFd(p, fd) ==
    /\ ofile' = [ofile EXCEPT ![p][fd] = NoFile]
    /\ files' = fileclose(ofile[p][fd])

sys_close(p) ==
    /\ Call(p, "close")
    /\ CloseFd(p, Op(p)[2])
    /\ code' = Then(p, Closing(ofile[p][Op(p)[2]]))
    /\ UNCHANGED <<proc, pipes, input, typed, faults>>

sys_dup(p) ==
    /\ Call(p, "dup")
    /\ LET f == ofile[p][Op(p)[2]] IN
          /\ ofile' = [ofile EXCEPT ![p][Min(FreeFds(p))] = f]
          /\ files' = [files EXCEPT ![f].ref = @ + 1]
    /\ code' = Then(p, <<>>)
    /\ UNCHANGED <<proc, pipes, input, typed, faults>>

\* sys_pipe and pipealloc: two entries, a page and two descriptors, or nothing.
sys_pipe(p) ==
    /\ Call(p, "pipe")
    /\ LET f0 == Min(FreeFiles)
           f1 == Min(FreeFiles \ {f0})
           fd0 == Min(FreeFds(p))
           fd1 == Min(FreeFds(p) \ {fd0})
           pages == {k \in Pipe : ~pipes[k].live}
           k == Min(pages)
           file == [Unopened EXCEPT !.ref = 1, !.type = "PIPE", !.pipe = k]
       IN  IF Cardinality(FreeFiles) < 2 \/ Cardinality(FreeFds(p)) < 2 \/ pages = {}
           THEN /\ code' = [code EXCEPT ![p] = Exit]
                /\ UNCHANGED <<ofile, files, pipes>>
           ELSE /\ files' = [files EXCEPT ![f0] = file, ![f1] = [file EXCEPT !.writable = TRUE]]
                /\ ofile' = [ofile EXCEPT ![p][fd0] = f0, ![p][fd1] = f1]
                /\ pipes' = [pipes EXCEPT ![k] = [Freed EXCEPT !.live = TRUE,
                                                      !.readopen = TRUE, !.writeopen = TRUE]]
                /\ code' = Then(p, Pipeline(<<fd0, fd1>>))
    /\ UNCHANGED <<proc, input, typed, faults>>

Stdin(p) == files[ofile[p][0]]
Stdout(p) == files[ofile[p][1]]

\* sys_read of descriptor 0, and a read that has slept.
sys_read(p) ==
    \/ /\ Call(p, "read")
       /\ IF Stdin(p).type = "PIPE" THEN PipeRead(p, Stdin(p).pipe, Op(p)[2])
          ELSE ConsoleRead(p, Op(p)[2], <<>>)
    \/ /\ Is(p, "reading")
       /\ IF Stdin(p).type = "PIPE" THEN PipeRead(p, Stdin(p).pipe, Op(p)[2])
          ELSE ConsoleRead(p, Op(p)[2], Op(p)[3])

\* sys_write of descriptor 1; what the console is given it shows.
sys_write(p) ==
    /\ Call(p, "write") \/ Is(p, "writing")
    /\ IF Stdout(p).type = "PIPE" THEN PipeWrite(p, Stdout(p).pipe, Op(p)[2])
       ELSE /\ ~Held(ConsLock)
            /\ code' = Then(p, <<>>)
            /\ UNCHANGED <<proc, ofile, files, pipes, input, typed, faults>>

-----------------------------------------------------------------------------
(* proc.c                                                                  *)

Unused == {q \in Proc : proc[q].state = "UNUSED"}

\* The files of p with the descriptors of a child counted.
Duped(p) ==
    [f \in File |-> [files[f] EXCEPT !.ref = @ + Cardinality({fd \in Fd : ofile[p][fd] = f})]]

Born(p, q, program, rest) ==
    /\ proc' = [proc EXCEPT ![q] = [NoBody EXCEPT !.state = "RUNNABLE", !.parent = p]]
    /\ code' = [Then(p, rest) EXCEPT ![q] = program]
    /\ ofile' = [ofile EXCEPT ![q] = ofile[p]]
    /\ files' = Duped(p)
    /\ UNCHANGED <<pipes, input, typed, faults>>

\* fork1 of the shell: it may find no process or no memory, and then it exits.
Fork(p) ==
    /\ Call(p, "fork")
    /\ \/ Unused # {} /\ Born(p, Min(Unused), Op(p)[2], <<>>)
       \/ /\ Unused # {} => faults < MAXFAULTS
          /\ faults' = IF Unused # {} THEN faults + 1 ELSE faults
          /\ code' = [code EXCEPT ![p] = Exit]
          /\ UNCHANGED <<proc, ofile, files, pipes, input, typed>>

\* init starts a shell, and waits for that one.
StartShell(p) ==
    /\ Is(p, "startsh") /\ Unused # {}
    /\ Born(p, Min(Unused), Shell, <<<<"wait", Min(Unused)>>, <<"startsh">>>>)

Children(p) == {q \in Proc : proc[q].parent = p}
Zombies(p) == {q \in Children(p) : proc[q].state = "ZOMBIE"}

\* wait; init goes on until the child is its shell.
Wait(p) ==
    /\ Call(p, "wait") \/ Is(p, "waiting")
    /\ IF Zombies(p) # {}
       THEN LET z == Min(Zombies(p)) IN
            /\ proc' = [proc EXCEPT ![z] = NoBody]
            /\ code' = Then(p, IF Op(p)[2] \in {z, NoProc} THEN <<>> ELSE <<<<"wait", Op(p)[2]>>>>)
       ELSE IF Children(p) = {} \/ proc[p].killed
       THEN code' = Then(p, <<>>) /\ UNCHANGED proc
       ELSE /\ proc' = Sleeping(p, <<p, "wait">>)
            /\ code' = Then(p, <<<<"waiting", Op(p)[2]>>>>)
    /\ UNCHANGED <<ofile, files, pipes, input, typed, faults>>

\* exit: the descriptors of pipes, one after the other.
PipeFds(p) == {fd \in Fd \ FreeFds(p) : files[ofile[p][fd]].type = "PIPE"}

ExitClose(p) ==
    /\ Is(p, "exit") /\ PipeFds(p) # {}
    /\ LET fd == Min(PipeFds(p)) IN
          /\ CloseFd(p, fd)
          /\ code' = [code EXCEPT ![p] = Closing(ofile[p][fd]) \o @]
    /\ UNCHANGED <<proc, pipes, input, typed, faults>>

\* Mutant: the parent is not told.
ToldInitOnly(p) == {<<init, "wait">>}

\* The channels that exit wakes up.
Told(p) == {<<proc[p].parent, "wait">>} \cup (IF Zombies(p) # {} THEN {<<init, "wait">>} ELSE {})

\* The end of exit, with the descriptors of the console, which init keeps open.
ExitZombie(p) ==
    /\ Is(p, "exit") /\ PipeFds(p) = {}
    /\ ofile' = [ofile EXCEPT ![p] = [fd \in Fd |-> NoFile]]
    /\ files' = [f \in File |-> [files[f] EXCEPT !.ref = @ - Cardinality({fd \in Fd : ofile[p][fd] = f})]]
    /\ proc' = [q \in Proc |->
          IF q = p THEN [proc[p] EXCEPT !.state = "ZOMBIE"]
          ELSE IF proc[q].parent = p THEN [proc[q] EXCEPT !.parent = init]
          ELSE IF proc[q].state = "SLEEPING" /\ proc[q].chan \in Told(p)
          THEN [proc[q] EXCEPT !.state = "RUNNABLE", !.chan = <<>>] ELSE proc[q]]
    /\ code' = [code EXCEPT ![p] = <<>>]
    /\ UNCHANGED <<pipes, input, typed, faults>>

\* A process that has been killed exits before its next system call.
Die(p) ==
    /\ proc[p].killed
    /\ \E call \in {"read", "write", "close", "dup", "pipe", "fork", "wait"} : Is(p, call)
    /\ code' = [code EXCEPT ![p] = Exit]
    /\ UNCHANGED <<proc, ofile, files, pipes, input, typed, faults>>

\* kill, by anybody, of a cat; of interest is one that sleeps or is about to.
Kill(p) ==
    /\ faults < MAXFAULTS
    /\ code[p] # <<>> /\ Last(code[p])[1] = "cat" /\ Op(p)[1] \in {"sleep", "reading", "writing"}
    /\ proc' = [proc EXCEPT ![p].killed = TRUE, ![p].state = "RUNNABLE", ![p].chan = <<>>]
    /\ faults' = faults + 1
    /\ UNCHANGED <<code, ofile, files, pipes, input, typed>>

-----------------------------------------------------------------------------
Step(p) ==
    /\ proc[p].state = "RUNNABLE"
    /\ \/ GoToSleep(p) \/ PipeClose(p) \/ sys_close(p) \/ sys_dup(p) \/ sys_pipe(p)
       \/ sys_read(p) \/ sys_write(p) \/ Fork(p) \/ StartShell(p) \/ Wait(p)
       \/ ExitClose(p) \/ ExitZombie(p) \/ Die(p)

Next ==
    \/ \E p \in Proc : Step(p) \/ Kill(p)
    \/ \E c \in Key : Press(c)

\* It goes on as long as anything can happen: one of the processes that can run
\* does, whichever it is, and a user for whose input all wait ends it.
Spec == Init /\ [][Next]_vars /\ WF_vars(Next)

-----------------------------------------------------------------------------
\* Every variable has its type.
TypeOK ==
    /\ proc \in [Proc -> [state : {"UNUSED", "RUNNABLE", "SLEEPING", "ZOMBIE"},
                          chan : {<<>>} \cup ((0..NPROC + NPIPE) \X {"input", "nread", "nwrite", "wait"}),
                          killed : BOOLEAN, parent : Proc \cup {NoProc}]]
    /\ ofile \in [Proc -> [Fd -> File \cup {NoFile}]]
    /\ files \in [File -> [ref : 0..NPROC * NOFILE, type : {"NONE", "CONSOLE", "PIPE"},
                          pipe : Pipe \cup {0}, writable : BOOLEAN]]
    /\ \A k \in Pipe : pipes[k].nread \in 0..UINT - 1 /\ pipes[k].nwrite \in 0..UINT - 1
                        /\ pipes[k].data \in [0..PIPESIZE - 1 -> Byte \cup {Blank}]
    /\ input \in [buf : [0..INPUT_BUF - 1 -> Byte \cup {Blank}], r : 0..UINT - 1, w : 0..UINT - 1, e : 0..UINT - 1]
    /\ typed \in 0..MAXTYPED /\ faults \in 0..MAXFAULTS

Pending(k, writable) == {p \in Proc : Is(p, "pipeclose") /\ Op(p)[2] = k /\ Op(p)[3] = writable}
Entries(k, writable) == {f \in File : files[f].ref > 0 /\ files[f].type = "PIPE"
                                      /\ files[f].pipe = k /\ files[f].writable = writable}

\* A file is in the table as long as a descriptor refers to it, whoever was
\* forked, failed or killed in between; an end of a pipe is open as long as it
\* has an entry, or is about to be closed by who gave the entry up; and a pipe
\* is there exactly as long as one of its ends.
FilesExact ==
    /\ \A f \in File :
          files[f].ref = Cardinality({u \in Proc \X Fd : ofile[u[1]][u[2]] = f})
    /\ \A k \in Pipe :
          /\ pipes[k].readopen <=> Cardinality(Entries(k, FALSE)) + Cardinality(Pending(k, FALSE)) = 1
          /\ pipes[k].writeopen <=> Cardinality(Entries(k, TRUE)) + Cardinality(Pending(k, TRUE)) = 1
          /\ pipes[k].live <=> pipes[k].readopen \/ pipes[k].writeopen

\* The bytes that a writer of pipe k, in its write, has not put there yet.
Unwritten(k) ==
    {p \in Proc : /\ code[p] # <<>>
                  /\ \E i \in 1..Min({2, Len(code[p])}) : code[p][i][1] = "writing"
                  /\ Stdout(p).pipe = k}
Rest(p) == IF Op(p)[1] = "writing" THEN Op(p)[2] ELSE code[p][2][2]

\* A pipe gives back what was written to it, in that order and each byte once,
\* however its buffer and its counters wrap and whoever sleeps; a failed write
\* may lose its tail.
InOrder ==
    \A k \in Pipe : pipes[k].live =>
        LET inside == pipes[k].got \o Queue(pipes[k])
        IN  IF pipes[k].failed THEN IsPrefix(inside, pipes[k].put)
            ELSE IF Unwritten(k) = {} THEN inside = pipes[k].put
            ELSE \E p \in Unwritten(k) : inside \o Rest(p) = pipes[k].put

\* The reader of a pipe is told that it has ended only when all of what was
\* written has been read.
EndMeansAll ==
    \A k \in Pipe : pipes[k].eof =>
        ~pipes[k].writeopen /\ (pipes[k].failed \/ pipes[k].got = pipes[k].put)

\* Nobody sleeps over what he waits for.
NoLostWakeup ==
    \A p \in Proc : proc[p].state = "SLEEPING" =>
        LET k == proc[p].chan[1] IN
        CASE proc[p].chan[2] = "input" -> input.r = input.w
          [] proc[p].chan[2] = "nread" -> Queue(pipes[k]) = <<>> /\ pipes[k].writeopen
          [] proc[p].chan[2] = "nwrite" -> Room(pipes[k]) = 0 /\ pipes[k].readopen
          [] proc[p].chan[2] = "wait" -> Zombies(p) = {} /\ Children(p) # {} /\ ~proc[p].killed

\* The console's buffer is a queue of lines under edit and lines to read.
Slice(i, j) == [n \in 1..Minus(j, i) |-> At(Plus(i, n - 1))]
Lines == INSTANCE LineQueue WITH Byte <- Byte, NEWLINE <- "nl", END <- "eof",
                                 edit <- Slice(input.w, input.e), ready <- Slice(input.r, input.w)
ConsoleIsQueue == Lines!LineSpec

AtPrompt(p) ==
    /\ code[p] # <<>> /\ Op(p)[1] \in {"read", "reading", "sleep"}
    /\ Last(code[p])[1] = "gets"

\* Whatever is typed, fails or is killed, a shell asks for the next command
\* again: no pipeline is stuck on a pipe that nobody reads or writes.
PromptReturns == []<>(\E p \in Proc : AtPrompt(p))

\* Descriptors, files, pipes and sleepers agree, and what arrives is what was
\* sent: in order, and all of it before the end.
StreamSound == TypeOK /\ FilesExact /\ NoLostWakeup /\ InOrder /\ EndMeansAll
=============================================================================
