-------------------------------- MODULE Shell --------------------------------
(***************************************************************************)
(* The shell (sh.c): main() reads a line and forks a process that parses   *)
(* and runs it.  A command is run by the process that has it, which forks  *)
(* others for the parts that must run beside it or before it; descriptors  *)
(* are copied, closed and opened, the lowest free one first.               *)
(***************************************************************************)
EXTENDS Parser

CONSTANTS
    Lines,       \* what is typed
    Missing,     \* the files that open does not find
    SLOTS,       \* processes besides the shell
    MAXLINES,    \* lines that are typed
    Nobody, Nothing

ASSUME ShellConstants ==
    /\ SLOTS \in Nat /\ MAXLINES \in Nat
    /\ \A line \in Lines : line \in Seq(Word \cup Symbols)

VARIABLES
    lines,       \* the lines that have been read
    sh,          \* the shell: prompt, read, wait or exited
    procs,       \* the processes
    ran,         \* the programs that have been started
    panicked     \* fork has failed in the shell or in a process of it

shellvars == <<lines, sh, procs, ran, panicked>>

Slot == 1..SLOTS
ShellProc == 0
Init1 == -1              \* init, which waits for orphans
Fd == 0..4

\* What a descriptor is for: the console, a file, or an end of the pipe that was
\* made for the command at path.
Tty == <<"console", 0, <<>>>>
File(name) == <<"file", 0, <<name>>>>
ReadEnd(n, path) == <<"read", n, path>>
WriteEnd(n, path) == <<"write", n, path>>
Console == [fd \in Fd |-> IF fd <= 2 THEN Tty ELSE Nothing]

\* A process runs cmd, which is in line n, with the parts in path leading to it.
Process(parent, cmd, n, path, fds) ==
    [state |-> "run", parent |-> parent, cmd |-> cmd, line |-> n,
     path |-> path, fds |-> fds, step |-> 1]
Empty(p) == procs[p] = Nobody
Alive(p) == procs[p] # Nobody
Cmd(p) == procs[p].cmd
Runs(p, type) ==
    Alive(p) /\ procs[p].state = "run" /\ procs[p].cmd.type = type

Lowest(fds) == CHOOSE fd \in Fd : /\ fds[fd] = Nothing
                                  /\ \A e \in Fd : fds[e] = Nothing => fd <= e
Close(fds, fd) == [fds EXCEPT ![fd] = Nothing]
Open(fds, what) == [fds EXCEPT ![Lowest(fds)] = what]

ShellInit ==
    /\ lines = <<>> /\ sh = "prompt"
    /\ procs = [p \in Slot |-> Nobody]
    /\ ran = {} /\ panicked = FALSE

-----------------------------------------------------------------------------
(* exit, fork and wait, as processes see them                              *)

\* The table after p has exited: its children are init's, which frees them;
\* and p waits for its own parent, unless that is init.
Exited(table, p) ==
    [q \in Slot |->
        IF q = p THEN IF table[p].parent = Init1 THEN Nobody
                      ELSE [table[p] EXCEPT !.state = "zombie"]
        ELSE IF table[q] # Nobody /\ table[q].parent = p
        THEN IF table[q].state = "zombie" THEN Nobody
             ELSE [table[q] EXCEPT !.parent = Init1]
        ELSE table[q]]

exit(p) == procs' = Exited(procs, p) /\ UNCHANGED <<ran, panicked>>

\* The first free slot; or fork fails, for lack of one or of memory, which
\* here happens once.
Allocated(q) == Empty(q) /\ \A r \in Slot : Empty(r) => q <= r
ForkFails == ~panicked \/ \A q \in Slot : Alive(q)

\* fork1: the child, and the parent as it goes on; or a panic.
fork1(p, child, after) ==
    \/ \E q \in Slot :
           /\ Allocated(q)
           /\ procs' = [procs EXCEPT ![q] = child, ![p] = after]
           /\ UNCHANGED <<ran, panicked>>
    \/ /\ ForkFails
       /\ procs' = Exited(procs, p) /\ panicked' = TRUE
       /\ UNCHANGED ran

Children(p) == {q \in Slot : Alive(q) /\ procs[q].parent = p}
Zombies(p) == {q \in Children(p) : procs[q].state = "zombie"}

\* wait: who calls it here has a child.
wait(p, after) ==
    /\ \E q \in Zombies(p) : procs' = [procs EXCEPT ![q] = Nobody, ![p] = after]
    /\ UNCHANGED <<ran, panicked>>

-----------------------------------------------------------------------------
(* runcmd: a process does the next thing for its command                   *)

Path(p, part) == Append(procs[p].path, part)
Fds(p) == procs[p].fds
Child(p, cmd, part, fds) == Process(p, cmd, procs[p].line, Path(p, part), fds)
Onward(p) == [procs[p] EXCEPT !.step = @ + 1]
Goes(p, cmd, part, fds) ==
    [procs[p] EXCEPT !.cmd = cmd, !.path = Path(p, part), !.fds = fds,
                     !.step = 1]
Step(p, type, n) == Runs(p, type) /\ procs[p].step = n

\* A syntax error, no command, or none that exec finds.
GiveUp(p) ==
    /\ \/ Runs(p, "NONE")
       \/ Runs(p, "EXEC") /\ (Cmd(p).argv = <<>> \/ Cmd(p).argv[1] \in Missing)
       \/ Runs(p, "REDIR") /\ Cmd(p).fd = 0 /\ Cmd(p).file \in Missing
       \/ Step(p, "PIPE", 6) \/ Step(p, "BACK", 2)
    /\ exit(p)

ExecProgram(p) ==
    /\ Runs(p, "EXEC") /\ Cmd(p).argv # <<>> /\ Cmd(p).argv[1] \notin Missing
    /\ procs' = [procs EXCEPT ![p].state = "program"]
    /\ ran' = ran \cup {[line |-> procs[p].line, path |-> procs[p].path,
                         argv |-> Cmd(p).argv, fds |-> Fds(p)]}
    /\ UNCHANGED panicked

ProgramEnds(p) == Alive(p) /\ procs[p].state = "program" /\ exit(p)

\* The file takes the place of what is closed.
Redirect(p) ==
    /\ Runs(p, "REDIR") /\ ~(Cmd(p).fd = 0 /\ Cmd(p).file \in Missing)
    /\ procs' = [procs EXCEPT ![p] =
                    Goes(p, Cmd(p).cmd, "of",
                         Open(Close(Fds(p), Cmd(p).fd), File(Cmd(p).file)))]
    /\ UNCHANGED <<ran, panicked>>

ListFirst(p) == Step(p, "LIST", 1)
                /\ fork1(p, Child(p, Cmd(p).left, "first", Fds(p)), Onward(p))

\* Mutant: the rest of a list does not wait.
ListThenAtOnce(p) ==
    /\ Step(p, "LIST", 2)
    /\ procs' = [procs EXCEPT ![p] = Goes(p, Cmd(p).right, "then", Fds(p))]
    /\ UNCHANGED <<ran, panicked>>

ListThen(p) == Step(p, "LIST", 2)
               /\ wait(p, Goes(p, Cmd(p).right, "then", Fds(p)))

\* pipe(): its two ends are the lowest free descriptors.
Reader(p) == ReadEnd(procs[p].line, procs[p].path)
Writer(p) == WriteEnd(procs[p].line, procs[p].path)

Pipe(p) ==
    /\ Step(p, "PIPE", 1)
    /\ procs' = [procs EXCEPT ![p] =
                    [Onward(p) EXCEPT !.fds = Open(Open(@, Reader(p)), Writer(p))]]
    /\ UNCHANGED <<ran, panicked>>

CloseAll(fds, ends) == [fd \in Fd |-> IF fds[fd] \in ends THEN Nothing ELSE fds[fd]]

\* Mutant: the side of a pipe keeps the ends that it has duplicated.
SideKept(p, fd, end) == Open(Close(Fds(p), fd), end)

\* close, dup, and close of both ends that pipe() gave.
Side(p, fd, end) ==
    LET fds == Open(Close(Fds(p), fd), end)
    IN  [e \in Fd |-> IF e > 2 THEN Nothing ELSE fds[e]]

PipeLeft(p) ==
    /\ Step(p, "PIPE", 2)
    /\ fork1(p, Child(p, Cmd(p).left, "left", Side(p, 1, Writer(p))), Onward(p))

PipeRight(p) ==
    /\ Step(p, "PIPE", 3)
    /\ fork1(p, Child(p, Cmd(p).right, "right", Side(p, 0, Reader(p))),
             [Onward(p) EXCEPT !.fds = CloseAll(@, {Reader(p), Writer(p)})])

PipeWait(p) == (Step(p, "PIPE", 4) \/ Step(p, "PIPE", 5)) /\ wait(p, Onward(p))

Background(p) == Step(p, "BACK", 1)
                 /\ fork1(p, Child(p, Cmd(p).cmd, "back", Fds(p)), Onward(p))

Runcmd(p) ==
    \/ GiveUp(p) \/ ExecProgram(p) \/ ProgramEnds(p) \/ Redirect(p)
    \/ ListFirst(p) \/ ListThen(p)
    \/ Pipe(p) \/ PipeLeft(p) \/ PipeRight(p) \/ PipeWait(p)
    \/ Background(p)

-----------------------------------------------------------------------------
(* main()                                                                  *)

Getcmd ==
    /\ sh = "prompt" /\ Len(lines) < MAXLINES
    /\ \E line \in Lines : lines' = Append(lines, line)
    /\ sh' = "read"
    /\ UNCHANGED <<procs, ran, panicked>>

\* The line is parsed by the process that runs it.
ForkLine ==
    /\ sh = "read"
    /\ \/ \E q \in Slot :
              /\ Allocated(q)
              /\ procs' = [procs EXCEPT ![q] =
                     Process(ShellProc, parsecmd(Last(lines)), Len(lines), <<>>,
                             Console)]
              /\ sh' = "wait" /\ UNCHANGED panicked
       \/ /\ ForkFails
          /\ sh' = "exited" /\ panicked' = TRUE /\ UNCHANGED procs
    /\ UNCHANGED <<lines, ran>>

WaitLine ==
    /\ sh = "wait"
    /\ \E q \in Zombies(ShellProc) : procs' = [procs EXCEPT ![q] = Nobody]
    /\ sh' = "prompt"
    /\ UNCHANGED <<lines, ran, panicked>>

ShellNext ==
    \/ Getcmd \/ ForkLine \/ WaitLine
    \/ \E p \in Slot : Runcmd(p) /\ UNCHANGED <<lines, sh>>

ShellSpec == ShellInit /\ [][ShellNext]_shellvars

-----------------------------------------------------------------------------
(* What a line should do                                                   *)

\* The programs that a command starts, with their input and output.
RECURSIVE ProgramsOf(_, _, _, _, _)
ProgramsOf(cmd, n, path, in, out) ==
    LET Part(c, part, i, o) == ProgramsOf(c, n, Append(path, part), i, o)
    IN  CASE cmd.type = "NONE" -> {}
          [] cmd.type = "EXEC" ->
                IF cmd.argv = <<>> \/ cmd.argv[1] \in Missing THEN {}
                ELSE {[line |-> n, path |-> path, argv |-> cmd.argv,
                       fds |-> [Console EXCEPT ![0] = in, ![1] = out]]}
          [] cmd.type = "REDIR" ->
                IF cmd.fd = 1 THEN Part(cmd.cmd, "of", in, File(cmd.file))
                ELSE IF cmd.file \in Missing THEN {}
                ELSE Part(cmd.cmd, "of", File(cmd.file), out)
          [] cmd.type = "LIST" ->
                Part(cmd.left, "first", in, out) \cup Part(cmd.right, "then", in, out)
          [] cmd.type = "PIPE" ->
                Part(cmd.left, "left", in, WriteEnd(n, path))
                \cup Part(cmd.right, "right", ReadEnd(n, path), out)
          [] cmd.type = "BACK" -> Part(cmd.cmd, "back", in, out)

Asked ==
    UNION {ProgramsOf(Means(lines[n]), n, <<>>, Tty, Tty) : n \in DOMAIN lines}

\* The programs of the lines run, each once and with its own input and output;
\* no descriptor of a pipe is left open in a program, which would never see
\* the end of its input.
RunAsAsked ==
    /\ ran \subseteq Asked
    /\ ~panicked /\ sh = "prompt" /\ (\A p \in Slot : Empty(p)) => ran = Asked

Foreground(path, from) == \A k \in from..Len(path) : path[k] # "back"

\* What is behind a ; starts when what is before it has ended, unless that is
\* in the background; and so does the prompt.
InTurn ==
    ~panicked => \A p \in Slot : Alive(p) /\ procs[p].state = "program" =>
        LET path == procs[p].path IN
        /\ sh = "prompt" => ~Foreground(path, 1)
        /\ \A e \in ran : \A k \in DOMAIN path \cap DOMAIN e.path :
               /\ e.line = procs[p].line
               /\ path[k] = "first" /\ e.path[k] = "then"
               /\ SubSeq(path, 1, k - 1) = SubSeq(e.path, 1, k - 1)
               => ~Foreground(path, k)

ShellSound == RunAsAsked /\ InTurn
=============================================================================
