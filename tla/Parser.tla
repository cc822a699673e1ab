------------------------------- MODULE Parser -------------------------------
(***************************************************************************)
(* How the shell reads a line (sh.c): a parser by recursive descent over   *)
(* the tokens of gettoken(), and what a line means, defined without one,   *)
(* by the operators that split it.                                         *)
(***************************************************************************)
EXTENDS Integers, FiniteSets, Sequences, SequencesExt

CONSTANTS
    Word,      \* what gettoken calls 'a'
    MAXARGS

ASSUME ParserConstants == MAXARGS \in Nat \ {0}

Symbols == {"|", "&", ";", "<", ">", ">>", "(", ")"}

-----------------------------------------------------------------------------
(* Commands                                                                *)

execcmd(argv) == [type |-> "EXEC", argv |-> argv]
redircmd(cmd, file, fd) ==
    [type |-> "REDIR", cmd |-> cmd, file |-> file, fd |-> fd]
pipecmd(left, right) == [type |-> "PIPE", left |-> left, right |-> right]
listcmd(left, right) == [type |-> "LIST", left |-> left, right |-> right]
backcmd(cmd) == [type |-> "BACK", cmd |-> cmd]

\* What panics instead.
NoCmd == [type |-> "NONE"]

\* Redirections around a command, the first one innermost.
Wrapped(cmd, redirs) ==
    FoldLeft(LAMBDA c, r : redircmd(c, r.file, r.fd), cmd, redirs)

Redir(symbol, file) ==
    [file |-> file, fd |-> IF symbol = "<" THEN 0 ELSE 1]

-----------------------------------------------------------------------------
(* The parser.  It has read the tokens before at; at is 0 after a panic.   *)

Parsed(cmd, at) == [cmd |-> cmd, at |-> at]
Panic == Parsed(NoCmd, 0)
Failed(p) == p.at = 0

peek(line, at, toks) == at <= Len(line) /\ line[at] \in toks
IsWord(line, at) == peek(line, at, Word)

\* The redirections from at on, and where they end.
RECURSIVE parseredirs(_, _, _)
parseredirs(line, at, redirs) ==
    IF ~peek(line, at, {"<", ">", ">>"}) THEN [redirs |-> redirs, at |-> at]
    ELSE IF ~IsWord(line, at + 1) THEN [redirs |-> redirs, at |-> 0]
    ELSE parseredirs(line, at + 2,
                     Append(redirs, Redir(line[at], line[at + 1])))

\* The loop of parseexec.
RECURSIVE parseargs(_, _, _, _)
parseargs(line, at, argv, redirs) ==
    LET r == parseredirs(line, at, redirs) IN
    IF Failed(r) THEN Panic
    ELSE IF r.at > Len(line) \/ peek(line, r.at, {"|", ")", "&", ";"})
    THEN Parsed(Wrapped(execcmd(argv), r.redirs), r.at)
    ELSE IF ~IsWord(line, r.at) \/ Len(argv) + 1 >= MAXARGS THEN Panic
    ELSE parseargs(line, r.at + 1, Append(argv, line[r.at]), r.redirs)

RECURSIVE parseline(_, _), parsepipe(_, _)

parseblock(line, at) ==
    LET p == parseline(line, at + 1)
        r == parseredirs(line, p.at + 1, <<>>)
    IN  IF Failed(p) \/ ~peek(line, p.at, {")"}) \/ Failed(r) THEN Panic
        ELSE Parsed(Wrapped(p.cmd, r.redirs), r.at)

parseexec(line, at) ==
    IF peek(line, at, {"("}) THEN parseblock(line, at)
    ELSE parseargs(line, at, <<>>, <<>>)

parsepipe(line, at) ==
    LET p == parseexec(line, at) IN
    IF Failed(p) \/ ~peek(line, p.at, {"|"}) THEN p
    ELSE LET q == parsepipe(line, p.at + 1)
         IN  IF Failed(q) THEN Panic ELSE Parsed(pipecmd(p.cmd, q.cmd), q.at)

\* The & behind a pipeline.
RECURSIVE parsebacks(_, _)
parsebacks(line, p) ==
    IF Failed(p) \/ ~peek(line, p.at, {"&"}) THEN p
    ELSE parsebacks(line, Parsed(backcmd(p.cmd), p.at + 1))

\* Mutant: the rest of a list is one pipeline.
parselineOnce(line, at) ==
    LET p == parsebacks(line, parsepipe(line, at)) IN
    IF Failed(p) \/ ~peek(line, p.at, {";"}) THEN p
    ELSE LET q == parsepipe(line, p.at + 1)
         IN  IF Failed(q) THEN Panic ELSE Parsed(listcmd(p.cmd, q.cmd), q.at)

parseline(line, at) ==
    LET p == parsebacks(line, parsepipe(line, at)) IN
    IF Failed(p) \/ ~peek(line, p.at, {";"}) THEN p
    ELSE LET q == parseline(line, p.at + 1)
         IN  IF Failed(q) THEN Panic ELSE Parsed(listcmd(p.cmd, q.cmd), q.at)

\* Anything left over is a syntax error.
parsecmd(line) ==
    LET p == parseline(line, 1)
    IN  IF p.at = Len(line) + 1 THEN p.cmd ELSE NoCmd

-----------------------------------------------------------------------------
(* What a line means: ; separates, & ends, | joins, and what is left are   *)
(* words and redirections, or a line in parentheses with redirections.     *)

Count(line, n, symbol) == Cardinality({i \in 1..n : line[i] = symbol})

\* Where a symbol is outside parentheses.
Top(line, symbol) ==
    {i \in DOMAIN line : line[i] = symbol
                         /\ Count(line, i, "(") = Count(line, i, ")")}
Least(set) == CHOOSE i \in set : \A j \in set : i <= j
Until(line, i) == SubSeq(line, 1, i - 1)
Rest(line, i) == SubSeq(line, i + 1, Len(line))

Arrow == {"<", ">", ">>"}
Files(line) == {i \in DOMAIN line : i > 1 /\ line[i - 1] \in Arrow}
At(line, set) ==
    LET order == SetToSortSeq(set, LAMBDA i, j : i < j)
    IN  [k \in DOMAIN order |-> line[order[k]]]
Redirs(line) ==
    LET order == SetToSortSeq(Files(line), LAMBDA i, j : i < j)
    IN  [k \in DOMAIN order |-> Redir(line[order[k] - 1], line[order[k]])]

\* Words, some of them behind arrows, and every arrow with one.
Plain(line) ==
    /\ \A i \in DOMAIN line : line[i] \in Word \cup Arrow
    /\ \A i \in Files(line) : line[i] \in Word
    /\ line # <<>> => line[Len(line)] \notin Arrow

Both(Op(_, _), c, d) == IF NoCmd \in {c, d} THEN NoCmd ELSE Op(c, d)

RECURSIVE Means(_)

MeansSimple(line) ==
    IF line # <<>> /\ line[1] = "(" THEN
        LET close == {i \in DOMAIN line :
                         Count(line, i, "(") = Count(line, i, ")")}
            rest == Rest(line, Least(close))
            inner == Means(SubSeq(line, 2, Least(close) - 1))
        IN  IF \/ close = {} \/ inner = NoCmd \/ ~Plain(rest)
               \/ Len(rest) # 2 * Len(Redirs(rest))
            THEN NoCmd ELSE Wrapped(inner, Redirs(rest))
    ELSE LET args == At(line, DOMAIN line \ (Files(line) \cup
                                  {i \in DOMAIN line : line[i] \in Arrow}))
         IN  IF Plain(line) /\ Len(args) < MAXARGS
             THEN Wrapped(execcmd(args), Redirs(line)) ELSE NoCmd

RECURSIVE MeansPipe(_), MeansBack(_)
MeansPipe(line) ==
    LET bars == Top(line, "|") IN
    IF bars = {} THEN MeansSimple(line)
    ELSE Both(pipecmd, MeansSimple(Until(line, Least(bars))),
                       MeansPipe(Rest(line, Least(bars))))

MeansBack(line) ==
    IF line # <<>> /\ line[Len(line)] = "&"
    THEN LET cmd == MeansBack(Front(line))
         IN  IF cmd = NoCmd THEN NoCmd ELSE backcmd(cmd)
    ELSE MeansPipe(line)

Means(line) ==
    LET semis == Top(line, ";") IN
    IF semis = {} THEN MeansBack(line)
    ELSE Both(listcmd, MeansBack(Until(line, Least(semis))),
                       Means(Rest(line, Least(semis))))
=============================================================================
