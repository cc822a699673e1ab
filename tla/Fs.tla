---------------------------------- MODULE Fs ----------------------------------
(***************************************************************************)
(* Inodes, the inode cache, directories and the file system calls of       *)
(* project3, with symbolic links.  Processes give way to each other where  *)
(* they wait for the sleep lock of an inode and where iput lets it go; a   *)
(* stretch of code that holds one such lock and waits for no other is one  *)
(* step.                                                                   *)
(*                                                                         *)
(* What a process has still to do is a sequence of instructions, todo[p]:  *)
(*   <<"walk", path, parent>>   namex from the current directory           *)
(*   <<"look", path, parent>>   the next round of its loop                 *)
(*   <<"put", e>>, <<"drop", e>>  the two parts of iput                    *)
(*   <<"create", type>>, ...    parts of the calls                         *)
(* onfail[p] is what it does instead when a walk or create returns 0, and  *)
(* reg[p] has its pointers: w (in namex), ip, dp, and the last name.       *)
(***************************************************************************)
EXTENDS Naturals, FiniteSets, FiniteSetsExt, Sequences, Functions

CONSTANTS
    Proc, NINODE, NINODES, Name,
    Path,        \* the paths each process uses
    Calls,       \* the calls each process makes
    LOSTMAX,     \* symlink is called while fewer pointers are lost
    None

ASSUME FsConstants ==
    /\ IsFiniteSet(Proc) /\ IsFiniteSet(Name) /\ None \notin Proc \cup (1..NINODE)
    /\ NINODE \in Nat \ {0} /\ NINODES \in Nat \ {0} /\ LOSTMAX \in Nat
    /\ DOMAIN Path = Proc
    /\ \A p \in Proc : \A path \in Path[p] : path \in Seq(Name) /\ path # << >>
    /\ Calls \in [Proc -> SUBSET {"open", "close", "link", "symlink", "unlink",
                                 "mkdir", "chdir"}]

VARIABLES
    disk,        \* the inodes, with what directories and links contain
    icache,      \* entries of the inode cache
    lock,        \* who holds the sleep lock of an entry
    todo, onfail, reg,
    fd, cwd,     \* the open file and the current directory of a process
    lost,        \* pointers to an entry that nobody has any more
    panic        \* "none", or what ended the run

vars == <<disk, icache, lock, todo, onfail, reg, fd, cwd, lost, panic>>

Inum == 1..NINODES
root == 1
Entry == 1..NINODE
Free == [type |-> "none", nlink |-> 0, ents |-> [n \in Name |-> 0],
         target |-> << >>]
Empty == [inum |-> 0, ref |-> 0, valid |-> FALSE]
NoPointers == [w |-> None, ip |-> None, dp |-> None, name |-> None]

\* The root directory, which every process is in.
Init ==
    /\ disk = [i \in Inum |-> IF i = root
                              THEN [Free EXCEPT !.type = "dir", !.nlink = 1]
                              ELSE Free]
    /\ icache = [e \in Entry |->
                   IF e = 1 THEN [inum |-> root, ref |-> Cardinality(Proc),
                                  valid |-> FALSE] ELSE Empty]
    /\ lock = [e \in Entry |-> None]
    /\ todo = [p \in Proc |-> << >>] /\ onfail = todo
    /\ reg = [p \in Proc |-> NoPointers]
    /\ fd = [p \in Proc |-> None] /\ cwd = [p \in Proc |-> 1]
    /\ lost = [e \in Entry |-> 0]
    /\ panic = "none"

-----------------------------------------------------------------------------
Does(p, what) == panic = "none" /\ todo[p] # << >> /\ Head(todo[p])[1] = what
Arg(p) == Head(todo[p])[2]
Rest(p) == Tail(todo[p])
Then(p, instrs) == todo' = [todo EXCEPT ![p] = instrs]
Panics(what) ==
    /\ panic' = what
    /\ UNCHANGED <<disk, icache, lock, todo, onfail, reg, fd, cwd, lost>>

Inode(e) == disk[icache[e].inum]
IsDir(e) == Inode(e).type = "dir"
NonEmpty(e) == IsDir(e) /\ \E n \in Name : Inode(e).ents[n] # 0

\* The sleep lock of e is free, or p's already.
CanLock(p, e) == lock[e] \in {None, p}

\* The cache after ilock has read the inode, and with one pointer more to it.
Read(e) == [icache EXCEPT ![e].valid = TRUE]
Dup(ic, e) == [ic EXCEPT ![e].ref = @ + 1]

\* iget: the entry it returns, and the cache afterwards.
Cached(i) == {e \in Entry : icache[e].ref > 0 /\ icache[e].inum = i}
Unused == {e \in Entry : icache[e].ref = 0}
CanGet(i) == Cached(i) # {} \/ Unused # {}
GetEntry(i) == IF Cached(i) # {} THEN Min(Cached(i)) ELSE Min(Unused)

\* Mutant: an inode is looked for in recycled entries only.
GetAgain(ic, i) ==
    [ic EXCEPT ![Min(Unused)] = [inum |-> i, ref |-> 1, valid |-> FALSE]]

Get(ic, i) ==
    IF Cached(i) # {} THEN Dup(ic, GetEntry(i))
    ELSE [ic EXCEPT ![GetEntry(i)] = [inum |-> i, ref |-> 1, valid |-> FALSE]]

-----------------------------------------------------------------------------
(* iput *)

\* Mutant: other pointers to the inode are not looked for.
DeadAnyway(e) == icache[e].valid /\ Inode(e).nlink = 0

\* No link and no other pointer: the inode is freed.
Dead(e) == icache[e].valid /\ Inode(e).nlink = 0 /\ icache[e].ref = 1

\* iput up to the release of the inode's lock. A directory that was removed may
\* have got a new entry since: the inode it names is then lost.
IPut(p) ==
    /\ Does(p, "put")
    /\ LET e == Arg(p)
       IN  /\ lock[e] = None
           /\ IF Dead(e)
              THEN /\ disk' = [disk EXCEPT ![icache[e].inum] = Free]
                   /\ icache' = [icache EXCEPT ![e].valid = FALSE]
                   /\ panic' = IF NonEmpty(e) THEN "entries dropped" ELSE "none"
              ELSE UNCHANGED <<disk, icache, panic>>
           /\ Then(p, <<<<"drop", e>>>> \o Rest(p))
    /\ UNCHANGED <<lock, onfail, reg, fd, cwd, lost>>

\* The end of iput.
IDrop(p) ==
    /\ Does(p, "drop")
    /\ LET e == Arg(p)
       IN  icache' = IF icache[e].ref = 1 THEN [icache EXCEPT ![e] = Empty]
                     ELSE [icache EXCEPT ![e].ref = @ - 1]
    /\ Then(p, Rest(p))
    /\ UNCHANGED <<disk, lock, onfail, reg, fd, cwd, lost, panic>>

-----------------------------------------------------------------------------
(* namex *)

\* One element of the path, in directory w; ic is the cache as the round finds
\* it. k is what follows, bad what follows if there is no such path.
Look(p, w, ic, path, parent, k, bad) ==
    LET last == Len(path) = 1
        next == Inode(w).ents[Head(path)]
        read == [ic EXCEPT ![w].valid = TRUE]
    IN  /\ lock[w] = None
        /\ IF IsDir(w) /\ parent /\ last
           THEN /\ icache' = read
                /\ reg' = [reg EXCEPT ![p].w = None, ![p].dp = w,
                                      ![p].name = Head(path)]
                /\ Then(p, k)
                /\ onfail' = [onfail EXCEPT ![p] = bad]
                /\ UNCHANGED panic
           ELSE IF ~IsDir(w) \/ next = 0
           THEN /\ icache' = read
                /\ reg' = [reg EXCEPT ![p].w = None]
                /\ Then(p, <<<<"put", w>>>> \o bad)
                /\ onfail' = [onfail EXCEPT ![p] = << >>]
                /\ UNCHANGED panic
           ELSE IF ~CanGet(next)
           THEN /\ panic' = "iget: no inodes"
                /\ UNCHANGED <<icache, todo, onfail, reg>>
           ELSE /\ icache' = Get(read, next)
                /\ reg' = [reg EXCEPT
                     ![p].w = IF last THEN None ELSE GetEntry(next),
                     ![p].ip = IF last THEN GetEntry(next) ELSE @]
                /\ Then(p, <<<<"put", w>>>>
                           \o (IF last THEN << >>
                               ELSE <<<<"look", Tail(path), parent>>>>) \o k)
                /\ onfail' = [onfail EXCEPT ![p] = bad]
                /\ UNCHANGED panic
        /\ UNCHANGED <<disk, lock, fd, cwd, lost>>

\* namex starts with a pointer of its own to the current directory.
Start(p, path, parent, k, bad) ==
    Look(p, cwd[p], Dup(icache, cwd[p]), path, parent, k, bad)

Walk(p) ==
    /\ Does(p, "walk")
    /\ Start(p, Arg(p), Head(todo[p])[3], Rest(p), onfail[p])

LookOn(p) ==
    /\ Does(p, "look")
    /\ Look(p, reg[p].w, icache, Arg(p), Head(todo[p])[3], Rest(p), onfail[p])

-----------------------------------------------------------------------------
(* create *)

\* The inode number under the last name of the path, in dp.
Found(p) == Inode(reg[p].dp).ents[reg[p].name]
FreeInums == {i \in Inum : disk[i].type = "none"}

\* The registers of p with dp put away.
NoDp(p) == [reg EXCEPT ![p].dp = None, ![p].name = None]

\* The name is there already.
CreateFound(p) ==
    /\ Does(p, "create") /\ CanLock(p, reg[p].dp)
    /\ Found(p) # 0
    /\ IF ~CanGet(Found(p)) THEN Panics("iget: no inodes")
       ELSE /\ icache' = Get(Read(reg[p].dp), Found(p))
            /\ reg' = [NoDp(p) EXCEPT ![p].ip = GetEntry(Found(p))]
            /\ Then(p, <<<<"put", reg[p].dp>>, <<"exists", Arg(p)>>>> \o Rest(p))
            /\ UNCHANGED <<disk, lock, onfail, fd, cwd, lost, panic>>

\* It will do if it is a file and a file is asked for, or a symbolic link and
\* one is asked for; it stays locked.
Exists(p) ==
    /\ Does(p, "exists") /\ CanLock(p, reg[p].ip)
    /\ LET e == reg[p].ip
       IN  /\ icache' = Read(e)
           /\ IF Inode(e).type = Arg(p) /\ ~IsDir(e)
              THEN /\ lock' = [lock EXCEPT ![e] = p]
                   /\ Then(p, Rest(p))
                   /\ UNCHANGED <<onfail, reg>>
              ELSE /\ reg' = [reg EXCEPT ![p].ip = None]
                   /\ Then(p, <<<<"put", e>>>> \o onfail[p])
                   /\ onfail' = [onfail EXCEPT ![p] = << >>]
                   /\ UNCHANGED lock
    /\ UNCHANGED <<disk, fd, cwd, lost, panic>>

\* It is not: ialloc, and an entry in the directory. The new inode is locked
\* while iput waits for the lock of the directory again.
CreateNew(p) ==
    /\ Does(p, "create") /\ CanLock(p, reg[p].dp)
    /\ Found(p) = 0
    /\ IF FreeInums = {} THEN Panics("ialloc: no inodes")
       ELSE IF ~CanGet(Min(FreeInums)) THEN Panics("iget: no inodes")
       ELSE LET i == Min(FreeInums)
                e == GetEntry(i)
                dp == reg[p].dp
                d == icache[dp].inum
            IN  /\ disk' = [disk EXCEPT
                     ![i] = [Free EXCEPT !.type = Arg(p), !.nlink = 1],
                     ![d].ents[reg[p].name] = i,
                     ![d].nlink = IF Arg(p) = "dir" THEN @ + 1 ELSE @]
                /\ icache' = [Get(Read(dp), i) EXCEPT ![e].valid = TRUE]
                /\ lock' = [lock EXCEPT ![e] = p]
                /\ reg' = [NoDp(p) EXCEPT ![p].ip = e]
                /\ Then(p, <<<<"put", dp>>>> \o Rest(p))
                /\ UNCHANGED <<onfail, fd, cwd, lost, panic>>

-----------------------------------------------------------------------------
(* The calls. In each, ip or dp is locked where the code locks it.         *)

May(p, call) == panic = "none" /\ todo[p] = << >> /\ call \in Calls[p]

\* What p does with ip last: it is unlocked and put, and the call ends.
PutIp(p) ==
    /\ lock' = [lock EXCEPT ![reg[p].ip] = None]
    /\ reg' = [reg EXCEPT ![p].ip = None]
    /\ Then(p, <<<<"put", reg[p].ip>>>>)
    /\ onfail' = [onfail EXCEPT ![p] = << >>]

\* open finds or makes the file; of what is no file it looks for a symbolic
\* link with create, which makes an empty one if the name has gone meanwhile.
SysOpen(p) ==
    /\ May(p, "open")
    /\ \E path \in Path[p] :
        \/ \E meta \in BOOLEAN :
              Start(p, path, FALSE, <<<<"open", meta>>>>, << >>)
        \/ Start(p, path, TRUE, <<<<"create", "file">>, <<"open", FALSE>>>>,
                 <<<<"walk", path, TRUE>>, <<"create", "sym">>,
                   <<"open", FALSE>>>>)

IsLink(p) == Inode(reg[p].ip).type = "sym" /\ ~Arg(p)

\* A symbolic link is followed, from the current directory of the process. One
\* without a target sends the code past the end of its buffer.
Follow(p) ==
    /\ Does(p, "open") /\ CanLock(p, reg[p].ip)
    /\ IsLink(p)
    /\ LET e == reg[p].ip
       IN  IF Inode(e).target = << >> THEN Panics("no target")
           ELSE /\ lock' = [lock EXCEPT ![e] = None]
                /\ icache' = Read(e)
                /\ reg' = [reg EXCEPT ![p].ip = None]
                /\ Then(p, <<<<"put", e>>, <<"walk", Inode(e).target, FALSE>>,
                             <<"open", FALSE>>>>)
                /\ onfail' = [onfail EXCEPT ![p] = << >>]
                /\ UNCHANGED <<disk, fd, cwd, lost, panic>>

\* filealloc and fdalloc: with no descriptor left the pointer is put.
Opened(p) ==
    /\ Does(p, "open") /\ CanLock(p, reg[p].ip)
    /\ ~IsLink(p)
    /\ icache' = Read(reg[p].ip)
    /\ IF fd[p] = None
       THEN /\ fd' = [fd EXCEPT ![p] = reg[p].ip]
            /\ lock' = [lock EXCEPT ![reg[p].ip] = None]
            /\ reg' = [reg EXCEPT ![p].ip = None]
            /\ Then(p, << >>)
            /\ onfail' = [onfail EXCEPT ![p] = << >>]
       ELSE PutIp(p) /\ UNCHANGED fd
    /\ UNCHANGED <<disk, cwd, lost, panic>>

\* close, of the last descriptor of a file.
SysClose(p) ==
    /\ May(p, "close") /\ fd[p] # None
    /\ fd' = [fd EXCEPT ![p] = None]
    /\ Then(p, <<<<"put", fd[p]>>>>)
    /\ UNCHANGED <<disk, icache, lock, onfail, reg, cwd, lost, panic>>

\* link: the count goes up before the entry is made.
SysLink(p) ==
    /\ May(p, "link")
    /\ \E old, new \in Path[p] : Start(p, old, FALSE, <<<<"linkold", new>>>>, << >>)

LinkOld(p) ==
    /\ Does(p, "linkold") /\ CanLock(p, reg[p].ip)
    /\ LET e == reg[p].ip
       IN  IF IsDir(e) THEN PutIp(p) /\ UNCHANGED disk
           ELSE /\ disk' = [disk EXCEPT ![icache[e].inum].nlink = @ + 1]
                /\ Then(p, <<<<"walk", Arg(p), TRUE>>, <<"linknew">>>>)
                /\ onfail' = [onfail EXCEPT ![p] = <<<<"linkbad">>>>]
                /\ UNCHANGED <<lock, reg>>
    /\ icache' = Read(reg[p].ip)
    /\ UNCHANGED <<fd, cwd, lost, panic>>

LinkNew(p) ==
    /\ Does(p, "linknew") /\ CanLock(p, reg[p].dp)
    /\ Found(p) = 0
    /\ LET e == reg[p].ip
           dp == reg[p].dp
       IN  /\ disk' = [disk EXCEPT ![icache[dp].inum].ents[reg[p].name] =
                                      icache[e].inum]
           /\ reg' = [NoDp(p) EXCEPT ![p].ip = None]
           /\ Then(p, <<<<"put", dp>>, <<"put", e>>>>)
           /\ onfail' = [onfail EXCEPT ![p] = << >>]
           /\ icache' = Read(dp)
    /\ UNCHANGED <<lock, fd, cwd, lost, panic>>

\* dirlink puts the entry it has found while dp is locked.
LinkFound(p) ==
    /\ Does(p, "linknew") /\ CanLock(p, reg[p].dp)
    /\ Found(p) # 0
    /\ IF ~CanGet(Found(p)) THEN Panics("iget: no inodes")
       ELSE /\ icache' = Get(Read(reg[p].dp), Found(p))
            /\ lock' = [lock EXCEPT ![reg[p].dp] = p]
            /\ Then(p, <<<<"put", GetEntry(Found(p))>>, <<"giveup">>>>)
            /\ UNCHANGED <<disk, onfail, reg, fd, cwd, lost, panic>>

\* iunlockput(dp), and what the call does after a failure.
GiveUp(p) ==
    /\ Does(p, "giveup")
    /\ lock' = [lock EXCEPT ![reg[p].dp] = None]
    /\ reg' = NoDp(p)
    /\ Then(p, <<<<"put", reg[p].dp>>>> \o onfail[p])
    /\ onfail' = [onfail EXCEPT ![p] = << >>]
    /\ UNCHANGED <<disk, icache, fd, cwd, lost, panic>>

LinkBad(p) ==
    /\ Does(p, "linkbad") /\ CanLock(p, reg[p].ip)
    /\ disk' = [disk EXCEPT ![icache[reg[p].ip].inum].nlink = @ - 1]
    /\ PutIp(p)
    /\ UNCHANGED <<icache, fd, cwd, lost, panic>>

Lost == FoldFunction(LAMBDA x, y : x + y, 0, lost)

\* symlink sees whether the target exists, and forgets the pointer it gets.
SysSymlink(p) ==
    /\ May(p, "symlink") /\ Lost < LOSTMAX
    /\ \E old, new \in Path[p] :
          Start(p, old, FALSE, <<<<"forget">>, <<"walk", new, TRUE>>,
                                 <<"create", "sym">>, <<"write", old>>>>, << >>)

Forget(p) ==
    /\ Does(p, "forget")
    /\ lost' = [lost EXCEPT ![reg[p].ip] = @ + 1]
    /\ reg' = [reg EXCEPT ![p].ip = None]
    /\ Then(p, Rest(p))
    /\ UNCHANGED <<disk, icache, lock, onfail, fd, cwd, panic>>

\* The target is written over what the link contained.
WriteTarget(p) ==
    /\ Does(p, "write")
    /\ disk' = [disk EXCEPT ![icache[reg[p].ip].inum].target = Arg(p)]
    /\ PutIp(p)
    /\ UNCHANGED <<icache, fd, cwd, lost, panic>>

SysUnlink(p) ==
    /\ May(p, "unlink")
    /\ \E path \in Path[p] : Start(p, path, TRUE, <<<<"unlink">>>>, << >>)

Unlink(p) ==
    /\ Does(p, "unlink") /\ CanLock(p, reg[p].dp)
    /\ IF Found(p) # 0 /\ ~CanGet(Found(p)) THEN Panics("iget: no inodes")
       ELSE /\ lock' = [lock EXCEPT ![reg[p].dp] = p]
            /\ IF Found(p) = 0
               THEN /\ icache' = Read(reg[p].dp)
                    /\ Then(p, <<<<"giveup">>>>)
                    /\ UNCHANGED reg
               ELSE /\ icache' = Get(Read(reg[p].dp), Found(p))
                    /\ reg' = [reg EXCEPT ![p].ip = GetEntry(Found(p))]
                    /\ Then(p, <<<<"remove">>>>)
            /\ UNCHANGED <<disk, onfail, fd, cwd, lost, panic>>

\* With both locked: a directory must be empty.
RemoveNot(p) ==
    /\ Does(p, "remove") /\ CanLock(p, reg[p].ip)
    /\ NonEmpty(reg[p].ip)
    /\ IF Inode(reg[p].ip).nlink < 1 THEN Panics("unlink: nlink < 1")
       ELSE /\ icache' = Read(reg[p].ip)
            /\ reg' = [reg EXCEPT ![p].ip = None]
            /\ Then(p, <<<<"put", reg[p].ip>>, <<"giveup">>>>)
            /\ UNCHANGED <<disk, lock, onfail, fd, cwd, lost, panic>>

\* The entry goes; then iput waits for the directory with ip locked.
RemoveEntry(p) ==
    /\ Does(p, "remove") /\ CanLock(p, reg[p].ip)
    /\ ~NonEmpty(reg[p].ip)
    /\ LET e == reg[p].ip
           dp == reg[p].dp
           d == icache[dp].inum
       IN  IF Inode(e).nlink < 1 THEN Panics("unlink: nlink < 1")
           ELSE /\ disk' = [disk EXCEPT
                     ![d].ents[reg[p].name] = 0,
                     ![d].nlink = IF IsDir(e) THEN @ - 1 ELSE @]
                /\ lock' = [lock EXCEPT ![dp] = None, ![e] = p]
                /\ icache' = Read(e)
                /\ reg' = NoDp(p)
                /\ Then(p, <<<<"put", dp>>, <<"removed">>>>)
                /\ UNCHANGED <<onfail, fd, cwd, lost, panic>>

Removed(p) ==
    /\ Does(p, "removed")
    /\ disk' = [disk EXCEPT ![icache[reg[p].ip].inum].nlink = @ - 1]
    /\ PutIp(p)
    /\ UNCHANGED <<icache, fd, cwd, lost, panic>>

SysMkdir(p) ==
    /\ May(p, "mkdir")
    /\ \E path \in Path[p] :
          Start(p, path, TRUE, <<<<"create", "dir">>, <<"made">>>>, << >>)

Made(p) ==
    /\ Does(p, "made")
    /\ PutIp(p)
    /\ UNCHANGED <<disk, icache, fd, cwd, lost, panic>>

SysChdir(p) ==
    /\ May(p, "chdir")
    /\ \E path \in Path[p] : Start(p, path, FALSE, <<<<"chdir">>>>, << >>)

Chdir(p) ==
    /\ Does(p, "chdir") /\ CanLock(p, reg[p].ip)
    /\ icache' = Read(reg[p].ip)
    /\ IF IsDir(reg[p].ip)
       THEN /\ cwd' = [cwd EXCEPT ![p] = reg[p].ip]
            /\ reg' = [reg EXCEPT ![p].ip = None]
            /\ Then(p, <<<<"put", cwd[p]>>>>)
            /\ UNCHANGED <<lock, onfail>>
       ELSE PutIp(p) /\ UNCHANGED cwd
    /\ UNCHANGED <<disk, fd, lost, panic>>

Next == \E p \in Proc :
    \/ SysOpen(p) \/ SysClose(p) \/ SysLink(p) \/ SysSymlink(p)
    \/ SysUnlink(p) \/ SysMkdir(p) \/ SysChdir(p)
    \/ Walk(p) \/ LookOn(p) \/ IPut(p) \/ IDrop(p)
    \/ CreateFound(p) \/ Exists(p) \/ CreateNew(p)
    \/ Follow(p) \/ Opened(p)
    \/ LinkOld(p) \/ LinkNew(p) \/ LinkFound(p) \/ GiveUp(p) \/ LinkBad(p)
    \/ Forget(p) \/ WriteTarget(p)
    \/ Unlink(p) \/ RemoveNot(p) \/ RemoveEntry(p) \/ Removed(p)
    \/ Made(p) \/ Chdir(p)

Spec == Init /\ [][Next]_vars

-----------------------------------------------------------------------------
Running == panic = "none"
Settled == \A p \in Proc : todo[p] = << >>

\* Every variable has its type.
TypeOK ==
    /\ disk \in [Inum -> [type : {"none", "file", "dir", "sym"}, nlink : Nat,
                          ents : [Name -> 0..NINODES],
                          target : {<< >>} \cup UNION {Path[p] : p \in Proc}]]
    /\ icache \in [Entry -> [inum : 0..NINODES, ref : Nat, valid : BOOLEAN]]
    /\ lock \in [Entry -> Proc \cup {None}]
    /\ fd \in [Proc -> Entry \cup {None}] /\ cwd \in [Proc -> Entry]
    /\ lost \in [Entry -> Nat]
    /\ panic \in {"none", "iget: no inodes", "ialloc: no inodes", "no target",
                  "unlink: nlink < 1", "entries dropped"}

One(cond) == IF cond THEN 1 ELSE 0
Pointers(p, e) ==
    One(fd[p] = e) + One(cwd[p] = e)
    + One(reg[p].w = e) + One(reg[p].ip = e) + One(reg[p].dp = e)
    + Cardinality({k \in DOMAIN todo[p] : /\ todo[p][k][1] \in {"put", "drop"}
                                          /\ todo[p][k][2] = e})

\* The pointers that processes have to an entry, numbered.
Pointing(e) == UNION {{p} \X (1..Pointers(p, e)) : p \in Proc}

\* ref is the number of pointers to an entry, those lost by symlink included:
\* no path through a call puts a pointer twice, and none but symlink's forgets
\* one (fs.c:122-127).
RefsExact ==
    Running => \A e \in Entry : icache[e].ref = lost[e] + Cardinality(Pointing(e))

\* An inode has one entry in the cache, so that its lock is one lock; while a
\* pointer to it is about, what it points to is allocated, except for the
\* process that has freed it and is about to drop it.
CacheSound ==
    Running => \A i \in Inum :
        /\ Cardinality(Cached(i)) <= 1
        /\ \A e \in Cached(i) :
              disk[i].type = "none" =>
                  /\ icache[e].ref = 1 /\ ~icache[e].valid
                  /\ \E p \in Proc : Does(p, "drop") /\ Arg(p) = e

Entries(i) == Cardinality({x \in Inum \X Name : disk[x[1]].ents[x[2]] = i})
Subdirs(i) == Cardinality({n \in Name : /\ disk[i].ents[n] # 0
                                        /\ disk[disk[i].ents[n]].type = "dir"})

\* Between calls nlink is the number of entries that name an inode, plus, for a
\* directory, its subdirectories: the entry and the count are made and undone
\* apart, under different locks.
LinksExact ==
    Running /\ Settled => \A i \in Inum :
        disk[i].type # "none" =>
            disk[i].nlink = Entries(i) + One(i = root)
                            + (IF disk[i].type = "dir" THEN Subdirs(i) ELSE 0)

\* An entry never names a free inode: nobody frees one that a call still raises
\* the count of, or that another call has just linked again.
EntriesLive ==
    Running => \A d \in Inum, n \in Name :
        disk[d].ents[n] # 0 => disk[disk[d].ents[n]].type # "none"

\* unlink never meets an inode whose count is 0 already (sysfile.c:306).
NoUnlinkPanic == panic # "unlink: nlink < 1"

\* The inode cache: references are counted, and a cached inode is the one it
\* says it is.
CacheExact == TypeOK /\ RefsExact /\ CacheSound

\* Names and inodes: what has a name exists, and is freed with its last name.
NamesExact == LinksExact /\ EntriesLive /\ NoUnlinkPanic
=============================================================================
