------------------------------- MODULE DiskFs -------------------------------
(***************************************************************************)
(* The file system of project1 down to its blocks, one system call after   *)
(* the other, with crashes.  A call works on the buffers, which the log    *)
(* makes the disk when end_op commits (module Log: at once and as a        *)
(* whole); a crash, or a panic before the commit, leaves the disk as the   *)
(* last commit left it.  Only a write of several chunks is more than one   *)
(* transaction.                                                            *)
(*                                                                         *)
(* A block has BSIZE words; a word holds a directory entry, the number of  *)
(* a block, or a piece of a file.  An operator that changes something      *)
(* takes the memory m of the kernel and returns it changed:                *)
(*   m.d       the disk as the buffers have it                             *)
(*   m.ic      the inode cache: pointers, and the copy of the inode        *)
(*   m.file, m.fd, m.cwd   the open files, descriptors, current directory  *)
(*   m.panic   "none", or what stops the kernel                            *)
(***************************************************************************)
EXTENDS Naturals, FiniteSets, FiniteSetsExt, Sequences, SequencesExt

CONSTANTS
    Name,        \* names of files; every directory also has Dot and DotDot
    Dot, DotDot, NoName,
    Path,        \* paths: whether from the root, and the names
    Modes,       \* of open: subsets of {"create", "read", "write"}
    Sizes,       \* of reads and writes, in words
    NINODES,     \* inodes of the disk
    NINODE,      \* entries of the inode cache
    NBLOCK, BSIZE, NDIRECT,
    NFILE, NOFILE,
    MAXCHUNK,    \* words that filewrite writes in one transaction
    CALLMAX,     \* bound: calls
    CRASHMAX     \* bound: crashes

ASSUME DiskFsConstants ==
    /\ {NINODES, NINODE, NBLOCK, BSIZE, NDIRECT, NFILE, NOFILE, MAXCHUNK} \subseteq Nat \ {0}
    /\ CALLMAX \in Nat /\ CRASHMAX \in Nat
    /\ {Dot, DotDot} \cap Name = {} /\ NoName \notin Name \cup {Dot, DotDot}

VARIABLES
    stored,        \* what the last commit left on the disk
    mem,         \* the memory of the kernel
    writing,     \* a write under way: the file, and the words to go
    calls, crashes,
    orphans,     \* inodes that had no name left when the system went down
    stray        \* something was put into a directory that has been removed

treevars == <<stored, mem, writing, calls, crashes, orphans, stray>>

Inum == 1..NINODES
ROOTINO == 1
DataBlock == 1..NBLOCK
Word(n, v) == <<n, v>>
Zero == Word(NoName, 0)
Zeroes == [k \in 0..BSIZE - 1 |-> Zero]
NINDIRECT == BSIZE
MAXFILE == NDIRECT + NINDIRECT

FreeInode == [type |-> "none", nlink |-> 0, size |-> 0, addrs |-> [k \in 0..NDIRECT |-> 0]]
NoEntry == [ref |-> 0, valid |-> FALSE, ip |-> FreeInode]
NoFile == [ref |-> 0, ip |-> 0, off |-> 0, readable |-> FALSE, writable |-> FALSE]

\* What mkfs makes: the root directory in block 1.
Made ==
    [inode |-> [i \in Inum |->
        IF i = ROOTINO
        THEN [FreeInode EXCEPT !.type = "dir", !.nlink = 1, !.size = BSIZE, !.addrs[0] = 1]
        ELSE FreeInode],
     map |-> {1},
     data |-> [b \in 0..NBLOCK |->
        IF b = 1 THEN [Zeroes EXCEPT ![0] = Word(Dot, ROOTINO), ![1] = Word(DotDot, ROOTINO)]
        ELSE Zeroes]]

\* The kernel boots: the first process is in the root directory.
Booted(d) ==
    [d |-> d, ic |-> [i \in Inum |-> IF i = ROOTINO THEN [NoEntry EXCEPT !.ref = 1] ELSE NoEntry],
     file |-> [f \in 1..NFILE |-> NoFile], fd |-> [k \in 1..NOFILE |-> 0],
     cwd |-> ROOTINO, panic |-> "none"]

TreeInit ==
    /\ stored = Made /\ mem = Booted(Made)
    /\ writing = << >> /\ calls = 0 /\ crashes = 0
    /\ orphans = {} /\ stray = FALSE

Stop(m, why) == IF m.panic = "none" THEN [m EXCEPT !.panic = why] ELSE m
PanicIf(c, m, why) == IF c THEN Stop(m, why) ELSE m

-----------------------------------------------------------------------------
(* Blocks *)

\* The block balloc takes: the first that is free, 0 if there is none.
NewBlock(m) == LET free == DataBlock \ m.d.map IN IF free = {} THEN 0 ELSE Min(free)

balloc(m) ==
    PanicIf(NewBlock(m) = 0,
            [m EXCEPT !.d.map = (@ \cup {NewBlock(m)}) \ {0},
                      !.d.data = [@ EXCEPT ![NewBlock(m)] = Zeroes]],
            "balloc: out of blocks")

bfree(m, blocks) ==
    PanicIf(~(blocks \subseteq m.d.map), [m EXCEPT !.d.map = @ \ blocks], "freeing free block")

-----------------------------------------------------------------------------
(* Inodes *)

iupdate(m, i) == [m EXCEPT !.d.inode[i] = m.ic[i].ip]

iget(m, i) ==
    IF m.ic[i].ref > 0 THEN [m EXCEPT !.ic[i].ref = @ + 1]
    ELSE PanicIf(Cardinality({j \in Inum : m.ic[j].ref > 0}) = NINODE,
                 [m EXCEPT !.ic[i] = [NoEntry EXCEPT !.ref = 1]], "iget: no inodes")

ilock(m, i) ==
    IF m.ic[i].valid THEN m
    ELSE PanicIf(m.d.inode[i].type = "none",
                 [m EXCEPT !.ic[i].valid = TRUE, !.ic[i].ip = m.d.inode[i]], "ilock: no type")

\* The inode ialloc takes, and the memory once it is marked; 0 if there is none.
NewInode(m) ==
    LET free == {i \in Inum : m.d.inode[i].type = "none"} IN IF free = {} THEN 0 ELSE Min(free)
ialloc(m, type) ==
    IF NewInode(m) = 0 THEN Stop(m, "ialloc: no inodes")
    ELSE iget([m EXCEPT !.d.inode[NewInode(m)] = [FreeInode EXCEPT !.type = type]], NewInode(m))

\* The n-th block of an inode with the addresses addrs, 0 if there is none.
BlockOf(d, addrs, bn) ==
    IF bn < NDIRECT THEN addrs[bn] ELSE d.data[addrs[NDIRECT]][bn - NDIRECT][2]

\* bmap: the memory once the n-th block of inode i is there.
Direct(m, i, k) ==
    IF m.ic[i].ip.addrs[k] # 0 THEN m ELSE [balloc(m) EXCEPT !.ic[i].ip.addrs[k] = NewBlock(m)]
Indirect(m, i, k) ==
    LET table == m.ic[i].ip.addrs[NDIRECT]
    IN  IF m.d.data[table][k][2] # 0 THEN m
        ELSE [balloc(m) EXCEPT !.d.data[table][k] = Word(NoName, NewBlock(m))]
bmap(m, i, bn) ==
    IF bn < NDIRECT THEN Direct(m, i, bn)
    ELSE Indirect(Direct(m, i, NDIRECT), i, bn - NDIRECT)

\* All the blocks of an inode.
Blocks(d, ip) ==
    ({ip.addrs[k] : k \in 0..NDIRECT}
     \cup IF ip.addrs[NDIRECT] = 0 THEN {}
          ELSE {d.data[ip.addrs[NDIRECT]][k][2] : k \in 0..NINDIRECT - 1}) \ {0}

itrunc(m, i) ==
    iupdate([bfree(m, Blocks(m.d, m.ic[i].ip)) EXCEPT
                !.ic[i].ip = [@ EXCEPT !.size = 0, !.addrs = FreeInode.addrs]], i)

\* iput: an inode without names that nobody points to any more is freed.
Drop(m, i) == [m EXCEPT !.ic[i] = IF @.ref = 1 THEN NoEntry ELSE [@ EXCEPT !.ref = @ - 1]]
iput(m, i) ==
    IF m.ic[i].valid /\ m.ic[i].ip.nlink = 0 /\ m.ic[i].ref = 1
    THEN Drop(iupdate([itrunc(m, i) EXCEPT !.ic[i].ip.type = "none"], i), i)
    ELSE Drop(m, i)

\* The word at an offset of inode i, and the words written from an offset on.
WordAt(d, ip, off) == d.data[BlockOf(d, ip.addrs, off \div BSIZE)][off % BSIZE]
WriteWord(m, i, off, w) ==
    LET n == bmap(m, i, off \div BSIZE)
    IN  [n EXCEPT !.d.data[BlockOf(n.d, n.ic[i].ip.addrs, off \div BSIZE)][off % BSIZE] = w]

CanWrite(m, i, off, n) == off <= m.ic[i].ip.size /\ off + n <= MAXFILE * BSIZE

\* Mutant: the inode is not written back when it has grown.
GrownUnwritten(m, i, end) ==
    IF end > m.ic[i].ip.size THEN [m EXCEPT !.ic[i].ip.size = end] ELSE m

Grown(m, i, end) ==
    IF end > m.ic[i].ip.size THEN iupdate([m EXCEPT !.ic[i].ip.size = end], i) ELSE m

\* writei, when CanWrite.
writei(m, i, off, w, n) ==
    LET Write(x, k) == WriteWord(x, i, off + k - 1, w)
    IN  Grown(FoldLeft(Write, m, [k \in 1..n |-> k]), i, off + n)

-----------------------------------------------------------------------------
(* Directories and paths *)

\* The places of a directory that name something, and the first with the name.
Used(d, ip) == {off \in 0..ip.size - 1 : WordAt(d, ip, off)[2] # 0}
Places(m, i, name) ==
    {off \in Used(m.d, m.ic[i].ip) : WordAt(m.d, m.ic[i].ip, off)[1] = name}
dirlookup(m, i, name) ==
    IF Places(m, i, name) = {} THEN 0
    ELSE WordAt(m.d, m.ic[i].ip, Min(Places(m, i, name)))[2]

\* The first place that is free, or the end.
Slot(m, i) == Min((0..m.ic[i].ip.size) \ Used(m.d, m.ic[i].ip))

\* dirlink, when the name is not there.
dirlink(m, i, name, inum) ==
    IF CanWrite(m, i, Slot(m, i), 1) THEN writei(m, i, Slot(m, i), Word(name, inum), 1)
    ELSE Stop(m, "dirlink")

\* namex from inode i, which it has a pointer to: ip is 0 if there is no such
\* path, else an inode it keeps a pointer to.
Found(m, i, name) == [m |-> m, ip |-> i, name |-> name]
RECURSIVE Walk(_, _, _, _)
Walk(m, i, path, parent) ==
    LET n == ilock(m, i)
        next == dirlookup(n, i, Head(path))
    IN  IF path = << >> THEN IF parent THEN Found(iput(m, i), 0, NoName) ELSE Found(m, i, NoName)
        ELSE IF n.ic[i].ip.type # "dir" THEN Found(iput(n, i), 0, NoName)
        ELSE IF parent /\ Len(path) = 1 THEN Found(n, i, Head(path))
        ELSE IF next = 0 THEN Found(iput(n, i), 0, NoName)
        ELSE Walk(iput(iget(n, next), i), next, Tail(path), parent)

namex(m, path, parent) ==
    LET start == IF path.abs THEN ROOTINO ELSE m.cwd
    IN  Walk(iget(m, start), start, path.names, parent)
namei(m, path) == namex(m, path, FALSE)
nameiparent(m, path) == namex(m, path, TRUE)

-----------------------------------------------------------------------------
(* System calls *)

Type(m, i) == m.ic[i].ip.type
Result(m, i) == [m |-> m, ip |-> i]

\* create: what is there, if it is a file and a file is wanted, else a new inode.
Existing(m, dp, i, type) ==
    LET n == ilock(iput(iget(m, i), dp), i)
    IN  IF type = "file" /\ Type(n, i) = "file" THEN Result(n, i) ELSE Result(iput(n, i), 0)

Dots(m, dp, i) ==
    LET n == iupdate([m EXCEPT !.ic[dp].ip.nlink = @ + 1], dp)
    IN  dirlink(dirlink(n, i, Dot, i), i, DotDot, dp)

New(m, dp, name, type) ==
    LET i == NewInode(m)
        n == ilock(ialloc(m, type), i)
        o == iupdate([n EXCEPT !.ic[i].ip.nlink = 1], i)
    IN  IF i = 0 THEN Result(ialloc(m, type), 0)
        ELSE Result(iput(dirlink(IF type = "dir" THEN Dots(o, dp, i) ELSE o, dp, name, i), dp), i)

create(m, path, type) ==
    LET at == nameiparent(m, path)
        n  == ilock(at.m, at.ip)
        i  == dirlookup(n, at.ip, at.name)
    IN  IF at.ip = 0 THEN Result(at.m, 0)
        ELSE IF i # 0 THEN Existing(n, at.ip, i, type)
        ELSE New(n, at.ip, at.name, type)

\* sys_open: the inode, and the file and descriptor for it.
Opened(m, path, mode) ==
    IF "create" \in mode THEN create(m, path, "file")
    ELSE LET at == namei(m, path)
             n  == ilock(at.m, at.ip)
         IN  IF at.ip = 0 THEN Result(at.m, 0)
             ELSE IF Type(n, at.ip) = "dir" /\ mode # {"read"} THEN Result(iput(n, at.ip), 0)
             ELSE Result(n, at.ip)

FreeFiles(m) == {f \in 1..NFILE : m.file[f].ref = 0}
FreeFds(m) == {k \in 1..NOFILE : m.fd[k] = 0}

sys_open(m, path, mode) ==
    LET r == Opened(m, path, mode)
    IN  IF r.ip = 0 THEN r.m
        ELSE IF FreeFiles(m) = {} \/ FreeFds(m) = {} THEN iput(r.m, r.ip)
        ELSE [r.m EXCEPT !.fd[Min(FreeFds(m))] = Min(FreeFiles(m)),
                         !.file[Min(FreeFiles(m))] =
                             [ref |-> 1, ip |-> r.ip, off |-> 0, readable |-> "read" \in mode,
                              writable |-> "write" \in mode]]

sys_close(m, k) ==
    LET f == m.fd[k]
        n == [m EXCEPT !.fd[k] = 0]
    IN  IF m.file[f].ref > 1 THEN [n EXCEPT !.file[f].ref = @ - 1]
        ELSE iput([n EXCEPT !.file[f] = NoFile], m.file[f].ip)

sys_dup(m, k) ==
    IF FreeFds(m) = {} THEN m
    ELSE [m EXCEPT !.fd[Min(FreeFds(m))] = m.fd[k], !.file[m.fd[k]].ref = @ + 1]

\* sys_read moves the offset of the file up to the end of the inode.
sys_read(m, k, size) ==
    LET f == m.file[m.fd[k]]
        n == ilock(m, f.ip)
    IN  IF ~f.readable THEN m
        ELSE [n EXCEPT !.file[m.fd[k]].off = Max({@, Min({@ + size, n.ic[f.ip].ip.size})})]

\* sys_link counts the new name first, and takes it back if it cannot be made.
Renamed(m, i, by) == iupdate([m EXCEPT !.ic[i].ip.nlink = by], i)
sys_link(m, old, new) ==
    LET from  == namei(m, old)
        i     == from.ip
        n     == ilock(from.m, i)
        links == n.ic[i].ip.nlink
        to    == nameiparent(Renamed(n, i, links + 1), new)
        o     == ilock(to.m, to.ip)
        bad(x) == iput(Renamed(x, i, links), i)
    IN  IF i = 0 THEN from.m
        ELSE IF Type(n, i) = "dir" THEN iput(n, i)
        ELSE IF to.ip = 0 THEN bad(to.m)
        ELSE LET j == dirlookup(o, to.ip, to.name)
             IN  IF j # 0 THEN bad(iput(iput(iget(o, j), j), to.ip))
                 ELSE iput(iput(dirlink(o, to.ip, to.name, i), to.ip), i)

isdirempty(m, i) == Used(m.d, m.ic[i].ip) \subseteq {0, 1}

\* Mutant: a directory is removed with what is in it.
RemovableFull(m, i) == m.ic[i].ip.nlink > 0

\* sys_unlink
Removable(m, i) == Type(m, i) # "dir" \/ isdirempty(m, i)
Removed(m, dp, name, i) ==
    LET n == writei(m, dp, Min(Places(m, dp, name)), Zero, 1)
        o == IF Type(m, i) = "dir" THEN Renamed(n, dp, n.ic[dp].ip.nlink - 1) ELSE n
        q == iput(o, dp)
    IN  iput(Renamed(q, i, q.ic[i].ip.nlink - 1), i)
sys_unlink(m, path) ==
    LET at == nameiparent(m, path)
        n  == ilock(at.m, at.ip)
        i  == dirlookup(n, at.ip, at.name)
        o  == ilock(iget(n, i), i)
    IN  IF at.ip = 0 THEN at.m
        ELSE IF at.name \in {Dot, DotDot} \/ i = 0 THEN iput(n, at.ip)
        ELSE IF o.ic[i].ip.nlink < 1 THEN Stop(o, "unlink: nlink < 1")
        ELSE IF ~Removable(o, i) THEN iput(iput(o, i), at.ip)
        ELSE Removed(o, at.ip, at.name, i)

\* sys_mkdir, sys_mknod
sys_make(m, path, type) ==
    LET r == create(m, path, type) IN IF r.ip = 0 THEN r.m ELSE iput(r.m, r.ip)

sys_chdir(m, path) ==
    LET at == namei(m, path)
        n  == ilock(at.m, at.ip)
    IN  IF at.ip = 0 THEN at.m
        ELSE IF Type(n, at.ip) # "dir" THEN iput(n, at.ip)
        ELSE [iput(n, m.cwd) EXCEPT !.cwd = at.ip]

-----------------------------------------------------------------------------
(* The system *)

\* Something has been put into a directory that had been removed.
Stray(d, e) ==
    \E i \in Inum : /\ d.inode[i].type = "dir" /\ d.inode[i].nlink = 0
                    /\ e.inode[i].type = "dir" /\ Cardinality(Used(e, e.inode[i])) > 2

\* A transaction: a call that panics is not committed.
Transaction(m) ==
    /\ mem' = m
    /\ stored' = IF m.panic = "none" THEN m.d ELSE stored
    /\ stray' = (stray \/ Stray(stored, m.d))
    /\ UNCHANGED <<crashes, orphans>>

Idle == mem.panic = "none" /\ writing = << >> /\ calls < CALLMAX
Call(m) == Idle /\ calls' = calls + 1 /\ Transaction(m) /\ UNCHANGED writing
Fds == {k \in 1..NOFILE : mem.fd[k] # 0}
NoDevice(k) == mem.ic[mem.file[mem.fd[k]].ip].ip.type # "dev"

Open == \E path \in Path, mode \in Modes : Call(sys_open(mem, path, mode))
Close == \E k \in Fds : Call(sys_close(mem, k))
Dup == \E k \in Fds : Call(sys_dup(mem, k))
Read == \E k \in Fds, n \in Sizes : NoDevice(k) /\ Call(sys_read(mem, k, n))
Link == \E old, new \in Path : Call(sys_link(mem, old, new))
Unlink == \E path \in Path : Call(sys_unlink(mem, path))
Mkdir == \E path \in Path : Call(sys_make(mem, path, "dir"))
Mknod == \E path \in Path : Call(sys_make(mem, path, "dev"))
Chdir == \E path \in Path : Call(sys_chdir(mem, path))

\* sys_write, whose chunks are transactions of their own.
Write == \E k \in Fds, n \in Sizes :
    /\ Idle /\ NoDevice(k) /\ mem.file[mem.fd[k]].writable
    /\ writing' = <<mem.fd[k], n>> /\ calls' = calls + 1
    /\ UNCHANGED <<stored, mem, crashes, orphans, stray>>

Chunk ==
    /\ mem.panic = "none" /\ writing # << >>
    /\ LET f == writing[1]
           i == mem.file[f].ip
           n == Min({writing[2], MAXCHUNK})
           off == mem.file[f].off
           m == ilock(mem, i)
           can == CanWrite(m, i, off, n)
           o == [writei(m, i, off, Word(NoName, 1), n) EXCEPT !.file[f].off = off + n]
       IN  /\ Transaction(IF can THEN o ELSE m)
           /\ writing' = IF can /\ n < writing[2] THEN <<f, writing[2] - n>> ELSE << >>
    /\ UNCHANGED calls

\* The system goes down, and comes up again from the disk.
Crash ==
    /\ crashes < CRASHMAX /\ crashes' = crashes + 1
    /\ mem' = Booted(stored) /\ writing' = << >>
    /\ orphans' = orphans \cup {i \in Inum : stored.inode[i].type # "none" /\ stored.inode[i].nlink = 0}
    /\ UNCHANGED <<stored, calls, stray>>

TreeNext ==
    \/ Open \/ Close \/ Dup \/ Read \/ Link \/ Unlink \/ Mkdir \/ Mknod \/ Chdir
    \/ Write \/ Chunk \/ Crash

TreeSpec == TreeInit /\ [][TreeNext]_treevars

-----------------------------------------------------------------------------
(* Properties, of what a crash would leave: the disk *)

Allocated == {i \in Inum : stored.inode[i].type # "none"}
Dirs == {i \in Inum : stored.inode[i].type = "dir" /\ stored.inode[i].nlink > 0}
Entry(i, off) == WordAt(stored, stored.inode[i], off)
Entries(i) == {<<i, off>> : off \in Used(stored, stored.inode[i])}

\* Every variable has its type.
TreeTypeOK ==
    /\ \A i \in Inum : /\ stored.inode[i].type \in {"none", "file", "dir", "dev"}
                       /\ stored.inode[i].nlink \in Nat
                       /\ stored.inode[i].size \in 0..MAXFILE * BSIZE
                       /\ stored.inode[i].addrs \in [0..NDIRECT -> 0..NBLOCK]
    /\ stored.map \subseteq DataBlock
    /\ mem.cwd \in Inum /\ mem.fd \in [1..NOFILE -> 0..NFILE]
    /\ writing = << >> \/ writing \in (1..NFILE) \X Nat
    /\ orphans \subseteq Inum /\ stray \in BOOLEAN

\* The bitmap has the blocks of the inodes, each of which has one use and is
\* named by the inode once its size says so.
BlocksExact ==
    LET of(i) == Blocks(stored, stored.inode[i])
    IN  /\ stored.map = UNION {of(i) : i \in Inum}
        /\ Cardinality(stored.map) = FoldSet(LAMBDA i, n : n + Cardinality(of(i)), 0, Inum)
        /\ \A i \in Inum, off \in 0..MAXFILE * BSIZE - 1 :
              off < stored.inode[i].size => BlockOf(stored, stored.inode[i].addrs, off \div BSIZE) # 0
        /\ \A i \in Inum \ Allocated : stored.inode[i] = FreeInode

\* The count of an inode is the number of entries for it, the "." of a directory
\* aside; and one without names was in use when the system went down, or is.
LinksExact ==
    /\ \A i \in Allocated :
          stored.inode[i].nlink =
              Cardinality({e \in UNION {Entries(j) : j \in Dirs} :
                              Entry(e[1], e[2])[2] = i /\ Entry(e[1], e[2])[1] # Dot})
    /\ \A i \in Allocated \ orphans : stored.inode[i].nlink = 0 => mem.ic[i].ref > 0

\* "Must be called after every change to an ip->xxx field that lives on disk"
\* (fs.c:216): between calls the copies in the cache are the inodes.
CacheWritten ==
    mem.panic = "none" => \A i \in Inum : mem.ic[i].valid => mem.ic[i].ip = stored.inode[i]

\* At any moment a crash leaves a disk whose bitmap, inodes and link counts agree,
\* unless something was put into a removed directory before.
DiskSound == TreeTypeOK /\ CacheWritten /\ (~stray => BlocksExact /\ LinksExact)

\* The directories are a tree: each one but the root is named in one directory,
\* to which its ".." leads, every step up leads nearer to the root, and no
\* name is there twice or leads to a free inode.
Above(i) == Entry(i, 1)[2]
RECURSIVE Reaches(_, _)
Reaches(i, n) == i = ROOTINO \/ (n > 0 /\ Reaches(Above(i), n - 1))
TreeSound ==
    ~stray =>
    /\ \A i \in Dirs : /\ Entry(i, 0) = Word(Dot, i) /\ Entry(i, 1)[1] = DotDot
                       /\ Reaches(i, NINODES)
                       /\ \A e, f \in Entries(i) :
                             Entry(i, e[2])[1] = Entry(i, f[2])[1] => e = f
                       /\ \A e \in Entries(i) : Entry(i, e[2])[2] \in Allocated
    /\ \A i \in Dirs \ {ROOTINO} :
          LET named == {e \in UNION {Entries(j) : j \in Dirs} :
                           Entry(e[1], e[2])[2] = i /\ Entry(e[1], e[2])[1] \notin {Dot, DotDot}}
          IN  Cardinality(named) = 1 /\ \A e \in named : e[1] = Above(i)
=============================================================================
