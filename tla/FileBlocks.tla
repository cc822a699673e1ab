------------------------------ MODULE FileBlocks ------------------------------
(***************************************************************************)
(* The blocks of files in project3: the image mkfs builds, and the kernel  *)
(* that reads, extends and truncates files in it through direct, double    *)
(* and triple indirect blocks.  A block is BWORDS words; a word holds a    *)
(* block number or a piece of a file, and as many block numbers fit in a   *)
(* block as words (NINDIRECT of the code).  Inode f is kept as one more    *)
(* node, numbered -f, whose words are its addrs.                           *)
(***************************************************************************)
EXTENDS Integers, FiniteSets, FiniteSetsExt, Sequences, SequencesExt

CONSTANTS
    DIRECTS, BWORDS,
    FILEBLOCKS,  \* data blocks of the disk
    BPB,         \* blocks that one block of the bitmap describes
    MAXOPBLOCKS,
    Roots,       \* words of the root directory when mkfs ends
    Starts,      \* words of the file that mkfs copies to the image
    Reads, Writes,   \* words a read and a write ask for
    FILECALLS    \* bound: calls of a run

ASSUME FileBlocksConstants ==
    /\ \A n \in {DIRECTS, BWORDS, FILEBLOCKS, BPB} : n \in Nat \ {0}
    /\ FILECALLS \in Nat /\ MAXOPBLOCKS \in Nat /\ MAXOPBLOCKS > 5
    /\ Roots \subseteq Nat /\ Starts \subseteq Nat /\ Reads \subseteq Nat /\ Writes \subseteq Nat \ {0}

VARIABLES
    fs,          \* blocks in use, their words, sizes of files; next is mkfs's
    off, left,   \* offset of an open file, what is left of a write to it
    wrote,       \* blocks logged by the last transaction
    filecalls,   \* calls so far
    filepanic

filevars == <<fs, off, left, wrote, filecalls, filepanic>>

root == 1
File == {root, 2, 3}
WordNo == 0..BWORDS - 1
MAXBLOCKS == DIRECTS + BWORDS^2 + BWORDS^3
FileBlock == 1..FILEBLOCKS
\* The word at offset o of file f; no block has such a number.
Piece(f, o) == FILEBLOCKS + f + 4 * o
Cleared == [i \in WordNo |-> 0]

\* Mutant: the place in the second block is not taken modulo the first.
RouteUnreduced(bn) ==
    IF bn < DIRECTS THEN <<bn>>
    ELSE IF bn < DIRECTS + BWORDS^2
    THEN LET n == bn - DIRECTS IN <<DIRECTS, n % BWORDS, n % BWORDS>>
    ELSE LET n == bn - (DIRECTS + BWORDS^2)
         IN  <<DIRECTS + 1, n \div BWORDS^2, (n % BWORDS^2) \div BWORDS, n % BWORDS>>

\* Where block bn of a file is found: the words to go through from its inode.
Route(bn) ==
    IF bn < DIRECTS THEN <<bn>>
    ELSE IF bn < DIRECTS + BWORDS^2
    THEN LET n == bn - DIRECTS IN <<DIRECTS, n \div BWORDS, n % BWORDS>>
    ELSE LET n == bn - (DIRECTS + BWORDS^2)
         IN  <<DIRECTS + 1, n \div BWORDS^2, (n % BWORDS^2) \div BWORDS, n % BWORDS>>

-----------------------------------------------------------------------------
(* mkfs: blocks are numbered in the order in which they are taken.         *)

Unmade ==
    [used |-> {}, size |-> [f \in File |-> 0], next |-> 1, at |-> 0, full |-> 0,
     blk  |-> [n \in FileBlock \cup {-f : f \in File} |->
                 IF n > 0 THEN Cleared ELSE [i \in 0..DIRECTS + 1 |-> 0]]]

FilesInit ==
    /\ fs = Unmade
    /\ off = [f \in File |-> 0] /\ left = off
    /\ wrote = {} /\ filecalls = 0
    /\ filepanic = "none"

Making == fs.next > 0

Take(d, i) ==
    IF d.blk[d.at][i] # 0 THEN [d EXCEPT !.at = d.blk[d.at][i]]
    ELSE [d EXCEPT !.blk[d.at][i] = d.next, !.at = d.next, !.next = @ + 1]

\* iappend of n words to file f, which end in the block where they begin.
IAppend(f, n) ==
    LET o == fs.size[f]
        e == FoldLeft(Take, [fs EXCEPT !.at = -f], Route(o \div BWORDS))
    IN  /\ fs' = [e EXCEPT !.size[f] = o + n, !.at = 0,
                   !.blk[e.at] = [i \in WordNo |->
                       LET k == o - (o % BWORDS) + i
                       IN  IF k \in o..o + n - 1 THEN Piece(f, k) ELSE @[i]]]
        /\ UNCHANGED <<off, left, wrote, filecalls, filepanic>>

MkfsEntry == Making /\ fs.size[root] < Max(Roots) /\ fs.size[2] = 0 /\ IAppend(root, 1)

\* The content of a file comes in blocks; only the last may be short.
MkfsCopy ==
    /\ Making /\ fs.size[root] \in Roots
    /\ fs.size[2] % BWORDS = 0 /\ fs.size[2] < Max(Starts)
    /\ \E n \in 1..BWORDS : IAppend(2, n)

\* mkfs's balloc.
InUse(next) == 1..next - 1

\* The size of the root directory becomes that of its blocks, and one more if
\* they are full, and the bitmap is written.
MkfsEnd ==
    /\ Making /\ fs.size[root] \in Roots /\ fs.size[2] \in Starts
    /\ fs' = [fs EXCEPT !.used = InUse(fs.next), !.full = fs.size[root], !.next = 0,
                        !.size[root] = (@ \div BWORDS + 1) * BWORDS]
    /\ UNCHANGED <<off, left, wrote, filecalls, filepanic>>

-----------------------------------------------------------------------------
(* Blocks of a transaction: t has the disk and what has been logged.       *)

\* A block of the bitmap, as a number no other block has.
Bitmap(b) == FILEBLOCKS + 1 + b \div BPB

\* balloc: the first free block, zeroed.
Free(t) == FileBlock \ t.fs.used

Alloc(t, b) ==
    [t EXCEPT !.fs.used = @ \cup {b}, !.fs.blk[b] = Cleared,
              !.log = @ \cup {b, Bitmap(b)}]

\* One round of bmap: the block that word i of a node names, taken if there is
\* none. A node of the inode is logged by iupdate, later.
Descend(t, i) ==
    IF t.err # "none" THEN t
    ELSE IF t.fs.blk[t.at][i] # 0 THEN [t EXCEPT !.at = t.fs.blk[t.at][i]]
    ELSE IF Free(t) = {} THEN [t EXCEPT !.err = "balloc: out of blocks"]
    ELSE LET b == Min(Free(t))
         IN  [Alloc(t, b) EXCEPT !.fs.blk[t.at][i] = b, !.at = b,
                !.log = IF t.at < 0 THEN @ ELSE @ \cup {t.at}]

bmap3(t, f, bn) ==
    IF bn >= MAXBLOCKS THEN [t EXCEPT !.err = "bmap: out of range"]
    ELSE FoldLeft(Descend, [t EXCEPT !.at = -f], Route(bn))

\* A word of writei.
Put1(f, t, o) ==
    LET u == bmap3(t, f, o \div BWORDS)
    IN  IF u.err # "none" THEN u
        ELSE [u EXCEPT !.fs.blk[u.at][o % BWORDS] = Piece(f, o),
                       !.log = @ \cup {u.at}]

Fits(f, n) == off[f] <= fs.size[f] /\ off[f] + n <= MAXBLOCKS * BWORDS

Begun == [fs |-> fs, log |-> {}, at |-> 0, err |-> "none"]

\* writei: the words, then the inode if the file has grown.
WriteI(f, n) ==
    LET t == FoldLeft(LAMBDA x, o : Put1(f, x, o),
                      Begun,
                      [k \in 1..n |-> off[f] + k - 1])
    IN  IF off[f] + n > fs.size[f]
        THEN [t EXCEPT !.fs.size[f] = off[f] + n, !.log = @ \cup {-f}]
        ELSE t

\* Mutant: no room is left for a write that is not aligned.
maxSlopless == ((MAXOPBLOCKS - 1 - 1) \div 2) * BWORDS

\* filewrite's share of a transaction.
max == ((MAXOPBLOCKS - 1 - 1 - 2) \div 2) * BWORDS

-----------------------------------------------------------------------------
Running == filepanic = "none" /\ ~Making
FileCall == Running /\ filecalls < FILECALLS /\ filecalls' = filecalls + 1

\* write(fd, addr, n)
FileWrite(f) ==
    /\ FileCall /\ f # root /\ left[f] = 0
    /\ \E n \in Writes : left' = [left EXCEPT ![f] = n]
    /\ UNCHANGED <<fs, off, wrote, filepanic>>

\* One round of filewrite. A share that does not fit ends the call.
WriteShare(f) ==
    /\ Running /\ left[f] > 0
    /\ LET n == Min({left[f], max})
           t == WriteI(f, n)
       IN  IF ~Fits(f, n)
           THEN /\ left' = [left EXCEPT ![f] = 0]
                /\ wrote' = {}
                /\ UNCHANGED <<fs, off, filepanic>>
           ELSE IF t.err # "none"
           THEN /\ filepanic' = t.err
                /\ UNCHANGED <<fs, off, left, wrote>>
           ELSE /\ fs' = t.fs
                /\ wrote' = t.log
                /\ off' = [off EXCEPT ![f] = @ + n]
                /\ left' = [left EXCEPT ![f] = @ - n]
                /\ UNCHANGED filepanic
    /\ UNCHANGED filecalls

\* fileread: no transaction is open, so no block may be missing.
FileRead(f) ==
    /\ FileCall /\ left[f] = 0
    /\ \E n \in Reads :
          LET end == Min({off[f] + n, fs.size[f]})
              first == off[f] \div BWORDS
              n1 == IF end > off[f] THEN (end - 1) \div BWORDS + 1 - first ELSE 0
              t == FoldLeft(LAMBDA x, bn : bmap3(x, f, bn), Begun,
                            [k \in 1..n1 |-> first + k - 1])
          IN  IF t.log # {}
              THEN filepanic' = "log_write outside of trans" /\ UNCHANGED off
              ELSE off' = [off EXCEPT ![f] = end] /\ UNCHANGED filepanic
    /\ UNCHANGED <<fs, left, wrote>>

\* The file is opened again.
Reopen(f) ==
    /\ FileCall /\ left[f] = 0 /\ off[f] # 0
    /\ off' = [off EXCEPT ![f] = 0]
    /\ UNCHANGED <<fs, left, wrote, filepanic>>

\* What the words of a node name.
Named(nodes) == UNION {{fs.blk[n][i] : i \in DOMAIN fs.blk[n]} : n \in nodes} \ {0}
Single(f) == {fs.blk[-f][i] : i \in 0..DIRECTS - 1} \ {0}
Triple(f) ==
    LET t == {fs.blk[-f][DIRECTS + 1]} \ {0}
    IN  t \cup Named(t) \cup Named(Named(t)) \cup Named(Named(Named(t)))

\* Mutant: the lowest blocks of the double tree are missed.
DoubleUpper(f) ==
    LET d == {fs.blk[-f][DIRECTS]} \ {0} IN d \cup Named(d)

Double(f) ==
    LET d == {fs.blk[-f][DIRECTS]} \ {0}
    IN  d \cup Named(d) \cup Named(Named(d))

\* itrunc, when the last link and pointer of the inode have gone: its blocks
\* are free and keep their words.
ITrunc(f) ==
    /\ FileCall /\ f # root /\ left[f] = 0 /\ off[f] = 0 /\ fs.size[f] > 0
    /\ LET gone == Single(f) \cup Double(f) \cup Triple(f)
       IN  IF ~(gone \subseteq fs.used)
           THEN filepanic' = "freeing free block" /\ UNCHANGED <<fs, wrote>>
           ELSE /\ fs' = [fs EXCEPT !.used = @ \ gone, !.size[f] = 0,
                            !.blk[-f] = [i \in 0..DIRECTS + 1 |-> 0]]
                /\ wrote' = {Bitmap(b) : b \in gone} \cup {-f}
                /\ UNCHANGED filepanic
    /\ UNCHANGED <<off, left>>

FilesNext ==
    \/ MkfsEntry \/ MkfsCopy \/ MkfsEnd
    \/ \E f \in File : \/ FileWrite(f) \/ WriteShare(f) \/ FileRead(f)
                       \/ Reopen(f) \/ ITrunc(f)

FilesSpec == FilesInit /\ [][FilesNext]_filevars

-----------------------------------------------------------------------------
\* Every variable has its type.
FilesTypeOK ==
    /\ fs.used \subseteq FileBlock
    /\ \A f \in File : fs.size[f] \in 0..MAXBLOCKS * BWORDS /\ off[f] \in 0..fs.size[f]
    /\ left \in [File -> Nat]
    /\ filepanic \in {"none", "balloc: out of blocks", "freeing free block",
                  "bmap: out of range", "log_write outside of trans"}

Tree(f) == Single(f) \cup Double(f) \cup Triple(f)
References ==
    Cardinality({<<n, i>> \in (fs.used \cup {-f : f \in File}) \X (WordNo \cup 0..DIRECTS + 1) :
                    i \in DOMAIN fs.blk[n] /\ fs.blk[n][i] \in FileBlock})

\* A block is in use exactly if one file has it, in one place: the image, the
\* allocation through three levels and itrunc's loops agree (fs.c:454-458).
UsedOnce ==
    ~Making => /\ fs.used = UNION {Tree(f) : f \in File}
               /\ References = Cardinality(fs.used)

\* The word that readi finds at offset o of file f.
PieceAt(f, o) ==
    LET at == FoldLeft(LAMBDA n, i : IF n = 0 THEN 0 ELSE fs.blk[n][i], -f,
                       Route(o \div BWORDS))
    IN  IF at = 0 THEN 0 ELSE fs.blk[at][o % BWORDS]

Written(f) == IF f = root /\ ~Making THEN fs.full ELSE fs.size[f]

\* What was written is read back at the same offset, whichever of mkfs and the
\* kernel wrote it and whatever was freed and taken again since, and what lies
\* behind the entries of the root directory is zero.
ReadBack ==
    \A f \in File : \A o \in 0..fs.size[f] - 1 :
        PieceAt(f, o) = IF o < Written(f) THEN Piece(f, o) ELSE 0

\* Besides blocks of the bitmap a chunk of filewrite logs MAXOPBLOCKS - 1 at most:
\* four blocks of data, four maps and the inode.  So it fits what begin_op reserves
\* if what it takes lies in one block of the bitmap.  If not it logs eleven or more,
\* although its size is to "avoid exceeding the maximum log transaction size"
\* (file.c:127): this bound is the code's, not the reservation.
WriteBounded ==
    LET maps == {w \in wrote : w > FILEBLOCKS}
    IN  Cardinality(wrote \ maps) <= MAXOPBLOCKS - 1

\* Reading a file allocates no block, unless it is the root directory of an
\* image whose entries filled their blocks; no block is freed twice; no block is
\* asked for beyond the largest file.
NoPanic ==
    \/ filepanic \in {"none", "balloc: out of blocks"}
    \/ filepanic = "log_write outside of trans" /\ fs.full % BWORDS = 0

\* Every block has one use, no path through the maps meets another, and a chunk
\* logs no more than nine blocks and those of the bitmap.
BlocksSound == FilesTypeOK /\ UsedOnce /\ NoPanic /\ WriteBounded
=============================================================================
