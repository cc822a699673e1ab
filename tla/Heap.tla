-------------------------------- MODULE Heap --------------------------------
(***************************************************************************)
(* malloc() and free() of the user library (umalloc.c): a ring of free     *)
(* blocks in the order of their addresses, searched from where the last    *)
(* search ended, and made larger by sbrk, which takes an int: what is half *)
(* of all addresses or more is negative to it, and it shrinks the memory   *)
(* or does nothing.  Addresses and sizes count headers.                    *)
(***************************************************************************)
EXTENDS Integers, FiniteSets, TLC

CONSTANTS
    HSIZE,       \* sizeof(Header)
    UINT,        \* an unsigned int is taken modulo this
    PAGEUNITS,   \* headers of a page
    MINCORE,     \* the least that morecore asks for (4096)
    START, TOP,  \* where the heap starts, and how far sbrk lets it grow
    Wanted        \* what the program asks for

base == 0        \* it is in the data segment, below the heap
Nil == -1

ASSUME HeapConstants ==
    /\ HSIZE \in Nat \ {0} /\ UINT \in Nat /\ UINT % HSIZE = 0
    /\ MINCORE \in Nat \ {0} /\ PAGEUNITS \in Nat \ {0}
    /\ START \in Nat /\ TOP \in Nat /\ base + 1 < START /\ START % PAGEUNITS = 0
    /\ 2 * TOP * HSIZE < UINT
    /\ Wanted \subseteq 0..(UINT - 1)

VARIABLES
    ring,      \* the headers, ptr and size, of base and the free blocks
    freep,     \* where a search starts; Nil before the first one
    brk,       \* where the program's memory ends
    held,      \* the program's blocks: address, size, and bytes asked for
    foreign,   \* what the program got from sbrk itself
    faulted    \* 0, or the request in which it has touched memory that it does
               \* not have, and is killed

heapvars == <<ring, freep, brk, held, foreign, faulted>>

Hdr(ptr, size) == [ptr |-> ptr, size |-> size]
Space(first, size) == first..(first + size - 1)
Without(r, p) == [q \in DOMAIN r \ {p} |-> r[q]]

\* The place i steps from p.
Walk(r, p) ==
    LET at[i \in 0..TOP] == IF i = 0 THEN p ELSE r[at[i - 1]].ptr IN at

\* The first steps from p that end where Found holds.
StepsTo(r, p, least, Found(_)) ==
    CHOOSE i \in least..TOP :
        /\ Found(Walk(r, p)[i])
        /\ \A j \in least..(i - 1) : ~Found(Walk(r, p)[j])

HeapInit ==
    /\ ring = (base :> Hdr(base, 0))
    /\ freep = Nil /\ brk = START
    /\ held = {} /\ foreign = {} /\ faulted = 0

-----------------------------------------------------------------------------
\* bp belongs behind p: between p and the next one, or at the end of the ring.
Follows(r, bp, p) ==
    \/ p < bp /\ bp < r[p].ptr
    \/ p >= r[p].ptr /\ (p < bp \/ bp < r[p].ptr)

\* Mutant: the block is not joined with the next one.
JoinNotNext(r, bp, size, next) == (bp :> Hdr(next, size)) @@ r

\* A block that ends where the next one starts takes it in.
JoinNext(r, bp, size, next) ==
    IF bp + size = next
    THEN (bp :> Hdr(r[next].ptr, size + r[next].size)) @@ Without(r, next)
    ELSE (bp :> Hdr(next, size)) @@ r

\* free(): the ring, and the place where the next search starts.
Freed(r, from, bp, size) ==
    LET Here(p) == Follows(r, bp, p)
        p == Walk(r, from)[StepsTo(r, from, 0, Here)]
        joined == JoinNext(r, bp, size, r[p].ptr)
    IN  [at |-> p,
         ring |-> IF p + r[p].size = bp
                  THEN [Without(joined, bp) EXCEPT
                          ![p] = Hdr(joined[bp].ptr, @.size + joined[bp].size)]
                  ELSE [joined EXCEPT ![p].ptr = bp]]

FreeBlock(block) ==
    /\ LET done == Freed(ring, freep, block.addr, block.size)
       IN  ring' = done.ring /\ freep' = done.at
    /\ held' = held \ {block}
    /\ UNCHANGED <<brk, foreign, faulted>>

\* The units for nbytes, in unsigned arithmetic.
Units(nbytes) == ((nbytes + HSIZE - 1) % UINT) \div HSIZE + 1

\* Mutant: the first units of a larger block are handed out.
CutLow(r, prevp, p, n) ==
    [addr |-> p, ring |-> [r EXCEPT ![p].size = @ - n]]

\* All of a block, or its end.
Cut(r, prevp, p, n) ==
    IF r[p].size = n
    THEN [addr |-> p, ring |-> Without([r EXCEPT ![prevp].ptr = r[p].ptr], p)]
    ELSE [addr |-> p + r[p].size - n, ring |-> [r EXCEPT ![p].size = @ - n]]

\* The first block behind from that has n units.
Give(r, from, n, nbytes) ==
    LET Big(p) == r[p].size >= n
        i == StepsTo(r, from, 1, Big)
        prevp == Walk(r, from)[i - 1]
        cut == Cut(r, prevp, Walk(r, from)[i], n)
    IN  /\ ring' = cut.ring /\ freep' = prevp
        /\ held' = held \cup
                       {[addr |-> cut.addr, size |-> n, bytes |-> nbytes]}

From == IF freep = Nil THEN base ELSE freep
Fits(n) == \E p \in DOMAIN ring : ring[p].size >= n
Core(n) == IF n < MINCORE THEN MINCORE ELSE n

\* What morecore asks of sbrk, an unsigned number of bytes that sbrk takes as an int.
Increment(n) ==
    LET units == Core(n) % (UINT \div HSIZE)
    IN  IF 2 * units * HSIZE < UINT THEN units ELSE units - UINT \div HSIZE

\* Where growproc moves the end of memory: nowhere if that is below address 0.
Grown(n) == IF brk + Increment(n) < 0 THEN brk ELSE brk + Increment(n)

\* The pages that are left when memory ends there.
HasPage(end, addr) == addr \div PAGEUNITS <= (end - 1) \div PAGEUNITS

\* malloc(), with a block that is there.
Malloc(nbytes) ==
    /\ Fits(Units(nbytes))
    /\ Give(ring, From, Units(nbytes), nbytes)
    /\ UNCHANGED <<brk, foreign, faulted>>

\* malloc(), with one that morecore frees first: its header goes to where memory
\* ended before, which there need not be.
MallocMore(nbytes) ==
    LET n == Units(nbytes)
        more == Freed(ring, From, brk, Core(n))
    IN  /\ ~Fits(n) /\ Grown(n) \in 1..TOP
        /\ brk' = Grown(n)
        /\ IF HasPage(brk', brk)
           THEN Give(more.ring, more.at, n, nbytes) /\ UNCHANGED faulted
           ELSE faulted' = nbytes /\ UNCHANGED <<ring, freep, held>>
        /\ UNCHANGED foreign

\* malloc() returns 0 when sbrk refuses; when that has freed all memory nothing is
\* left to go on with.
MallocNone(nbytes) ==
    /\ ~Fits(Units(nbytes)) /\ Grown(Units(nbytes)) \notin 1..TOP
    /\ freep' = From
    /\ faulted' = IF Grown(Units(nbytes)) = 0 THEN nbytes ELSE 0
    /\ UNCHANGED <<ring, brk, held, foreign>>

\* The program takes memory of its own between two blocks.
OwnSbrk ==
    /\ brk < TOP
    /\ brk' = brk + 1 /\ foreign' = foreign \cup {brk}
    /\ UNCHANGED <<ring, freep, held, faulted>>

\* A request for which sbrk is asked for half of all addresses or more.
Huge(nbytes) == 2 * (nbytes + 2 * HSIZE) > UINT

\* malloc() has handed out a block that the program has no memory for.
Overreached == \E b \in held : Huge(b.bytes) /\ b.addr + b.size > brk

\* What becomes of a program with such a block depends on what it writes there.
HeapNext ==
    /\ faulted = 0 /\ ~Overreached
    /\ \/ \E nbytes \in Wanted :
              Malloc(nbytes) \/ MallocMore(nbytes) \/ MallocNone(nbytes)
       \/ \E block \in held : FreeBlock(block)
       \/ OwnSbrk

HeapSpec == HeapInit /\ [][HeapNext]_heapvars

-----------------------------------------------------------------------------
\* The ring goes through all free blocks in the order of their addresses.
InOrder ==
    /\ freep \in DOMAIN ring \cup {Nil}
    /\ \A p \in DOMAIN ring :
           /\ ring[p].ptr \in DOMAIN ring
           /\ \A q \in DOMAIN ring : p < q => p < ring[p].ptr /\ ring[p].ptr <= q

\* Every unit of the heap is free, the program's, or foreign, and only one.
OwnedOnce ==
    \A unit \in START..(brk - 1) :
        Cardinality({p \in DOMAIN ring : unit \in Space(p, ring[p].size)})
        + Cardinality({b \in held : unit \in Space(b.addr, b.size)})
        + Cardinality(foreign \cap {unit}) = 1

\* Free blocks that touch are one block.
Coalesced == \A p \in DOMAIN ring \ {base} : p + ring[p].size \notin DOMAIN ring

\* A block has room for what was asked, unless that is so much that the units
\* for it wrap around.
BigEnough ==
    \A b \in held : b.bytes + HSIZE <= UINT => (b.size - 1) * HSIZE >= b.bytes

\* Blocks, held or free, lie in the program's memory, and it never touches any other;
\* but for a program that has asked for half of all addresses or more.
InMemory ==
    \/ Overreached \/ Huge(faulted)
    \/ /\ faulted = 0
       /\ \A b \in held : b.addr + b.size <= brk
       /\ \A p \in DOMAIN ring : p + ring[p].size <= brk

\* However a program mixes malloc, free and sbrk, no memory is lost, handed out
\* twice or left in pieces, and a block is as large as it should be and there.
HeapSound == InOrder /\ OwnedOnce /\ Coalesced /\ BigEnough /\ InMemory
=============================================================================
