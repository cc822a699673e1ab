----------------------------- MODULE BlockStore ------------------------------
(***************************************************************************)
(* What the buffer cache promises (bio.c): a block of the disk is held by  *)
(* one process at a time, which sees what the last one to hold it left.    *)
(***************************************************************************)
CONSTANTS Proc, Block, Value, None

VARIABLES
    content,     \* of a block
    holder,      \* the process that holds a block, or None
    view         \* what a process sees of the block it holds, or None

Init ==
    /\ content \in [Block -> UNION {Value[b] : b \in Block}]
    /\ holder = [b \in Block |-> None]
    /\ view = [p \in Proc |-> None]

\* bread: a process holds one block here.
Take(p, b) ==
    /\ holder[b] = None /\ \A c \in Block : holder[c] # p
    /\ view' = [view EXCEPT ![p] = content[b]]
    /\ holder' = [holder EXCEPT ![b] = p]
    /\ UNCHANGED content

\* The holder changes the block.
Change(p, b) ==
    /\ holder[b] = p
    /\ \E v \in Value[b] :
          /\ content' = [content EXCEPT ![b] = v]
          /\ view' = [view EXCEPT ![p] = v]
    /\ UNCHANGED holder

\* brelse
Release(p, b) ==
    /\ holder[b] = p
    /\ holder' = [holder EXCEPT ![b] = None]
    /\ view' = [view EXCEPT ![p] = None]
    /\ UNCHANGED content

Next == \E p \in Proc, b \in Block : Take(p, b) \/ Change(p, b) \/ Release(p, b)

Spec == Init /\ [][Next]_<<content, holder, view>>
=============================================================================
