------------------------------- MODULE MCMlfq -------------------------------
EXTENDS MlfqProps, TLC
CONSTANTS init, p1, p2
MCPerm == Permutations({p1, p2})
=============================================================================
