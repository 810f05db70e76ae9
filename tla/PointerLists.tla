---------------------------- MODULE PointerLists ----------------------------
(***************************************************************************)
(* Lists of nodes that are linked by pointers, as the loops of the code    *)
(* walk through them.  Nodes are numbers, and 0 is the null pointer.       *)
(***************************************************************************)
EXTENDS Naturals, Sequences, FiniteSets

\* The list that starts at n, as a sequence, if there are max nodes at most.  A
\* node occurs once in a proper list, so a longer walk means that the pointers
\* form a loop.  After its end the walk stays null.
Linked(next, n, max) ==
    LET step[k \in 0 .. max + 1] ==
          IF k = 0 THEN n
          ELSE LET p == step[k - 1] IN IF p = 0 THEN 0 ELSE next[p]
    IN [k \in 1 .. Cardinality({i \in 0 .. max : step[i] # 0}) |-> step[k - 1]]
=============================================================================
