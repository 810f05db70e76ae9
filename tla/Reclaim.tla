------------------------------ MODULE Reclaim ------------------------------
(***************************************************************************)
(* What the two-step removal of a device promises, whatever the threads,   *)
(* pipes and counters that carry it out: a node that an input thread may   *)
(* still be about to touch is never given back to the allocator.           *)
(*                                                                         *)
(* A reader takes a snapshot of the live nodes (one epoll_wait), works     *)
(* through it and drops it.  A node leaves the live set first (retired)    *)
(* and is freed only when no snapshot holds it.                            *)
(***************************************************************************)
EXTENDS TLAPS

CONSTANT Node

VARIABLES
    live,     \* nodes a new snapshot may contain
    retired,  \* nodes taken out of the live set, not yet freed
    freed,    \* nodes given back to the allocator
    held      \* the rest of the reader's snapshot

vars == <<live, retired, freed, held>>

Init ==
    /\ live = {}
    /\ retired = {}
    /\ freed = {}
    /\ held = {}

Add(n) ==
    /\ n \notin live \cup retired \cup freed
    /\ live' = live \cup {n}
    /\ UNCHANGED <<retired, freed, held>>

Retire(n) ==
    /\ n \in live
    /\ live' = live \ {n}
    /\ retired' = retired \cup {n}
    /\ UNCHANGED <<freed, held>>

\* The reader has nothing left of its last snapshot when it takes another.
Acquire ==
    /\ held = {}
    /\ held' \in SUBSET live
    /\ UNCHANGED <<live, retired, freed>>

Release ==
    /\ held' \in SUBSET held
    /\ UNCHANGED <<live, retired, freed>>

Free(n) ==
    /\ n \in retired
    /\ n \notin held
    /\ retired' = retired \ {n}
    /\ freed' = freed \cup {n}
    /\ UNCHANGED <<live, held>>

Next ==
    \/ \E n \in Node : Add(n) \/ Retire(n) \/ Free(n)
    \/ Acquire
    \/ Release

Spec == Init /\ [][Next]_vars

-----------------------------------------------------------------------------
\* The promise as a state predicate: nothing a reader holds has been freed.
HeldNotFreed == held \cap freed = {}

\* Inductive: a node is freed from the retired ones, and a snapshot is taken
\* from the live ones, which are neither retired nor freed.
Inv ==
    /\ HeldNotFreed
    /\ live \cap (retired \cup freed) = {}

\* The promise follows from the rules alone.
THEOREM Safe == Spec => []HeldNotFreed
<1>1. Init => Inv BY DEF Init, Inv, HeldNotFreed
<1>2. Inv /\ [Next]_vars => Inv'
  <2> SUFFICES ASSUME Inv, [Next]_vars PROVE Inv'
    OBVIOUS
  <2> USE DEF Inv, HeldNotFreed
  <2>1. ASSUME NEW n \in Node, Add(n) PROVE Inv' BY <2>1 DEF Add
  <2>2. ASSUME NEW n \in Node, Retire(n) PROVE Inv' BY <2>2 DEF Retire
  <2>3. ASSUME NEW n \in Node, Free(n) PROVE Inv' BY <2>3 DEF Free
  <2>4. CASE Acquire BY <2>4 DEF Acquire
  <2>5. CASE Release BY <2>5 DEF Release
  <2>6. CASE UNCHANGED vars BY <2>6 DEF vars
  <2>7. QED BY <2>1, <2>2, <2>3, <2>4, <2>5, <2>6 DEF Next
<1>3. Inv => HeldNotFreed BY DEF Inv
<1>4. QED BY <1>1, <1>2, <1>3, PTL DEF Spec
=============================================================================
