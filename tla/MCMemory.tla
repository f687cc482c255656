----------------------------- MODULE MCMemory ------------------------------
(* Two or three tasks with a page of the executable and one that is not.    *)
EXTENDS Memory, TLC

CONSTANTS t1, t2, t3, code, stack

Symmetry == Permutations(Tasks)

\* Each page has a page table of its own.
TwoTables == [p \in Pages |-> IF p = code THEN 1 ELSE 2]

\* Bound: nothing is claimed of what comes after a count has wrapped.
NotWrapped == ~wrapped

\* What a frame holds decides nothing.
WithoutData == <<[mem EXCEPT !.data = 0], wrapped, fork, pc, page, at, area>>
=============================================================================
