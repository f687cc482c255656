------------------------------ MODULE MCBuffer ------------------------------
(***************************************************************************)
(* Three blocks compete for two buffers.                                   *)
(***************************************************************************)
EXTENDS Buffer, TLC

CONSTANTS t1, t2, t3, k1, k2, k3

Two(u) == {[t \in Tasks |-> IF t = idle THEN {} ELSE u] : idle \in Tasks}

\* Three tasks in bread(), so that more buffers are wanted than there are; two
\* in bread(), new_block() and sync; two that read ahead and write blocks.
MCUses == {[t \in Tasks |-> {"bread"}]}
          \cup Two({"bread", "new", "sync"}) \cup Two({"breada", "write"})

\* All the calls of Ops by every task.
MCAll == {[t \in Tasks |-> Ops]}

Symmetry == Permutations(Tasks) \cup Permutations(Blocks)
=============================================================================
