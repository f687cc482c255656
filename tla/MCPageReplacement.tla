------------------------- MODULE MCPageReplacement -------------------------
(***************************************************************************)
(* Instances of PageReplacement for TLC.                                   *)
(***************************************************************************)
EXTENDS PageReplacement

\* Pages are told apart only by being equal: each sequence with its first pages
\* in order stands for all that come of it by renaming.
InOrder ==
    {s \in [0 .. PageCount - 1 -> Pages] :
       \A k \in 0 .. PageCount - 1 : s[k] = 1 \/ \E i \in 0 .. k - 1 : s[i] = s[k] - 1}

\* All different.
Different == {[k \in 0 .. PageCount - 1 |-> k + 1]}
=============================================================================
