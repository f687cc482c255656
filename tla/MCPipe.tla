------------------------------ MODULE MCPipe ------------------------------
(***************************************************************************)
(* Instances of Pipe for TLC.                                              *)
(***************************************************************************)
EXTENDS Pipe, TLC

CONSTANTS a, b, t1, t2, t3

\* One character more than the ring of 4 slots holds.
MCPayloads == {<<a, b, b, a>>}

\* Two tasks whose copies sleep.
MCFaultUses == {[slots |-> {t1, t2}, absent |-> {t1, t2}]}

\* And three whose copies do not.
MCUses == MCFaultUses \cup {[slots |-> {t1, t2, t3}, absent |-> {}]}

=============================================================================
