-------------------------- MODULE MCBlockRequests --------------------------
(***************************************************************************)
(* Two tasks, two buffers and the swap page on three slots.  The second    *)
(* buffer is the last block of the disk: its first sector is within the    *)
(* limit that do_hd_request() tests, a retry of its second one is not.     *)
(***************************************************************************)
EXTENDS BlockRequests

CONSTANTS t1, t2, b1, b2

MCSectorOf ==
    [x \in Objects |-> CASE x = b1 -> 2 [] x = Page -> 4 [] x = b2 -> 6]
=============================================================================
