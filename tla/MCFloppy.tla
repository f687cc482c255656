------------------------------ MODULE MCFloppy ------------------------------
(***************************************************************************)
(* Instances of Floppy for TLC.                                            *)
(***************************************************************************)
EXTENDS Floppy

CONSTANTS t1, t2

Request(d, t, b) == [drive |-> d, track |-> t, bad |-> b]
\* Another track on the same drive, the same track on another drive.
GoodRequests == {Request(0, 1, FALSE), Request(1, 1, FALSE), Request(1, 0, FALSE)}
\* And a block behind the end of a diskette.
AllRequests == GoodRequests \cup {Request(0, 0, TRUE)}
=============================================================================
