---------------------------- MODULE MCWaitQueue ----------------------------
(***************************************************************************)
(* Three sleepers and a queue of each kind: slept on with interrupts       *)
(* masked (qm), with interrupts enabled (qu), and interruptible (qi).      *)
(***************************************************************************)
EXTENDS WaitQueue

CONSTANTS t1, t2, t3, qm, qu, qi
=============================================================================
