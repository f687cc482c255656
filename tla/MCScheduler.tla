---------------------------- MODULE MCScheduler ----------------------------
(***************************************************************************)
(* The instances of Scheduler that TLC checks.  A clock tick is the unit   *)
(* of time; two tasks beside the idle task, with shares of one or two      *)
(* ticks, meet every case of schedule().                                   *)
(***************************************************************************)
EXTENDS Scheduler

\* Sleeps with priorities, with a deadly signal and with forks; alarms; the
\* keyboard; and masks, with every signal that one task can send itself.
MCUses == {{"sleep", "nice"}, {"sleep", "kill"}, {"sleep", "fork"}, {"alarm"},
           {"keyboard"}, {"alone", "mask", "kill", "alarm"}}

\* sys_nice() down and up.
MCIncrements == {1, -1}

MCSaMasks == {{SIGKILL}}

=============================================================================
