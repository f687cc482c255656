----------------------------- MODULE WaitQueue -----------------------------
(***************************************************************************)
(* The sleep and wake-up primitives of kernel/sched.c.  A wait queue is    *)
(* one word: a pointer to the task that went to sleep last.  sleep_on()    *)
(* keeps the previous pointer in its local variable tmp, so the queue is   *)
(* a chain through the kernel stacks of the sleepers, and each task that   *)
(* wakes up must wake the next one.                                        *)
(*                                                                         *)
(* Kernel code is not preempted between two calls of schedule(), so an     *)
(* action runs one task from one such call to the next.  Only an interrupt *)
(* can come in between; sleep_on() is therefore cut in two at the point    *)
(* between "*p = current" and "current->state = ..." (lines 160 and 161),  *)
(* where an interrupt handler's wake_up() may come if the caller has not   *)
(* masked interrupts (cli).                                                *)
(***************************************************************************)
EXTENDS FiniteSets

CONSTANTS
    Sleepers,   \* the tasks that can sleep: every slot of task[] but task[0]
    UQueues,    \* the queues used with sleep_on()
    IQueues,    \* the queues used with interruptible_sleep_on()
    Masked,     \* the queues of UQueues whose callers sleep with cli
    None        \* the NULL pointer

ASSUME NoneAssumption == None \notin Sleepers /\ None \notin UQueues \cup IQueues
ASSUME QueueAssumption == UQueues \cap IQueues = {} /\ Masked \subseteq UQueues

VARIABLES
    wq,         \* the head pointer *p of each queue
    task_state, \* task_struct.state
    signalled,  \* task_struct.signal holds an unblocked signal
    pc,         \* where the task is: see Places
    on,         \* the argument p of the sleep function the task is in
    tmp         \* the local variable tmp of that call

wait_vars == <<wq, task_state, signalled, pc, on, tmp>>

Queues == UQueues \cup IQueues

States == {"RUNNING", "INTERRUPTIBLE", "UNINTERRUPTIBLE", "ZOMBIE"}

\* "run": in user mode or in kernel code outside the sleep functions;
\* "enter": in sleep_on() between lines 160 and 161; "sleep": in the
\* schedule() of a sleep function; "dead": in the schedule() of do_exit().
Places == {"run", "enter", "sleep", "dead"}

WaitInit ==
    /\ wq = [q \in Queues |-> None]
    /\ task_state = [t \in Sleepers |-> "RUNNING"]
    /\ signalled = [t \in Sleepers |-> FALSE]
    /\ pc = [t \in Sleepers |-> "run"]
    /\ on = [t \in Sleepers |-> None]
    /\ tmp = [t \in Sleepers |-> None]

-----------------------------------------------------------------------------
\* The processor belongs to a task until it calls schedule().
CpuFree == \A t \in Sleepers : pc[t] # "enter"

\* t may be the next task of schedule(): which runnable task it picks does
\* not matter here (module Scheduler has the choice).
CanRun(t) == CpuFree /\ task_state[t] = "RUNNING"

\* The first loop of schedule(): interruptible tasks with a signal wake up.
Swept(s) == [t \in Sleepers |-> IF s[t] = "INTERRUPTIBLE" /\ signalled[t]
                             THEN "RUNNING" ELSE s[t]]

\* sleep_on(), lines 159 and 160.
SleepOn(t, q) ==
    /\ CanRun(t) /\ pc[t] = "run"
    /\ q \in UQueues
    /\ tmp' = [tmp EXCEPT ![t] = wq[q]]
    /\ wq' = [wq EXCEPT ![q] = t]
    /\ on' = [on EXCEPT ![t] = q]
    /\ pc' = [pc EXCEPT ![t] = "enter"]
    /\ UNCHANGED <<task_state, signalled>>

\* sleep_on(), lines 161 and 162.
SleepState(t) ==
    /\ pc[t] = "enter"
    /\ pc' = [pc EXCEPT ![t] = "sleep"]
    /\ task_state' = Swept([task_state EXCEPT ![t] = "UNINTERRUPTIBLE"])
    /\ UNCHANGED <<wq, signalled, on, tmp>>

\* Mutant: the woken task forgets to wake the next one.
TmpNotWoken(t, s) == s

\* "if (tmp) tmp->state=0": whatever the task tmp is doing by now.
WithTmpWoken(t, s) ==
    IF tmp[t] = None THEN s ELSE [s EXCEPT ![tmp[t]] = "RUNNING"]

\* Mutant: the return from a sleep function leaves the task marked as a sleeper.
LeaveWithoutReset(t) ==
    /\ pc' = [pc EXCEPT ![t] = "run"]
    /\ tmp' = [tmp EXCEPT ![t] = None]
    /\ UNCHANGED on

Leave(t) ==
    /\ pc' = [pc EXCEPT ![t] = "run"]
    /\ on' = [on EXCEPT ![t] = None]
    /\ tmp' = [tmp EXCEPT ![t] = None]

\* sleep_on(), after schedule() returns.
Resume(t) ==
    /\ CanRun(t) /\ pc[t] = "sleep" /\ on[t] \in UQueues
    /\ task_state' = WithTmpWoken(t, task_state)
    /\ Leave(t)
    /\ UNCHANGED <<wq, signalled>>

\* interruptible_sleep_on(), up to schedule(); its callers have masked
\* interrupts or sleep on a queue that no interrupt handler wakes.
InterruptibleSleepOn(t, q) ==
    /\ CanRun(t) /\ pc[t] = "run"
    /\ q \in IQueues
    /\ tmp' = [tmp EXCEPT ![t] = wq[q]]
    /\ wq' = [wq EXCEPT ![q] = t]
    /\ on' = [on EXCEPT ![t] = q]
    /\ pc' = [pc EXCEPT ![t] = "sleep"]
    /\ task_state' = Swept([task_state EXCEPT ![t] = "INTERRUPTIBLE"])
    /\ UNCHANGED signalled

\* After schedule() returns: another task heads the queue, so wake that one
\* and sleep again.
PassOn(t) ==
    /\ CanRun(t) /\ pc[t] = "sleep" /\ on[t] \in IQueues
    /\ wq[on[t]] \notin {None, t}
    /\ task_state' = Swept([task_state EXCEPT ![wq[on[t]]] = "RUNNING",
                                    ![t] = "INTERRUPTIBLE"])
    /\ UNCHANGED <<wq, signalled, pc, on, tmp>>

\* After schedule() returns: this task heads the queue, or nobody does.
InterruptibleResume(t) ==
    /\ CanRun(t) /\ pc[t] = "sleep" /\ on[t] \in IQueues
    /\ wq[on[t]] \in {None, t}
    /\ wq' = [wq EXCEPT ![on[t]] = None]
    /\ task_state' = WithTmpWoken(t, task_state)
    /\ Leave(t)
    /\ UNCHANGED signalled

\* wake_up(), called by a task or by an interrupt handler; never between the
\* two halves of sleep_on() on a queue whose callers mask interrupts.
WakeUp(q) ==
    /\ \A t \in Sleepers : pc[t] = "enter" => on[t] \notin Masked
    /\ wq[q] # None
    /\ task_state' = [task_state EXCEPT ![wq[q]] = "RUNNING"]
    /\ wq' = [wq EXCEPT ![q] = None]
    /\ UNCHANGED <<signalled, pc, on, tmp>>

\* A signal arrives: kill(), an alarm or a terminal interrupt.
SendSignal(t) ==
    /\ pc[t] # "dead" /\ ~signalled[t]
    /\ signalled' = [signalled EXCEPT ![t] = TRUE]
    /\ UNCHANGED <<wq, task_state, pc, on, tmp>>

\* A time slice ends in user mode: do_timer() calls schedule().
Preempt ==
    /\ CpuFree
    /\ task_state # Swept(task_state)
    /\ task_state' = Swept(task_state)
    /\ UNCHANGED <<wq, signalled, pc, on, tmp>>

\* The return to user mode delivers the signal to a handler.
HandleSignal(t) ==
    /\ CanRun(t) /\ pc[t] = "run" /\ signalled[t]
    /\ signalled' = [signalled EXCEPT ![t] = FALSE]
    /\ UNCHANGED <<wq, task_state, pc, on, tmp>>

\* do_exit(), up to its last call of schedule().
BecomeZombie(t) ==
    /\ CanRun(t) /\ pc[t] = "run"
    /\ pc' = [pc EXCEPT ![t] = "dead"]
    /\ signalled' = [signalled EXCEPT ![t] = FALSE]
    /\ task_state' = Swept([task_state EXCEPT ![t] = "ZOMBIE"])
    /\ UNCHANGED <<wq, on, tmp>>

\* The schedule() of do_exit() returns, because someone made the zombie
\* runnable: do_exit() returns to its caller.
ReturnFromExit(t) ==
    /\ CanRun(t) /\ pc[t] = "dead"
    /\ pc' = [pc EXCEPT ![t] = "run"]
    /\ UNCHANGED <<wq, task_state, signalled, on, tmp>>

\* release() by the parent, then a fork() that gets the same page and slot.
Fork(t) ==
    /\ CpuFree
    /\ pc[t] = "dead" /\ task_state[t] = "ZOMBIE"
    /\ pc' = [pc EXCEPT ![t] = "run"]
    /\ task_state' = [task_state EXCEPT ![t] = "RUNNING"]
    /\ UNCHANGED <<wq, signalled, on, tmp>>

WaitNext ==
    \/ \E t \in Sleepers, q \in Queues : SleepOn(t, q) \/ InterruptibleSleepOn(t, q)
    \/ \E t \in Sleepers : SleepState(t) \/ Resume(t) \/ PassOn(t)
    \/ \E t \in Sleepers : InterruptibleResume(t)
    \/ \E t \in Sleepers : SendSignal(t) \/ HandleSignal(t) \/ BecomeZombie(t)
    \/ \E t \in Sleepers : ReturnFromExit(t) \/ Fork(t)
    \/ \E q \in Queues : WakeUp(q)
    \/ Preempt

WaitSpec == WaitInit /\ [][WaitNext]_wait_vars

\* The task that has the processor goes on; a runnable task is picked by
\* schedule() in the end, although others have the processor in between.
WaitFairness ==
    \A t \in Sleepers : WF_wait_vars(SleepState(t)) /\ SF_wait_vars(Resume(t))

FairWaitSpec == WaitSpec /\ WaitFairness

-----------------------------------------------------------------------------
\* Every variable has its type, and a task is on a queue just while it is in a
\* sleep function (sched.c, lines 151 to 186).
WaitTypeOK ==
    /\ wq \in [Queues -> Sleepers \cup {None}]
    /\ task_state \in [Sleepers -> States]
    /\ signalled \in [Sleepers -> BOOLEAN]
    /\ pc \in [Sleepers -> Places]
    /\ on \in [Sleepers -> Queues \cup {None}]
    /\ tmp \in [Sleepers -> Sleepers \cup {None}]
    /\ \A t \in Sleepers : pc[t] \in {"enter", "sleep"} <=> on[t] # None

\* The tasks a wake-up of q reaches without the help of a sleeper: the head of
\* the queue, and those sleepers on q that have been woken already.
Roots(q) == {t \in Sleepers : on[t] = q /\ (wq[q] = t \/ task_state[t] = "RUNNING")}
Woken(q) == {t \in Sleepers : on[t] = q /\ pc[t] = "sleep" /\ task_state[t] = "RUNNING"}

\* S holds, with a sleeper on q, the sleeper on q that it will wake.
ClosedOn(q, S) ==
    \A t \in S : on[t] = q /\ tmp[t] # None =>
                 (on[tmp[t]] = q => tmp[t] \in S)

\* The tasks reached from the set R along the chain of queue q: the least
\* closed set that contains R.
Reached(q, R) ==
    {t \in Sleepers : \A S \in SUBSET Sleepers : R \subseteq S /\ ClosedOn(q, S) => t \in S}

\* No sleeper of a queue whose callers mask interrupts is ever lost: a chain of
\* tmp variables leads to it from the head of its queue or from a task that has
\* been woken and will wake the next (sleep_on, lines 151 to 165).
NoLostSleeper ==
    \A q \in Masked : \A t \in Sleepers :
        on[t] = q /\ task_state[t] = "UNINTERRUPTIBLE" => t \in Reached(q, Roots(q))

\* The same of the queues that are slept on with interrupts enabled.
NoLostUnmaskedSleeper ==
    \A q \in UQueues \ Masked : \A t \in Sleepers :
        pc[t] = "sleep" /\ on[t] = q /\ task_state[t] = "UNINTERRUPTIBLE"
            => t \in Reached(q, Roots(q))

\* A task that has left through do_exit(), declared not to return, never
\* becomes runnable again (exit.c, line 262).
NoReturnFromExit == \A t \in Sleepers : pc[t] = "dead" => task_state[t] = "ZOMBIE"

\* One wake_up() is enough for everyone who sleeps on the queue: once the chain
\* of a sleeper starts at a woken task, the sleeper leaves sleep_on() in the end.
WakeUpReachesAll ==
    \A t \in Sleepers :
        (on[t] \in Masked /\ t \in Reached(on[t], Woken(on[t]))) ~> (pc[t] = "run")
=============================================================================
