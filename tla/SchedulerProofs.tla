-------------------------- MODULE SchedulerProofs --------------------------
(* kernel/sched.c: bounded shares, runnable runners and unlost signals, for *)
(* any number of tasks, any priorities and any signals; the wait queues; and *)
(* the floppy driver, that waits with the timers of the clock.              *)
EXTENDS Scheduler, WaitQueue, Floppy, TLAPS

\* bsfl: a set of signals that is not empty has a lowest member.
LEMMA LowestIsIn ==
    ASSUME NEW S \in SUBSET Signals, S # {}
    PROVE  Lowest(S) \in S
<1>1. \E s \in S : \A r \in S : s <= r
  <2>1. CASE SIGINT \in S
    BY <2>1 DEF Signals, SIGINT, SIGKILL, SIGALRM
  <2>2. CASE SIGINT \notin S /\ SIGKILL \in S
    BY <2>2 DEF Signals, SIGINT, SIGKILL, SIGALRM
  <2>3. CASE SIGINT \notin S /\ SIGKILL \notin S
    <3>1. S = {SIGALRM}
      BY <2>3 DEF Signals
    <3> QED
      BY <3>1 DEF SIGINT, SIGKILL, SIGALRM
  <2> QED
    BY <2>1, <2>2, <2>3
<1> QED
  BY <1>1 DEF Lowest

-----------------------------------------------------------------------------
(* Who runs, and whose copy of the signals ret_from_sys_call works on.      *)

\* What schedule() has chosen stays runnable until it is switched to.
ChosenRuns == at = "switch" /\ next # 0 => state[next] = "RUNNING"

\* Only the running task is between the read of its signals and the write;
\* a task that died there is not run again.
DeliversOnce ==
    /\ ctx[0] # "deliver"
    /\ \A p \in Tasks : ctx[p] = "deliver" =>
          (p = current /\ at = "run") \/ state[p] \in {"ZOMBIE", "EMPTY"}

\* The copy in ebx has a signal to deliver, and without signals from interrupts
\* it is the mask itself.
CopyIsMask ==
    at = "run" /\ ctx[current] = "deliver" =>
        /\ ebx \ blocked[current] # {}
        /\ "keyboard" \notin use => ebx = signal[current]

RunInv == TypeOK /\ RunnerRuns /\ ChosenRuns /\ DeliversOnce /\ CopyIsMask

\* TakeSignal() leaves sets of signals in both masks.
LEMMA TakeSignalTypes ==
    ASSUME TypeOK, NEW seen \in SUBSET Signals, seen \ blocked[current] # {},
           TakeSignal(seen)
    PROVE  /\ signal' \in [Slots -> SUBSET Signals]
           /\ blocked' \in [Slots -> SUBSET Signals]
<1>1. PICK s \in Signals : s = Lowest(seen \ blocked[current])
  BY LowestIsIn
<1>2. \A m \in HandlerMasks(s) : m \subseteq Signals
  <2>1. \A m \in SaMasks : m \cup {s} \subseteq Signals
    BY InputAssumption
  <2> QED
    BY <2>1 DEF HandlerMasks
<1>3. signal' \in [Slots -> SUBSET Signals]
  BY DEF TakeSignal, TypeOK
<1>4. blocked' \in [Slots -> SUBSET Signals]
  <2>1. CASE UNCHANGED blocked
    BY <2>1 DEF TypeOK
  <2>2. CASE \E m \in HandlerMasks(s) : blocked' = [blocked EXCEPT ![current] = @ \cup m]
    <3>1. PICK m \in SUBSET Signals : blocked' = [blocked EXCEPT ![current] = @ \cup m]
      BY <1>2, <2>2
    <3> QED
      BY <3>1 DEF TypeOK
  <2> QED
    BY <1>1, <2>1, <2>2 DEF TakeSignal
<1> QED
  BY <1>3, <1>4

\* The initial states have the types.
LEMMA TypeInit == Init => TypeOK
BY NTasksAssumption, PriorityAssumption, InputAssumption DEF Init, TypeOK, Slots, Contexts, Signals

\* Every step keeps the types, given the rest of the invariant.
LEMMA TypeStep == RunInv /\ [Next]_vars => TypeOK'
<1> SUFFICES ASSUME RunInv, [Next]_vars PROVE TypeOK'
  OBVIOUS
<1> USE NTasksAssumption, PriorityAssumption, InputAssumption DEF RunInv, TypeOK, In, Goto, Contexts, tasks
<1>0. Tasks \subseteq Slots /\ 0 \in Slots
  BY DEF Tasks, Slots
<1>1. CASE SystemCall
  BY <1>1 DEF SystemCall
<1>2. CASE Sweep
  BY <1>2 DEF Sweep, Signals, SIGALRM
<1>3. CASE Scan
  BY <1>0, <1>3 DEF Scan
<1>4. CASE Recharge
  <2>1. \A c \in Nat, r \in 1 .. MaxPriority : c \div 2 + r \in Nat
    OBVIOUS
  <2> QED
    BY <1>4, <2>1 DEF Recharge, Recharged
<1>5. CASE SwitchTo
  BY <1>0, <1>5 DEF SwitchTo
<1>6. CASE sys_pause
  BY <1>6 DEF sys_pause, Schedule
<1>7. CASE sleep_on
  BY <1>7 DEF sleep_on, Schedule
<1>8. CASE do_exit
  BY <1>8 DEF do_exit, Exit, Schedule
<1>9. CASE OtherCall
  BY <1>9 DEF OtherCall
<1>10. CASE \E n \in Spans : sys_alarm(n)
  BY <1>10 DEF sys_alarm
<1>11. CASE \E i \in Increments : sys_nice(i)
  BY <1>11 DEF sys_nice
<1>12. CASE \E mask \in {{}, {SIGALRM, SIGKILL}} : sys_ssetmask(mask)
  BY <1>12 DEF sys_ssetmask, Signals
<1>13. CASE \E p \in Tasks, s \in Kills : sys_kill(p, s)
  <2>1. PICK p \in Slots, s \in Signals : sys_kill(p, s)
    BY <1>0, <1>13
  <2>2. signal' \in [Slots -> SUBSET Signals]
    BY <2>1 DEF sys_kill
  <2> QED
    BY <2>1, <2>2 DEF sys_kill
<1>14. CASE \E p \in Tasks : copy_process(p)
  <2>1. PICK p \in Slots : copy_process(p)
    BY <1>0, <1>14
  <2>2. priority' \in [Slots -> 1 .. MaxPriority] /\ counter' \in [Slots -> Nat]
    BY <2>1 DEF copy_process
  <2>3. signal' \in [Slots -> SUBSET Signals]
    BY <2>1 DEF copy_process
  <2> QED
    BY <2>1, <2>2, <2>3 DEF copy_process
<1>15. CASE \E p \in Tasks : release(p)
  BY <1>15 DEF release, Schedule
<1>16. CASE SystemCallEnd
  BY <1>16 DEF SystemCallEnd, Schedule
<1>17. CASE ReturnToUser
  BY <1>17 DEF ReturnToUser
<1>18. CASE ReadSignal
  BY <1>18 DEF ReadSignal
<1>19. CASE WriteSignal
  <2>1. ebx \ blocked[current] # {} /\ ebx \subseteq Signals
    BY <1>19 DEF WriteSignal, CopyIsMask
  <2> QED
    BY <1>19, <2>1, TakeSignalTypes DEF WriteSignal, TakeSignal, Exit, Schedule
<1>20. CASE TickSignal
  <2>1. signal[current] \ blocked[current] # {} /\ signal[current] \subseteq Signals
    BY <1>20 DEF TickSignal, HasSignal, Unblocked
  <2>2. signal' \in [Slots -> SUBSET Signals] /\ blocked' \in [Slots -> SUBSET Signals]
    BY <1>20, <2>1, TakeSignalTypes DEF TickSignal
  <2> QED
    BY <1>20, <2>2 DEF TickSignal, TakeSignal, Exit, Schedule
<1>21. CASE do_timer
  BY <1>21 DEF do_timer, Schedule
<1>22. CASE \E p \in Tasks : wake_up(p)
  BY <1>22 DEF wake_up
<1>23. CASE \E p \in Tasks : tty_intr(p)
  <2>1. PICK p \in Slots : tty_intr(p)
    BY <1>0, <1>23
  <2>2. signal' \in [Slots -> SUBSET Signals]
    BY <2>1 DEF tty_intr, Signals
  <2> QED
    BY <2>1, <2>2 DEF tty_intr
<1>24. CASE UNCHANGED vars
  BY <1>24 DEF vars
<1> QED
  BY <1>1, <1>2, <1>3, <1>4, <1>5, <1>6, <1>7, <1>8, <1>9, <1>10, <1>11, <1>12,
     <1>13, <1>14, <1>15, <1>16, <1>17, <1>18, <1>19, <1>20, <1>21, <1>22, <1>23,
     <1>24 DEF Next, KernelStep, ScheduleStep, Service, ReturnStep, Interrupt

\* The initial states have the inductive invariant.
LEMMA RunInit == Init => RunInv
<1> SUFFICES ASSUME Init PROVE RunInv
  OBVIOUS
<1>1. TypeOK
  BY TypeInit
<1>2. ctx = [p \in Slots |-> "user"] /\ at = "run" /\ current = 0
  BY DEF Init
<1>3. Tasks \subseteq Slots /\ 0 \in Slots
  BY NTasksAssumption DEF Tasks, Slots
<1> QED
  BY <1>1, <1>2, <1>3
     DEF RunInv, RunnerRuns, ChosenRuns, DeliversOnce, CopyIsMask

\* Every step keeps the inductive invariant.
LEMMA RunStep == RunInv /\ [Next]_vars => RunInv'
<1> SUFFICES ASSUME RunInv, [Next]_vars
             PROVE  RunnerRuns' /\ ChosenRuns' /\ DeliversOnce' /\ CopyIsMask'
  BY TypeStep DEF RunInv
<1> USE NTasksAssumption
    DEF RunInv, TypeOK, RunnerRuns, ChosenRuns, DeliversOnce, CopyIsMask, Running,
        Unblocked, In, Goto, Contexts, tasks, Schedule
<1>0. Tasks \subseteq Slots /\ 0 \in Slots /\ Slots = Tasks \cup {0}
  BY DEF Tasks, Slots
<1>1. CASE SystemCall
  BY <1>0, <1>1 DEF SystemCall
<1>2. CASE Sweep
  BY <1>0, <1>2 DEF Sweep, WakesFor
<1>3. CASE Scan
  BY <1>0, <1>3 DEF Scan, Candidate
<1>4. CASE Recharge
  BY <1>0, <1>4 DEF Recharge
<1>5. CASE SwitchTo
  BY <1>0, <1>5 DEF SwitchTo
<1>6. CASE sys_pause
  BY <1>0, <1>6 DEF sys_pause
<1>7. CASE sleep_on
  BY <1>0, <1>7 DEF sleep_on
<1>8. CASE do_exit
  BY <1>0, <1>8 DEF do_exit, Exit
<1>9. CASE OtherCall
  BY <1>0, <1>9 DEF OtherCall
<1>10. CASE \E n \in Spans : sys_alarm(n)
  BY <1>0, <1>10 DEF sys_alarm
<1>11. CASE \E i \in Increments : sys_nice(i)
  BY <1>0, <1>11 DEF sys_nice
<1>12. CASE \E mask \in {{}, {SIGALRM, SIGKILL}} : sys_ssetmask(mask)
  BY <1>0, <1>12 DEF sys_ssetmask
<1>13. CASE \E p \in Tasks, s \in Kills : sys_kill(p, s)
  BY <1>0, <1>13 DEF sys_kill
<1>14. CASE \E p \in Tasks : copy_process(p)
  BY <1>0, <1>14 DEF copy_process
<1>15. CASE \E p \in Tasks : release(p)
  BY <1>0, <1>15 DEF release
<1>16. CASE SystemCallEnd
  BY <1>0, <1>16 DEF SystemCallEnd
<1>17. CASE ReturnToUser
  BY <1>0, <1>17 DEF ReturnToUser
<1>18. CASE ReadSignal
  BY <1>0, <1>18 DEF ReadSignal, HasSignal
<1>19. CASE WriteSignal
  BY <1>0, <1>19 DEF WriteSignal, TakeSignal, Exit
<1>20. CASE TickSignal
  BY <1>0, <1>20 DEF TickSignal, TakeSignal, Exit
<1>21. CASE do_timer
  BY <1>0, <1>21 DEF do_timer
<1>22. CASE \E p \in Tasks : wake_up(p)
  BY <1>0, <1>22 DEF wake_up
<1>23. CASE \E p \in Tasks : tty_intr(p)
  BY <1>0, <1>23 DEF tty_intr
<1>24. CASE UNCHANGED vars
  BY <1>24 DEF vars
<1> QED
  BY <1>1, <1>2, <1>3, <1>4, <1>5, <1>6, <1>7, <1>8, <1>9, <1>10, <1>11, <1>12,
     <1>13, <1>14, <1>15, <1>16, <1>17, <1>18, <1>19, <1>20, <1>21, <1>22, <1>23,
     <1>24 DEF Next, KernelStep, ScheduleStep, Service, ReturnStep, Interrupt

\* The inductive invariant holds in every reachable state.
LEMMA RunAlways == Spec => []RunInv
<1>1. RunInv /\ [Next]_vars => RunInv'
  BY RunStep
<1> QED
  BY RunInit, <1>1, PTL DEF Spec

\* Every variable keeps its type for any number of tasks and any bounds; above
\* all, do_timer() and the recharge of schedule() keep every counter a natural
\* number (sched.c:332-334, 136-139).
THEOREM TypeCorrect == Spec => []TypeOK
<1>1. RunInv => TypeOK
  BY DEF RunInv
<1> QED
  BY RunAlways, <1>1, PTL

\* A task that has gone to sleep or died is not run before it is woken,
\* whatever interrupts do while schedule() chooses (sched.c:104-142).
THEOREM OnlyRunnableRuns == Spec => []RunnerRuns
<1>1. RunInv => RunnerRuns
  BY DEF RunInv
<1> QED
  BY RunAlways, <1>1, PTL

-----------------------------------------------------------------------------
(* Signals leave the mask one at a time.                                   *)

\* What one step may take out of the masks.
Kept ==
    \A p \in Tasks : state[p] # "EMPTY" /\ "keyboard" \notin use =>
        \A s, r \in signal[p] \ signal'[p] : s = r /\ s \notin blocked[p]

\* The signal taken is the lowest of those that are not blocked.
LEMMA TakeSignalKeeps ==
    ASSUME TypeOK, Unblocked(current) # {}, TakeSignal(signal[current])
    PROVE  Kept
<1> DEFINE s == Lowest(signal[current] \ blocked[current])
<1>1. s \in signal[current] \ blocked[current]
  BY LowestIsIn DEF TypeOK, Unblocked
<1>2. signal' = [signal EXCEPT ![current] = signal[current] \ {s}]
  BY DEF TakeSignal
<1> HIDE DEF s
<1> QED
  BY <1>1, <1>2 DEF Kept, TypeOK, Tasks, Slots

\* Every step keeps what SignalsKept says.
LEMMA KeptStep == RunInv /\ [Next]_vars => Kept
<1> SUFFICES ASSUME RunInv, [Next]_vars PROVE Kept
  OBVIOUS
<1>0. Tasks \subseteq Slots
  BY DEF Tasks, Slots
<1>1. CASE \A p \in Tasks : state[p] # "EMPTY" => signal[p] \subseteq signal'[p]
  BY <1>1 DEF Kept
<1>2. CASE Sweep
  <2>1. \A p \in Tasks : signal[p] \subseteq signal'[p]
    BY <1>0, <1>2 DEF Sweep
  <2> QED
    BY <1>1, <2>1
<1>3. CASE \E p \in Tasks, s \in Kills : sys_kill(p, s)
  <2>1. \A p \in Tasks : signal[p] \subseteq signal'[p]
    BY <1>0, <1>3 DEF sys_kill, RunInv, TypeOK
  <2> QED
    BY <1>1, <2>1
<1>4. CASE \E p \in Tasks : copy_process(p)
  BY <1>0, <1>1, <1>4 DEF copy_process, RunInv, TypeOK
<1>5. CASE WriteSignal
  <2>1. CASE "keyboard" \in use
    BY <2>1 DEF Kept
  <2>2. CASE "keyboard" \notin use
    BY <1>5, <2>2, TakeSignalKeeps DEF WriteSignal, RunInv, CopyIsMask, In, Unblocked
  <2> QED
    BY <2>1, <2>2
<1>6. CASE TickSignal
  BY <1>6, TakeSignalKeeps DEF TickSignal, HasSignal, RunInv
<1>7. CASE \E p \in Tasks : tty_intr(p)
  BY <1>0, <1>1, <1>7 DEF tty_intr, RunInv, TypeOK
<1> QED
  <2>1. \/ UNCHANGED signal \/ Sweep \/ WriteSignal \/ TickSignal
        \/ \E p \in Tasks, s \in Kills : sys_kill(p, s)
        \/ \E p \in Tasks : copy_process(p)
        \/ \E p \in Tasks : tty_intr(p)
    BY DEF Next, KernelStep, ScheduleStep, Service, ReturnStep, Interrupt, vars, tasks,
           SystemCall, Scan, Recharge, SwitchTo, sys_pause, sleep_on, do_exit, OtherCall,
           sys_alarm, sys_nice, sys_ssetmask, release, SystemCallEnd,
           ReturnToUser, ReadSignal, do_timer, wake_up
  <2> QED
    BY <1>1, <1>2, <1>3, <1>4, <1>5, <1>6, <1>7, <2>1

\* As long as no signals come from interrupts, ret_from_sys_call takes one
\* unblocked signal at a time and loses none (system_call.s:109-118).
THEOREM SignalsTakenSingly == Spec => SignalsKept
<1>1. RunInv /\ [Next]_vars => [Kept]_vars
  BY KeptStep
<1>2. [Kept]_vars => [\A p \in Tasks : state[p] # "EMPTY" /\ "keyboard" \notin use =>
        \A s, r \in signal[p] \ signal'[p] : s = r /\ s \notin blocked[p]]_vars
  BY DEF Kept
<1> QED
  BY RunAlways, <1>1, <1>2, PTL DEF Spec, SignalsKept

-----------------------------------------------------------------------------
(* The shares.                                                             *)

\* Shares are bounded initially.
LEMMA BoundInit == Init => CounterBounded
BY NTasksAssumption, PriorityAssumption, InputAssumption DEF Init, CounterBounded

\* Halving is what bounds the sum of all recharges.
LEMMA RechargeBounded ==
    ASSUME NEW c \in Nat, c < 2 * MaxPriority, NEW r \in 1 .. MaxPriority
    PROVE  c \div 2 + r < 2 * MaxPriority
BY PriorityAssumption

\* Every step keeps shares bounded.
LEMMA BoundStep == TypeOK /\ CounterBounded /\ [Next]_vars => CounterBounded'
<1> SUFFICES ASSUME TypeOK, CounterBounded, [Next]_vars PROVE CounterBounded'
  OBVIOUS
<1> USE NTasksAssumption, PriorityAssumption, InputAssumption DEF TypeOK, CounterBounded
<1>1. CASE Recharge
  BY <1>1, RechargeBounded DEF Recharge, Recharged
<1>2. CASE do_timer
  BY <1>2 DEF do_timer
<1>3. CASE \E p \in Tasks : copy_process(p)
  BY <1>3 DEF copy_process
<1>4. CASE UNCHANGED counter
  BY <1>4
<1> QED
  <2>1. UNCHANGED counter \/ Recharge \/ do_timer \/ \E p \in Tasks : copy_process(p)
    BY DEF Next, KernelStep, ScheduleStep, Service, ReturnStep, Interrupt, vars, tasks,
           SystemCall, Sweep, Scan, SwitchTo, sys_pause, sleep_on, do_exit, OtherCall,
           sys_alarm, sys_nice, sys_ssetmask, sys_kill, release, SystemCallEnd,
           ReturnToUser, ReadSignal, WriteSignal, TickSignal, TakeSignal, wake_up, tty_intr
  <2> QED
    BY <1>1, <1>2, <1>3, <1>4, <2>1

\* No task ever collects twice the greatest priority, however long it sleeps
\* while others use up their shares (sched.c:136-139).
THEOREM SharesBounded == Spec => []CounterBounded
<1>1. TypeOK /\ CounterBounded /\ [Next]_vars => CounterBounded'
  BY BoundStep
<1> QED
  BY BoundInit, TypeCorrect, <1>1, PTL DEF Spec

-----------------------------------------------------------------------------
(* The wait queues of kernel/sched.c, module WaitQueue: the chain of sleepers *)
(* is whole, for any tasks and any queues.                                    *)

\* A task outside the sleep functions has no call of them, hence no tmp.
TmpOnlyAsleep ==
    \A t \in Sleepers : pc[t] \notin {"enter", "sleep"} => tmp[t] = None

\* A task in the first half of sleep_on() is running, and on a queue whose
\* callers mask interrupts it still heads the queue.
Entering ==
    \A t \in Sleepers : pc[t] = "enter" =>
        /\ task_state[t] = "RUNNING"
        /\ on[t] \in UQueues
        /\ on[t] \in Masked => wq[on[t]] = t

\* Kernel code is not preempted.
OneEnters == \A t, u \in Sleepers : pc[t] = "enter" /\ pc[u] = "enter" => t = u

\* Only sleep_on() makes a task uninterruptible.
SleepsInKernel == \A t \in Sleepers : task_state[t] = "UNINTERRUPTIBLE" => pc[t] = "sleep"

WaitInv ==
    /\ WaitTypeOK
    /\ TmpOnlyAsleep
    /\ Entering
    /\ OneEnters
    /\ SleepsInKernel
    /\ NoLostSleeper

-----------------------------------------------------------------------------
\* The initial states satisfy the invariant.
LEMMA WaitInvInit == WaitInit => WaitInv
BY NoneAssumption, QueueAssumption
   DEF WaitInit, WaitInv, WaitTypeOK, TmpOnlyAsleep, Entering, OneEnters, SleepsInKernel,
       NoLostSleeper, States, Places, Queues

\* Everything of the invariant but the chains is preserved by every step.
LEMMA WaitShape ==
    ASSUME WaitInv, [WaitNext]_wait_vars
    PROVE  WaitTypeOK' /\ TmpOnlyAsleep' /\ Entering' /\ OneEnters' /\ SleepsInKernel'
<1> USE NoneAssumption, QueueAssumption
        DEF WaitInv, WaitTypeOK, TmpOnlyAsleep, Entering, OneEnters, SleepsInKernel,
            States, Places, Queues, CanRun, CpuFree, Swept
<1>1. ASSUME NEW t \in Sleepers, NEW q \in Queues, SleepOn(t, q)
      PROVE  WaitTypeOK' /\ TmpOnlyAsleep' /\ Entering' /\ OneEnters' /\ SleepsInKernel'
  BY <1>1 DEF SleepOn
<1>2. ASSUME NEW t \in Sleepers, NEW q \in Queues, InterruptibleSleepOn(t, q)
      PROVE  WaitTypeOK' /\ TmpOnlyAsleep' /\ Entering' /\ OneEnters' /\ SleepsInKernel'
  BY <1>2 DEF InterruptibleSleepOn
<1>3. ASSUME NEW t \in Sleepers, SleepState(t)
      PROVE  WaitTypeOK' /\ TmpOnlyAsleep' /\ Entering' /\ OneEnters' /\ SleepsInKernel'
  BY <1>3 DEF SleepState
<1>4. ASSUME NEW t \in Sleepers, Resume(t)
      PROVE  WaitTypeOK' /\ TmpOnlyAsleep' /\ Entering' /\ OneEnters' /\ SleepsInKernel'
  BY <1>4 DEF Resume, WithTmpWoken, Leave
<1>5. ASSUME NEW t \in Sleepers, PassOn(t)
      PROVE  WaitTypeOK' /\ TmpOnlyAsleep' /\ Entering' /\ OneEnters' /\ SleepsInKernel'
  BY <1>5 DEF PassOn
<1>6. ASSUME NEW t \in Sleepers, InterruptibleResume(t)
      PROVE  WaitTypeOK' /\ TmpOnlyAsleep' /\ Entering' /\ OneEnters' /\ SleepsInKernel'
  BY <1>6 DEF InterruptibleResume, WithTmpWoken, Leave
<1>7. ASSUME NEW t \in Sleepers,
             SendSignal(t) \/ HandleSignal(t) \/ BecomeZombie(t) \/ Fork(t) \/ ReturnFromExit(t)
      PROVE  WaitTypeOK' /\ TmpOnlyAsleep' /\ Entering' /\ OneEnters' /\ SleepsInKernel'
  <2>1. CASE SendSignal(t)
    BY <2>1 DEF SendSignal
  <2>2. CASE HandleSignal(t)
    BY <2>2 DEF HandleSignal
  <2>3. CASE BecomeZombie(t)
    BY <2>3 DEF BecomeZombie
  <2>4. CASE Fork(t)
    BY <2>4 DEF Fork
  <2>5. CASE ReturnFromExit(t)
    BY <2>5 DEF ReturnFromExit
  <2> QED
    BY <1>7, <2>1, <2>2, <2>3, <2>4, <2>5
<1>8. ASSUME NEW q \in Queues, WakeUp(q)
      PROVE  WaitTypeOK' /\ TmpOnlyAsleep' /\ Entering' /\ OneEnters' /\ SleepsInKernel'
  BY <1>8 DEF WakeUp
<1>9. CASE Preempt
  BY <1>9 DEF Preempt
<1>10. CASE UNCHANGED wait_vars
  BY <1>10 DEF wait_vars
<1> QED
  BY <1>1, <1>2, <1>3, <1>4, <1>5, <1>6, <1>7, <1>8, <1>9, <1>10 DEF WaitNext

\* What a step must do to the chain of a masked queue: every set closed under
\* the chain after the step contains the sleepers that remain.
Closes(q, t, S) == Roots(q)' \subseteq S /\ ClosedOn(q, S)' => t \in S

\* A queue loses nobody if every such set has its sleepers after the step.
LEMMA ChainByClosedSets ==
    ASSUME \A q \in Masked, t \in Sleepers, S \in SUBSET Sleepers :
             on'[t] = q /\ task_state'[t] = "UNINTERRUPTIBLE" => Closes(q, t, S)
    PROVE  NoLostSleeper'
BY DEF NoLostSleeper, Reached, Closes

\* How the chain is used before the step: a closed set has all the sleepers.
LEMMA SleeperInClosedSet ==
    ASSUME NoLostSleeper, NEW q \in Masked, NEW t \in Sleepers, NEW S \in SUBSET Sleepers,
           on[t] = q, task_state[t] = "UNINTERRUPTIBLE",
           Roots(q) \subseteq S, ClosedOn(q, S)
    PROVE  t \in S
BY DEF NoLostSleeper, Reached

\* A step that keeps every sleeper of a masked queue on it, keeps the tmp of
\* each and loses no root of the chain, loses no sleeper either.
LEMMA ChainKept ==
    ASSUME WaitInv,
           \A q \in Masked, t \in Sleepers :
             /\ on'[t] = q <=> on[t] = q
             /\ on[t] = q => tmp'[t] = tmp[t]
             /\ t \in Roots(q) => t \in Roots(q)'
             /\ on[t] = q /\ task_state'[t] = "UNINTERRUPTIBLE" =>
                  task_state[t] = "UNINTERRUPTIBLE" \/ t \in Roots(q)'
    PROVE  NoLostSleeper'
<1>1. SUFFICES ASSUME NEW q \in Masked, NEW t \in Sleepers, NEW S \in SUBSET Sleepers,
                      on'[t] = q, task_state'[t] = "UNINTERRUPTIBLE",
                      Roots(q)' \subseteq S, ClosedOn(q, S)'
               PROVE  t \in S
  BY ChainByClosedSets DEF Closes
<1>2. CASE t \in Roots(q)'
  BY <1>1, <1>2
<1>3. CASE t \notin Roots(q)'
  <2>1. on[t] = q /\ task_state[t] = "UNINTERRUPTIBLE"
    BY <1>1, <1>3
  <2>2. Roots(q) \subseteq S
    BY <1>1 DEF Roots
  <2>3. ClosedOn(q, S)
    BY <1>1 DEF ClosedOn, WaitInv, WaitTypeOK
  <2> QED
    BY <2>1, <2>2, <2>3, SleeperInClosedSet DEF WaitInv
<1> QED
  BY <1>2, <1>3

\* sleep_on(): the new head keeps the old one in its tmp.
LEMMA ChainSleepOn ==
    ASSUME WaitInv, NEW u \in Sleepers, NEW p \in Queues, SleepOn(u, p)
    PROVE  NoLostSleeper'
<1> USE NoneAssumption, QueueAssumption DEF CanRun, Queues
<1>1. on[u] = None /\ on' = [on EXCEPT ![u] = p] /\ tmp' = [tmp EXCEPT ![u] = wq[p]]
  BY DEF SleepOn, WaitInv, WaitTypeOK
<1>2. SUFFICES ASSUME NEW q \in Masked, NEW t \in Sleepers, NEW S \in SUBSET Sleepers,
                      on'[t] = q, task_state'[t] = "UNINTERRUPTIBLE",
                      Roots(q)' \subseteq S, ClosedOn(q, S)'
               PROVE  t \in S
  BY ChainByClosedSets DEF Closes
<1>3. on[t] = q /\ task_state[t] = "UNINTERRUPTIBLE"
  BY <1>1, <1>2 DEF SleepOn, WaitInv, WaitTypeOK
<1>4. ASSUME NEW x \in S, on[x] = q, tmp[x] # None, on[tmp[x]] = q
      PROVE  tmp[x] \in S
  <2>1. x # u /\ on'[x] = q /\ tmp'[x] = tmp[x] /\ tmp[x] \in Sleepers
    BY <1>1, <1>4 DEF WaitInv, WaitTypeOK
  <2>2. tmp[x] # u /\ on'[tmp[x]] = q
    BY <1>1, <1>4, <2>1 DEF WaitInv, WaitTypeOK
  <2> QED
    BY <1>2, <1>4, <2>1, <2>2 DEF ClosedOn
<1>5. ASSUME NEW x \in Roots(q)
      PROVE  x \in S
  <2>1. x \in Sleepers /\ on[x] = q /\ x # u /\ on'[x] = q
    BY <1>1, <1>5 DEF Roots, WaitInv, WaitTypeOK
  <2>2. CASE task_state[x] = "RUNNING"
    BY <1>2, <2>1, <2>2 DEF Roots, SleepOn
  <2>3. CASE wq[q] = x /\ p = q
    <3>1. u \in Roots(q)'
      BY <1>1, <2>3 DEF Roots, SleepOn, WaitInv, WaitTypeOK
    <3>2. on'[u] = q /\ tmp'[u] = x
      BY <1>1, <2>3 DEF WaitInv, WaitTypeOK
    <3> QED
      BY <1>2, <2>1, <3>1, <3>2 DEF ClosedOn
  <2>4. CASE wq[q] = x /\ p # q
    BY <1>2, <2>1, <2>4 DEF Roots, SleepOn, WaitInv, WaitTypeOK
  <2> QED
    BY <1>5, <2>2, <2>3, <2>4 DEF Roots
<1> QED
  BY <1>3, <1>4, <1>5, SleeperInClosedSet DEF ClosedOn, WaitInv

\* sleep_on() after schedule(): the task leaves the chain and wakes the next.
LEMMA ChainResume ==
    ASSUME WaitInv, NEW u \in Sleepers, Resume(u)
    PROVE  NoLostSleeper'
<1> USE NoneAssumption, QueueAssumption DEF CanRun
<1>1. SUFFICES ASSUME NEW q \in Masked, NEW t \in Sleepers, NEW S \in SUBSET Sleepers,
                      on'[t] = q, task_state'[t] = "UNINTERRUPTIBLE",
                      Roots(q)' \subseteq S, ClosedOn(q, S)'
               PROVE  t \in S
  BY ChainByClosedSets DEF Closes
<1>2. /\ on' = [on EXCEPT ![u] = None] /\ tmp' = [tmp EXCEPT ![u] = None] /\ wq' = wq
      /\ task_state' = WithTmpWoken(u, task_state)
  BY DEF Resume, Leave
<1>3. q # None /\ t # u /\ on[t] = q /\ task_state[t] = "UNINTERRUPTIBLE"
  BY <1>1, <1>2 DEF WaitInv, WaitTypeOK, WithTmpWoken, Queues
<1> DEFINE R == S \cup {u}
<1>4. Roots(q) \subseteq R
  <2> SUFFICES ASSUME NEW x \in Roots(q), x # u
               PROVE  x \in S
    OBVIOUS
  <2>1. x \in Sleepers /\ on'[x] = q /\ (wq'[q] = x \/ task_state[x] = "RUNNING")
    BY <1>2 DEF Roots, WaitInv, WaitTypeOK
  <2>2. task_state[x] = "RUNNING" => task_state'[x] = "RUNNING"
    BY <1>2, <2>1 DEF WaitInv, WaitTypeOK, WithTmpWoken
  <2> QED
    BY <1>1, <2>1, <2>2 DEF Roots
<1>5. ASSUME NEW x \in R, on[x] = q, tmp[x] # None, on[tmp[x]] = q, tmp[x] # u
      PROVE  tmp[x] \in S
  <2>1. x \in Sleepers /\ tmp[x] \in Sleepers /\ on'[tmp[x]] = q
    BY <1>2, <1>5 DEF WaitInv, WaitTypeOK
  <2>2. CASE x = u
    <3>1. task_state'[tmp[x]] = "RUNNING"
      BY <1>2, <1>5, <2>1, <2>2 DEF WaitInv, WaitTypeOK, WithTmpWoken
    <3> QED
      BY <1>1, <2>1, <3>1 DEF Roots
  <2>3. CASE x # u
    <3>1. x \in S /\ on'[x] = q /\ tmp'[x] = tmp[x]
      BY <1>2, <1>5, <2>1, <2>3 DEF WaitInv, WaitTypeOK
    <3> QED
      BY <1>1, <1>5, <2>1, <3>1 DEF ClosedOn
  <2> QED
    BY <2>2, <2>3
<1>6. ClosedOn(q, R)
  BY <1>5 DEF ClosedOn
<1>7. t \in R
  BY <1>3, <1>4, <1>6, SleeperInClosedSet DEF WaitInv
<1> QED
  BY <1>3, <1>7

\* Every step keeps the sleepers of the masked queues on their chains.
LEMMA WaitChain ==
    ASSUME WaitInv, [WaitNext]_wait_vars
    PROVE  NoLostSleeper'
<1> USE NoneAssumption, QueueAssumption DEF CanRun, CpuFree, Swept, Queues
<1>1. ASSUME NEW u \in Sleepers, NEW p \in Queues, InterruptibleSleepOn(u, p)
      PROVE  NoLostSleeper'
  BY <1>1, ChainKept DEF InterruptibleSleepOn, WaitInv, WaitTypeOK, Roots
<1>2. ASSUME NEW u \in Sleepers, SleepState(u)
      PROVE  NoLostSleeper'
  BY <1>2, ChainKept DEF SleepState, WaitInv, WaitTypeOK, Roots, Entering
<1>3. ASSUME NEW u \in Sleepers, PassOn(u)
      PROVE  NoLostSleeper'
  BY <1>3, ChainKept DEF PassOn, WaitInv, WaitTypeOK, Roots
<1>4. ASSUME NEW u \in Sleepers, InterruptibleResume(u)
      PROVE  NoLostSleeper'
  BY <1>4, ChainKept
  DEF InterruptibleResume, WithTmpWoken, Leave, WaitInv, WaitTypeOK, Roots
<1>5. ASSUME NEW u \in Sleepers,
             SendSignal(u) \/ HandleSignal(u) \/ BecomeZombie(u) \/ Fork(u) \/ ReturnFromExit(u)
      PROVE  NoLostSleeper'
  BY <1>5, ChainKept
     DEF SendSignal, HandleSignal, BecomeZombie, Fork, ReturnFromExit, WaitInv, WaitTypeOK, Roots
<1>6. ASSUME NEW p \in Queues, WakeUp(p)
      PROVE  NoLostSleeper'
  BY <1>6, ChainKept DEF WakeUp, WaitInv, WaitTypeOK, Roots
<1>7. CASE Preempt
  BY <1>7, ChainKept DEF Preempt, WaitInv, WaitTypeOK, Roots
<1>8. CASE UNCHANGED wait_vars
  BY <1>8, ChainKept DEF wait_vars, WaitInv, WaitTypeOK, Roots
<1> QED
  BY <1>1, <1>2, <1>3, <1>4, <1>5, <1>6, <1>7, <1>8, ChainSleepOn, ChainResume DEF WaitNext

-----------------------------------------------------------------------------
\* The inductive invariant holds in every reachable state.
LEMMA WaitAlways == WaitSpec => []WaitInv
<1>1. WaitInv /\ [WaitNext]_wait_vars => WaitInv'
  BY WaitShape, WaitChain DEF WaitInv
<1> QED
  BY WaitInvInit, <1>1, PTL DEF WaitSpec

\* Every variable keeps its type, and a task is on a queue just while it is in
\* a sleep function.
THEOREM WaitTypeCorrect == WaitSpec => []WaitTypeOK
<1>1. WaitInv => WaitTypeOK
  BY DEF WaitInv
<1> QED
  BY WaitAlways, <1>1, PTL

\* However many tasks and queues there are, and whatever the interruptible
\* queues, the signals and the exits do to the state words of other tasks, no
\* task that called sleep_on() with interrupts masked is lost: the chain that
\* wakes it is whole (sched.c, lines 151 to 165 and 188 to 194).
THEOREM SleepersKept == WaitSpec => []NoLostSleeper
<1>1. WaitInv => NoLostSleeper
  BY DEF WaitInv
<1> QED
  BY WaitAlways, <1>1, PTL

\* With interrupts masked or not, a task is uninterruptible only inside the
\* schedule() of sleep_on().
THEOREM UninterruptibleOnlyAsleep == WaitSpec => []SleepsInKernel
<1>1. WaitInv => SleepsInKernel
  BY DEF WaitInv
<1> QED
  BY WaitAlways, <1>1, PTL

-----------------------------------------------------------------------------
(* The floppy driver and the timers of kernel/sched.c, module Floppy: the   *)
(* driver waits for one thing at a time, and finds motor, selection and     *)
(* head as the request needs them when it comes.                            *)

\* The driver's variables, timers and controller.
Kinds == {"seek", "rw", "recal", "reset"}
Queued == [drive : Drives, track : Tracks, bad : BOOLEAN, errors : Nat]
Timer == [jiffies : Nat, fn : {"floppy_on", "transfer"}]
Sleeps == {Select} \cup {Motor(d) : d \in Drives}
Driver ==
    [sel : Drives, motor : [Drives -> BOOLEAN], mon : [Drives -> Nat],
     moff : [Drives -> Nat], selected : BOOLEAN, timers : Seq(Timer),
     queue : Seq(Queued), current_drive : Drives, current_track : Tracks \cup {NoTrack},
     seek : BOOLEAN, seek_track : Tracks, reset : BOOLEAN, recalibrate : BOOLEAN,
     do_floppy : Kinds \cup {Nothing},
     command : [kind : Kinds \cup {Nothing}, drive : Drives, track : Tracks],
     head : [Drives -> Tracks], mute : BOOLEAN, garbage : Nat, wake : SUBSET Sleeps]

\* Requests are within their diskettes, and none has failed more than n times.
Modest(s, n) == \A i \in 1 .. Len(s.queue) : ~ s.queue[i].bad /\ s.queue[i].errors <= n

\* The driver knows where the head of the current drive is, if it is said to be
\* on a track.
Located(s) == s.current_track \in Tracks => s.head[s.current_drive] = s.current_track

\* The driver waits for nothing.
Free(s) == s.timers = <<>> /\ s.command.kind = Nothing /\ s.do_floppy = Nothing

\* The first request is the current one; if no seek is to come the head is on
\* its track.
Current(s) ==
    /\ s.queue # <<>> /\ ~ s.reset /\ ~ s.recalibrate
    /\ s.current_drive = Head(s.queue).drive /\ s.seek_track = Head(s.queue).track
    /\ ~ s.seek => s.current_track = s.seek_track /\ Located(s)

\* The current drive is selected, its motor on and due to be up to speed in b ticks.
Ready(s, b) ==
    /\ s.selected /\ s.sel = s.current_drive
    /\ s.motor[s.current_drive] /\ s.mon[s.current_drive] < b

\* No request is there, or none has begun since the last interrupt.
Resting(s) ==
    /\ s.queue = <<>> /\ Free(s)
    /\ Located(s) \/ s.recalibrate \/ s.reset

\* Before the clock's motors are counted (b = 1) and after (b = 0).
MotorWait(s, b) ==
    /\ Current(s) /\ s.command.kind = Nothing /\ s.do_floppy = Nothing
    /\ Len(s.timers) = 1 /\ s.timers[1].fn = "floppy_on"
    /\ LET d == s.current_drive
           j == s.timers[1].jiffies IN
       /\ s.motor[d] /\ Short <= s.moff[d] /\ 0 < j
       /\ j + b <= s.mon[d] /\ (s.mon[d] <= j + b \/ s.mon[d] <= Settle)

SelectWait(s, b) ==
    /\ Current(s) /\ s.command.kind = Nothing /\ s.do_floppy = Nothing
    /\ Len(s.timers) = 1 /\ s.timers[1].fn = "transfer"
    /\ Ready(s, Settle + b)
    /\ LET d == s.current_drive
           j == s.timers[1].jiffies IN
       /\ 0 < j /\ j <= Settle
       /\ s.mon[d] = 0 => Short + j + b <= s.moff[d] + Settle
       /\ Short + j <= s.moff[d] + Settle

Commanded(s, b) ==
    LET c == s.command IN
    /\ s.timers = <<>> /\ s.do_floppy = c.kind
    /\ \/ /\ c = Command("seek", s.current_drive, s.seek_track)
          /\ Current(s) /\ Ready(s, Settle + b)
          /\ b = 1 /\ s.mon[s.current_drive] = 0 => 0 < s.moff[s.current_drive]
       \/ /\ c = Command("rw", s.current_drive, s.seek_track)
          /\ Current(s) /\ Ready(s, Settle + b)
          /\ s.current_track = s.seek_track /\ Located(s)
          /\ b = 1 /\ s.mon[s.current_drive] = 0 => 0 < s.moff[s.current_drive]
       \/ /\ c = Command("recal", s.current_drive, 0)
          /\ s.queue # <<>> /\ ~ s.reset /\ ~ s.recalibrate /\ s.current_track = 0
       \/ /\ c.kind = "reset" /\ s.queue # <<>> /\ ~ s.reset /\ s.recalibrate

Works(s, b) ==
    Resting(s) \/ MotorWait(s, b) \/ SelectWait(s, b) \/ Commanded(s, b)

FloppyInv ==
    /\ f \in Driver /\ nr \in [Askers -> Drives]
    /\ faults \in 0 .. MaxFaults /\ Modest(f, MaxFaults - faults)
    /\ Works(f, 0)

\* The intervals of the driver.
LEMMA Intervals ==
    /\ Settle \in Nat /\ Short \in Nat /\ Long \in Nat /\ SpinUp \in Nat
    /\ MAX_ERRORS \in Nat /\ MaxFaults \in Nat
    /\ 0 < Settle /\ Settle < SpinUp /\ Settle < Short /\ Short < Long
<1>1. {SpinUp, Settle, Long, Short, MAX_ERRORS, MaxFaults} \subseteq Nat
  BY FloppyAssumption
<1>2. 0 < Settle /\ Settle < SpinUp /\ Settle < Short /\ Short < Long
  BY FloppyAssumption
<1> QED
  BY <1>1, <1>2

\* While a timer runs to the motor's time, a task may raise the wait of the motor,
\* and set how long it stays on.
LEMMA MotorTime ==
    ASSUME NEW j \in Nat, NEW m \in Nat, NEW o \in Nat, NEW m1 \in Nat, NEW o1 \in Nat,
           j <= m, m <= j \/ m <= Settle, Short <= o,
           m1 = m \/ (m < Settle /\ m1 = Settle), o1 \in {o, Long, Short}
    PROVE  j <= m1 /\ (m1 <= j \/ m1 <= Settle) /\ Short <= o1
BY Intervals

\* The motor stays on longer than the selection takes.
LEMMA SelectTime ==
    ASSUME NEW j \in Nat, NEW o \in Nat, NEW o1 \in Nat, j <= Settle, Short + j <= o + Settle,
           o1 \in {o, Long, Short}
    PROVE  Short + j <= o1 + Settle
BY Intervals

\* A tick of the timer of a selection, ...
LEMMA SelectTick ==
    ASSUME NEW j \in Nat, NEW o \in Nat, j > 1, j <= Settle, Short + j <= o + Settle
    PROVE  /\ 0 < j - 1 /\ j - 1 <= Settle
           /\ Short + (j - 1) <= o + Settle /\ Short + (j - 1) + 1 <= o + Settle
BY Intervals

\* ... then one of the motor, whose wait is m and whose time is o.
LEMMA SelectCount ==
    ASSUME NEW j \in Nat, NEW m \in Nat, NEW o \in Nat, NEW m1 \in Nat, NEW o1 \in Nat,
           0 < j, m < Settle + 1, m = 0 => Short + j + 1 <= o + Settle, Short + j <= o + Settle,
           m > 0 => m1 = m - 1 /\ o1 = o, m = 0 /\ o > 0 => m1 = 0 /\ o1 = o - 1
    PROVE  (m > 0 \/ o > 0) /\ m1 < Settle /\ Short + j <= o1 + Settle
<1>1. CASE m > 0
  BY <1>1, Intervals
<1>2. CASE m = 0
  <2>1. o > 0
    BY <1>2, Intervals
  <2> QED
    BY <1>2, <2>1, Intervals
<1> QED
  BY <1>1, <1>2

\* What two states of the driver have in common that differ in what it waits for.
SameDrive(s, u) ==
    /\ u.queue = s.queue
    /\ u.current_drive = s.current_drive /\ u.seek_track = s.seek_track
    /\ u.reset = s.reset /\ u.recalibrate = s.recalibrate /\ u.seek = s.seek
    /\ u.current_track = s.current_track /\ u.head = s.head
    /\ u.motor = s.motor /\ u.mon = s.mon /\ u.moff = s.moff

\* A command is given.
LEMMA CommandGiven ==
    ASSUME NEW s \in Driver, NEW k \in Kinds
    PROVE  LET c == Command(k, s.current_drive, s.seek_track)
               u == [s EXCEPT !.do_floppy = k, !.command = c] IN
           /\ u \in Driver /\ SameDrive(s, u) /\ u.timers = s.timers
           /\ u.do_floppy = k /\ u.command = c /\ c.kind = k
           /\ u.selected = s.selected /\ u.sel = s.sel
<1> DEFINE c == Command(k, s.current_drive, s.seek_track)
           u == [s EXCEPT !.do_floppy = k, !.command = c]
<1>1. c \in [kind : Kinds \cup {Nothing}, drive : Drives, track : Tracks] /\ c.kind = k
  <2>1. s.current_drive \in Drives /\ s.seek_track \in Tracks
    BY DEF Driver
  <2> QED
    BY <2>1 DEF Command
<1> HIDE DEF c
<1>2. u \in Driver
  BY <1>1 DEF Driver
<1>3. SameDrive(s, u) /\ u.timers = s.timers /\ u.do_floppy = k /\ u.command = c
      /\ u.selected = s.selected /\ u.sel = s.sel
  BY DEF Driver, SameDrive
<1> QED
  BY <1>1, <1>2, <1>3 DEF c

\* The drive is selected and held.
LEMMA Held ==
    ASSUME NEW s \in Driver
    PROVE  LET u == [s EXCEPT !.selected = TRUE, !.sel = s.current_drive] IN
           /\ u \in Driver /\ SameDrive(s, u) /\ u.selected /\ u.sel = u.current_drive
           /\ u.timers = s.timers /\ u.do_floppy = s.do_floppy /\ u.command = s.command
BY DEF Driver, SameDrive

-----------------------------------------------------------------------------
(* The steps of the driver.                                                *)

\* A timer that is the only one is due in its own time.
LEMMA AddFirst ==
    ASSUME NEW s \in Driver, s.timers = <<>>, NEW n \in Nat, NEW fn \in {"floppy_on", "transfer"}
    PROVE  add_timer(s, n, fn) = [s EXCEPT !.timers = <<[jiffies |-> n, fn |-> fn]>>]
<1> DEFINE none == s.timers
           F == [k \in 0 .. Len(none) |->
                   IF k = 0 THEN 0 ELSE 0 + none[k].jiffies]
<1>1. Len(none) = 0 /\ none = <<>>
  OBVIOUS
<1>2. Due(none)[0] = 0
  <2> DEFINE G(g) == [k \in 0 .. Len(none) |->
                        IF k = 0 THEN 0 ELSE g[k - 1] + none[k].jiffies]
             D == CHOOSE g : g = G(g)
             Z == [k \in 0 .. Len(none) |-> 0]
  <2>1. 0 .. Len(none) = {0}
    BY <1>1
  <2>2. Z = G(Z)
    BY <2>1
  <2>3. D = G(D)
    BY <2>2
  <2>4. D[0] = 0
    BY <2>1, <2>3
  <2>5. Due(none) = D
    BY DEF Due
  <2> QED
    BY <2>4, <2>5
<1>3. Before(none, n) = 0
  <2> DEFINE K == {k \in 0 .. Len(none) : \A i \in 1 .. k : Due(none)[i] < n}
  <2>1. K = {0}
    BY <1>1
  <2>2. Max(K) = 0
    BY <2>1 DEF Max
  <2> QED
    BY <2>2 DEF Before
<1>4. n - Due(none)[0] = n
  BY <1>2
<1>5. InsertAt(none, 1, [jiffies |-> n, fn |-> fn]) = <<[jiffies |-> n, fn |-> fn]>>
  <2> DEFINE e == [jiffies |-> n, fn |-> fn]
  <2>1. e \in Timer /\ <<e>> \in Seq(Timer) /\ << >> \in Seq(Timer)
    BY DEF Timer
  <2> HIDE DEF e
  <2>2. SubSeq(none, 1, 1 - 1) = << >> /\ SubSeq(none, 1, Len(none)) = << >>
    BY <1>1, <2>1
  <2>3. << >> \o <<e>> \o << >> = <<e>>
    BY <2>1
  <2>4. InsertAt(none, 1, e) = <<e>>
    BY <2>2, <2>3 DEF InsertAt
  <2> QED
    BY <2>4 DEF e
<1> HIDE DEF none
<1> QED
  <2>1. add_timer(s, n, fn) =
          [s EXCEPT !.timers = InsertAt(@, 0 + 1, [jiffies |-> n - Due(@)[0], fn |-> fn])]
    BY <1>3 DEF add_timer, none
  <2> QED
    BY <2>1, <1>4, <1>5 DEF none

\* Of requests within their diskettes none is dropped.
LEMMA NoneDropped ==
    ASSUME NEW s \in Driver, NEW n \in Nat, Modest(s, n)
    PROVE  DropBad(s) = [s EXCEPT !.seek = FALSE]
<1> DEFINE m == Max({k \in 0 .. Len(s.queue) : \A i \in 1 .. k : s.queue[i].bad})
           drives == [i \in 0 .. m |-> IF i = 0 THEN s.current_drive ELSE s.queue[i].drive]
           dropped == {drives[i] : i \in 1 .. m}
<1>1. Len(s.queue) \in Nat /\ s.queue \in Seq(Queued)
  BY DEF Driver
<1>2. m = 0
  <2> DEFINE K == {k \in 0 .. Len(s.queue) : \A i \in 1 .. k : s.queue[i].bad}
  <2>1. K = {0}
    BY <1>1 DEF Modest
  <2> HIDE DEF K
  <2>2. Max(K) = 0
    BY <2>1 DEF Max
  <2> QED
    BY <2>2 DEF K
<1> HIDE DEF m
<1>3. drives[0] = s.current_drive /\ dropped = {}
      /\ ~ \E i \in 1 .. m : drives[i] # drives[i - 1]
  BY <1>2
<1>4. SubSeq(s.queue, 0 + 1, Len(s.queue)) = s.queue
  BY <1>1
<1>5. [d \in Drives |-> IF d \in dropped THEN Short ELSE s.moff[d]] = s.moff
  BY <1>3 DEF Driver
<1>6. DropBad(s) = [s EXCEPT !.queue = SubSeq(@, m + 1, Len(@)),
                             !.current_drive = drives[m],
                             !.seek = \E i \in 1 .. m : drives[i] # drives[i - 1],
                             !.moff = [d \in Drives |-> IF d \in dropped THEN Short ELSE @[d]]]
  BY DEF DropBad, m
<1> HIDE DEF drives, dropped
<1>7. DropBad(s) = [s EXCEPT !.queue = s.queue, !.current_drive = s.current_drive,
                             !.seek = FALSE, !.moff = s.moff]
  BY <1>2, <1>3, <1>4, <1>5, <1>6
<1> QED
  BY <1>7 DEF Driver

\* A timer is set, the drive selected for good.
LEMMA TimerSet ==
    ASSUME NEW s \in Driver, s.timers = <<>>, NEW n \in Nat,
           NEW fn \in {"floppy_on", "transfer"}
    PROVE  LET u == add_timer(s, n, fn) IN
           /\ u \in Driver /\ SameDrive(s, u)
           /\ Len(u.timers) = 1 /\ u.timers[1].jiffies = n /\ u.timers[1].fn = fn
           /\ u.do_floppy = s.do_floppy /\ u.command = s.command
           /\ u.selected = s.selected /\ u.sel = s.sel
<1> DEFINE l == <<[jiffies |-> n, fn |-> fn]>>
           u == [s EXCEPT !.timers = l]
<1>1. add_timer(s, n, fn) = u
  BY AddFirst
<1>2. l \in Seq(Timer) /\ Len(l) = 1 /\ l[1].jiffies = n /\ l[1].fn = fn
  <2>1. [jiffies |-> n, fn |-> fn] \in Timer
    BY DEF Timer
  <2> QED
    BY <2>1
<1> HIDE DEF l
<1>3. u \in Driver /\ u.timers = l
  BY <1>2 DEF Driver
<1>4. SameDrive(s, u) /\ u.do_floppy = s.do_floppy /\ u.command = s.command
      /\ u.selected = s.selected /\ u.sel = s.sel
  BY DEF Driver, SameDrive
<1> HIDE DEF u
<1> QED
  BY <1>1, <1>2, <1>3, <1>4

\* A controller that is mute is reset: then recalibration is to come.
LEMMA ResetGoes ==
    ASSUME NEW s \in Driver, s.timers = <<>>, s.queue # <<>>
    PROVE  /\ reset_floppy(s) \in Driver /\ reset_floppy(s).queue = s.queue
           /\ \A b \in {0, 1} : Commanded(reset_floppy(s), b)
<1> DEFINE u == reset_floppy(s)
<1>1. u \in Driver
  BY FloppyAssumption DEF reset_floppy, Driver, Command, Kinds
<1>2. /\ u.timers = <<>> /\ u.do_floppy = "reset" /\ u.command.kind = "reset"
      /\ u.queue = s.queue /\ ~ u.reset /\ u.recalibrate
  BY DEF reset_floppy, Driver, Command
<1> QED
  BY <1>1, <1>2 DEF Commanded

\* The drive is ready, so the command that the request needs is given.
LEMMA TransferGoes ==
    ASSUME NEW s \in Driver, NEW b \in {0, 1}, Current(s), Free(s), Ready(s, Settle + b),
           b = 1 /\ s.mon[s.current_drive] = 0 => 0 < s.moff[s.current_drive]
    PROVE  /\ transfer(s) \in Driver /\ transfer(s).queue = s.queue
           /\ Commanded(transfer(s), b)
<1>1. CASE s.mute
  BY <1>1, ResetGoes DEF transfer, Current, Free
<1>2. CASE ~ s.mute /\ ~ s.seek
  <2> DEFINE c == Command("rw", s.current_drive, s.seek_track)
             u == [s EXCEPT !.do_floppy = "rw", !.command = c]
  <2>1. transfer(s) = u
    BY <1>2 DEF transfer, setup_rw_floppy, Current
  <2>2. /\ u \in Driver /\ SameDrive(s, u) /\ u.timers = s.timers /\ u.do_floppy = "rw"
        /\ u.command = c /\ c.kind = "rw" /\ u.selected = s.selected /\ u.sel = s.sel
    BY CommandGiven DEF Kinds
  <2> HIDE DEF u
  <2>3. Current(u) /\ Ready(u, Settle + b) /\ Located(u) /\ u.current_track = u.seek_track
    BY <1>2, <2>2 DEF Current, Ready, Located, SameDrive
  <2> QED
    BY <2>1, <2>2, <2>3 DEF Commanded, Free, SameDrive
<1>3. CASE ~ s.mute /\ s.seek
  <2> DEFINE c == Command("seek", s.current_drive, s.seek_track)
             u == [s EXCEPT !.do_floppy = "seek", !.command = c]
  <2>1. transfer(s) = u
    BY <1>3 DEF transfer, Current
  <2>2. /\ u \in Driver /\ SameDrive(s, u) /\ u.timers = s.timers /\ u.do_floppy = "seek"
        /\ u.command = c /\ c.kind = "seek" /\ u.selected = s.selected /\ u.sel = s.sel
    BY CommandGiven DEF Kinds
  <2> HIDE DEF u
  <2>3. Current(u) /\ Ready(u, Settle + b)
    BY <1>3, <2>2 DEF Current, Ready, Located, SameDrive
  <2> QED
    BY <2>1, <2>2, <2>3 DEF Commanded, Free, SameDrive
<1> QED
  BY <1>1, <1>2, <1>3 DEF Driver

\* The motor runs, so the drive is selected, and if it was not it settles first.
LEMMA SelectionGoes ==
    ASSUME NEW s \in Driver, NEW b \in {0, 1}, Current(s), Free(s),
           s.motor[s.current_drive], s.mon[s.current_drive] < Settle + b,
           Short <= s.moff[s.current_drive], b = 1 => 0 < s.mon[s.current_drive]
    PROVE  LET u == floppy_on_interrupt(s) IN
           /\ u \in Driver /\ u.queue = s.queue
           /\ SelectWait(u, b) \/ Commanded(u, b)
<1>0. s.mon[s.current_drive] \in Nat /\ s.moff[s.current_drive] \in Nat
  BY DEF Driver
<1> DEFINE v == [s EXCEPT !.selected = TRUE, !.sel = s.current_drive]
<1>v. /\ v \in Driver /\ SameDrive(s, v) /\ v.selected /\ v.sel = v.current_drive
      /\ v.timers = s.timers /\ v.do_floppy = s.do_floppy /\ v.command = s.command
  BY Held
<1>1. CASE s.current_drive # s.sel
  <2> DEFINE u == add_timer(v, Settle, "transfer")
  <2>1. floppy_on_interrupt(s) = u
    BY <1>1 DEF floppy_on_interrupt, Do
  <2> HIDE DEF v
  <2>2. /\ u \in Driver /\ SameDrive(v, u)
        /\ Len(u.timers) = 1 /\ u.timers[1].jiffies = Settle /\ u.timers[1].fn = "transfer"
        /\ u.do_floppy = v.do_floppy /\ u.command = v.command
        /\ u.selected = v.selected /\ u.sel = v.sel
    <3>1. v \in Driver /\ v.timers = <<>> /\ Settle \in Nat
      BY <1>v, Intervals DEF Free
    <3> QED
      BY <3>1, TimerSet
  <2> HIDE DEF u
  <2>3. SameDrive(s, u)
    BY <1>v, <2>2 DEF SameDrive
  <2>4. Current(u) /\ Ready(u, Settle + b)
    BY <1>v, <2>2, <2>3 DEF Current, Ready, Located, SameDrive
  <2>5. /\ u.motor[u.current_drive] = s.motor[s.current_drive]
        /\ u.mon[u.current_drive] = s.mon[s.current_drive]
        /\ u.moff[u.current_drive] = s.moff[s.current_drive]
    BY <2>3 DEF SameDrive
  <2>6. SelectWait(u, b)
    BY <1>0, <1>v, <2>2, <2>4, <2>5, Intervals DEF SelectWait, Free
  <2> QED
    BY <2>1, <2>2, <2>3, <2>6 DEF SameDrive
<1>2. CASE s.current_drive = s.sel
  <2>1. floppy_on_interrupt(s) = transfer([s EXCEPT !.selected = TRUE])
    BY <1>2 DEF floppy_on_interrupt, Do
  <2>2. [s EXCEPT !.selected = TRUE] = v
    BY <1>2 DEF Driver
  <2> HIDE DEF v
  <2>3. Current(v) /\ Ready(v, Settle + b) /\ Free(v)
    BY <1>v DEF Current, Ready, Located, Free, SameDrive
  <2>4. b = 1 /\ v.mon[v.current_drive] = 0 => 0 < v.moff[v.current_drive]
    BY <1>0, <1>v DEF SameDrive
  <2> QED
    BY <1>v, <2>1, <2>2, <2>3, <2>4, TransferGoes DEF SameDrive
<1> QED
  BY <1>1, <1>2

\* The motor is started or found running, and stays on until it is told.
LEMMA MotorStarts ==
    ASSUME NEW s \in Driver, NEW d \in Drives
    PROVE  LET u == ticks_to_floppy_on(s, d) IN
           /\ u \in Driver /\ u.queue = s.queue /\ u.timers = s.timers
           /\ u.do_floppy = s.do_floppy /\ u.command = s.command
           /\ u.current_drive = s.current_drive /\ u.seek_track = s.seek_track
           /\ u.reset = s.reset /\ u.recalibrate = s.recalibrate /\ u.seek = s.seek
           /\ u.current_track = s.current_track /\ u.head = s.head
           /\ u.selected = s.selected /\ (s.selected => u.sel = s.sel)
           /\ u.motor[d] /\ u.moff[d] = Long
           /\ s.motor[d] /\ s.selected => u.mon[d] = s.mon[d]
           /\ s.motor[d] => u.mon[d] = s.mon[d] \/ (s.mon[d] < Settle /\ u.mon[d] = Settle)
           /\ \A e \in Drives \ {d} :
                u.motor[e] = s.motor[e] /\ u.mon[e] = s.mon[e] /\ u.moff[e] = s.moff[e]
<1> DEFINE sel == IF s.selected THEN s.sel ELSE d
           mon == IF ~ s.motor[d] THEN SpinUp
                  ELSE IF sel # s.sel /\ s.mon[d] < Settle THEN Settle ELSE s.mon[d]
           u == [s EXCEPT !.moff[d] = Long, !.motor[d] = TRUE, !.sel = sel, !.mon[d] = mon]
<1>1. ticks_to_floppy_on(s, d) = u
  BY DEF ticks_to_floppy_on
<1>2. /\ sel \in Drives /\ mon \in Nat /\ Long \in Nat /\ (s.selected => sel = s.sel)
      /\ s.motor[d] /\ s.selected => mon = s.mon[d]
      /\ s.motor[d] => mon = s.mon[d] \/ (s.mon[d] < Settle /\ mon = Settle)
  BY Intervals DEF Driver
<1> HIDE DEF sel, mon
<1>3. u \in Driver
  BY <1>2 DEF Driver
<1>4. /\ u.queue = s.queue /\ u.timers = s.timers
      /\ u.do_floppy = s.do_floppy /\ u.command = s.command
      /\ u.current_drive = s.current_drive /\ u.seek_track = s.seek_track
      /\ u.reset = s.reset /\ u.recalibrate = s.recalibrate /\ u.seek = s.seek
      /\ u.current_track = s.current_track /\ u.head = s.head
      /\ u.selected = s.selected /\ u.sel = sel
      /\ u.motor = [s.motor EXCEPT ![d] = TRUE] /\ u.mon = [s.mon EXCEPT ![d] = mon]
      /\ u.moff = [s.moff EXCEPT ![d] = Long]
  BY DEF Driver
<1> HIDE DEF u
<1>5. s.motor \in [Drives -> BOOLEAN] /\ s.mon \in [Drives -> Nat] /\ s.moff \in [Drives -> Nat]
  BY DEF Driver
<1> QED
  BY <1>1, <1>2, <1>3, <1>4, <1>5

\* A request becomes current: it waits for its motor, for the selection, or for
\* the answer to its command.
LEMMA RequestStarts ==
    ASSUME NEW s \in Driver, Free(s), s.queue # <<>>, Located(s),
           ~ s.reset, ~ s.recalibrate, ~ s.seek
    PROVE  LET u == Start(Prepare(s)) IN
           u \in Driver /\ u.queue = s.queue /\ Works(u, 0)
<1> DEFINE r == Head(s.queue)
           v == [s EXCEPT !.seek = MustSeek(s, r), !.current_drive = r.drive,
                          !.seek_track = r.track]
           p == ticks_to_floppy_on(v, r.drive)
<1>1. r \in Queued
  BY DEF Driver
<1>2. r.drive \in Drives /\ r.track \in Tracks /\ MustSeek(s, r) \in BOOLEAN
  BY <1>1 DEF Queued, MustSeek
<1>3. v \in Driver
  BY <1>2 DEF Driver
<1>4. /\ v.queue = s.queue /\ v.timers = s.timers
      /\ v.do_floppy = s.do_floppy /\ v.command = s.command
      /\ v.current_drive = r.drive /\ v.seek_track = r.track
      /\ v.reset = s.reset /\ v.recalibrate = s.recalibrate /\ v.seek = MustSeek(s, r)
      /\ v.current_track = s.current_track /\ v.head = s.head
  BY DEF Driver
<1>5. p = Prepare(s)
  BY DEF Prepare
<1> HIDE DEF v, r
<1>6. /\ p \in Driver /\ p.queue = v.queue /\ p.timers = v.timers
      /\ p.do_floppy = v.do_floppy /\ p.command = v.command
      /\ p.current_drive = v.current_drive /\ p.seek_track = v.seek_track
      /\ p.reset = v.reset /\ p.recalibrate = v.recalibrate /\ p.seek = v.seek
      /\ p.current_track = v.current_track /\ p.head = v.head
      /\ p.motor[p.current_drive] /\ p.moff[p.current_drive] = Long
  BY <1>2, <1>3, <1>4, MotorStarts
<1> HIDE DEF p
<1>7. Current(p) /\ Free(p)
  <2>1. ~ p.seek => p.current_track = p.seek_track /\ Located(p)
    BY <1>4, <1>6 DEF MustSeek, Located
  <2> QED
    BY <1>4, <1>6, <2>1 DEF Current, Free, r
<1>8. p.mon[p.current_drive] \in Nat /\ Short < Long /\ Long \in Nat /\ Short \in Nat
  BY <1>6, Intervals DEF Driver
<1>9. CASE p.mon[p.current_drive] = 0
  <2>1. Start(p) = floppy_on_interrupt(p)
    BY <1>9 DEF Start
  <2>2. p.mon[p.current_drive] < Settle + 0 /\ Short <= p.moff[p.current_drive]
    BY <1>6, <1>8, <1>9, Intervals
  <2> QED
    BY <1>4, <1>5, <1>6, <1>7, <2>1, <2>2, SelectionGoes DEF Works
<1>10. CASE p.mon[p.current_drive] # 0
  <2> DEFINE n == p.mon[p.current_drive]
             u == add_timer(p, n, "floppy_on")
  <2>1. Start(p) = u
    BY <1>10 DEF Start
  <2>2. p.timers = <<>> /\ n \in Nat /\ 0 < n
    BY <1>7, <1>8, <1>10 DEF Free
  <2>3. /\ u \in Driver /\ SameDrive(p, u)
        /\ Len(u.timers) = 1 /\ u.timers[1].jiffies = n /\ u.timers[1].fn = "floppy_on"
        /\ u.do_floppy = p.do_floppy /\ u.command = p.command
    BY <1>6, <2>2, TimerSet
  <2> HIDE DEF u
  <2>4. Current(u)
    BY <1>7, <2>3 DEF Current, Located, SameDrive
  <2>5. MotorWait(u, 0)
    <3>1. /\ u.motor[u.current_drive] /\ Short <= u.moff[u.current_drive]
          /\ u.mon[u.current_drive] = n
      BY <1>6, <1>8, <2>3 DEF SameDrive
    <3> QED
      BY <1>7, <2>2, <2>3, <2>4, <3>1 DEF MotorWait, Free
  <2> QED
    BY <1>4, <1>5, <1>6, <2>1, <2>3, <2>5 DEF Works, SameDrive
<1> QED
  BY <1>9, <1>10

\* do_fd_request() with nothing under way: it rests if there is no request, or
\* resets or recalibrates if it must, or begins the first request.
LEMMA RequestDone ==
    ASSUME NEW s \in Driver, NEW n \in Nat, Free(s), Modest(s, n),
           Located(s) \/ s.recalibrate \/ s.reset,
           s.queue = <<>> => ~ s.reset /\ ~ s.recalibrate
    PROVE  LET u == do_fd_request(s) IN
           u \in Driver /\ u.queue = s.queue /\ Works(u, 0)
<1>1. CASE s.reset
  BY <1>1, ResetGoes DEF do_fd_request, Works, Free, Do
<1>2. CASE ~ s.reset /\ s.recalibrate
  <2>1. do_fd_request(s) = recalibrate_floppy(s) /\ s.queue # <<>>
    BY <1>2 DEF do_fd_request, Do
  <2>2. CASE s.mute
    BY <2>1, <2>2, ResetGoes DEF recalibrate_floppy, Works, Free
  <2>3. CASE ~ s.mute
    <3> DEFINE c == Command("recal", s.current_drive, 0)
               u == [s EXCEPT !.recalibrate = FALSE, !.current_track = 0, !.seek = FALSE,
                              !.do_floppy = "recal", !.command = c]
    <3>1. do_fd_request(s) = u
      BY <2>1, <2>3 DEF recalibrate_floppy
    <3>2. c \in [kind : Kinds \cup {Nothing}, drive : Drives, track : Tracks]
          /\ c.kind = "recal"
      <4>1. s.current_drive \in Drives /\ 0 \in Tracks
        BY FloppyAssumption DEF Driver
      <4> QED
        BY <4>1 DEF Command, Kinds
    <3> HIDE DEF c
    <3>3. u \in Driver
      <4>1. 0 \in Tracks \cup {NoTrack}
        BY FloppyAssumption
      <4> QED
        BY <3>2, <4>1 DEF Driver, Kinds
    <3>4. /\ u.timers = s.timers /\ u.do_floppy = "recal" /\ u.command = c
          /\ u.queue = s.queue /\ u.reset = s.reset /\ ~ u.recalibrate
          /\ u.current_track = 0 /\ u.current_drive = s.current_drive
      BY DEF Driver
    <3> HIDE DEF u
    <3> QED
      BY <1>2, <2>1, <3>1, <3>2, <3>3, <3>4 DEF Works, Commanded, Free, c
  <2> QED
    BY <2>2, <2>3 DEF Driver
<1>3. CASE ~ s.reset /\ ~ s.recalibrate
  <2> DEFINE v == [s EXCEPT !.seek = FALSE]
  <2>1. do_fd_request(s) = Serve(v)
    BY <1>3, NoneDropped DEF do_fd_request, Do
  <2>2. /\ v \in Driver /\ v.queue = s.queue /\ v.timers = s.timers
        /\ v.do_floppy = s.do_floppy /\ v.command = s.command
        /\ v.current_drive = s.current_drive /\ v.reset = s.reset
        /\ v.recalibrate = s.recalibrate /\ ~ v.seek
        /\ v.current_track = s.current_track /\ v.head = s.head
    BY DEF Driver
  <2> HIDE DEF v
  <2>3. Free(v) /\ Located(v)
    BY <1>3, <2>2 DEF Free, Located
  <2>4. CASE s.queue = <<>>
    BY <2>1, <2>2, <2>3, <2>4 DEF Serve, Works, Resting, Do
  <2>5. CASE s.queue # <<>>
    <3>1. Serve(v) = Start(Prepare(v))
      BY <2>2, <2>5 DEF Serve, Do
    <3> QED
      BY <1>3, <2>1, <2>2, <2>3, <2>5, <3>1, RequestStarts
  <2> QED
    BY <2>4, <2>5
<1> QED
  BY <1>1, <1>2, <1>3 DEF Driver

\* Two states of the driver in which it waits for the same thing.
Alike(s, u) ==
    /\ SameDrive(s, u) /\ u.timers = s.timers
    /\ u.do_floppy = s.do_floppy /\ u.command = s.command
    /\ u.selected = s.selected /\ u.sel = s.sel

\* So what the one waits for the other does.
LEMMA AlikeWorks ==
    ASSUME NEW s, NEW u, NEW b, Alike(s, u), Works(s, b)
    PROVE  Works(u, b)
<1> USE DEF Alike, SameDrive
<1>1. Resting(s) => Resting(u)
  BY DEF Resting, Free, Located
<1>2. Current(s) => Current(u)
  BY DEF Current, Located
<1>3. \A n : Ready(s, n) => Ready(u, n)
  BY DEF Ready
<1>4. MotorWait(s, b) => MotorWait(u, b)
  BY <1>2 DEF MotorWait
<1>5. SelectWait(s, b) => SelectWait(u, b)
  BY <1>2, <1>3 DEF SelectWait
<1>6. Commanded(s, b) => Commanded(u, b)
  BY <1>2, <1>3 DEF Commanded, Located
<1> QED
  BY <1>1, <1>4, <1>5, <1>6 DEF Works

\* The flags that last for one handler are lowered.
LEMMA Becomes ==
    ASSUME NEW s \in Driver, NEW n \in Nat, Works(s, 0), Modest(s, n), Become(s)
    PROVE  f' \in Driver /\ Works(f', 0) /\ Modest(f', n)
<1> DEFINE u == [s EXCEPT !.wake = {}, !.mute = FALSE, !.garbage = 0]
<1>1. f' = u
  BY DEF Become
<1>2. u \in Driver
  BY DEF Driver
<1>3. Alike(s, u) /\ u.queue = s.queue
  BY DEF Driver, Alike, SameDrive
<1> HIDE DEF u
<1>4. Works(u, 0)
  BY <1>3, AlikeWorks
<1> QED
  BY <1>1, <1>2, <1>3, <1>4 DEF Modest

\* A request may always have failed as often as one more.
LEMMA ModestGrows ==
    ASSUME NEW s \in Driver, NEW n \in Nat, NEW m \in Nat, n <= m, Modest(s, n)
    PROVE  Modest(s, m)
<1>1. ASSUME NEW i \in 1 .. Len(s.queue)
      PROVE  ~ s.queue[i].bad /\ s.queue[i].errors <= m
  <2>1. s.queue[i] \in Queued
    BY DEF Driver
  <2> QED
    BY <2>1 DEF Modest, Queued
<1> QED
  BY <1>1 DEF Modest

\* An interrupt has been answered, and the driver looks for what to do next.
Over(s, n) ==
    /\ s \in Driver /\ Free(s) /\ Modest(s, n)
    /\ Located(s) \/ s.recalibrate \/ s.reset
    /\ s.queue = <<>> => ~ s.reset /\ ~ s.recalibrate

\* The first request has been served.
LEMMA RequestEnded ==
    ASSUME NEW s \in Driver, NEW n \in Nat, s.queue # <<>>, Free(s), Modest(s, n),
           Located(s), ~ s.reset, ~ s.recalibrate
    PROVE  Over(end_request(floppy_deselect(s)), n)
<1> DEFINE d == Head(s.queue).drive
           u == [s EXCEPT !.selected = FALSE, !.wake = @ \cup {Select},
                          !.moff[d] = Short, !.queue = Tail(@)]
<1>1. end_request(floppy_deselect(s)) = u
  BY DEF end_request, floppy_deselect, floppy_off, Driver
<1>2. s.queue \in Seq(Queued) /\ Head(s.queue) \in Queued /\ Tail(s.queue) \in Seq(Queued)
  BY DEF Driver
<1>3. d \in Drives /\ Short \in Nat
  BY <1>2, Intervals DEF Queued
<1> HIDE DEF d
<1>4. u \in Driver
  BY <1>2, <1>3 DEF Driver, Sleeps
<1>5. /\ u.queue = Tail(s.queue) /\ u.timers = s.timers /\ u.command = s.command
      /\ u.do_floppy = s.do_floppy /\ u.reset = s.reset /\ u.recalibrate = s.recalibrate
      /\ u.current_track = s.current_track /\ u.current_drive = s.current_drive
      /\ u.head = s.head
  BY DEF Driver
<1> HIDE DEF u
<1>6. Modest(u, n)
  <2>1. Len(Tail(s.queue)) = Len(s.queue) - 1
    BY <1>2
  <2>2. \A i \in 1 .. Len(Tail(s.queue)) :
          Tail(s.queue)[i] = s.queue[i + 1] /\ i + 1 \in 1 .. Len(s.queue)
    BY <1>2, <2>1
  <2> QED
    BY <1>5, <2>2 DEF Modest
<1> QED
  BY <1>1, <1>4, <1>5, <1>6 DEF Over, Free, Located

\* The first request has failed once more, and is not given up for it.
LEMMA RequestFailed ==
    ASSUME NEW s \in Driver, NEW n \in Nat, s.queue # <<>>, Free(s), Modest(s, n),
           n < MAX_ERRORS
    PROVE  Over(bad_flp_intr(s), n + 1)
<1> DEFINE r == s.queue[1]
           e == [r EXCEPT !.errors = @ + 1]
           u == [s EXCEPT !.queue[1].errors = @ + 1]
<1>1. s.queue \in Seq(Queued) /\ 1 \in 1 .. Len(s.queue) /\ r \in Queued
  BY DEF Driver
<1>2. e \in Queued /\ e.bad = r.bad /\ e.errors = r.errors + 1
  BY <1>1 DEF Queued
<1>3. u.queue = [s.queue EXCEPT ![1] = e]
  BY DEF Driver
<1>4. /\ u.queue \in Seq(Queued) /\ Len(u.queue) = Len(s.queue) /\ u.queue[1] = e
      /\ u.queue # <<>> /\ Head(u.queue) = e
      /\ \A i \in 1 .. Len(s.queue) : i # 1 => u.queue[i] = s.queue[i]
  BY <1>1, <1>2, <1>3
<1>5. u \in Driver
  BY <1>4 DEF Driver
<1>6. u.timers = s.timers /\ u.command = s.command /\ u.do_floppy = s.do_floppy
  BY DEF Driver
<1> HIDE DEF u, e, r
<1>7. Modest(u, n + 1)
  <2>1. Modest(s, n + 1)
    BY ModestGrows
  <2>2. ~ r.bad /\ r.errors <= n
    BY <1>1 DEF Modest, r
  <2>3. e.errors <= n + 1 /\ ~ e.bad
    BY <1>1, <1>2, <2>2 DEF Queued
  <2> QED
    BY <1>4, <2>1, <2>3 DEF Modest
<1>8. GiveUp(u) = u
  <2>1. Head(u.queue).errors <= n + 1 /\ Head(u.queue).errors \in Nat
    BY <1>1, <1>2, <1>4, <1>7 DEF Modest, Queued
  <2> QED
    BY <2>1, Intervals DEF GiveUp
<1>9. bad_flp_intr(s) = Again(u)
  BY <1>8 DEF bad_flp_intr, u, Do
<1>10. \/ Again(u) = [u EXCEPT !.reset = TRUE]
       \/ Again(u) = [u EXCEPT !.recalibrate = TRUE]
  BY DEF Again
<1>11. ASSUME NEW v, v = [u EXCEPT !.reset = TRUE] \/ v = [u EXCEPT !.recalibrate = TRUE]
       PROVE  Over(v, n + 1)
  <2>1. v \in Driver /\ (v.reset \/ v.recalibrate)
        /\ v.queue = u.queue /\ v.timers = u.timers /\ v.command = u.command
        /\ v.do_floppy = u.do_floppy
    <3>1. CASE v = [u EXCEPT !.reset = TRUE]
      BY <1>5, <3>1 DEF Driver
    <3>2. CASE v = [u EXCEPT !.recalibrate = TRUE]
      BY <1>5, <3>2 DEF Driver
    <3> QED
      BY <1>11, <3>1, <3>2
  <2> QED
    BY <1>4, <1>6, <1>7, <2>1 DEF Over, Free, Modest
<1> QED
  BY <1>9, <1>10, <1>11

\* What follows when the driver looks for what to do next.
LEMMA GoesOn ==
    ASSUME NEW s, NEW n \in Nat, NEW m \in Nat, n <= m, Over(s, n)
    PROVE  LET u == do_fd_request(s) IN
           u \in Driver /\ Modest(u, m) /\ Works(u, 0)
<1>1. s \in Driver /\ Free(s) /\ Modest(s, m) /\ (Located(s) \/ s.recalibrate \/ s.reset)
      /\ (s.queue = <<>> => ~ s.reset /\ ~ s.recalibrate)
  BY ModestGrows DEF Over
<1>2. LET u == do_fd_request(s) IN u \in Driver /\ u.queue = s.queue /\ Works(u, 0)
  BY <1>1, RequestDone
<1> QED
  BY <1>1, <1>2 DEF Modest

-----------------------------------------------------------------------------
(* The interrupts of the controller.                                       *)

\* Faults are fewer than a request may have, the controller's replies are its
\* own, requests are within their diskettes, and interrupts that belong to no
\* command come while nothing is asked for.
Gentle ==
    /\ ~ WhenBusy /\ MaxFaults <= MAX_ERRORS /\ Outcomes \subseteq {"ok", "bad", "none"}
    /\ \A r \in Requests : ~ r.bad

\* A fault that happens is one less to come.
LEMMA FaultsCount ==
    ASSUME faults \in 0 .. MaxFaults, NEW b \in BOOLEAN, Mute(b)
    PROVE  /\ faults' \in 0 .. MaxFaults /\ MaxFaults - faults \in Nat
           /\ MaxFaults - faults' \in Nat /\ MaxFaults - faults <= MaxFaults - faults'
           /\ b => MaxFaults - faults' = MaxFaults - faults + 1 /\ MaxFaults - faults < MaxFaults
BY Intervals DEF Mute

\* A block has been read or written, or not.
LEMMA AfterTransfer ==
    ASSUME NEW s \in Driver, NEW n \in Nat, NEW m \in Nat, n <= m, Free(s), Modest(s, n),
           s.queue # <<>>, Located(s), ~ s.reset, ~ s.recalibrate,
           NEW e \in {"ok", "bad", "none"}, e # "ok" => m = n + 1 /\ n < MAX_ERRORS
    PROVE  LET u == rw_interrupt(s, e) IN u \in Driver /\ Modest(u, m) /\ Works(u, 0)
<1>1. CASE e = "ok"
  <2>1. Over(end_request(floppy_deselect(s)), n)
    BY RequestEnded
  <2> QED
    BY <1>1, <2>1, GoesOn DEF rw_interrupt, Do
<1>2. CASE e = "bad"
  <2>1. Over(bad_flp_intr(s), n + 1)
    BY <1>2, RequestFailed
  <2>2. rw_interrupt(s, e) = do_fd_request(bad_flp_intr(s))
    BY <1>2 DEF rw_interrupt, Do
  <2> QED
    BY <1>2, <2>1, <2>2, GoesOn
<1>3. CASE e = "none"
  <2> DEFINE v == [s EXCEPT !.reset = TRUE]
  <2>1. v \in Driver /\ v.queue = s.queue /\ Free(v) /\ Modest(v, n)
    BY DEF Driver, Free, Modest
  <2>2. rw_interrupt(s, e) = do_fd_request(bad_flp_intr(v))
    BY <1>3 DEF rw_interrupt, Do
  <2> HIDE DEF v
  <2>3. Over(bad_flp_intr(v), n + 1)
    BY <1>3, <2>1, RequestFailed
  <2> QED
    BY <1>3, <2>2, <2>3, GoesOn
<1> QED
  BY <1>1, <1>2, <1>3

\* The head has come to the track, or not.
LEMMA AfterSeek ==
    ASSUME NEW s \in Driver, NEW n \in Nat, NEW m \in Nat, n <= m, Free(s), Modest(s, n),
           s.queue # <<>>, ~ s.reset, ~ s.recalibrate, Ready(s, Settle + 0),
           s.current_drive = Head(s.queue).drive, s.seek_track = Head(s.queue).track,
           NEW e \in {"ok", "bad", "none"}, e # "ok" => m = n + 1 /\ n < MAX_ERRORS,
           e = "ok" => s.head[s.current_drive] = s.seek_track
    PROVE  LET u == seek_interrupt(s, e) IN u \in Driver /\ Modest(u, m) /\ Works(u, 0)
<1>1. CASE e = "ok"
  <2> DEFINE v == [s EXCEPT !.current_track = s.seek_track]
             c == Command("rw", v.current_drive, v.seek_track)
             u == [v EXCEPT !.do_floppy = "rw", !.command = c]
  <2>1. /\ v \in Driver /\ v.queue = s.queue /\ v.timers = s.timers
        /\ v.reset = s.reset /\ v.recalibrate = s.recalibrate
        /\ v.current_drive = s.current_drive /\ v.seek_track = s.seek_track
        /\ v.current_track = s.seek_track /\ v.head = s.head
        /\ v.selected = s.selected /\ v.sel = s.sel
        /\ v.motor = s.motor /\ v.mon = s.mon /\ v.moff = s.moff /\ v.mute = s.mute
    BY DEF Driver
  <2>2. seek_interrupt(s, e) = setup_rw_floppy(v)
    BY <1>1 DEF seek_interrupt, Do
  <2> HIDE DEF v
  <2>3. Modest(v, m)
    BY <2>1, ModestGrows DEF Modest
  <2>4. CASE v.mute
    <3>1. setup_rw_floppy(v) = reset_floppy(v) /\ v.timers = <<>> /\ v.queue # <<>>
      BY <2>1, <2>4 DEF setup_rw_floppy, Free
    <3>2. /\ reset_floppy(v) \in Driver /\ reset_floppy(v).queue = v.queue
          /\ Commanded(reset_floppy(v), 0)
      BY <2>1, <3>1, ResetGoes
    <3> QED
      BY <2>2, <2>3, <3>1, <3>2 DEF Modest, Works
  <2>5. CASE ~ v.mute
    <3>1. setup_rw_floppy(v) = u
      BY <2>5 DEF setup_rw_floppy
    <3>2. /\ u \in Driver /\ SameDrive(v, u) /\ u.timers = v.timers /\ u.do_floppy = "rw"
          /\ u.command = c /\ c.kind = "rw" /\ u.selected = v.selected /\ u.sel = v.sel
      BY <2>1, CommandGiven DEF Kinds
    <3> HIDE DEF u
    <3>3. Located(u) /\ u.current_track = u.seek_track
      BY <1>1, <2>1, <3>2 DEF Located, SameDrive
    <3>4. Current(u)
      BY <2>1, <3>2, <3>3 DEF Current, SameDrive
    <3>5. Ready(u, Settle + 0)
      BY <2>1, <3>2 DEF Ready, SameDrive
    <3>6. Commanded(u, 0)
      BY <2>1, <3>2, <3>3, <3>4, <3>5 DEF Commanded, Free, SameDrive
    <3> QED
      BY <2>2, <2>3, <3>1, <3>2, <3>6 DEF Modest, Works, SameDrive
  <2> QED
    BY <2>4, <2>5
<1>2. CASE e # "ok"
  <2> DEFINE v == [s EXCEPT !.reset = @ \/ e = "none"]
  <2>1. v \in Driver /\ v.queue = s.queue /\ Free(v) /\ Modest(v, n)
    BY DEF Driver, Free, Modest
  <2>2. seek_interrupt(s, e) = do_fd_request(bad_flp_intr(v))
    BY <1>2 DEF seek_interrupt, Do
  <2> HIDE DEF v
  <2>3. Over(bad_flp_intr(v), n + 1)
    BY <1>2, <2>1, RequestFailed
  <2> QED
    BY <1>2, <2>2, <2>3, GoesOn
<1> QED
  BY <1>1, <1>2

\* The head has come to track 0, or not.
LEMMA AfterRecalibration ==
    ASSUME NEW s \in Driver, NEW n \in Nat, NEW m \in Nat, n <= m, Free(s), Modest(s, n),
           s.queue # <<>>, ~ s.reset, s.current_track = 0,
           NEW e \in {"ok", "bad", "none"}, e = "ok" => s.head[s.current_drive] = 0
    PROVE  LET u == recal_interrupt(s, e) IN u \in Driver /\ Modest(u, m) /\ Works(u, 0)
<1> DEFINE v == IF e = "ok" THEN [s EXCEPT !.recalibrate = FALSE] ELSE [s EXCEPT !.reset = TRUE]
<1>1. recal_interrupt(s, e) = do_fd_request(v)
  BY DEF recal_interrupt, Do
<1>2. Over(v, n)
  <2>1. v \in Driver /\ v.queue = s.queue
    BY DEF Driver
  <2>2. Free(v) /\ Modest(v, n)
    BY DEF Driver, Free, Modest
  <2>3. Located(v) \/ v.reset
    BY DEF Driver, Located
  <2> HIDE DEF v
  <2> QED
    BY <2>1, <2>2, <2>3 DEF Over
<1> HIDE DEF v
<1> QED
  BY <1>1, <1>2, GoesOn

\* The controller has been reset, or has not.
LEMMA AfterReset ==
    ASSUME NEW s \in Driver, NEW n \in Nat, NEW m \in Nat, n <= m, Free(s), Modest(s, n),
           s.queue # <<>>, s.recalibrate
    PROVE  LET u == reset_interrupt(s) IN u \in Driver /\ Modest(u, m) /\ Works(u, 0)
<1> DEFINE v == [s EXCEPT !.reset = s.mute]
<1>1. v \in Driver /\ v.queue = s.queue /\ v.recalibrate
  BY DEF Driver
<1>2. Free(v) /\ Modest(v, n)
  BY DEF Driver, Free, Modest
<1>3. reset_interrupt(s) = do_fd_request(v)
  BY DEF reset_interrupt, Do
<1> HIDE DEF v
<1>4. Over(v, n)
  BY <1>1, <1>2 DEF Over
<1> QED
  BY <1>3, <1>4, GoesOn

\* A step that leaves the driver in order keeps the invariant.
LEMMA InOrder ==
    ASSUME FloppyInv, NEW b \in BOOLEAN, Mute(b), NEW u, Become(u),
           u \in Driver, Works(u, 0), Modest(u, MaxFaults - faults'), nr' = nr
    PROVE  FloppyInv'
<1>1. faults' \in 0 .. MaxFaults /\ MaxFaults - faults' \in Nat
  BY FaultsCount DEF FloppyInv
<1>2. f' \in Driver /\ Works(f', 0) /\ Modest(f', MaxFaults - faults')
  BY <1>1, Becomes
<1>3. (f \in Driver)' /\ (nr \in [Askers -> Drives])' /\ (faults \in 0 .. MaxFaults)'
  BY <1>1, <1>2 DEF FloppyInv
<1>4. Modest(f, MaxFaults - faults)'
  BY <1>2 DEF Modest
<1>5. Works(f, 0)'
  BY <1>2 DEF Works, Resting, MotorWait, SelectWait, Commanded, Current, Ready, Located, Free
<1> QED
  BY <1>3, <1>4, <1>5 DEF FloppyInv

\* Where the heads may be after a command.
LEMMA HeadsStay ==
    ASSUME f \in Driver, NEW e, NEW head \in HeadAfter(f.command, e)
    PROVE  /\ head \in [Drives -> Tracks]
           /\ f.command.kind \in {"seek", "recal"} /\ e = "ok" =>
                head[f.command.drive] = f.command.track
           /\ f.command.kind \notin {"seek", "recal"} => head = f.head
<1>1. /\ f.head \in [Drives -> Tracks] /\ f.command.drive \in Drives
      /\ f.command.track \in Tracks
  BY DEF Driver
<1> QED
  BY <1>1 DEF HeadAfter

\* The controller answers.
LEMMA AnswerKeeps ==
    ASSUME Gentle, FloppyInv, Answer
    PROVE  FloppyInv'
<1> DEFINE c == f.command
           lost == c.kind = "rw" /\ f.head[c.drive] # c.track
           S(head, mute, garbage) ==
             [f EXCEPT !.head = head, !.command.kind = Nothing, !.do_floppy = Nothing,
                       !.mute = mute, !.garbage = garbage]
           After(s, e) == CASE f.do_floppy = "rw" -> rw_interrupt(s, e)
                            [] f.do_floppy = "seek" -> seek_interrupt(s, e)
                            [] f.do_floppy = "recal" -> recal_interrupt(s, e)
                            [] f.do_floppy = "reset" -> reset_interrupt(s)
<1>1. /\ c.kind # Nothing /\ nr' = nr
      /\ \E e \in Ends(c), mute \in BOOLEAN, garbage \in {0, MAX_ERRORS} :
         \E head \in HeadAfter(c, e) :
           /\ mute => e = "ok"
           /\ Mute(mute \/ (e \in {"bad", "stale", "none"} /\ ~ lost))
           /\ Become(After(S(head, mute, garbage), e))
  BY DEF Answer
<1> HIDE DEF S, After
<1>1a. PICK e \in Ends(c), mute \in BOOLEAN, garbage \in {0, MAX_ERRORS} :
         \E head \in HeadAfter(c, e) :
           /\ mute => e = "ok"
           /\ Mute(mute \/ (e \in {"bad", "stale", "none"} /\ ~ lost))
           /\ Become(After(S(head, mute, garbage), e))
  BY <1>1
<1>2. PICK head \in HeadAfter(c, e) :
           /\ mute => e = "ok"
           /\ Mute(mute \/ (e \in {"bad", "stale", "none"} /\ ~ lost))
           /\ Become(After(S(head, mute, garbage), e))
  BY <1>1a
<1> DEFINE s == S(head, mute, garbage)
           n == MaxFaults - faults
           m == MaxFaults - faults'
<1>3. f \in Driver /\ Modest(f, n) /\ Commanded(f, 0)
  BY <1>1 DEF FloppyInv, Works, Resting, MotorWait, SelectWait, Free
<1>4. /\ head \in [Drives -> Tracks]
      /\ c.kind \in {"seek", "recal"} /\ e = "ok" => head[c.drive] = c.track
      /\ c.kind \notin {"seek", "recal"} => head = f.head
  BY <1>3, HeadsStay
<1>5. garbage \in Nat
  BY Intervals
<1>6. /\ s \in Driver /\ s.head = head /\ s.command.kind = Nothing
      /\ s.do_floppy = Nothing /\ s.mute = mute
      /\ s.queue = f.queue /\ s.timers = f.timers /\ s.reset = f.reset
      /\ s.recalibrate = f.recalibrate /\ s.seek = f.seek
      /\ s.current_drive = f.current_drive /\ s.current_track = f.current_track
      /\ s.seek_track = f.seek_track /\ s.selected = f.selected /\ s.sel = f.sel
      /\ s.motor = f.motor /\ s.mon = f.mon /\ s.moff = f.moff
  <2>1. head \in [Drives -> Tracks] /\ garbage \in Nat /\ mute \in BOOLEAN /\ f \in Driver
    BY <1>3, <1>4, <1>5
  <2> QED
    BY <2>1 DEF S, Driver
<1>7. ~ lost
  BY <1>3 DEF Commanded, Located, Command, Current, Driver
<1> DEFINE fault == mute \/ (e \in {"bad", "stale", "none"} /\ ~ lost)
<1>8. fault \in BOOLEAN /\ Mute(fault) /\ faults \in 0 .. MaxFaults
  BY <1>2 DEF FloppyInv
<1> HIDE DEF lost, fault
<1>9. /\ n \in Nat /\ m \in Nat /\ n <= m
      /\ fault => m = n + 1 /\ n < MaxFaults
  BY <1>8, FaultsCount
<1>10. e \in {"ok", "bad", "none"}
  BY <1>1, <1>3, <1>7 DEF Ends, Gentle, Driver, Kinds, lost
<1>11. e # "ok" => m = n + 1 /\ n < MAX_ERRORS
  BY <1>7, <1>9, <1>10, Intervals DEF fault, Gentle
<1>12. Free(s) /\ Modest(s, n) /\ s.queue # <<>>
  BY <1>3, <1>6 DEF Free, Modest, Commanded, Current
<1>13. f.do_floppy = c.kind
  BY <1>3 DEF Commanded
<1> DEFINE u == After(s, e)
<1>14. Become(u)
  BY <1>2
<1> HIDE DEF s, n, m
<1>15. u \in Driver /\ Modest(u, m) /\ Works(u, 0)
  <2>1. CASE c.kind = "rw"
    <3>1. Located(s) /\ ~ s.reset /\ ~ s.recalibrate
      BY <1>3, <1>4, <1>6, <2>1 DEF Commanded, Command, Current, Located
    <3>2. u = rw_interrupt(s, e)
      BY <1>13, <2>1 DEF After
    <3> QED
      BY <1>6, <1>9, <1>10, <1>11, <1>12, <3>1, <3>2, AfterTransfer
  <2>2. CASE c.kind = "seek"
    <3>1. Current(f) /\ Ready(f, Settle + 0) /\ c = Command("seek", f.current_drive, f.seek_track)
      BY <1>3, <2>2 DEF Commanded, Command
    <3>2. /\ ~ s.reset /\ ~ s.recalibrate /\ Ready(s, Settle + 0)
          /\ s.current_drive = Head(s.queue).drive /\ s.seek_track = Head(s.queue).track
      BY <1>6, <3>1 DEF Current, Ready
    <3>3. e = "ok" => s.head[s.current_drive] = s.seek_track
      BY <1>4, <1>6, <2>2, <3>1 DEF Command
    <3>4. u = seek_interrupt(s, e)
      BY <1>13, <2>2 DEF After
    <3> QED
      BY <1>6, <1>9, <1>10, <1>11, <1>12, <3>2, <3>3, <3>4, AfterSeek
  <2>3. CASE c.kind = "recal"
    <3>1. /\ c = Command("recal", f.current_drive, 0) /\ ~ f.reset /\ f.current_track = 0
      BY <1>3, <2>3 DEF Commanded, Command
    <3>2. e = "ok" => s.head[s.current_drive] = 0
      BY <1>4, <1>6, <2>3, <3>1 DEF Command
    <3>3. u = recal_interrupt(s, e)
      BY <1>13, <2>3 DEF After
    <3> QED
      BY <1>6, <1>9, <1>10, <1>12, <3>1, <3>2, <3>3, AfterRecalibration
  <2>4. CASE c.kind = "reset"
    <3>1. f.recalibrate
      BY <1>3, <2>4 DEF Commanded, Command
    <3>2. u = reset_interrupt(s)
      BY <1>13, <2>4 DEF After
    <3> QED
      BY <1>6, <1>9, <1>12, <3>1, <3>2, AfterReset
  <2> QED
    BY <1>1, <1>3, <2>1, <2>2, <2>3, <2>4 DEF Driver, Kinds
<1> HIDE DEF u
<1> QED
  BY <1>1, <1>8, <1>14, <1>15, InOrder DEF m

-----------------------------------------------------------------------------
(* The clock.                                                              *)

\* A motor that is to be up to speed comes nearer to it; one that is spends its time.
LEMMA MotorsCounted ==
    ASSUME NEW s \in Driver
    PROVE  LET u == do_floppy_timer(s) IN
           /\ u \in Driver /\ u.queue = s.queue /\ u.timers = s.timers
           /\ u.do_floppy = s.do_floppy /\ u.command = s.command
           /\ u.current_drive = s.current_drive /\ u.seek_track = s.seek_track
           /\ u.reset = s.reset /\ u.recalibrate = s.recalibrate /\ u.seek = s.seek
           /\ u.current_track = s.current_track /\ u.head = s.head
           /\ u.selected = s.selected /\ u.sel = s.sel
           /\ \A d \in Drives :
                /\ s.motor[d] /\ s.mon[d] > 0 =>
                     u.motor[d] /\ u.mon[d] = s.mon[d] - 1 /\ u.moff[d] = s.moff[d]
                /\ s.motor[d] /\ s.mon[d] = 0 /\ s.moff[d] > 0 =>
                     u.motor[d] /\ u.mon[d] = 0 /\ u.moff[d] = s.moff[d] - 1
<1> DEFINE turning == {d \in Drives : s.motor[d]}
           spinning == {d \in turning : s.mon[d] > 0}
           stopping == {d \in turning \ spinning : s.moff[d] = 0}
           mon == [d \in Drives |-> s.mon[d] - (IF d \in spinning THEN 1 ELSE 0)]
           moff == [d \in Drives |->
                      s.moff[d] - (IF d \in turning \ (spinning \cup stopping) THEN 1 ELSE 0)]
           motor == [d \in Drives |-> s.motor[d] /\ d \notin stopping]
           wake == s.wake \cup {Motor(d) : d \in {c \in spinning : s.mon[c] = 1}}
           u == [s EXCEPT !.mon = mon, !.moff = moff, !.motor = motor, !.wake = wake]
<1>1. do_floppy_timer(s) = u
  BY DEF do_floppy_timer, Driver
<1>2. /\ s.motor \in [Drives -> BOOLEAN] /\ s.mon \in [Drives -> Nat]
      /\ s.moff \in [Drives -> Nat] /\ s.wake \in SUBSET Sleeps
  BY DEF Driver
<1>3. mon \in [Drives -> Nat] /\ moff \in [Drives -> Nat]
  BY <1>2
<1>4. motor \in [Drives -> BOOLEAN] /\ wake \in SUBSET Sleeps
  BY <1>2 DEF Sleeps
<1>5. \A d \in Drives :
        /\ s.motor[d] /\ s.mon[d] > 0 =>
             motor[d] /\ mon[d] = s.mon[d] - 1 /\ moff[d] = s.moff[d]
        /\ s.motor[d] /\ s.mon[d] = 0 /\ s.moff[d] > 0 =>
             motor[d] /\ mon[d] = 0 /\ moff[d] = s.moff[d] - 1
  BY <1>2
<1> HIDE DEF mon, moff, motor, wake
<1>6. u \in Driver
  BY <1>3, <1>4 DEF Driver
<1>7. /\ u.queue = s.queue /\ u.timers = s.timers
      /\ u.do_floppy = s.do_floppy /\ u.command = s.command
      /\ u.current_drive = s.current_drive /\ u.seek_track = s.seek_track
      /\ u.reset = s.reset /\ u.recalibrate = s.recalibrate /\ u.seek = s.seek
      /\ u.current_track = s.current_track /\ u.head = s.head
      /\ u.selected = s.selected /\ u.sel = s.sel
      /\ u.mon = mon /\ u.moff = moff /\ u.motor = motor
  BY DEF Driver
<1> HIDE DEF u
<1> QED
  BY <1>1, <1>5, <1>6, <1>7

\* So what the driver waits for is there after the motors are counted.
LEMMA TimeCounts ==
    ASSUME NEW s \in Driver, Works(s, 1)
    PROVE  LET u == do_floppy_timer(s) IN
           u \in Driver /\ u.queue = s.queue /\ Works(u, 0)
<1> DEFINE u == do_floppy_timer(s)
           d == s.current_drive
<1>1. /\ u \in Driver /\ u.queue = s.queue /\ u.timers = s.timers
      /\ u.do_floppy = s.do_floppy /\ u.command = s.command
      /\ u.current_drive = s.current_drive /\ u.seek_track = s.seek_track
      /\ u.reset = s.reset /\ u.recalibrate = s.recalibrate /\ u.seek = s.seek
      /\ u.current_track = s.current_track /\ u.head = s.head
      /\ u.selected = s.selected /\ u.sel = s.sel
      /\ \A e \in Drives :
           /\ s.motor[e] /\ s.mon[e] > 0 =>
                u.motor[e] /\ u.mon[e] = s.mon[e] - 1 /\ u.moff[e] = s.moff[e]
           /\ s.motor[e] /\ s.mon[e] = 0 /\ s.moff[e] > 0 =>
                u.motor[e] /\ u.mon[e] = 0 /\ u.moff[e] = s.moff[e] - 1
  BY MotorsCounted
<1> HIDE DEF u
<1>2. d \in Drives /\ s.mon[d] \in Nat /\ s.moff[d] \in Nat /\ s.timers \in Seq(Timer)
  BY DEF Driver
<1>3. /\ s.motor[d] /\ s.mon[d] > 0 =>
           u.motor[d] /\ u.mon[d] = s.mon[d] - 1 /\ u.moff[d] = s.moff[d]
      /\ s.motor[d] /\ s.mon[d] = 0 /\ s.moff[d] > 0 =>
           u.motor[d] /\ u.mon[d] = 0 /\ u.moff[d] = s.moff[d] - 1
  BY <1>1, <1>2
<1>4. Current(s) => Current(u)
  BY <1>1 DEF Current, Located
<1>5. CASE Resting(s)
  <2>1. Resting(u)
    BY <1>1, <1>5 DEF Resting, Free, Located
  <2> QED
    BY <1>1, <2>1 DEF Works, u
<1>6. Len(s.timers) = 1 => s.timers[1].jiffies \in Nat
  <2>1. Len(s.timers) = 1 => s.timers[1] \in Timer
    BY <1>2
  <2> QED
    BY <2>1 DEF Timer
<1>7. CASE MotorWait(s, 1)
  <2>1. MotorWait(u, 0)
    <3> DEFINE j == s.timers[1].jiffies
               m == s.mon[d]
    <3>1. /\ Current(s) /\ s.command.kind = Nothing /\ s.do_floppy = Nothing
          /\ Len(s.timers) = 1 /\ s.timers[1].fn = "floppy_on"
          /\ j \in Nat /\ m \in Nat /\ 0 < j
          /\ s.motor[d] /\ Short <= s.moff[d] /\ j + 1 <= m /\ (m <= j + 1 \/ m <= Settle)
      BY <1>2, <1>6, <1>7 DEF MotorWait
    <3> HIDE DEF j, m
    <3>2. 0 < m /\ j <= m - 1 /\ (m - 1 <= j \/ m - 1 <= Settle)
      BY <3>1, Intervals
    <3>3. u.motor[d] /\ u.mon[d] = m - 1 /\ u.moff[d] = s.moff[d]
      BY <1>3, <3>1, <3>2 DEF m
    <3>4. /\ Current(u) /\ u.command.kind = Nothing /\ u.do_floppy = Nothing
          /\ Len(u.timers) = 1 /\ u.timers[1].fn = "floppy_on" /\ u.timers[1].jiffies = j
          /\ u.current_drive = d
      BY <1>1, <1>4, <3>1 DEF j
    <3> QED
      BY <3>1, <3>2, <3>3, <3>4 DEF MotorWait
  <2> QED
    BY <1>1, <2>1 DEF Works, u
<1>8. CASE SelectWait(s, 1)
  <2> DEFINE j == s.timers[1].jiffies
  <2>1. /\ Current(s) /\ s.command.kind = Nothing /\ s.do_floppy = Nothing
        /\ Len(s.timers) = 1 /\ s.timers[1].fn = "transfer" /\ j \in Nat
        /\ s.selected /\ s.sel = d /\ s.motor[d] /\ s.mon[d] < Settle + 1
        /\ 0 < j /\ j <= Settle /\ (s.mon[d] = 0 => Short + j + 1 <= s.moff[d] + Settle)
        /\ Short + j <= s.moff[d] + Settle
    BY <1>6, <1>8 DEF SelectWait, Ready
  <2> HIDE DEF j
  <2>2. /\ u.motor[d] /\ u.mon[d] < Settle /\ Short + j <= u.moff[d] + Settle
    <3>1. (s.mon[d] > 0 \/ s.moff[d] > 0) /\ u.mon[d] < Settle /\ Short + j <= u.moff[d] + Settle
      <4>1. u.mon[d] \in Nat /\ u.moff[d] \in Nat /\ s.mon[d] \in Nat /\ s.moff[d] \in Nat
        BY <1>1, <1>2 DEF Driver
      <4>2. /\ s.mon[d] > 0 => u.mon[d] = s.mon[d] - 1 /\ u.moff[d] = s.moff[d]
            /\ s.mon[d] = 0 /\ s.moff[d] > 0 => u.mon[d] = 0 /\ u.moff[d] = s.moff[d] - 1
        BY <1>3, <2>1
      <4>3. j \in Nat /\ 0 < j /\ s.mon[d] < Settle + 1 /\ Short + j <= s.moff[d] + Settle
            /\ (s.mon[d] = 0 => Short + j + 1 <= s.moff[d] + Settle)
        BY <2>1
      <4> DEFINE m == s.mon[d]
                 o == s.moff[d]
                 m1 == u.mon[d]
                 o1 == u.moff[d]
      <4>4. /\ m \in Nat /\ o \in Nat /\ m1 \in Nat /\ o1 \in Nat /\ j \in Nat /\ 0 < j
            /\ m < Settle + 1 /\ (m = 0 => Short + j + 1 <= o + Settle)
            /\ Short + j <= o + Settle
            /\ m > 0 => m1 = m - 1 /\ o1 = o
            /\ m = 0 /\ o > 0 => m1 = 0 /\ o1 = o - 1
        BY <4>1, <4>2, <4>3
      <4> HIDE DEF m, o, m1, o1
      <4>5. (m > 0 \/ o > 0) /\ m1 < Settle /\ Short + j <= o1 + Settle
        BY <4>4, SelectCount
      <4> QED
        BY <4>5 DEF m, o, m1, o1
    <3> QED
      BY <1>2, <1>3, <2>1, <3>1
  <2>3. SelectWait(u, 0)
    <3>1. /\ Current(u) /\ u.command.kind = Nothing /\ u.do_floppy = Nothing
          /\ Len(u.timers) = 1 /\ u.timers[1].fn = "transfer" /\ u.timers[1].jiffies = j
          /\ u.current_drive = d /\ u.selected /\ u.sel = d
      BY <1>1, <1>4, <2>1 DEF j
    <3>2. Short + j + 0 <= u.moff[d] + Settle /\ u.mon[d] < Settle + 0
      BY <1>1, <1>2, <2>1, <2>2, Intervals DEF Driver
    <3> QED
      BY <2>1, <2>2, <3>1, <3>2 DEF SelectWait, Ready
  <2> QED
    BY <1>1, <2>3 DEF Works, u
<1>9. CASE Commanded(s, 1)
  <2>1. Ready(s, Settle + 1) /\ (s.mon[d] = 0 => 0 < s.moff[d]) => Ready(u, Settle + 0)
    BY <1>1, <1>2, <1>3, Intervals DEF Ready
  <2>2. Located(s) => Located(u)
    BY <1>1 DEF Located
  <2>3. Commanded(u, 0)
    BY <1>1, <1>4, <1>9, <2>1, <2>2 DEF Commanded
  <2> QED
    BY <1>1, <2>3 DEF Works, u
<1> QED
  BY <1>5, <1>7, <1>8, <1>9 DEF Works

\* After a timer's function no timer is due.
LEMMA NothingDue ==
    ASSUME NEW s, NEW b, Works(s, b)
    PROVE  Fire(s) = s
BY DEF Works, Resting, Free, MotorWait, SelectWait, Commanded, Fire

\* The first timer has come one tick nearer, and its function is called if it is due.
LEMMA TimerRuns ==
    ASSUME NEW s0 \in Driver, Works(s0, 0), NEW mute \in BOOLEAN,
           s0.command.kind \in {"seek", "rw", "recal"} => s0.moff[s0.command.drive] > 0
    PROVE  LET due == IF s0.timers = <<>> THEN <<>>
                      ELSE [s0.timers EXCEPT ![1].jiffies = @ - 1]
               s == [s0 EXCEPT !.timers = due, !.mute = mute]
               u == Fire(s) IN
           u \in Driver /\ u.queue = s0.queue /\ Works(u, 1)
<1> DEFINE due == IF s0.timers = <<>> THEN <<>> ELSE [s0.timers EXCEPT ![1].jiffies = @ - 1]
           s == [s0 EXCEPT !.timers = due, !.mute = mute]
           d == s0.current_drive
           t == s0.timers[1]
           e == [t EXCEPT !.jiffies = @ - 1]
<1>1. d \in Drives /\ s0.mon[d] \in Nat /\ s0.moff[d] \in Nat /\ s0.timers \in Seq(Timer)
  BY DEF Driver
<1>2. CASE s0.timers = <<>>
  <2>1. due = <<>>
    BY <1>2
  <2> HIDE DEF due
  <2>2. s \in Driver /\ SameDrive(s0, s) /\ s.timers = <<>> /\ s.command = s0.command
        /\ s.do_floppy = s0.do_floppy /\ s.selected = s0.selected /\ s.sel = s0.sel
    BY <1>2, <2>1 DEF Driver, SameDrive
  <2>3. Fire(s) = s
    BY <2>2 DEF Fire
  <2> HIDE DEF s
  <2>4. CASE Resting(s0)
    <3>1. Resting(s)
      BY <2>2, <2>4 DEF Resting, Free, Located, SameDrive
    <3> QED
      BY <2>2, <2>3, <3>1 DEF Works, SameDrive, s, due
  <2>5. CASE Commanded(s0, 0)
    <3>1. Current(s0) => Current(s)
      BY <2>2 DEF Current, Located, SameDrive
    <3>2. Ready(s0, Settle + 0) => Ready(s, Settle + 1)
      BY <1>1, <2>2, Intervals DEF Ready, SameDrive
    <3>3. s0.command.kind \in {"seek", "rw"} => s0.command.drive = d
      BY <2>5 DEF Commanded, Command
    <3>4. s.command.kind \in {"seek", "rw"} => 0 < s.moff[s.current_drive]
      BY <1>1, <2>2, <3>3 DEF SameDrive
    <3>5. Located(s0) => Located(s)
      BY <2>2 DEF Located, SameDrive
    <3>6. Commanded(s, 1)
      BY <2>2, <2>5, <3>1, <3>2, <3>4, <3>5 DEF Commanded, SameDrive, Command
    <3> QED
      BY <2>2, <2>3, <3>6 DEF Works, SameDrive, s, due
  <2> QED
    BY <1>2, <2>4, <2>5 DEF Works, MotorWait, SelectWait
<1>3. CASE s0.timers # <<>>
  <2>1. /\ Current(s0) /\ Len(s0.timers) = 1 /\ 0 < t.jiffies
        /\ s0.command.kind = Nothing /\ s0.do_floppy = Nothing
    BY <1>3 DEF Works, Resting, Free, MotorWait, SelectWait, Commanded
  <2>2. t \in Timer
    BY <1>1, <2>1
  <2>3. e \in Timer /\ e.jiffies = t.jiffies - 1 /\ e.fn = t.fn
    BY <2>1, <2>2 DEF Timer
  <2>4. due = [s0.timers EXCEPT ![1] = e]
    BY <1>3
  <2> HIDE DEF e, due
  <2>5. due \in Seq(Timer) /\ Len(due) = 1 /\ due[1] = e /\ due # <<>> /\ Head(due) = e
    BY <1>1, <2>1, <2>3, <2>4
  <2>6. s \in Driver /\ SameDrive(s0, s) /\ s.timers = due /\ s.command = s0.command
        /\ s.do_floppy = s0.do_floppy /\ s.selected = s0.selected /\ s.sel = s0.sel
    BY <2>5 DEF Driver, SameDrive
  <2> HIDE DEF s
  <2>7. Current(s)
    BY <2>1, <2>6 DEF Current, Located, SameDrive
  <2>8. CASE t.jiffies > 1
    <3>1. Fire(s) = s
      BY <2>3, <2>5, <2>6, <2>8, <2>2 DEF Fire, Timer
    <3>2. MotorWait(s0, 0) => MotorWait(s, 1)
      <4>1. /\ Current(s) /\ s.command.kind = Nothing /\ s.do_floppy = Nothing
            /\ Len(s.timers) = 1 /\ s.timers[1].fn = t.fn /\ s.timers[1].jiffies = t.jiffies - 1
            /\ s.current_drive = d /\ s.mon[d] = s0.mon[d] /\ s.moff[d] = s0.moff[d]
            /\ s.motor[d] = s0.motor[d]
        BY <2>1, <2>3, <2>5, <2>6, <2>7 DEF SameDrive
      <4>2. ASSUME MotorWait(s0, 0)
            PROVE  /\ t.fn = "floppy_on" /\ s0.motor[d] /\ Short <= s0.moff[d]
                   /\ t.jiffies <= s0.mon[d]
                   /\ s0.mon[d] <= t.jiffies \/ s0.mon[d] <= Settle
        BY <1>1, <2>2, <4>2 DEF MotorWait, Timer
      <4>3. t.jiffies \in Nat
        BY <2>2 DEF Timer
      <4> QED
        BY <1>1, <2>8, <4>1, <4>2, <4>3 DEF MotorWait
    <3>3. SelectWait(s0, 0) => SelectWait(s, 1)
      <4>1. Ready(s0, Settle + 0) => Ready(s, Settle + 1)
        BY <1>1, <2>6, Intervals DEF Ready, SameDrive
      <4>2. /\ Current(s) /\ s.command.kind = Nothing /\ s.do_floppy = Nothing
            /\ Len(s.timers) = 1 /\ s.timers[1].fn = t.fn /\ s.timers[1].jiffies = t.jiffies - 1
            /\ s.current_drive = d /\ s.mon[d] = s0.mon[d] /\ s.moff[d] = s0.moff[d]
        BY <2>1, <2>3, <2>5, <2>6, <2>7 DEF SameDrive
      <4>3. ASSUME SelectWait(s0, 0)
            PROVE  /\ t.fn = "transfer" /\ Ready(s0, Settle + 0)
                   /\ t.jiffies <= Settle /\ Short + t.jiffies <= s0.moff[d] + Settle
        BY <4>3 DEF SelectWait
      <4>4. t.jiffies \in Nat
        BY <2>2 DEF Timer
      <4>5. ASSUME NEW j \in Nat, j > 1, j <= Settle, Short + j <= s0.moff[d] + Settle
            PROVE  /\ 0 < j - 1 /\ j - 1 <= Settle
                   /\ Short + (j - 1) <= s0.moff[d] + Settle
                   /\ Short + (j - 1) + 1 <= s0.moff[d] + Settle
        BY <1>1, <4>5, SelectTick
      <4> QED
        BY <2>8, <4>1, <4>2, <4>3, <4>4, <4>5 DEF SelectWait
    <3>4. Works(s, 1)
      BY <1>3, <3>2, <3>3 DEF Works, Resting, Free, Commanded
    <3> QED
      BY <2>6, <3>1, <3>4 DEF SameDrive, s, due
  <2>9. CASE t.jiffies = 1
    <3> DEFINE v == [s EXCEPT !.timers = Tail(@)]
    <3>1. Tail(due) = <<>> /\ Tail(due) \in Seq(Timer)
      <4>1. Tail(due) \in Seq(Timer) /\ Len(Tail(due)) = 0
        BY <2>5
      <4>2. ASSUME NEW l \in Seq(Timer), Len(l) = 0 PROVE l = <<>>
        BY <4>2
      <4> QED
        BY <4>1, <4>2
    <3>2. v \in Driver /\ SameDrive(s, v) /\ v.timers = <<>> /\ v.command = s.command
          /\ v.do_floppy = s.do_floppy /\ v.selected = s.selected /\ v.sel = s.sel
      <4>1. s.timers = due /\ v = [s EXCEPT !.timers = Tail(s.timers)]
        BY <2>6
      <4>2. v = [s EXCEPT !.timers = Tail(due)]
        BY <4>1
      <4> HIDE DEF v
      <4> QED
        BY <2>6, <3>1, <4>2 DEF Driver, SameDrive
    <3>3. Fire(s) = IF t.fn = "transfer" THEN transfer(v) ELSE floppy_on_interrupt(v)
      BY <2>3, <2>5, <2>6, <2>9 DEF Fire
    <3> HIDE DEF v
    <3>4. SameDrive(s0, v) /\ v.selected = s0.selected /\ v.sel = s0.sel
      BY <2>6, <3>2 DEF SameDrive
    <3>5. Current(v) /\ Free(v)
      BY <2>1, <2>6, <2>7, <3>2 DEF Current, Free, Located, SameDrive
    <3>6. CASE MotorWait(s0, 0)
      <4>1. /\ v.motor[v.current_drive] /\ v.mon[v.current_drive] < Settle + 1
            /\ Short <= v.moff[v.current_drive] /\ 0 < v.mon[v.current_drive]
        BY <1>1, <2>9, <3>4, <3>6, Intervals DEF MotorWait, SameDrive
      <4>2. LET u == floppy_on_interrupt(v) IN
            u \in Driver /\ u.queue = v.queue /\ (SelectWait(u, 1) \/ Commanded(u, 1))
        BY <3>2, <3>5, <4>1, SelectionGoes
      <4>3. t.fn = "floppy_on"
        BY <3>6 DEF MotorWait
      <4> QED
        BY <3>3, <3>4, <4>2, <4>3 DEF Works, SameDrive, s, due
    <3>7. CASE SelectWait(s0, 0)
      <4>1. /\ Ready(v, Settle + 1) /\ t.fn = "transfer" /\ 0 < v.moff[v.current_drive]
        BY <1>1, <2>9, <3>4, <3>7, Intervals DEF SelectWait, Ready, SameDrive
      <4>2. transfer(v) \in Driver /\ transfer(v).queue = v.queue /\ Commanded(transfer(v), 1)
        BY <3>2, <3>5, <4>1, TransferGoes
      <4> QED
        BY <3>3, <3>4, <4>1, <4>2 DEF Works, SameDrive, s, due
    <3> QED
      BY <1>3, <3>6, <3>7 DEF Works, Resting, Free, Commanded
  <2> QED
    BY <2>1, <2>2, <2>8, <2>9 DEF Timer
<1> QED
  BY <1>2, <1>3

\* The clock ticks.
LEMMA TickKeeps ==
    ASSUME FloppyInv, Tick
    PROVE  FloppyInv'
<1> DEFINE due == IF f.timers = <<>> THEN <<>> ELSE [f.timers EXCEPT ![1].jiffies = @ - 1]
           S(mute) == [f EXCEPT !.timers = due, !.mute = mute]
<1>1. /\ f.command.kind \in {"seek", "rw", "recal"} => f.moff[f.command.drive] > 0
      /\ nr' = nr
      /\ \E mute \in BOOLEAN : Mute(mute) /\ Become(do_floppy_timer(Fire(Fire(S(mute)))))
  BY DEF Tick, Do
<1>2. PICK mute \in BOOLEAN : Mute(mute) /\ Become(do_floppy_timer(Fire(Fire(S(mute)))))
  BY <1>1
<1> DEFINE n == MaxFaults - faults
           m == MaxFaults - faults'
           s == Fire(S(mute))
           u == do_floppy_timer(s)
<1>3. f \in Driver /\ Modest(f, n) /\ Works(f, 0) /\ faults \in 0 .. MaxFaults
  BY DEF FloppyInv
<1>4. s \in Driver /\ s.queue = f.queue /\ Works(s, 1)
  BY <1>1, <1>3, TimerRuns
<1>5. n \in Nat /\ m \in Nat /\ n <= m
  BY <1>2, <1>3, FaultsCount
<1>6. Modest(f, m)
  BY <1>3, <1>5, ModestGrows
<1> HIDE DEF s, S, m
<1>7. u \in Driver /\ u.queue = s.queue /\ Works(u, 0)
  BY <1>4, TimeCounts
<1>8. Become(u)
  BY <1>2, <1>4, NothingDue DEF s
<1> HIDE DEF u
<1>9. Modest(u, m)
  BY <1>4, <1>6, <1>7 DEF Modest
<1> QED
  BY <1>1, <1>2, <1>7, <1>8, <1>9, InOrder DEF m

-----------------------------------------------------------------------------
(* Tasks and requests.                                                     *)

\* Steps of tasks that leave the driver's queue and commands alone.
LEMMA TaskKeeps ==
    ASSUME FloppyInv, nr' = nr, faults' = faults,
           f' \in Driver, f'.queue = f.queue, Works(f', 0)
    PROVE  FloppyInv'
<1>1. Modest(f', MaxFaults - faults')
  BY DEF FloppyInv, Modest
<1>2. Modest(f, MaxFaults - faults)'
  BY <1>1 DEF Modest
<1>3. Works(f, 0)'
  BY DEF Works, Resting, MotorWait, SelectWait, Commanded, Current, Ready, Located, Free
<1> QED
  BY <1>2, <1>3 DEF FloppyInv

\* A task that starts a motor does not disturb the drive that is waited for.
LEMMA FloppyOnKeeps ==
    ASSUME FloppyInv, NEW t \in Askers, FloppyOn(t)
    PROVE  FloppyInv'
<1> DEFINE d == nr[t]
           c == f.current_drive
           u == ticks_to_floppy_on(f, d)
<1>1. f' = u /\ nr' = nr /\ faults' = faults
  BY DEF FloppyOn
<1>2. f \in Driver /\ d \in Drives /\ Works(f, 0)
  BY DEF FloppyInv
<1>3. /\ u \in Driver /\ u.queue = f.queue /\ u.timers = f.timers
      /\ u.do_floppy = f.do_floppy /\ u.command = f.command
      /\ u.current_drive = f.current_drive /\ u.seek_track = f.seek_track
      /\ u.reset = f.reset /\ u.recalibrate = f.recalibrate /\ u.seek = f.seek
      /\ u.current_track = f.current_track /\ u.head = f.head
      /\ u.selected = f.selected /\ (f.selected => u.sel = f.sel)
      /\ u.motor[d] /\ u.moff[d] = Long
      /\ f.motor[d] /\ f.selected => u.mon[d] = f.mon[d]
      /\ f.motor[d] => u.mon[d] = f.mon[d] \/ (f.mon[d] < Settle /\ u.mon[d] = Settle)
      /\ \A e \in Drives \ {d} :
           u.motor[e] = f.motor[e] /\ u.mon[e] = f.mon[e] /\ u.moff[e] = f.moff[e]
  BY <1>2, MotorStarts
<1> HIDE DEF u, d
<1>4. c \in Drives /\ f.mon[c] \in Nat /\ f.moff[c] \in Nat /\ f.timers \in Seq(Timer)
  BY <1>2 DEF Driver
<1>5. /\ u.moff[c] = Long \/ u.moff[c] = f.moff[c]
      /\ f.motor[c] => u.motor[c]
      /\ f.motor[c] /\ f.selected => u.mon[c] = f.mon[c]
      /\ f.motor[c] => u.mon[c] = f.mon[c] \/ (f.mon[c] < Settle /\ u.mon[c] = Settle)
  BY <1>3, <1>4
<1>6. Current(f) => Current(u)
  BY <1>3 DEF Current, Located
<1>7. Ready(f, Settle + 0) => Ready(u, Settle + 0)
  BY <1>3, <1>5 DEF Ready
<1>8. Located(f) => Located(u)
  BY <1>3 DEF Located
<1>9. CASE Resting(f)
  <2>1. Resting(u)
    BY <1>3, <1>8, <1>9 DEF Resting, Free
  <2> QED
    BY <1>1, <1>3, <2>1, TaskKeeps DEF Works
<1>10. Len(f.timers) = 1 => f.timers[1].jiffies \in Nat
  <2>1. Len(f.timers) = 1 => f.timers[1] \in Timer
    BY <1>4
  <2> QED
    BY <2>1 DEF Timer
<1>11. CASE MotorWait(f, 0)
  <2>1. MotorWait(u, 0)
    <3> DEFINE j == f.timers[1].jiffies
    <3>1. /\ Current(u) /\ u.command.kind = Nothing /\ u.do_floppy = Nothing
          /\ Len(u.timers) = 1 /\ u.timers[1].fn = "floppy_on" /\ u.timers[1].jiffies = j
          /\ u.current_drive = c /\ j \in Nat /\ 0 < j /\ u.motor[c]
          /\ f.motor[c] /\ Short <= f.moff[c] /\ j <= f.mon[c]
          /\ f.mon[c] <= j \/ f.mon[c] <= Settle
      BY <1>3, <1>4, <1>5, <1>6, <1>10, <1>11 DEF MotorWait
    <3> HIDE DEF j
    <3>2. /\ j <= u.mon[c] /\ (u.mon[c] <= j \/ u.mon[c] <= Settle) /\ Short <= u.moff[c]
      <4>1. u.mon[c] \in Nat /\ u.moff[c] \in Nat
        BY <1>3, <1>4 DEF Driver
      <4>2. u.moff[c] \in {f.moff[c], Long, Short}
        BY <1>5
      <4>3. u.mon[c] = f.mon[c] \/ (f.mon[c] < Settle /\ u.mon[c] = Settle)
        BY <1>5, <3>1
      <4>4. j \in Nat /\ f.mon[c] \in Nat /\ f.moff[c] \in Nat /\ Short <= f.moff[c]
            /\ j <= f.mon[c] /\ (f.mon[c] <= j \/ f.mon[c] <= Settle)
        BY <1>4, <3>1
      <4> QED
        <5> DEFINE m == f.mon[c]
                   o == f.moff[c]
                   m1 == u.mon[c]
                   o1 == u.moff[c]
        <5>1. /\ m \in Nat /\ o \in Nat /\ m1 \in Nat /\ o1 \in Nat /\ j \in Nat
              /\ j <= m /\ (m <= j \/ m <= Settle) /\ Short <= o
              /\ m1 = m \/ (m < Settle /\ m1 = Settle)
              /\ o1 \in {o, Long, Short}
          BY <4>1, <4>2, <4>3, <4>4
        <5> HIDE DEF m, o, m1, o1
        <5>2. j <= m1 /\ (m1 <= j \/ m1 <= Settle) /\ Short <= o1
          BY <5>1, MotorTime
        <5> QED
          BY <5>2 DEF m1, o1
    <3> QED
      BY <3>1, <3>2 DEF MotorWait
  <2> QED
    BY <1>1, <1>3, <2>1, TaskKeeps DEF Works
<1>12. CASE SelectWait(f, 0)
  <2> DEFINE j == f.timers[1].jiffies
  <2>1. /\ Current(u) /\ u.command.kind = Nothing /\ u.do_floppy = Nothing
        /\ Len(u.timers) = 1 /\ u.timers[1].fn = "transfer" /\ u.timers[1].jiffies = j
        /\ u.current_drive = c /\ Ready(u, Settle + 0)
        /\ j \in Nat /\ 0 < j /\ j <= Settle /\ Short + j <= f.moff[c] + Settle
    BY <1>3, <1>6, <1>7, <1>10, <1>12 DEF SelectWait
  <2> HIDE DEF j
  <2>2. Short + j <= u.moff[c] + Settle /\ u.moff[c] \in Nat
    BY <1>4, <1>5, <2>1, SelectTime, Intervals
  <2>3. SelectWait(u, 0)
    BY <2>1, <2>2, Intervals DEF SelectWait
  <2> QED
    BY <1>1, <1>3, <2>3, TaskKeeps DEF Works
<1>13. CASE Commanded(f, 0)
  <2>1. Commanded(u, 0)
    BY <1>3, <1>6, <1>7, <1>8, <1>13 DEF Commanded
  <2> QED
    BY <1>1, <1>3, <2>1, TaskKeeps DEF Works
<1> QED
  BY <1>2, <1>9, <1>11, <1>12, <1>13 DEF Works

\* Nor does one that lets its motor go: the drive that is waited for has time enough.
LEMMA ChangedKeeps ==
    ASSUME FloppyInv, NEW t \in Askers, Changed(t)
    PROVE  FloppyInv'
<1> DEFINE d == nr[t]
           c == f.current_drive
           u == [f EXCEPT !.moff[d] = Short]
<1>1. f' = u /\ nr' = nr /\ faults' = faults
  BY DEF Changed, floppy_off
<1>2. f \in Driver /\ d \in Drives /\ Works(f, 0)
  BY DEF FloppyInv
<1>3. u \in Driver /\ u.moff = [f.moff EXCEPT ![d] = Short]
  BY <1>2, Intervals DEF Driver
<1>4. /\ u.queue = f.queue /\ u.timers = f.timers
      /\ u.do_floppy = f.do_floppy /\ u.command = f.command
      /\ u.current_drive = f.current_drive /\ u.seek_track = f.seek_track
      /\ u.reset = f.reset /\ u.recalibrate = f.recalibrate /\ u.seek = f.seek
      /\ u.current_track = f.current_track /\ u.head = f.head
      /\ u.selected = f.selected /\ u.sel = f.sel /\ u.motor = f.motor /\ u.mon = f.mon
  BY <1>2 DEF Driver
<1>5. c \in Drives /\ f.mon[c] \in Nat /\ f.moff \in [Drives -> Nat] /\ f.timers \in Seq(Timer)
  BY <1>2 DEF Driver
<1> HIDE DEF u
<1>6. u.moff[c] = Short \/ u.moff[c] = f.moff[c]
  BY <1>2, <1>3, <1>5
<1>7. /\ Current(f) => Current(u)
      /\ Ready(f, Settle + 0) => Ready(u, Settle + 0)
      /\ Located(f) => Located(u)
  BY <1>4 DEF Current, Located, Ready
<1>8. Len(f.timers) = 1 => f.timers[1].jiffies \in Nat
  <2>1. Len(f.timers) = 1 => f.timers[1] \in Timer
    BY <1>5
  <2> QED
    BY <2>1 DEF Timer
<1>9. Resting(f) => Resting(u)
  BY <1>4, <1>7 DEF Resting, Free
<1>10. MotorWait(f, 0) => MotorWait(u, 0)
  BY <1>4, <1>5, <1>6, <1>7, <1>8, Intervals DEF MotorWait
<1>11. SelectWait(f, 0) => SelectWait(u, 0)
  <2> SUFFICES ASSUME SelectWait(f, 0) PROVE SelectWait(u, 0)
    OBVIOUS
  <2> DEFINE j == f.timers[1].jiffies
  <2>1. /\ Current(u) /\ u.command.kind = Nothing /\ u.do_floppy = Nothing
        /\ Len(u.timers) = 1 /\ u.timers[1].fn = "transfer" /\ u.timers[1].jiffies = j
        /\ u.current_drive = c /\ Ready(u, Settle + 0)
        /\ j \in Nat /\ 0 < j /\ j <= Settle /\ Short + j <= f.moff[c] + Settle
    BY <1>4, <1>7, <1>8 DEF SelectWait
  <2> HIDE DEF j
  <2>2. f.moff[c] \in Nat /\ u.moff[c] \in Nat
    BY <1>5, <1>6, Intervals
  <2>3. Short + j <= u.moff[c] + Settle
    BY <1>6, <2>1, <2>2, SelectTime
  <2> QED
    BY <2>1, <2>2, <2>3, Intervals DEF SelectWait
<1>12. Commanded(f, 0) => Commanded(u, 0)
  BY <1>4, <1>7 DEF Commanded
<1>13. Works(u, 0)
  BY <1>2, <1>9, <1>10, <1>11, <1>12 DEF Works
<1> QED
  BY <1>1, <1>3, <1>4, <1>13, TaskKeeps

\* A request is queued, and served at once if it is the first.
LEMMA SubmitKeeps ==
    ASSUME Gentle, FloppyInv, Submit
    PROVE  FloppyInv'
<1> DEFINE N(r) == [drive |-> r.drive, track |-> r.track, bad |-> r.bad, errors |-> 0]
           S(r, mute) == [f EXCEPT !.queue = Append(@, N(r)), !.mute = mute]
<1>1. /\ nr' = nr
      /\ \E r \in Requests, mute \in BOOLEAN :
           IF f.queue = <<>> THEN Mute(mute) /\ Become(do_fd_request(S(r, mute)))
           ELSE ~ mute /\ Mute(mute) /\ Become(S(r, mute))
  BY DEF Submit
<1>2. PICK r \in Requests, mute \in BOOLEAN :
           IF f.queue = <<>> THEN Mute(mute) /\ Become(do_fd_request(S(r, mute)))
           ELSE ~ mute /\ Mute(mute) /\ Become(S(r, mute))
  BY <1>1
<1> DEFINE new == N(r)
           s == S(r, mute)
           n == MaxFaults - faults
           m == MaxFaults - faults'
<1>3. f \in Driver /\ Modest(f, n) /\ Works(f, 0) /\ faults \in 0 .. MaxFaults
  BY DEF FloppyInv
<1>4. new \in Queued /\ ~ new.bad /\ new.errors = 0
  <2>1. r \in [drive : Drives, track : Tracks, bad : BOOLEAN] /\ ~ r.bad
    BY FloppyAssumption DEF Gentle
  <2> QED
    BY <2>1 DEF Queued
<1>5. n \in Nat /\ m \in Nat /\ n <= m
  BY <1>2, <1>3, FaultsCount
<1>6. s = [f EXCEPT !.queue = Append(f.queue, new), !.mute = mute]
  OBVIOUS
<1> HIDE DEF new, s, N, S
<1> DEFINE q == Append(f.queue, new)
<1>7. /\ f.queue \in Seq(Queued) /\ q \in Seq(Queued) /\ Len(q) = Len(f.queue) + 1 /\ q # <<>>
      /\ \A i \in 1 .. Len(q) : q[i] = IF i \in 1 .. Len(f.queue) THEN f.queue[i] ELSE new
      /\ f.queue # <<>> => Head(q) = Head(f.queue)
  <2>1. f.queue \in Seq(Queued) /\ new \in Queued
    BY <1>3, <1>4 DEF Driver
  <2>2. /\ q \in Seq(Queued) /\ Len(q) = Len(f.queue) + 1 /\ q # <<>>
        /\ \A i \in 1 .. Len(q) : q[i] = IF i \in 1 .. Len(f.queue) THEN f.queue[i] ELSE new
    BY <2>1
  <2>3. f.queue # <<>> => Head(q) = Head(f.queue)
    BY <2>1, <2>2
  <2> QED
    BY <2>1, <2>2, <2>3
<1> HIDE DEF q
<1>8. s \in Driver
  BY <1>3, <1>6, <1>7 DEF Driver, q
<1>9. /\ s.queue = q /\ s.timers = f.timers
      /\ s.do_floppy = f.do_floppy /\ s.command = f.command
      /\ s.current_drive = f.current_drive /\ s.seek_track = f.seek_track
      /\ s.reset = f.reset /\ s.recalibrate = f.recalibrate /\ s.seek = f.seek
      /\ s.current_track = f.current_track /\ s.head = f.head
      /\ s.selected = f.selected /\ s.sel = f.sel
      /\ s.motor = f.motor /\ s.mon = f.mon /\ s.moff = f.moff
  BY <1>3, <1>6 DEF Driver, q
<1>10. Modest(s, n)
  BY <1>3, <1>4, <1>5, <1>7, <1>9 DEF Modest
<1>11. CASE f.queue = <<>>
  <2>1. Resting(f)
    BY <1>3, <1>11 DEF Works, MotorWait, SelectWait, Commanded, Current
  <2>2. Over(s, n)
    BY <1>7, <1>8, <1>9, <1>10, <2>1 DEF Over, Resting, Free, Located
  <2> DEFINE u == do_fd_request(s)
  <2>3. u \in Driver /\ Modest(u, m) /\ Works(u, 0)
    BY <1>5, <2>2, GoesOn
  <2>4. Mute(mute) /\ Become(u)
    BY <1>2, <1>11 DEF s
  <2> HIDE DEF u
  <2> QED
    BY <1>1, <2>3, <2>4, InOrder DEF m
<1>12. CASE f.queue # <<>>
  <2>1. Mute(mute) /\ Become(s)
    BY <1>2, <1>12 DEF s
  <2>2. Modest(s, m)
    BY <1>5, <1>8, <1>10, ModestGrows
  <2>3. /\ Current(f) => Current(s)
        /\ Ready(f, Settle + 0) => Ready(s, Settle + 0)
        /\ Located(f) => Located(s)
    BY <1>7, <1>9, <1>12 DEF Current, Located, Ready
  <2>4. MotorWait(f, 0) => MotorWait(s, 0)
    BY <1>9, <2>3 DEF MotorWait
  <2>5. SelectWait(f, 0) => SelectWait(s, 0)
    BY <1>9, <2>3 DEF SelectWait
  <2>6. Commanded(f, 0) => Commanded(s, 0)
    BY <1>7, <1>9, <2>3 DEF Commanded
  <2>7. Works(s, 0)
    BY <1>3, <1>12, <2>4, <2>5, <2>6 DEF Works, Resting
  <2> QED
    BY <1>1, <1>8, <2>1, <2>2, <2>7, InOrder DEF m
<1> QED
  BY <1>11, <1>12

\* An interrupt that belongs to no command is remembered.
LEMMA UnexpectedKeeps ==
    ASSUME Gentle, FloppyInv, Unexpected
    PROVE  FloppyInv'
<1>1. /\ f.queue = <<>> /\ Mute(TRUE) /\ nr' = nr
      /\ Become([f EXCEPT !.recalibrate = TRUE]) \/ Become([f EXCEPT !.reset = TRUE])
  BY DEF Unexpected, Gentle
<1> DEFINE n == MaxFaults - faults
           m == MaxFaults - faults'
<1>2. f \in Driver /\ Modest(f, n) /\ Works(f, 0) /\ faults \in 0 .. MaxFaults
  BY DEF FloppyInv
<1>3. Resting(f)
  BY <1>1, <1>2 DEF Works, MotorWait, SelectWait, Commanded, Current
<1>4. ASSUME NEW u, u = [f EXCEPT !.recalibrate = TRUE] \/ u = [f EXCEPT !.reset = TRUE],
             Become(u)
      PROVE  FloppyInv'
  <2>1. u \in Driver /\ (u.recalibrate \/ u.reset) /\ u.queue = f.queue
        /\ u.timers = f.timers /\ u.command = f.command /\ u.do_floppy = f.do_floppy
    <3>1. CASE u = [f EXCEPT !.recalibrate = TRUE]
      BY <1>2, <3>1 DEF Driver
    <3>2. CASE u = [f EXCEPT !.reset = TRUE]
      BY <1>2, <3>2 DEF Driver
    <3> QED
      BY <1>4, <3>1, <3>2
  <2>2. Works(u, 0)
    BY <1>3, <2>1 DEF Works, Resting, Free
  <2>3. Modest(u, MaxFaults - faults')
    BY <1>1, <2>1 DEF Modest
  <2> QED
    BY <1>1, <1>4, <2>1, <2>2, <2>3, InOrder
<1> QED
  BY <1>1, <1>4

\* The driver waits for one thing at a time, which is in order, in every state.
LEMMA FloppyInvStep ==
    ASSUME Gentle, FloppyInv, [FloppyNext]_floppy_vars
    PROVE  FloppyInv'
<1>1. ASSUME UNCHANGED <<f, nr, faults>>
      PROVE  FloppyInv'
  BY <1>1, TaskKeeps DEF FloppyInv
<1>2. ASSUME NEW t \in Askers, Change(t)
      PROVE  FloppyInv'
  <2>1. CASE FloppyOn(t)
    BY <2>1, FloppyOnKeeps
  <2>2. CASE WaitFor(t)
    BY <1>1, <2>2 DEF WaitFor
  <2>3. CASE Selected(t)
    BY <1>1, <2>3 DEF Selected
  <2>4. CASE Changed(t)
    BY <2>4, ChangedKeeps
  <2> QED
    BY <1>2, <2>1, <2>2, <2>3, <2>4 DEF Change
<1> QED
  BY <1>1, <1>2, SubmitKeeps, AnswerKeeps, UnexpectedKeeps, TickKeeps
  DEF FloppyNext, floppy_vars

\* At first it waits for nothing.
LEMMA FloppyInvInit ==
    ASSUME FloppyInit
    PROVE  FloppyInv
<1>1. PICK head \in [Drives -> Heads] :
         f = [sel |-> 0, motor |-> [d \in Drives |-> FALSE], mon |-> [d \in Drives |-> 0],
              moff |-> [d \in Drives |-> 0], selected |-> FALSE,
              timers |-> <<>>, queue |-> <<>>,
              current_drive |-> 0, current_track |-> NoTrack, seek |-> FALSE, seek_track |-> 0,
              reset |-> FALSE, recalibrate |-> FALSE, do_floppy |-> Nothing,
              command |-> Command(Nothing, 0, 0), head |-> head,
              mute |-> FALSE, garbage |-> 0, wake |-> {}]
  BY DEF FloppyInit
<1>2. 0 \in Drives /\ 0 \in Tracks /\ head \in [Drives -> Tracks] /\ NoTrack \notin Tracks
  BY FloppyAssumption
<1>3. /\ [d \in Drives |-> FALSE] \in [Drives -> BOOLEAN]
      /\ [d \in Drives |-> 0] \in [Drives -> Nat]
      /\ <<>> \in Seq(Timer) /\ <<>> \in Seq(Queued)
      /\ Command(Nothing, 0, 0) \in [kind : Kinds \cup {Nothing}, drive : Drives, track : Tracks]
      /\ Command(Nothing, 0, 0).kind = Nothing
  BY <1>2 DEF Command
<1>4. f \in Driver
  BY <1>1, <1>2, <1>3 DEF Driver
<1>5. Works(f, 0)
  BY <1>1, <1>2, <1>3 DEF Works, Resting, Free, Located
<1>6. Modest(f, MaxFaults - faults)
  BY <1>1 DEF Modest
<1>7. nr \in [Askers -> Drives] /\ faults \in 0 .. MaxFaults
  BY Intervals DEF FloppyInit
<1> QED
  BY <1>4, <1>5, <1>6, <1>7 DEF FloppyInv

\* With fewer faults than a request may have, a controller whose replies are its
\* own and no interrupts without a command amid a request, ...
THEOREM FloppyInOrder ==
    ASSUME Gentle PROVE FloppySpec => []FloppyInv
<1>1. FloppyInit => FloppyInv
  BY FloppyInvInit
<1>2. FloppyInv /\ [FloppyNext]_floppy_vars => FloppyInv'
  BY FloppyInvStep
<1> QED
  BY <1>1, <1>2, PTL DEF FloppySpec

\* ... a command is given to a drive that is selected and whose motor is on, for
\* the first request, whatever tasks do to motors and selection meanwhile.
THEOREM CommandsAreReady ==
    ASSUME Gentle PROVE FloppySpec => []CommandIsReady
<1>1. FloppyInv => CommandIsReady
  <2> SUFFICES ASSUME FloppyInv, f.command.kind \in {"seek", "rw"} PROVE CommandIsReady
    BY DEF CommandIsReady
  <2>1. f \in Driver /\ Commanded(f, 0)
    BY DEF FloppyInv, Works, Resting, MotorWait, SelectWait, Free, Nothing
  <2>2. /\ Current(f) /\ Ready(f, Settle + 0)
        /\ f.command.drive = f.current_drive /\ f.command.track = f.seek_track
    BY <2>1 DEF Commanded, Command
  <2> QED
    BY <2>2, Intervals DEF CommandIsReady, Current, Ready
<1> QED
  BY <1>1, FloppyInOrder, PTL

\* ... and blocks are read and written with the head on their track, though the
\* driver knows the track of one drive only.
THEOREM HeadsAreInPlace ==
    ASSUME Gentle PROVE FloppySpec => []HeadInPlace
<1>1. FloppyInv => HeadInPlace
  <2> SUFFICES ASSUME FloppyInv, f.command.kind = "rw" PROVE HeadInPlace
    BY DEF HeadInPlace
  <2>1. f \in Driver /\ Commanded(f, 0)
    BY DEF FloppyInv, Works, Resting, MotorWait, SelectWait, Free, Nothing
  <2>2. /\ Current(f) /\ f.command.drive = f.current_drive
        /\ f.current_track = f.seek_track /\ Located(f) /\ f.seek_track \in Tracks
    BY <2>1 DEF Commanded, Command, Driver
  <2> QED
    BY <2>2 DEF HeadInPlace, Current, Located
<1> QED
  BY <1>1, FloppyInOrder, PTL
=============================================================================
