----------------------------- MODULE Scheduler -----------------------------
(***************************************************************************)
(* schedule() and do_timer() of kernel/sched.c with the ways in and out of *)
(* the kernel in kernel/system_call.s: which task runs, how the counters   *)
(* of the tasks are spent and recharged, how alarms and signals reach a    *)
(* sleeping task, and when a task gives the processor up.                  *)
(*                                                                         *)
(* The kernel is not preempted, but interrupts come at any point where     *)
(* they are enabled: also between the three loops of schedule(), which are *)
(* separate actions here.  Only what comes after a timer interrupt runs    *)
(* with interrupts disabled, because its gate is an interrupt gate.        *)
(***************************************************************************)
EXTENDS Integers, FiniteSets

CONSTANTS
    NTasks,         \* the slots 1..NTasks of task[]: NR_TASKS - 1
    MaxPriority,    \* bound: sys_nice() raises no priority above it
    InitPriority,   \* the priority of INIT_TASK, which every task inherits
    Increments,     \* the arguments of sys_nice()
    Spans,          \* the arguments of sys_alarm(): the ticks until the alarm
                    \* is less than jiffies (HZ * seconds + 1); 0 cancels
    Kills,          \* the signals sent by sys_kill()
    SaMasks,        \* the sa_mask of the handlers, which sys_sigaction() takes
                    \* from the user as it is
    Uses            \* which of the services in Services the tasks may use:
                    \* a behaviour keeps to one member of this set of sets

SIGINT  == 2
SIGKILL == 9
SIGALRM == 14
Signals == {SIGINT, SIGKILL, SIGALRM}

\* An uninterruptible sleep, sys_nice(), sys_alarm(), sys_kill(), sys_ssetmask()
\* and handlers with a sa_mask, the interrupt keys of the keyboard, and fork()
\* and waitpid().  "alone" is no service: only task 1 is there.
Services == {"sleep", "nice", "alarm", "kill", "mask", "keyboard", "fork", "alone"}

ASSUME NTasksAssumption == NTasks \in Nat \ {0}
ASSUME PriorityAssumption ==
    MaxPriority \in Nat /\ InitPriority \in 1 .. MaxPriority
ASSUME InputAssumption ==
    /\ Increments \subseteq Int /\ Spans \subseteq Nat
    /\ Kills \subseteq Signals /\ SaMasks \subseteq SUBSET Signals
    /\ Uses \subseteq SUBSET Services

Tasks == 1 .. NTasks
Slots == 0 .. NTasks        \* slot 0 is the idle task

VARIABLES
    state,      \* task_struct.state, "EMPTY" for a NULL slot
    counter,    \* task_struct.counter
    priority,   \* task_struct.priority
    signal,     \* task_struct.signal, as the set of the bits that are set
    blocked,    \* task_struct.blocked
    alarm,      \* 0: no alarm; 1: alarm < jiffies; k: will be in k - 1 ticks
    current,    \* the running task
    ctx,        \* what each task does when it has the processor: see Contexts
    at,         \* the loop of schedule() that current is in, or "run"
    next,       \* the local variable next of schedule()
    ebx,        \* the copy of signal that ret_from_sys_call works on
    use         \* the services the tasks of this behaviour use

tasks == <<state, counter, priority, signal, blocked, alarm>>
vars == <<state, counter, priority, signal, blocked, alarm,
          current, ctx, at, next, ebx, use>>

\* "user": in user mode; "kernel": in a system call; "end": its function has
\* returned (lines 96-100 of system_call.s); "return": at ret_from_sys_call;
\* "deliver": signal has been read there; "tick": as "return", on the way out
\* of a timer interrupt that came in user mode.
Contexts == {"user", "kernel", "end", "return", "deliver", "tick"}

Init ==
    /\ use \in Uses
    /\ state = [p \in Slots |-> IF p \in {0, 1} THEN "RUNNING" ELSE
                                IF use \cap {"fork", "alone"} # {}
                                THEN "EMPTY" ELSE "RUNNING"]
    /\ counter = [p \in Slots |-> InitPriority]
    /\ priority = [p \in Slots |-> InitPriority]
    /\ signal = [p \in Slots |-> {}]
    /\ blocked = [p \in Slots |-> {}]
    /\ alarm = [p \in Slots |-> 0]
    /\ current = 0
    /\ ctx = [p \in Slots |-> "user"]
    /\ at = "run" /\ next = 0 /\ ebx = {}

-----------------------------------------------------------------------------
(***************************************************************************)
(* schedule().                                                             *)
(***************************************************************************)
Running(p) == state[p] = "RUNNING"

Unblocked(p) == signal[p] \ blocked[p]

Schedule == at' = "sweep"

Expired(p) == alarm[p] = 1

\* Mutant: the mask is not inverted.
WakesForBlocked(p, sigs) ==
    state[p] = "INTERRUPTIBLE" /\ sigs \cap (blocked[p] \ {SIGKILL}) # {}

\* The test of lines 117 and 118: SIGKILL is not in _BLOCKABLE.
WakesFor(p, sigs) ==
    state[p] = "INTERRUPTIBLE" /\ sigs \ (blocked[p] \ {SIGKILL}) # {}

\* The alarms that have expired become SIGALRM, and the tasks that have a
\* signal leave an interruptible sleep.
Sweep ==
    /\ at = "sweep"
    /\ LET signalled(p) == IF Expired(p) THEN signal[p] \cup {SIGALRM}
                                         ELSE signal[p]
       IN /\ signal' = [p \in Slots |->
                IF p = 0 \/ state[p] = "EMPTY" THEN signal[p]
                                               ELSE signalled(p)]
          /\ state' = [p \in Slots |->
                IF p # 0 /\ WakesFor(p, signalled(p))
                THEN "RUNNING" ELSE state[p]]
    /\ alarm' = [p \in Slots |->
            IF p # 0 /\ state[p] # "EMPTY" /\ Expired(p) THEN 0 ELSE alarm[p]]
    /\ at' = "scan"
    /\ UNCHANGED <<counter, priority, blocked, current, ctx, next, ebx, use>>

\* The scan goes down from the last slot and takes a later one only if its
\* counter is greater.
First(p) ==
    \A q \in Tasks : Running(q) =>
        counter[q] < counter[p] \/ (counter[q] = counter[p] /\ q <= p)

\* Mutant: the state is compared with TASK_UNINTERRUPTIBLE only.
CandidateSleeps(p) ==
    LET able == {q \in Tasks : state[q] \notin {"UNINTERRUPTIBLE", "EMPTY"}}
    IN  p \in able /\ \A q \in able :
            counter[q] < counter[p] \/ (counter[q] = counter[p] /\ q <= p)

Candidate(p) == Running(p) /\ First(p)

\* The greatest counter is 0: every runnable task has used its share.
Scan ==
    /\ at = "scan"
    /\ \/ \E p \in Tasks :
            /\ Candidate(p)
            /\ next' = p
            /\ at' = IF counter[p] = 0 THEN "recharge" ELSE "switch"
       \/ /\ \A p \in Tasks : ~Running(p)
          /\ next' = 0
          /\ at' = "switch"
    /\ UNCHANGED <<tasks, current, ctx, ebx, use>>

\* Mutant: the counter is not halved.
RechargedFully(p) == counter[p] + priority[p]

Recharged(p) == counter[p] \div 2 + priority[p]

\* Every task is recharged, the sleeping ones too: they gain priority.
Recharge ==
    /\ at = "recharge"
    /\ counter' = [p \in Slots |-> IF p # 0 /\ state[p] # "EMPTY"
                                   THEN Recharged(p) ELSE counter[p]]
    /\ at' = "scan"
    /\ UNCHANGED <<state, priority, signal, blocked, alarm,
                   current, ctx, next, ebx, use>>

SwitchTo ==
    /\ at = "switch"
    /\ current' = next
    /\ at' = "run" /\ next' = 0
    /\ UNCHANGED <<tasks, ctx, ebx, use>>

ScheduleStep == Sweep \/ Scan \/ Recharge \/ SwitchTo

-----------------------------------------------------------------------------
(***************************************************************************)
(* System calls.                                                           *)
(***************************************************************************)
In(c) == at = "run" /\ ctx[current] = c
Goto(c) == ctx' = [ctx EXCEPT ![current] = c]

SystemCall ==
    /\ In("user")
    /\ Goto("kernel")
    /\ UNCHANGED <<tasks, current, at, next, ebx, use>>

\* sys_pause(); interruptible_sleep_on() and the wait of sys_waitpid() give
\* the processor up in the same way.
sys_pause ==
    /\ In("kernel")
    /\ state' = [state EXCEPT ![current] = "INTERRUPTIBLE"]
    /\ Schedule
    /\ Goto("end")
    /\ UNCHANGED <<counter, priority, signal, blocked, alarm,
                   current, next, ebx, use>>

\* The part of sleep_on() that gives the processor up (module WaitQueue has
\* its queue).
sleep_on ==
    /\ "sleep" \in use /\ In("kernel") /\ current # 0
    /\ state' = [state EXCEPT ![current] = "UNINTERRUPTIBLE"]
    /\ Schedule
    /\ UNCHANGED <<counter, priority, signal, blocked, alarm,
                   current, ctx, next, ebx, use>>

sys_alarm(n) ==
    /\ "alarm" \in use /\ In("kernel") /\ current # 0
    /\ alarm' = [alarm EXCEPT ![current] = IF n > 0 THEN n + 1 ELSE 0]
    /\ Goto("end")
    /\ UNCHANGED <<state, counter, priority, signal, blocked,
                   current, at, next, ebx, use>>

sys_nice(increment) ==
    LET new == priority[current] - increment IN
    /\ "nice" \in use /\ In("kernel") /\ current # 0
    /\ new <= MaxPriority       \* bound
    /\ IF new > 0 THEN priority' = [priority EXCEPT ![current] = new]
                  ELSE UNCHANGED priority
    /\ Goto("end")
    /\ UNCHANGED <<state, counter, signal, blocked, alarm,
                   current, at, next, ebx, use>>

sys_ssetmask(mask) ==
    /\ "mask" \in use /\ In("kernel") /\ current # 0
    /\ blocked' = [blocked EXCEPT ![current] = mask \ {SIGKILL}]
    /\ Goto("end")
    /\ UNCHANGED <<state, counter, priority, signal, alarm,
                   current, at, next, ebx, use>>

sys_kill(p, s) ==
    /\ "kill" \in use /\ In("kernel") /\ current # 0
    /\ state[p] # "EMPTY"
    /\ signal' = [signal EXCEPT ![p] = @ \cup {s}]
    /\ Goto("end")
    /\ UNCHANGED <<state, counter, priority, blocked, alarm,
                   current, at, next, ebx, use>>

\* The child starts in user mode with a share of its own.
copy_process(nr) ==
    /\ "fork" \in use /\ In("kernel") /\ current # 0
    /\ state[nr] = "EMPTY"
    /\ state' = [state EXCEPT ![nr] = "RUNNING"]
    /\ counter' = [counter EXCEPT ![nr] = priority[current]]
    /\ priority' = [priority EXCEPT ![nr] = priority[current]]
    /\ signal' = [signal EXCEPT ![nr] = {}]
    /\ blocked' = [blocked EXCEPT ![nr] = blocked[current]]
    /\ alarm' = [alarm EXCEPT ![nr] = 0]
    /\ ctx' = [ctx EXCEPT ![current] = "end", ![nr] = "user"]
    /\ UNCHANGED <<current, at, next, ebx, use>>

\* What do_exit() comes to; the slot stays until the parent waits.
Exit ==
    /\ state' = [state EXCEPT ![current] = "ZOMBIE"]
    /\ Schedule

do_exit ==
    /\ In("kernel") /\ current # 0
    /\ Exit
    /\ UNCHANGED <<counter, priority, signal, blocked, alarm,
                   current, ctx, next, ebx, use>>

\* sys_waitpid() of a parent: release() empties the slot and schedules.
release(p) ==
    /\ "fork" \in use /\ In("kernel") /\ current # 0
    /\ state[p] = "ZOMBIE"
    /\ state' = [state EXCEPT ![p] = "EMPTY"]
    /\ Schedule
    /\ Goto("end")
    /\ UNCHANGED <<counter, priority, signal, blocked, alarm,
                   current, next, ebx, use>>

\* A system call that neither sleeps nor changes this state.
OtherCall ==
    /\ In("kernel") /\ current # 0
    /\ Goto("end")
    /\ UNCHANGED <<tasks, current, at, next, ebx, use>>

-----------------------------------------------------------------------------
(***************************************************************************)
(* The way back to user mode.                                              *)
(***************************************************************************)
\* Mutant: the counter is not tested at the end of a system call.
EndUntested ==
    /\ In("end")
    /\ Goto("return")
    /\ UNCHANGED <<tasks, at, current, next, ebx, use>>

SystemCallEnd ==
    /\ In("end")
    /\ Goto("return")
    /\ IF state[current] # "RUNNING" \/ counter[current] = 0
       THEN Schedule ELSE UNCHANGED at
    /\ UNCHANGED <<tasks, current, next, ebx, use>>

\* bsfl finds the lowest bit.
Lowest(S) == CHOOSE s \in S : \A r \in S : s <= r

\* What do_signal() adds to blocked: nothing if the signal is ignored or its
\* handler has SA_NOMASK, else sa_mask, in which sys_sigaction() has set the bit
\* of the signal.
HandlerMasks(s) ==
    {{}} \cup IF "mask" \in use THEN {m \cup {s} : m \in SaMasks} ELSE {}

\* Mutant: every pending signal is cleared when one is delivered.
TakeAll(seen) ==
    LET s == Lowest(seen \ blocked[current]) IN
    /\ signal' = [signal EXCEPT ![current] = {}]
    /\ \/ /\ s # SIGKILL
          /\ \E m \in HandlerMasks(s) :
                blocked' = [blocked EXCEPT ![current] = @ \cup m]
          /\ Goto("user")
          /\ UNCHANGED <<state, at>>
       \/ /\ Exit
          /\ UNCHANGED <<ctx, blocked>>
    /\ UNCHANGED <<counter, priority, alarm, current, next, use>>

\* The lowest unblocked signal of "seen" is taken out, and what is left of
\* "seen" is written back.  do_signal() then ignores it, calls a handler, or
\* exits; SIGKILL can have no handler.
TakeSignal(seen) ==
    LET s == Lowest(seen \ blocked[current]) IN
    /\ signal' = [signal EXCEPT ![current] = seen \ {s}]
    /\ \/ /\ s # SIGKILL
          /\ \E m \in HandlerMasks(s) :
                blocked' = [blocked EXCEPT ![current] = @ \cup m]
          /\ Goto("user")
          /\ UNCHANGED <<state, at>>
       \/ /\ Exit
          /\ UNCHANGED <<ctx, blocked>>
    /\ UNCHANGED <<counter, priority, alarm, current, next, use>>

\* Mutant: no signals are looked for after a timer interrupt.
HasSignalAfterCall ==
    current # 0 /\ Unblocked(current) # {} /\ ctx[current] # "tick"

HasSignal == current # 0 /\ Unblocked(current) # {}

ReturnToUser ==
    /\ In("return") \/ In("tick")
    /\ ~HasSignal
    /\ Goto("user")
    /\ UNCHANGED <<tasks, current, at, next, ebx, use>>

\* From a system call interrupts are enabled: one may come between the
\* instruction that reads signal and the one that writes it back.
ReadSignal ==
    /\ In("return") /\ HasSignal
    /\ ebx' = signal[current]
    /\ Goto("deliver")
    /\ UNCHANGED <<tasks, current, at, next, use>>

WriteSignal ==
    /\ In("deliver")
    /\ TakeSignal(ebx)
    /\ ebx' = {}

TickSignal ==
    /\ In("tick") /\ HasSignal
    /\ TakeSignal(signal[current])
    /\ UNCHANGED ebx

ReturnStep == SystemCallEnd \/ ReturnToUser \/ ReadSignal \/ WriteSignal
              \/ TickSignal

-----------------------------------------------------------------------------
(***************************************************************************)
(* Interrupts.                                                             *)
(***************************************************************************)
Enabled == ctx[current] # "tick"

\* schedule() takes far less time than a tick: one that falls into a call is
\* taken at its beginning or at its end, so that the loop of lines 124 to 140
\* is not charged for what it has just given.
ClockMayTick == Enabled /\ at \in {"run", "sweep", "switch"}

\* Mutant: the counter is let run below zero.
TimerBelowZero ==
    LET left == counter[current] - 1
        user == In("user")
    IN /\ ClockMayTick
       /\ counter' = [counter EXCEPT ![current] = left]
       /\ alarm' = [p \in Slots |-> IF alarm[p] > 1 THEN alarm[p] - 1
                                                    ELSE alarm[p]]
       /\ IF user THEN Goto("tick") ELSE UNCHANGED ctx
       /\ IF user /\ left <= 0 THEN Schedule ELSE UNCHANGED at
       /\ UNCHANGED <<state, priority, signal, blocked, current, next, ebx, use>>

\* do_timer(): the counter is spent in either mode, but only a task that was
\* in user mode loses the processor.
do_timer ==
    LET left == counter[current] - 1
        user == In("user")
    IN /\ ClockMayTick
       /\ counter' = [counter EXCEPT ![current] = IF left > 0 THEN left ELSE 0]
       /\ alarm' = [p \in Slots |-> IF alarm[p] > 1 THEN alarm[p] - 1
                                                    ELSE alarm[p]]
       /\ IF user THEN Goto("tick") ELSE UNCHANGED ctx
       /\ IF user /\ left <= 0 THEN Schedule ELSE UNCHANGED at
       /\ UNCHANGED <<state, priority, signal, blocked, current, next, ebx, use>>

\* A device interrupt, or another task, wakes a sleeper.
wake_up(p) ==
    /\ Enabled
    /\ state[p] = "UNINTERRUPTIBLE"
    /\ state' = [state EXCEPT ![p] = "RUNNING"]
    /\ UNCHANGED <<counter, priority, signal, blocked, alarm,
                   current, ctx, at, next, ebx, use>>

tty_intr(p) ==
    /\ "keyboard" \in use /\ Enabled
    /\ state[p] # "EMPTY"
    /\ signal' = [signal EXCEPT ![p] = @ \cup {SIGINT}]
    /\ UNCHANGED <<state, counter, priority, blocked, alarm,
                   current, ctx, at, next, ebx, use>>

-----------------------------------------------------------------------------
Service ==
    \/ sys_pause \/ sleep_on \/ do_exit \/ OtherCall
    \/ \E n \in Spans : sys_alarm(n)
    \/ \E i \in Increments : sys_nice(i)
    \/ \E mask \in {{}, {SIGALRM, SIGKILL}} : sys_ssetmask(mask)
    \/ \E p \in Tasks, s \in Kills : sys_kill(p, s)
    \/ \E p \in Tasks : copy_process(p) \/ release(p)

Interrupt ==
    \/ do_timer
    \/ \E p \in Tasks : wake_up(p)
    \/ \E p \in Tasks : tty_intr(p)

KernelStep == ScheduleStep \/ Service \/ ReturnStep

Next == SystemCall \/ KernelStep \/ Interrupt

Spec == Init /\ [][Next]_vars

\* The clock ticks for ever (strong fairness: an interrupt that comes while
\* interrupts are disabled stays pending), the kernel runs its code, and the
\* idle task calls pause() in a loop.
Fairness ==
    /\ SF_vars(do_timer)
    /\ WF_vars(KernelStep)
    /\ WF_vars(current = 0 /\ SystemCall)

FairSpec == Spec /\ Fairness

-----------------------------------------------------------------------------
(***************************************************************************)
(* Properties.                                                             *)
(***************************************************************************)

\* Every variable has its type: a counter is never negative, although
\* do_timer() decrements it before it tests it (lines 332 and 333).
TypeOK ==
    /\ state \in [Slots -> {"RUNNING", "INTERRUPTIBLE", "UNINTERRUPTIBLE",
                            "ZOMBIE", "EMPTY"}]
    /\ counter \in [Slots -> Nat]
    /\ priority \in [Slots -> 1 .. MaxPriority]
    /\ signal \in [Slots -> SUBSET Signals]
    /\ blocked \in [Slots -> SUBSET Signals]
    /\ alarm \in [Slots -> Nat]
    /\ current \in Slots /\ next \in Slots
    /\ ctx \in [Slots -> Contexts]
    /\ at \in {"run", "sweep", "scan", "recharge", "switch"}
    /\ ebx \in SUBSET Signals
    /\ use \in Uses

\* However often the others use up their shares while a task sleeps, the
\* recharges of lines 136 to 139 never give it a counter of twice the
\* greatest priority: sleeping earns a bounded advantage.
CounterBounded == \A p \in Slots : counter[p] < 2 * MaxPriority

\* The task that executes code outside schedule() is runnable (the state of
\* the idle task is never used): a task that has gone to sleep or died is not
\* switched to before a wake-up, whatever comes between the loops of
\* schedule(), and a dead task never again.
RunnerRuns == at = "run" /\ current # 0 => state[current] = "RUNNING"

\* ret_from_sys_call takes one signal out of the mask, an unblocked one, and
\* leaves every other signal that was posted where it is (a signal that comes
\* from an interrupt apart: see SignalsRecognised).
SignalsKept ==
    [][\A p \in Tasks : state[p] # "EMPTY" /\ "keyboard" \notin use =>
         \A s, r \in signal[p] \ signal'[p] : s = r /\ s \notin blocked[p]]_vars

\* system_call.s:12-13 says "This code handles signal-recognition, which
\* happens every time after a timer-interrupt and after each system call": a
\* signal leaves the mask by being recognised, one at a time, wherever it
\* comes from.
SignalsRecognised ==
    [][\A p \in Tasks : state[p] # "EMPTY" =>
         \A s, r \in signal[p] \ signal'[p] : s = r /\ s \notin blocked[p]]_vars

\* As long as no task forks, no task that can run waits for ever, however the
\* others spend their time: in user mode, in the kernel, or asleep when the
\* clock ticks.
NoStarvation ==
    \A p \in Tasks :
        (Running(p) /\ "fork" \notin use) ~> (current = p /\ at = "run")

\* sched.c:96-97 says that the scheduler "should work well in all
\* circumstances": every task that can run gets the processor.
EveryTaskRuns ==
    \A p \in Tasks : Running(p) ~> (current = p /\ at = "run")

\* A task that sleeps interruptibly with its alarm set is woken, also if
\* every task sleeps: the idle task keeps calling schedule().
AlarmWakes ==
    \A p \in Tasks :
        (state[p] = "INTERRUPTIBLE" /\ alarm[p] # 0 /\ SIGALRM \notin blocked[p])
            ~> state[p] # "INTERRUPTIBLE"

\* A task that has been sent SIGKILL dies, also one that never makes a system
\* call or that is in pause(): only an uninterruptible sleep, or a handler whose
\* sa_mask has the bit of SIGKILL (sys_ssetmask() leaves it out), puts it off.
KilledDies ==
    \A p \in Tasks :
        SIGKILL \in signal[p] ~>
            \/ state[p] \in {"ZOMBIE", "UNINTERRUPTIBLE", "EMPTY"}
            \/ SIGKILL \in blocked[p]

=============================================================================
