--------------------------- MODULE BlockRequests ---------------------------
(***************************************************************************)
(* The block request queue: ll_rw_block() and ll_rw_page() of ll_rw_blk.c, *)
(* end_request() of blk.h, and the hard disk driver hd.c that serves the   *)
(* queue from its interrupt handler.                                       *)
(*                                                                         *)
(* A task that calls ll_rw_block() locks the buffer, takes a slot of       *)
(* request[] and links it into the elevator queue.  The driver works on    *)
(* the head of the queue; the interrupt that ends a command unlocks the    *)
(* buffer, frees the slot and starts the next request.                     *)
(*                                                                         *)
(* Kernel code is not preempted, so a task action runs up to the next      *)
(* sleep.  The sleep for a free slot is the exception: make_request() and  *)
(* ll_rw_page() scan the slots and call sleep_on() with interrupts         *)
(* enabled, so a disk interrupt may come after the scan and again in the   *)
(* middle of sleep_on(); those are steps of their own.  sleep_on() and     *)
(* wake_up() on a buffer's b_wait are masked with cli, and a wait queue is *)
(* there just the set of its sleepers (see module WaitQueue).              *)
(***************************************************************************)
EXTENDS Integers, Sequences, FiniteSets, SequencesExt

CONSTANTS
    Tasks,
    BlockTasks,     \* the tasks that call ll_rw_block()
    PageTasks,      \* the tasks that call ll_rw_page()
    Buffers,
    SectorOf,       \* the sector of each buffer (b_blocknr<<1), and of the swap page
    Page,           \* stands for the memory page of an ll_rw_page() call
    LastSector,     \* hd[dev].nr_sects - 2: sectors beyond it are refused
    NR_REQUEST,     \* slots of request[] (32 in the code)
    MAX_ERRORS,     \* tries of a request (7 in the code)
    BlockSectors,   \* nr_sectors of a buffer's request (2 in the code)
    PageSectors,    \* nr_sectors of a page's request (8 in the code)
    None

READ == 0
WRITE == 1

Slots == 1..NR_REQUEST
Objects == Buffers \cup {Page}
Op == [rw : {READ, WRITE}, ahead : BOOLEAN, what : Objects]

\* struct request: sector and left are where it goes on after the sectors done.
Requests == [cmd : {READ, WRITE}, sector : Nat, errors : 0..(MAX_ERRORS - 1),
             left : 1..(BlockSectors + PageSectors),
             bh : Buffers \cup {None}, waiting : Tasks \cup {None}]

ASSUME RequestAssumption ==
    /\ Tasks = BlockTasks \cup PageTasks
    /\ NR_REQUEST \in Nat \ {0} /\ MAX_ERRORS \in Nat \ {0}
    /\ BlockSectors \in Nat \ {0} /\ PageSectors \in Nat \ {0}
    /\ SectorOf \in [Objects -> Nat] /\ LastSector \in Nat
    /\ Page \notin Buffers
    /\ None \notin Tasks \cup Objects \cup Op \cup Requests

VARIABLES
    b_lock, b_dirt, b_uptodate,     \* struct buffer_head
    synced,     \* ghost: the disk block holds what the buffer holds
    sent,       \* ghost: so will it when the write in progress ends well
    request,    \* the array request[]: one of Requests, or None when dev is -1
    queue,      \* the slots from blk_dev[].current_request along next
    drv,        \* do_hd: the handler of the next interrupt, or "start" while
                \* do_hd_request() is at its label repeat, or "idle"
    reset, recalibrate,
    pc,         \* where each task is: see Places
    op,         \* the arguments of its call: rw, rw_ahead and what to transfer
    reqWait     \* the chain of wait_for_request

bufVars == <<b_lock, b_dirt, b_uptodate, synced, sent>>
drvVars == <<drv, reset, recalibrate>>
taskVars == <<pc, op, reqWait>>
vars == <<bufVars, request, queue, drvVars, taskVars>>

\* "lockwait", "lockretry": asleep in lock_buffer(), and woken.  "noslot":
\* found no free slot; "entering": in sleep_on(&wait_for_request), its state
\* still running; "slotsleep", "slotretry": asleep there, and woken.
\* "pagewait": in the schedule() of ll_rw_page().
Places == {"user", "lockwait", "lockretry", "noslot", "entering",
           "slotsleep", "slotretry", "pagewait"}

Request(rw, x, t) ==
    [cmd |-> rw, sector |-> SectorOf[x], errors |-> 0,
     left |-> IF x = Page THEN PageSectors ELSE BlockSectors,
     bh |-> IF x = Page THEN None ELSE x,
     waiting |-> IF x = Page THEN t ELSE None]

Init ==
    /\ b_lock = [b \in Buffers |-> FALSE]
    /\ b_dirt = [b \in Buffers |-> FALSE]
    /\ b_uptodate = [b \in Buffers |-> FALSE]
    /\ synced = [b \in Buffers |-> TRUE]
    /\ sent = [b \in Buffers |-> FALSE]
    /\ request = [s \in Slots |-> None]
    /\ queue = <<>>
    /\ drv = "idle" /\ reset = FALSE /\ recalibrate = FALSE
    /\ pc = [t \in Tasks |-> "user"]
    /\ op = [t \in Tasks |-> None]
    /\ reqWait = {}

-----------------------------------------------------------------------------
\* The elevator.
IN_ORDER(r1, r2) ==
    \/ r1.cmd < r2.cmd
    \/ r1.cmd = r2.cmd /\ r1.sector < r2.sector

\* The request r goes behind the first element of q (never before the head,
\* which the driver works on) that this test finds, or to the end.
FitsBehind(q, i, r) ==
    /\ \/ IN_ORDER(request[q[i]], r)
       \/ ~IN_ORDER(request[q[i]], request[q[i + 1]])
    /\ IN_ORDER(r, request[q[i + 1]])

\* Mutant: a new request goes right behind the one in progress.
LastInFirstOut(q, s, r) == <<Head(q), s>> \o Tail(q)

\* Mutant: "tmp->next=req" without "req->next=tmp->next".
LosesTheRest(q, s, r) ==
    LET fits == {i \in 1..(Len(q) - 1) : FitsBehind(q, i, r)}
    IN  IF fits = {} THEN Append(q, s)
        ELSE Append(SubSeq(q, 1, CHOOSE i \in fits : \A j \in fits : i <= j), s)

Elevator(q, s, r) ==
    LET fits == {i \in 1..(Len(q) - 1) : FitsBehind(q, i, r)}
    IN  IF fits = {} THEN Append(q, s)
        ELSE InsertAt(q, 1 + CHOOSE i \in fits : \A j \in fits : i <= j, s)

\* The slots a scan may take: the last third is for reads and pages only.
ScanFrom(o) ==
    IF o.rw = READ \/ o.what = Page THEN NR_REQUEST ELSE (NR_REQUEST * 2) \div 3

FreeSlots(o) == {s \in 1..ScanFrom(o) : request[s] = None}

\* Lines 134 to 144 and add_request(); a page's caller goes to sleep after it.
\* The request that finds the queue empty starts the driver.
Submit(t, o, s) ==
    LET r == Request(o.rw, o.what, t)
    IN  /\ request' = [request EXCEPT ![s] = r]
        /\ queue' = IF queue = <<>> THEN <<s>> ELSE Elevator(queue, s, r)
        /\ drv' = IF queue = <<>> THEN "start" ELSE drv

\* The free slot with the highest index, and the return to the caller.
TakeSlot(t, o) ==
    /\ FreeSlots(o) # {}
    /\ Submit(t, o, CHOOSE s \in FreeSlots(o) : \A u \in FreeSlots(o) : u <= s)
    /\ b_dirt' = IF o.what = Page THEN b_dirt ELSE [b_dirt EXCEPT ![o.what] = FALSE]
    /\ pc' = [pc EXCEPT ![t] = IF o.what = Page THEN "pagewait" ELSE "user"]

\* No free slot: the task goes on to sleep_on(&wait_for_request).
FindsNoSlot(t, o) ==
    /\ FreeSlots(o) = {}
    /\ pc' = [pc EXCEPT ![t] = "noslot"]
    /\ UNCHANGED <<b_dirt, request, queue, drv>>

\* A task has the processor while it goes to sleep for a slot, and the driver
\* has it while it starts a request.
CpuFree == drv # "start" /\ \A t \in Tasks : pc[t] \notin {"noslot", "entering"}

-----------------------------------------------------------------------------
\* ll_rw_block() finds the buffer locked: lock_buffer() sleeps.
WaitForLock(t, o) ==
    /\ b_lock[o.what] /\ ~o.ahead
    /\ pc' = [pc EXCEPT ![t] = "lockwait"]
    /\ op' = [op EXCEPT ![t] = o]
    /\ UNCHANGED <<bufVars, request, queue, drvVars, reqWait>>

NothingToDo(o) ==
    \/ o.rw = WRITE /\ ~b_dirt[o.what]
    \/ o.rw = READ /\ b_uptodate[o.what]

\* It has locked the buffer and finds that nothing is to be done.
GiveUp(t, o) ==
    /\ ~b_lock[o.what] /\ NothingToDo(o)
    /\ pc' = [pc EXCEPT ![t] = "user"]
    /\ op' = [op EXCEPT ![t] = None]
    /\ UNCHANGED <<bufVars, request, queue, drvVars, reqWait>>

\* Mutant: lock_buffer() does not test the lock.
SubmitUnlocked(t, o) ==
    /\ ~NothingToDo(o)
    /\ o.ahead => FreeSlots(o) # {}
    /\ b_lock' = [b_lock EXCEPT ![o.what] = TRUE]
    /\ op' = [op EXCEPT ![t] = IF FreeSlots(o) = {} THEN o ELSE None]
    /\ TakeSlot(t, o) \/ FindsNoSlot(t, o)
    /\ UNCHANGED <<b_uptodate, synced, sent, reset, recalibrate, reqWait>>

\* It has locked the buffer and looks for a slot.  Read-ahead without a free
\* slot unlocks the buffer and returns, which changes nothing.
LockAndSubmit(t, o) ==
    /\ ~b_lock[o.what] /\ ~NothingToDo(o)
    /\ o.ahead => FreeSlots(o) # {}
    /\ b_lock' = [b_lock EXCEPT ![o.what] = TRUE]
    /\ op' = [op EXCEPT ![t] = IF FreeSlots(o) = {} THEN o ELSE None]
    /\ TakeSlot(t, o) \/ FindsNoSlot(t, o)
    /\ UNCHANGED <<b_uptodate, synced, sent, reset, recalibrate, reqWait>>

\* ll_rw_block(): READ, WRITE, READA and WRITEA.
RwBlock(t, o) ==
    /\ CpuFree /\ t \in BlockTasks /\ pc[t] = "user" /\ o.what # Page
    /\ WaitForLock(t, o) \/ LockAndSubmit(t, o)

\* lock_buffer() again, after unlock_buffer() woke the task.
RetryLock(t) ==
    /\ CpuFree /\ pc[t] = "lockretry"
    /\ WaitForLock(t, op[t]) \/ GiveUp(t, op[t]) \/ LockAndSubmit(t, op[t])

\* ll_rw_page(): write_swap_page() and read_swap_page().
RwPage(t, o) ==
    /\ CpuFree /\ t \in PageTasks /\ pc[t] = "user" /\ o.what = Page /\ ~o.ahead
    /\ op' = [op EXCEPT ![t] = IF FreeSlots(o) = {} THEN o ELSE None]
    /\ TakeSlot(t, o) \/ FindsNoSlot(t, o)
    /\ UNCHANGED <<b_lock, b_uptodate, synced, sent, reset, recalibrate, reqWait>>

\* "goto repeat", after end_request() woke the task.
RetrySlot(t) ==
    /\ CpuFree /\ pc[t] = "slotretry"
    /\ op' = [op EXCEPT ![t] = IF FreeSlots(op[t]) = {} THEN op[t] ELSE None]
    /\ TakeSlot(t, op[t]) \/ FindsNoSlot(t, op[t])
    /\ UNCHANGED <<b_lock, b_uptodate, synced, sent, reset, recalibrate, reqWait>>

\* sleep_on(&wait_for_request), lines 159 and 160 of sched.c.
EnterSleep(t) ==
    /\ drv # "start" /\ pc[t] = "noslot"
    /\ pc' = [pc EXCEPT ![t] = "entering"]
    /\ reqWait' = reqWait \cup {t}
    /\ UNCHANGED <<bufVars, request, queue, drvVars, op>>

\* sleep_on(&wait_for_request), lines 161 and 162 of sched.c.
FallAsleep(t) ==
    /\ drv # "start" /\ pc[t] = "entering"
    /\ pc' = [pc EXCEPT ![t] = "slotsleep"]
    /\ UNCHANGED <<bufVars, request, queue, drvVars, op, reqWait>>

\* A holder of the buffer changes its data and marks it dirty; a write of the
\* buffer may be in progress.
Modify(b) ==
    /\ CpuFree /\ b_uptodate[b]
    /\ b_dirt' = [b_dirt EXCEPT ![b] = TRUE]
    /\ synced' = [synced EXCEPT ![b] = FALSE]
    /\ sent' = [sent EXCEPT ![b] = FALSE]
    /\ UNCHANGED <<b_lock, b_uptodate, request, queue, drvVars, taskVars>>

-----------------------------------------------------------------------------
\* wake_up(&wait_for_request): the chain of the sleepers begins with the task
\* that is still entering sleep_on(), if there is one; that task goes to sleep
\* all the same and never wakes the rest.
WokenForSlot == IF \E t \in reqWait : pc[t] = "entering" THEN {} ELSE reqWait

\* Mutant: end_request() forgets the task that waits for a page.
EndWithoutWaiting(r, t) ==
    CASE pc[t] = "lockwait" /\ op[t].what = r.bh -> "lockretry"
      [] t \in WokenForSlot -> "slotretry"
      [] OTHER -> pc[t]

\* end_request(): the wake-ups of one finished request.
WokenBy(r, t) ==
    CASE pc[t] = "lockwait" /\ op[t].what = r.bh -> "lockretry"
      [] pc[t] = "pagewait" /\ r.waiting = t -> "user"
      [] t \in WokenForSlot -> "slotretry"
      [] OTHER -> pc[t]

\* Mutant: the buffer is marked clean when its write ends, not when it starts.
CleanAtTheEnd(ok) ==
    LET r == request[Head(queue)]
    IN  /\ IF r.bh = None THEN UNCHANGED bufVars
           ELSE /\ b_uptodate' = [b_uptodate EXCEPT ![r.bh] = ok]
                /\ b_lock' = [b_lock EXCEPT ![r.bh] = FALSE]
                /\ b_dirt' = [b_dirt EXCEPT ![r.bh] = FALSE]
                /\ synced' = [synced EXCEPT ![r.bh] =
                                IF ok THEN r.cmd = READ \/ sent[r.bh] ELSE FALSE]
                /\ UNCHANGED sent
        /\ pc' = [t \in Tasks |-> WokenBy(r, t)]
        /\ reqWait' = {}
        /\ request' = [request EXCEPT ![Head(queue)] = None]
        /\ queue' = Tail(queue)

\* end_request(uptodate): the data is in its place, or the request has failed.
end_request(ok) ==
    LET r == request[Head(queue)]
    IN  /\ IF r.bh = None THEN UNCHANGED bufVars
           ELSE /\ b_uptodate' = [b_uptodate EXCEPT ![r.bh] = ok]
                /\ b_lock' = [b_lock EXCEPT ![r.bh] = FALSE]
                /\ synced' = [synced EXCEPT ![r.bh] =
                                IF ok THEN r.cmd = READ \/ sent[r.bh] ELSE FALSE]
                /\ UNCHANGED <<b_dirt, sent>>
        /\ pc' = [t \in Tasks |-> WokenBy(r, t)]
        /\ reqWait' = {}
        /\ request' = [request EXCEPT ![Head(queue)] = None]
        /\ queue' = Tail(queue)

\* Mutant: one try too many.
OneTryMore ==
    LET r == request[Head(queue)]
    IN  IF r.errors + 1 > MAX_ERRORS
        THEN /\ end_request(FALSE)
             /\ reset' \in IF Len(queue) = 1 THEN {reset, TRUE} ELSE {reset}
        ELSE /\ request' = [request EXCEPT ![Head(queue)].errors = @ + 1]
             /\ reset' = (reset \/ r.errors + 1 > MAX_ERRORS \div 2)
             /\ UNCHANGED <<bufVars, queue, pc, reqWait>>

\* bad_rw_intr(): after end_request() CURRENT is the next request, which has no
\* errors yet, or it is NULL and the second test reads whatever lies there.
bad_rw_intr ==
    LET r == request[Head(queue)]
    IN  IF r.errors + 1 >= MAX_ERRORS
        THEN /\ end_request(FALSE)
             /\ reset' \in IF Len(queue) = 1 THEN {reset, TRUE} ELSE {reset}
        ELSE /\ request' = [request EXCEPT ![Head(queue)].errors = @ + 1]
             /\ reset' = (reset \/ r.errors + 1 > MAX_ERRORS \div 2)
             /\ UNCHANGED <<bufVars, queue, pc, reqWait>>

\* do_hd_request() at its label repeat.
Idle ==
    /\ drv = "start" /\ queue = <<>>
    /\ drv' = "idle"
    /\ UNCHANGED <<bufVars, request, queue, reset, recalibrate, taskVars>>

InRange == request[Head(queue)].sector <= LastSector

RefuseRequest ==
    /\ drv = "start" /\ queue # <<>> /\ ~InRange
    /\ end_request(FALSE)
    /\ UNCHANGED <<drvVars, op>>

\* reset_hd() and the recalibration: a command without data.
ResetController ==
    /\ drv = "start" /\ queue # <<>> /\ InRange
    /\ reset \/ recalibrate
    /\ reset' = FALSE
    /\ recalibrate' = reset
    /\ drv' = "recal"
    /\ UNCHANGED <<bufVars, request, queue, taskVars>>

StartRead ==
    /\ drv = "start" /\ queue # <<>> /\ InRange /\ ~reset /\ ~recalibrate
    /\ request[Head(queue)].cmd = READ
    /\ drv' = "read"
    /\ UNCHANGED <<bufVars, request, queue, reset, recalibrate, taskVars>>

\* The controller asks for the data of a write (DRQ), or it does not.
StartWrite ==
    /\ drv = "start" /\ queue # <<>> /\ InRange /\ ~reset /\ ~recalibrate
    /\ request[Head(queue)].cmd = WRITE
    /\ LET b == request[Head(queue)].bh
       IN  \/ /\ drv' = "write"
              /\ sent' = IF b = None THEN sent
                         ELSE [sent EXCEPT ![b] = (@ \/ request[Head(queue)].left = BlockSectors)]
              /\ UNCHANGED <<b_lock, b_dirt, b_uptodate, synced, request, queue,
                             reset, pc, reqWait>>
           \/ bad_rw_intr /\ UNCHANGED drv
    /\ UNCHANGED <<recalibrate, op>>

do_hd_request == Idle \/ RefuseRequest \/ ResetController \/ StartRead \/ StartWrite

\* The interrupt ends a command, or one sector of it, without an error.
\* write_intr() keeps the errors of earlier sectors, read_intr() forgets them.
SectorDone ==
    /\ drv \in {"read", "write"}
    /\ LET r == request[Head(queue)]
       IN  IF r.left = 1
           THEN end_request(TRUE) /\ drv' = "start"
           ELSE /\ request' = [request EXCEPT ![Head(queue)] =
                                 [r EXCEPT !.left = @ - 1, !.sector = @ + 1,
                                           !.errors = IF drv = "read" THEN 0 ELSE @]]
                /\ UNCHANGED <<bufVars, queue, drv, pc, reqWait>>
    /\ UNCHANGED <<reset, recalibrate, op>>

\* recal_intr() without an error.
Recalibrated ==
    /\ drv = "recal"
    /\ drv' = "start"
    /\ UNCHANGED <<bufVars, request, queue, reset, recalibrate, taskVars>>

\* The interrupt reports an error, whatever the command was.
CommandFailed ==
    /\ drv \in {"read", "write", "recal"}
    /\ bad_rw_intr
    /\ drv' = "start"
    /\ UNCHANGED <<recalibrate, op>>

hd_interrupt == SectorDone \/ Recalibrated \/ CommandFailed

Next ==
    \/ \E t \in Tasks, o \in Op : RwBlock(t, o) \/ RwPage(t, o)
    \/ \E t \in Tasks : RetryLock(t) \/ RetrySlot(t) \/ EnterSleep(t) \/ FallAsleep(t)
    \/ \E b \in Buffers : Modify(b)
    \/ do_hd_request
    \/ hd_interrupt

Spec == Init /\ [][Next]_vars

\* The controller answers every command with an interrupt, and the driver's
\* code runs to its end.
FairSpec == Spec /\ WF_vars(do_hd_request) /\ WF_vars(hd_interrupt)

-----------------------------------------------------------------------------
\* Every variable has its type; a request has been tried less than MAX_ERRORS
\* times, and the driver is idle only while the queue is empty.
TypeOK ==
    /\ b_lock \in [Buffers -> BOOLEAN] /\ b_dirt \in [Buffers -> BOOLEAN]
    /\ b_uptodate \in [Buffers -> BOOLEAN]
    /\ synced \in [Buffers -> BOOLEAN] /\ sent \in [Buffers -> BOOLEAN]
    /\ request \in [Slots -> Requests \cup {None}]
    /\ queue \in Seq(Slots) /\ IsInjective(queue)
    /\ drv \in {"idle", "start", "read", "write", "recal"}
    /\ drv = "idle" <=> queue = <<>> /\ drv # "start"
    /\ reset \in BOOLEAN /\ recalibrate \in BOOLEAN
    /\ pc \in [Tasks -> Places] /\ op \in [Tasks -> Op \cup {None}]
    /\ reqWait \subseteq Tasks

\* The request that transfers the buffer b, and the tasks that have locked b
\* and wait for a slot.
RequestsOf(b) == {s \in Slots : request[s] # None /\ request[s].bh = b}
LockersOf(b) ==
    {t \in Tasks : /\ pc[t] \in {"noslot", "entering", "slotsleep", "slotretry"}
                   /\ op[t].what = b}

\* A buffer is locked by exactly one party, and exactly while there is one: a
\* task that waits for a slot, or one request in the queue.  So the driver
\* never meets a request whose buffer is not locked (the panic of
\* INIT_REQUEST, blk.h line 135), and two requests never transfer one buffer.
LockedByOne ==
    \A b \in Buffers :
        Cardinality(RequestsOf(b)) + Cardinality(LockersOf(b)) = IF b_lock[b] THEN 1 ELSE 0

\* The queue links exactly the slots in use: end_request() and the elevator
\* lose no request and serve none twice (ll_rw_blk.c, lines 66 to 88).
QueueIsSlots == {queue[i] : i \in DOMAIN queue} = {s \in Slots : request[s] # None}

\* A clean, unlocked, up-to-date buffer is what the disk holds: a change made
\* while a write of the buffer was in progress is not taken for written.
CleanMeansWritten ==
    \A b \in Buffers : ~b_dirt[b] /\ ~b_lock[b] /\ b_uptodate[b] => synced[b]

\* A task asleep in ll_rw_page() has exactly one request that will wake it.
PageHasRequest ==
    \A t \in Tasks :
        Cardinality({s \in Slots : request[s] # None /\ request[s].waiting = t})
            = IF pc[t] = "pagewait" THEN 1 ELSE 0

\* A task asleep for a slot is on the chain that end_request() wakes.
SlotSleeperIsQueued == \A t \in Tasks : pc[t] = "slotsleep" => t \in reqWait

\* Of the requests that wait in the queue, reads go before writes (blk.h,
\* lines 36 to 38).
ReadsBeforeWrites ==
    \A i, j \in 2..Len(queue) :
        i < j /\ request[queue[i]].cmd = WRITE => request[queue[j]].cmd = WRITE

\* The elevator starves nobody: every request is finished in the end, although
\* later ones may be put before it and every command may fail.
RequestServed == \A s \in Slots : request[s] # None ~> request[s] = None
=============================================================================
