------------------------------- MODULE Pipe -------------------------------
(***************************************************************************)
(* One pipe: fs/pipe.c, with what get_pipe_inode() and iput() (fs/inode.c) *)
(* do for pipes.  Its characters are in one page used as a ring, between   *)
(* PIPE_TAIL, where the next read starts, and PIPE_HEAD, where the next    *)
(* write goes; readers and writers sleep on the one queue i_wait.          *)
(*                                                                         *)
(* A task in the kernel keeps the processor from one sleep to the next.    *)
(* It sleeps where the code calls sleep_on(), and also in the copying:     *)
(* put_fs_byte() and get_fs_byte() touch a page of the user that may be    *)
(* absent, and the page fault then reads it from the disk.                 *)
(***************************************************************************)
EXTENDS Integers, Sequences

CONSTANTS
    Tasks,      \* the tasks of the system
    None,       \* the NULL pointer
    Chars,      \* the characters
    Nul,        \* the character 0, with which get_free_page() fills a page
    PAGE_SIZE,  \* the size of the ring, one more than it holds
    ReadSizes,  \* how many characters sys_read() may be asked for
    Payloads,   \* what sys_write() may be given
    Uses        \* the instances: a set of records, see use

ASSUME NoneAssumption == None \notin Tasks
ASSUME NulAssumption == Nul \in Chars
ASSUME SizeAssumption == PAGE_SIZE \in Nat /\ PAGE_SIZE > 1
ASSUME CallAssumption == ReadSizes \subseteq Nat \ {0}
                         /\ Payloads \subseteq Seq(Chars) \ {<<>>}
ASSUME UsesAssumption ==
    Uses \subseteq [slots : SUBSET Tasks, absent : SUBSET Tasks]

VARIABLES
    data,       \* the page at i_size
    head, tail, \* PIPE_HEAD and PIPE_TAIL: i_zone[0] and i_zone[1]
    i_count,    \* ends of the pipe that are open in somebody's table
    i_wait,     \* head of the wait queue
    ends,       \* the ends each task has descriptors for: files of file_table
    op, count,  \* the call a task is in; its variable count
    buf,        \* the user's buffer: what a read got, what a write has left
    tmp,        \* the local variable of sleep_on()
    rest,       \* while a page is read in: where the copying goes on, and
                \* how many characters it has left
    pc,         \* where the task is: see Places
    cpu,        \* the task that is in the kernel and has not slept
    sigpipe,    \* SIGPIPE is set in the task's signal
    use         \* fixed: the slots of task[] that fork() may fill, and the
                \* tasks whose buffers may lie on absent pages

vars == <<data, head, tail, i_count, i_wait, ends, op, count, buf, tmp, rest,
          pc, cpu, sigpipe, use>>

Ends == {"read", "write"}
Slots == 0 .. PAGE_SIZE - 1

\* "user": in user mode, or not born; "run": in read_pipe() or write_pipe();
\* "sleep": in its sleep_on(), not woken; "woken": in sleep_on(), made
\* runnable; "fault": in the copying, while a page comes in.
Places == {"user", "run", "sleep", "woken", "fault"}

\* Mutant: the end of the page is one slot too far.
WrapLate(x) == IF x < 0 THEN x + PAGE_SIZE
               ELSE IF x > PAGE_SIZE THEN x - PAGE_SIZE ELSE x

\* x & (PAGE_SIZE-1) for the values that occur: sums of a slot and at most a
\* page, and differences of slots.
Wrap(x) == IF x < 0 THEN x + PAGE_SIZE
           ELSE IF x >= PAGE_SIZE THEN x - PAGE_SIZE ELSE x

\* PIPE_SIZE.
Size == Wrap(head - tail)

Room == (PAGE_SIZE - 1) - Size

Init ==
    /\ data = [i \in Slots |-> Nul]
    /\ head = 0 /\ tail = 0 /\ i_count = 0 /\ i_wait = None
    /\ ends = [t \in Tasks |-> {}]
    /\ op = [t \in Tasks |-> "none"]
    /\ count = [t \in Tasks |-> 0]
    /\ buf = [t \in Tasks |-> <<>>]
    /\ tmp = [t \in Tasks |-> None]
    /\ rest = [t \in Tasks |-> <<0, 0>>]
    /\ pc = [t \in Tasks |-> "user"]
    /\ cpu = None
    /\ sigpipe = [t \in Tasks |-> FALSE]
    /\ use \in Uses

-----------------------------------------------------------------------------
\* A task in user mode has the processor to make a system call; a pending
\* SIGPIPE was taken on the way there.
InUser(t) == cpu = None /\ pc[t] = "user" /\ ~sigpipe[t]

In(t, o) == cpu = t /\ pc[t] = "run" /\ op[t] = o

\* *p made runnable, if it is asleep.
Woken(p, places) ==
    IF p # None /\ places[p] = "sleep" THEN [places EXCEPT ![p] = "woken"]
    ELSE places

\* sys_pipe(), once it has its two files, two descriptors and a page.
sys_pipe(t) ==
    /\ InUser(t) /\ t \in use.slots /\ i_count = 0
    /\ i_count' = 2 /\ head' = 0 /\ tail' = 0 /\ i_wait' = None
    /\ data' = [i \in Slots |-> Nul]
    /\ ends' = [ends EXCEPT ![t] = Ends]
    /\ UNCHANGED <<op, count, buf, tmp, rest, pc, cpu, sigpipe, use>>

\* copy_process(): the child u shares the files of its father.
Fork(t, u) ==
    /\ InUser(t) /\ u \in use.slots /\ pc[u] = "user" /\ ends[u] = {}
    /\ ends' = [ends EXCEPT ![u] = ends[t]]
    /\ UNCHANGED <<data, head, tail, i_count, i_wait, op, count, buf, tmp, rest,
                   pc, cpu, sigpipe, use>>

\* Mutant: iput() does not wake those who wait at the other end.
QuietIput ==
    /\ i_count' = i_count - 1
    /\ UNCHANGED <<i_wait, pc>>

\* iput() of a pipe: its waiters must look again at i_count.
iput ==
    /\ pc' = Woken(i_wait, pc)
    /\ i_wait' = None
    /\ i_count' = i_count - 1

\* Mutant: the inode is put with every descriptor, not with the last one.
CloseAny(t, e) ==
    /\ InUser(t) /\ e \in ends[t]
    /\ ends' = [ends EXCEPT ![t] = @ \ {e}]
    /\ iput
    /\ UNCHANGED <<data, head, tail, op, count, buf, tmp, rest, cpu, sigpipe,
                   use>>

\* sys_close(), also from do_exit(): the last descriptor of a file puts the
\* inode.
sys_close(t, e) ==
    /\ InUser(t) /\ e \in ends[t]
    /\ ends' = [ends EXCEPT ![t] = @ \ {e}]
    /\ IF \E u \in Tasks \ {t} : e \in ends[u]
       THEN UNCHANGED <<i_count, i_wait, pc>>
       ELSE iput
    /\ UNCHANGED <<data, head, tail, op, count, buf, tmp, rest, cpu, sigpipe,
                   use>>

\* do_signal(), or the end of the task, which also closes its ends.
TakeSignal(t) ==
    /\ cpu = None /\ sigpipe[t]
    /\ sigpipe' = [sigpipe EXCEPT ![t] = FALSE]
    /\ UNCHANGED <<data, head, tail, i_count, i_wait, ends, op, count, buf, tmp,
                   rest, pc, cpu, use>>

Enter(t, o, n, s) ==
    /\ InUser(t)
    /\ op' = [op EXCEPT ![t] = o]
    /\ count' = [count EXCEPT ![t] = n]
    /\ buf' = [buf EXCEPT ![t] = s]
    /\ pc' = [pc EXCEPT ![t] = "run"]
    /\ cpu' = t
    /\ UNCHANGED <<data, head, tail, i_count, i_wait, ends, tmp, rest, sigpipe,
                   use>>

\* sys_read() and sys_write(), up to the loop.
sys_read(t, n) == "read" \in ends[t] /\ Enter(t, "read", n, <<>>)
sys_write(t, s) == "write" \in ends[t] /\ Enter(t, "write", Len(s), s)

\* Mutant: a call returns without a word to those who wait.
QuietReturn(t) ==
    /\ op' = [op EXCEPT ![t] = "none"]
    /\ count' = [count EXCEPT ![t] = 0]
    /\ buf' = [buf EXCEPT ![t] = <<>>]
    /\ pc' = [pc EXCEPT ![t] = "user"]
    /\ cpu' = None
    /\ UNCHANGED i_wait

\* "wake_up(&inode->i_wait); return ...": the buffer is the user's again.
Return(t) ==
    /\ op' = [op EXCEPT ![t] = "none"]
    /\ count' = [count EXCEPT ![t] = 0]
    /\ buf' = [buf EXCEPT ![t] = <<>>]
    /\ pc' = Woken(i_wait, [pc EXCEPT ![t] = "user"])
    /\ i_wait' = None
    /\ cpu' = None

\* Mutant: a task goes to sleep without waking the others.
SleepOnly(t) ==
    /\ tmp' = [tmp EXCEPT ![t] = i_wait]
    /\ i_wait' = t
    /\ pc' = [pc EXCEPT ![t] = "sleep"]
    /\ cpu' = None

\* "wake_up(&inode->i_wait); ... sleep_on(&inode->i_wait);": after the
\* wake-up the queue is empty, and so tmp is NULL.
WakeAndSleep(t) ==
    /\ tmp' = [tmp EXCEPT ![t] = None]
    /\ i_wait' = t
    /\ pc' = Woken(i_wait, [pc EXCEPT ![t] = "sleep"])
    /\ cpu' = None

\* The task runs again, wakes tmp, and tests its condition again.
Resume(t) ==
    /\ cpu = None /\ pc[t] = "woken"
    /\ cpu' = t
    /\ pc' = Woken(tmp[t], [pc EXCEPT ![t] = "run"])
    /\ tmp' = [tmp EXCEPT ![t] = None]
    /\ UNCHANGED <<data, head, tail, i_count, i_wait, ends, op, count, buf, rest,
                   sigpipe, use>>

-----------------------------------------------------------------------------
AtMost(x, y) == IF x > y THEN y ELSE x

\* How many characters one turn of the loop moves: up to the end of the page,
\* of the call, and of what there is (or there is room for).
Chunk(t, from, size) == AtMost(AtMost(PAGE_SIZE - from, count[t]), size)

\* How many of n are copied before a page turns out to be absent.
Copied(t, n) == IF t \in use.absent THEN 0 .. n ELSE {n}

\* n characters from slot from on are still to be copied, if any: the task
\* sleeps in the page fault.
Pause(t, from, n) ==
    IF n = 0 THEN UNCHANGED <<rest, pc, cpu>>
    ELSE /\ rest' = [rest EXCEPT ![t] = <<from, n>>]
         /\ pc' = [pc EXCEPT ![t] = "fault"]
         /\ cpu' = None

\* put_fs_byte() of k characters of the ring.
CopyOut(t, from, k) ==
    /\ buf' = [buf EXCEPT ![t] = @ \o [i \in 1 .. k |-> data[from + i - 1]]]
    /\ UNCHANGED data

\* get_fs_byte() of k characters into the ring.
CopyIn(t, from, k) ==
    /\ data' = [i \in Slots |-> IF i \in from .. from + k - 1
                                THEN buf[t][i - from + 1] ELSE data[i]]
    /\ buf' = [buf EXCEPT ![t] = SubSeq(@, k + 1, Len(@))]

\* Mutant: the reader takes its size for what is left to the end of the page.
ReadTooMuch(t) ==
    /\ In(t, "read") /\ count[t] > 0 /\ Size > 0
    /\ LET chars == AtMost(PAGE_SIZE - tail, count[t]) IN
       /\ tail' = Wrap(tail + chars)
       /\ count' = [count EXCEPT ![t] = @ - chars]
       /\ CopyOut(t, tail, chars)
       /\ Pause(t, tail, 0)
    /\ UNCHANGED <<head, i_count, i_wait, ends, op, tmp, sigpipe, use>>

\* read_pipe(), one turn of the loop: the tail moves before the copying.
ReadChars(t) ==
    /\ In(t, "read") /\ count[t] > 0 /\ Size > 0
    /\ LET chars == Chunk(t, tail, Size) IN
       /\ tail' = Wrap(tail + chars)
       /\ count' = [count EXCEPT ![t] = @ - chars]
       /\ \E k \in Copied(t, chars) :
             /\ CopyOut(t, tail, k)
             /\ Pause(t, tail + k, chars - k)
    /\ UNCHANGED <<head, i_count, i_wait, ends, op, tmp, sigpipe, use>>

\* Empty, and there may be more: sleep.
ReadSleeps(t) ==
    /\ In(t, "read") /\ count[t] > 0 /\ Size = 0 /\ i_count = 2
    /\ WakeAndSleep(t)
    /\ UNCHANGED <<data, head, tail, i_count, ends, op, count, buf, rest, sigpipe,
                   use>>

\* Everything read, or no writers.
ReadReturns(t) ==
    /\ In(t, "read")
    /\ count[t] = 0 \/ (Size = 0 /\ i_count # 2)
    /\ Return(t)
    /\ UNCHANGED <<data, head, tail, i_count, ends, tmp, rest, sigpipe, use>>

\* write_pipe(), one turn of the loop: the head moves before the copying.
WriteChars(t) ==
    /\ In(t, "write") /\ count[t] > 0 /\ Room > 0
    /\ LET chars == Chunk(t, head, Room) IN
       /\ head' = Wrap(head + chars)
       /\ count' = [count EXCEPT ![t] = @ - chars]
       /\ \E k \in Copied(t, chars) :
             /\ CopyIn(t, head, k)
             /\ Pause(t, head + k, chars - k)
    /\ UNCHANGED <<tail, i_count, i_wait, ends, op, tmp, sigpipe, use>>

\* Full, and somebody may read: sleep.
WriteSleeps(t) ==
    /\ In(t, "write") /\ count[t] > 0 /\ Room = 0 /\ i_count = 2
    /\ WakeAndSleep(t)
    /\ UNCHANGED <<data, head, tail, i_count, ends, op, count, buf, rest, sigpipe,
                   use>>

\* Everything written.
WriteReturns(t) ==
    /\ In(t, "write") /\ count[t] = 0
    /\ Return(t)
    /\ UNCHANGED <<data, head, tail, i_count, ends, tmp, rest, sigpipe, use>>

\* No readers.
WriteBreaks(t) ==
    /\ In(t, "write") /\ count[t] > 0 /\ Room = 0 /\ i_count # 2
    /\ sigpipe' = [sigpipe EXCEPT ![t] = TRUE]
    /\ Return(t)
    /\ UNCHANGED <<data, head, tail, i_count, ends, tmp, rest, use>>

\* The page came in, and the copying goes on to the end of the chunk.
CopyRest(t) ==
    /\ cpu = None /\ pc[t] = "fault"
    /\ cpu' = t
    /\ pc' = [pc EXCEPT ![t] = "run"]
    /\ IF op[t] = "read" THEN CopyOut(t, rest[t][1], rest[t][2])
       ELSE CopyIn(t, rest[t][1], rest[t][2])
    /\ rest' = [rest EXCEPT ![t] = <<0, 0>>]
    /\ UNCHANGED <<head, tail, i_count, i_wait, ends, op, count, tmp, sigpipe,
                   use>>

-----------------------------------------------------------------------------
\* Kernel code of t that goes on by itself.
Kernel(t) ==
    \/ ReadChars(t) \/ ReadSleeps(t) \/ ReadReturns(t)
    \/ WriteChars(t) \/ WriteSleeps(t) \/ WriteReturns(t) \/ WriteBreaks(t)

\* t is given the processor again.
Scheduled(t) == Resume(t) \/ CopyRest(t)

Next ==
    \E t \in Tasks :
        \/ Kernel(t) \/ Scheduled(t)
        \/ sys_pipe(t) \/ TakeSignal(t)
        \/ \E u \in Tasks : Fork(t, u)
        \/ \E e \in Ends : sys_close(t, e)
        \/ \E n \in ReadSizes : sys_read(t, n)
        \/ \E s \in Payloads : sys_write(t, s)

Spec == Init /\ [][Next]_vars

\* Kernel code runs on, and a task that stays runnable runs in the end.
FairSpec ==
    /\ Spec
    /\ WF_vars(\E t \in Tasks : Kernel(t))
    /\ \A t \in Tasks : SF_vars(Scheduled(t))

-----------------------------------------------------------------------------
\* The types; a task with the processor is in a call, and in the copying a
\* write has as many characters left as its count and its chunk say.
TypeOK ==
    /\ data \in [Slots -> Chars]
    /\ head \in Slots /\ tail \in Slots
    /\ i_count \in 0 .. 2
    /\ i_wait \in Tasks \cup {None}
    /\ ends \in [Tasks -> SUBSET Ends]
    /\ op \in [Tasks -> {"none", "read", "write"}]
    /\ count \in [Tasks -> Nat]
    /\ buf \in [Tasks -> Seq(Chars)]
    /\ tmp \in [Tasks -> Tasks \cup {None}]
    /\ rest \in [Tasks -> (0 .. PAGE_SIZE) \X Slots]
    /\ pc \in [Tasks -> Places]
    /\ cpu \in Tasks \cup {None}
    /\ sigpipe \in [Tasks -> BOOLEAN]
    /\ use \in Uses
    /\ \A t \in Tasks :
          /\ pc[t] = "user" <=> op[t] = "none"
          /\ pc[t] = "run" <=> cpu = t
          /\ op[t] = "write" => Len(buf[t]) = count[t] + rest[t][2]
          /\ pc[t] # "fault" => rest[t] = <<0, 0>>
          /\ rest[t][1] + rest[t][2] <= PAGE_SIZE

\* i_count is "sum of readers/writers" (inode.c:238): the ends that somebody
\* has open.  read_pipe() and write_pipe() know from it alone whether anybody
\* is left at the other end.
CountIsEnds ==
    LET Open(e) == IF \E t \in Tasks : e \in ends[t] THEN 1 ELSE 0
    IN  i_count = Open("read") + Open("write")

\* The characters of the ring, oldest first.
Contents == [i \in 1 .. Size |-> data[Wrap(tail + i - 1)]]

PQ == INSTANCE PipeQueue WITH queue <- Contents, Capacity <- PAGE_SIZE - 1

\* The ring is a queue: what is read is what was written, in the order of the
\* turns, nothing twice and nothing lost at the wrap of the page; a read ends
\* early only at the end of file, and SIGPIPE comes only to who writes into a
\* full pipe that nobody can read.  This is so as long as no buffer has an
\* absent page (see ReadsWhatWasWritten).
ImplementsQueue == PQ!QInit /\ [][use.absent = {} => PQ!QNext]_(PQ!qvars)

\* Nobody sleeps who need not: a sleeping reader has an empty pipe and a
\* writer that may come, a sleeping writer a full pipe and a reader.  It is
\* for this that every chunk of code that changes the pipe ends in a wake-up,
\* and that everybody who gives up the processor wakes the one who sleeps.
\* (A task in the middle of its copying has yet to come to its wake-up.)
SleepsOnlyIfMust ==
    (cpu = None /\ \A t \in Tasks : pc[t] # "fault") =>
        \A t \in Tasks : pc[t] = "sleep" =>
            /\ op[t] = "read" => Size = 0 /\ ~ PQ!Nobody("write")
            /\ op[t] = "write" => Room = 0 /\ ~ PQ!Nobody("read")

\* Whoever sleeps can be woken: it is the head of i_wait.  (Not: it is in the
\* chain of the tmp variables; the pipe wakes before it sleeps, and so there
\* is never more than one sleeper.)
SleeperIsHead == \A t \in Tasks : pc[t] = "sleep" => i_wait = t

\* Nobody reads what nobody wrote: if no payload holds the character 0, no
\* reader gets one.  ImplementsQueue says so for copies that do not sleep.
\* With use.absent # {} it is false: the head is in front of the characters that
\* the sleeping writer has yet to copy, and a reader takes what is there.
ReadsWhatWasWritten ==
    \A t \in Tasks : op[t] = "read" => \A i \in 1 .. Len(buf[t]) : buf[t][i] # Nul

\* Nobody is left at the other end of the call t is in.
Alone(t) ==
    \/ op[t] = "read" /\ PQ!Nobody("write")
    \/ op[t] = "write" /\ PQ!Nobody("read")

\* A call whose other end is gone comes to its end: a reader gets the end of
\* file, a writer SIGPIPE, if they do not get what they want before.
CallEndsAlone == \A t \in Tasks : Alone(t) ~> (op[t] = "none")

=============================================================================
