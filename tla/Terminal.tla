------------------------------ MODULE Terminal ------------------------------
(***************************************************************************)
(* A terminal: its three queues between the interrupts of a keyboard or a  *)
(* serial line and the tasks that read and write                           *)
(* (kernel/chr_drv/tty_io.c, tty_ioctl.c, rs_io.s, serial.c).              *)
(*                                                                         *)
(* A handler runs to its end: the serial line has an interrupt gate, and   *)
(* keys are taken to come slower than copy_to_cooked() runs.  It may come  *)
(* between any two steps of a task, and inside of its GETCH or PUTCH.      *)
(* Another task runs only where the task sleeps, calls schedule() or       *)
(* returns, or where a byte of the user is swapped out (faults).  Tasks    *)
(* wait in interruptible_sleep_on() with interrupts masked, so all it does *)
(* from one schedule() to the next is one step (Dispatch).                 *)
(* LOW, STARTUP and SPARE stand for 128, 256 and 20 of a queue of 1024.    *)
(***************************************************************************)
EXTENDS Integers, Sequences, FiniteSets, SequencesExt, FiniteSetsExt

CONSTANTS
    Tasks, LOW, STARTUP, SPARE,
    Workloads           \* the terminal, what tasks write and read, and the keys that come

None == "none"

ASSUME TerminalAssumption ==
    /\ None \notin Tasks /\ {LOW, STARTUP, SPARE} \subseteq Nat
    /\ \A j \in Workloads :
         /\ {j.size, j.keys, j.faults} \subseteq Nat /\ j.reads \in [Tasks -> Nat]
         /\ j.size - 1 > SPARE /\ LOW > 0 /\ LOW + STARTUP < j.size

VARIABLES
    job,                \* the workload
    term,               \* its termios
    read_q, write_q, secondary,
    data,               \* secondary.data: ends of lines in it
    cr_flag, txie,      \* the static of tty_write(); interrupts of the transmitter
    cur, pc, signal,
    asleep,             \* tasks that are TASK_INTERRUPTIBLE
    list, tmp,          \* proc_list of the queues; the tmp of interruptible_sleep_on()
    alarm, flag,        \* the alarm of a task is tty_read()'s
    text,               \* what a task has still to write
    want, got,          \* nr and b - buf of a reader
    nr, held,           \* nr of con_write(); the character between the halves of a GETCH
    line, took,         \* what has left the queues, for the line or the readers
    keys, ioctls, faults    \* bounds: keys, ioctl calls and faults to come

queues == <<read_q, write_q, secondary, data>>
timers == <<alarm, flag>>
sleepers == <<asleep, list, tmp>>
bounds == <<keys, ioctls, faults>>
tty_vars == <<job, term, queues, cr_flag, txie, cur, pc, sleepers, signal, timers,
              text, want, got, nr, held, line, took, bounds>>

CtrlChars == {"EOF", "INTR", "QUIT"}      \* characters below 32 that are echoed as ^c
LineEnds == {"NL", "EOF"}

-----------------------------------------------------------------------------
\* struct tty_queue: head and tail count modulo the size.
Mod(n) == n % job.size
Empty(q) == q.head = q.tail
Left(q) == Mod(q.tail - q.head - 1)
Full(q) == Left(q) = 0
CHARS(q) == Mod(q.head - q.tail)
LastOf(q) == q.buf[Mod(q.head - 1)]
First(q) == q.buf[q.tail]
Store(q, c) == [q EXCEPT !.buf[q.head] = c]
IncHead(q) == [q EXCEPT !.head = Mod(@ + 1)]
DecHead(q) == [q EXCEPT !.head = Mod(@ - 1)]
IncTail(q) == [q EXCEPT !.tail = Mod(@ + 1)]
Putch(q, c) == IncHead(Store(q, c))
PutAll(q, s) == FoldLeft(Putch, q, s)
Flushed(q) == [q EXCEPT !.head = q.tail]
Content(q) == [i \in 1 .. CHARS(q) |-> q.buf[Mod(q.tail + i - 1)]]

-----------------------------------------------------------------------------
\* What a handler works on: s is a record of the terminal's variables.
Here == [read_q |-> read_q, write_q |-> write_q, secondary |-> secondary, data |-> data,
         signal |-> signal, line |-> line, txie |-> txie]

\* tty->write(): a console prints all, a serial line is told to ask for it.
Write(s) ==
    IF job.console
    THEN [s EXCEPT !.line = @ \o Content(s.write_q), !.write_q.tail = s.write_q.head]
    ELSE [s EXCEPT !.txie = @ \/ ~ Empty(s.write_q)]

Echo(s, chars) == IF term.echo THEN Write([s EXCEPT !.write_q = PutAll(@, chars)]) ELSE s
Erased(c) == IF c \in CtrlChars THEN <<"DEL", "DEL">> ELSE <<"DEL">>
Echoed(c) == CASE c = "NL" -> <<"NL", "CR">> [] c \in CtrlChars -> <<"^", c>> [] OTHER -> <<c>>

\* Is there a character of the last line to take back?
Unended(s) == ~ Empty(s.secondary) /\ LastOf(s.secondary) \notin LineEnds
\* Mutant: the line before is taken back as well.
TakeBackAny(s) ==
    IF ~ Empty(s.secondary)
    THEN [Echo(s, Erased(LastOf(s.secondary))) EXCEPT !.secondary = DecHead(@)]
    ELSE s

TakeBack(s) ==
    IF Unended(s)
    THEN [Echo(s, Erased(LastOf(s.secondary))) EXCEPT !.secondary = DecHead(@)]
    ELSE s
Kill(s) ==
    LET after[k \in 0 .. job.size] == IF k = 0 THEN s ELSE TakeBack(after[k - 1])
    IN  after[job.size]

\* Mutant: an end of file does not count.
AcceptNoEof(s, c) ==
    [Echo([s EXCEPT !.data = @ + (IF c = "NL" THEN 1 ELSE 0)], Echoed(c))
       EXCEPT !.secondary = Putch(@, c)]

Accept(s, c) ==
    [Echo([s EXCEPT !.data = @ + (IF c \in LineEnds THEN 1 ELSE 0)], Echoed(c))
       EXCEPT !.secondary = Putch(@, c)]

\* tty_intr(): the tasks here are of the terminal's group.
Interrupt(s, sig) == [s EXCEPT !.signal = [t \in Tasks |-> @[t] \cup {sig}]]

\* One turn of the loop of copy_to_cooked().
CookOne(s) ==
    LET k == First(s.read_q)
        c == IF k = "CR" /\ term.crnl THEN "NL" ELSE k
        r == [s EXCEPT !.read_q = IncTail(@)]
    IN
    IF Empty(s.read_q) \/ Full(s.secondary) THEN s
    ELSE CASE term.canon /\ c = "KILL" -> Kill(r)
           [] term.canon /\ c = "ERASE" -> TakeBack(r)
           [] term.isig /\ c \in {"INTR", "QUIT"} -> Interrupt(r, c)
           [] OTHER -> Accept(r, c)
copy_to_cooked(s) ==
    LET after[k \in 0 .. job.size] == IF k = 0 THEN s ELSE CookOne(after[k - 1])
    IN  after[job.size]


\* wake_up() of copy_to_cooked(): the head of the list, which is then empty.
WakeReader ==
    asleep' = asleep \ {list.secondary} /\ list' = [list EXCEPT !.secondary = None]

\* rs_io.s wakes the head as well, and leaves it there.
WakeWriter == asleep' = asleep \ {list.write_q}

Become(s) ==
    /\ read_q' = s.read_q /\ write_q' = s.write_q /\ secondary' = s.secondary
    /\ data' = s.data /\ signal' = s.signal /\ line' = s.line /\ txie' = s.txie

-----------------------------------------------------------------------------
\* The handlers.

\* A key or a character of the line: it is dropped if the queue is full.
Receive ==
    /\ keys > 0 /\ keys' = keys - 1
    /\ \E c \in job.keyset :
         LET stored == Store(read_q, c)
             q == IF Full(read_q) THEN stored ELSE IncHead(stored) IN
         Become(copy_to_cooked([Here EXCEPT !.read_q = q]))
    /\ WakeReader
    /\ UNCHANGED <<job, term, cr_flag, cur, pc, tmp, timers, text, want, got, nr, held,
                   took, ioctls, faults>>


\* write_char() and write_buffer_empty().
Transmit ==
    /\ txie
    /\ LET q == IncTail(write_q) IN
       IF Empty(write_q)
       THEN txie' = FALSE /\ WakeWriter /\ UNCHANGED <<write_q, line>>
       ELSE /\ line' = Append(line, First(write_q)) /\ write_q' = q
            /\ txie' = ~ Empty(q)
            /\ IF CHARS(write_q) <= STARTUP \/ Empty(q) THEN WakeWriter
               ELSE asleep' = asleep
    /\ UNCHANGED <<job, term, read_q, secondary, data, cr_flag, cur, pc, list, tmp,
                   signal, timers, text, want, got, nr, held, took, bounds>>

\* schedule() sees that the alarm that tty_read() has set is over.
Alarm(t) ==
    /\ cur = None /\ alarm[t]
    /\ alarm' = [alarm EXCEPT ![t] = FALSE]
    /\ signal' = [signal EXCEPT ![t] = @ \cup {"ALRM"}]
    /\ UNCHANGED <<job, term, queues, cr_flag, txie, cur, pc, sleepers, flag, text,
                   want, got, nr, held, line, took, bounds>>

-----------------------------------------------------------------------------
\* The tasks.
At(t, p) == cur = t /\ pc[t] = p
GoTo(t, p) == pc' = [pc EXCEPT ![t] = p]
Leave(t) == cur' = None

\* sleep_if_empty() and sleep_if_full(): the queue, the test of the loop, and
\* what comes after it.
Waits(t) == pc[t] \in {"empty", "full"} /\ cur # t
Of(t) == IF pc[t] = "empty" THEN "secondary" ELSE "write_q"
Over(t) ==
    \/ signal[t] # {}
    \/ pc[t] = "empty" /\ ~ Empty(secondary)
    \/ pc[t] = "full" /\ Left(write_q) >= LOW
After(t) == IF pc[t] = "empty" THEN "check" ELSE "room"

\* interruptible_sleep_on() puts the task before the head of list l; others
\* are asleep already.
SleepOn(t, others, l) ==
    /\ tmp' = [tmp EXCEPT ![t] = l[Of(t)]]
    /\ list' = [l EXCEPT ![Of(t)] = t]
    /\ asleep' = others \cup {t}
    /\ Leave(t) /\ pc' = pc

SleepIf(t) ==
    /\ cur = t /\ pc[t] \in {"empty", "full"}
    /\ \/ Over(t) /\ GoTo(t, After(t)) /\ UNCHANGED <<cur, sleepers>>
       \/ ~ Over(t) /\ SleepOn(t, asleep, list)
    /\ UNCHANGED <<job, term, queues, cr_flag, txie, signal, timers, text, want, got,
                   nr, held, line, took, bounds>>

\* It returns from schedule(): another task is the head now, which it wakes and
\* sleeps on; or it empties the list, wakes tmp and tests again.
Wakes(t) ==
    LET head == list[Of(t)]
        others == asleep \ {t, tmp[t]}
        l == [list EXCEPT ![Of(t)] = None] IN
    \/ /\ head \notin {None, t}
       /\ asleep' = (asleep \ {head}) \cup {t}
       /\ UNCHANGED <<cur, pc, list, tmp>>
    \/ /\ head \in {None, t} /\ Over(t)
       /\ asleep' = others /\ list' = l /\ tmp' = [tmp EXCEPT ![t] = None]
       /\ GoTo(t, After(t)) /\ cur' = t
    \/ head \in {None, t} /\ ~ Over(t) /\ SleepOn(t, others, l)

\* schedule() takes a task that is awake, or has a signal.
Dispatch(t) ==
    /\ cur = None /\ pc[t] # "done"
    /\ t \notin asleep \/ signal[t] # {}
    /\ IF Waits(t) THEN Wakes(t) ELSE cur' = t /\ UNCHANGED <<pc, sleepers>>
    /\ UNCHANGED <<job, term, queues, cr_flag, txie, signal, timers, text, want, got,
                   nr, held, line, took, bounds>>

\* A byte of the user was swapped out: it is brought in before it is copied, by
\* get_fs_byte() after the test for room, or put_fs_byte() after GETCH.
FaultAt(t) ==
    /\ cur = t /\ pc[t] \in {"fetch", "give"}
    /\ faults > 0 /\ faults' = faults - 1
    /\ Leave(t)
    /\ UNCHANGED <<job, term, queues, cr_flag, txie, pc, sleepers, signal, timers,
                   text, want, got, nr, held, line, took, keys, ioctls>>

\* tty_read(): the alarm, if characters are waited for with a timeout.
ReadCall(t) ==
    /\ At(t, "read")
    /\ LET timed == job.time /\ job.min = 0 IN
       /\ flag' = [flag EXCEPT ![t] = timed]
       /\ alarm' = [alarm EXCEPT ![t] = timed]
    /\ GoTo(t, "check")
    /\ UNCHANGED <<job, term, queues, cr_flag, txie, cur, sleepers, signal, text,
                   want, got, nr, held, line, took, bounds>>

\* Its end: the alarm of the caller is none.
ReadReturns(t) ==
    /\ GoTo(t, "done") /\ Leave(t)
    /\ alarm' = [alarm EXCEPT ![t] = FALSE]

\* Nothing to be read yet: what is there is not a line, nor nearly all that fits.
NoLine ==
    Empty(secondary) \/ (term.canon /\ data = 0 /\ Left(secondary) > SPARE)

\* The head of its loop.
Check(t) ==
    /\ At(t, "check")
    /\ \/ /\ signal[t] # {}
          /\ signal' = IF flag[t] THEN [signal EXCEPT ![t] = @ \ {"ALRM"}] ELSE signal
          /\ ReadReturns(t)
       \/ /\ signal[t] = {}
          /\ GoTo(t, IF NoLine THEN "empty" ELSE "take")
          /\ UNCHANGED <<cur, signal, alarm>>
    /\ UNCHANGED <<job, term, queues, cr_flag, txie, sleepers, flag, text, want, got,
                   nr, held, line, took, bounds>>

\* GETCH of its inner loop, in two halves.
Take(t) ==
    /\ \/ /\ At(t, "take")
          /\ held' = First(secondary) /\ GoTo(t, "taking")
          /\ UNCHANGED <<secondary, data, took, cur>>
       \/ /\ At(t, "taking")
          /\ held' = held /\ secondary' = IncTail(secondary)
          /\ data' = IF held \in LineEnds THEN data - 1 ELSE data
          /\ took' = Append(took, held)
          /\ IF held = "EOF" /\ term.canon THEN GoTo(t, "done") /\ Leave(t)
             ELSE GoTo(t, "give") /\ cur' = cur
    /\ UNCHANGED <<job, term, read_q, write_q, cr_flag, txie, sleepers, signal, timers,
                   text, want, got, nr, line, bounds>>

\* The character is given to the user; what follows it, and the last one.
Minimum(t) ==
    LET n == IF job.time /\ job.min = 0 THEN 1 ELSE job.min IN
    IF n > job.reads[t] THEN job.reads[t] ELSE n
Give(t) ==
    LET last == want[t] = 1 \/ Empty(secondary)
        again == last /\ job.time /\ ~ term.canon IN
    /\ At(t, "give")
    /\ want' = [want EXCEPT ![t] = @ - 1] /\ got' = [got EXCEPT ![t] = @ + 1]
    /\ flag' = IF again THEN [flag EXCEPT ![t] = TRUE] ELSE flag
    /\ IF ~ last THEN GoTo(t, "take") /\ UNCHANGED <<cur, alarm>>
       ELSE IF want[t] = 1 \/ term.canon \/ got'[t] >= Minimum(t) THEN ReadReturns(t)
       ELSE /\ GoTo(t, "check") /\ cur' = cur
            /\ alarm' = IF again THEN [alarm EXCEPT ![t] = TRUE] ELSE alarm
    /\ UNCHANGED <<job, term, queues, cr_flag, txie, sleepers, signal, text, nr, held,
                   line, took, bounds>>

\* tty_write() waits for room, then tests for a signal.
WaitForRoom(t) ==
    /\ \/ /\ At(t, "wait")
          /\ GoTo(t, IF Full(write_q) THEN "full" ELSE "room") /\ cur' = cur
       \/ /\ At(t, "room")
          /\ IF signal[t] # {} THEN GoTo(t, "done") /\ Leave(t) ELSE GoTo(t, "put") /\ cur' = cur
    /\ UNCHANGED <<job, term, queues, cr_flag, txie, sleepers, signal, timers, text,
                   want, got, nr, held, line, took, bounds>>

\* Mutant: more is put than fits.
RoomForAny(t) == text[t] # <<>>
RoomFor(t) == text[t] # <<>> /\ ~ Full(write_q)

\* Mutant: cr_flag is not tested.
CrAlways(c) == term.post /\ c = "NL"
CrFirst(c) == term.post /\ c = "NL" /\ ~ cr_flag

\* One turn of its inner loop.
PutNext(t) ==
    LET c == Head(text[t])
        first == CrFirst(c)
        k == IF first THEN "CR" ELSE c IN
    /\ \/ /\ At(t, "put") /\ RoomFor(t)
          /\ GoTo(t, "fetch") /\ UNCHANGED <<write_q, cr_flag, text>>
       \/ /\ At(t, "fetch")
          /\ write_q' = Store(write_q, k) /\ GoTo(t, "putting")
          /\ UNCHANGED <<cr_flag, text>>
       \/ /\ At(t, "putting")
          /\ write_q' = IncHead(write_q) /\ GoTo(t, "put")
          /\ cr_flag' = first
          /\ text' = IF first THEN text ELSE [text EXCEPT ![t] = Tail(@)]
    /\ UNCHANGED <<job, term, read_q, secondary, data, txie, cur, sleepers, signal,
                   timers, want, got, nr, held, line, took, bounds>>

\* tty->write() of a task.  con_write() counts the characters first.
Send(t) ==
    /\ At(t, "put") /\ ~ RoomFor(t)
    /\ GoTo(t, "sent")
    /\ IF job.console THEN nr' = CHARS(write_q) /\ txie' = txie
       ELSE txie' = (txie \/ ~ Empty(write_q)) /\ nr' = 0
    /\ UNCHANGED <<job, term, queues, cr_flag, cur, sleepers, signal, timers, text,
                   want, got, held, line, took, bounds>>

PrintNext(t) ==
    /\ At(t, "sent") /\ nr > 0
    /\ nr' = nr - 1
    /\ line' = Append(line, First(write_q)) /\ write_q' = IncTail(write_q)
    /\ UNCHANGED <<job, term, read_q, secondary, data, cr_flag, txie, cur, pc,
                   sleepers, signal, timers, text, want, got, held, took, bounds>>

\* The rest is written after schedule().
WriteOn(t) ==
    /\ At(t, "sent") /\ nr = 0
    /\ GoTo(t, IF text[t] = <<>> THEN "done" ELSE "wait") /\ Leave(t)
    /\ UNCHANGED <<job, term, queues, cr_flag, txie, sleepers, signal, timers, text,
                   want, got, nr, held, line, took, bounds>>

\* tty_ioctl() of some task: flush() of either queue, or other termios.
Ioctl ==
    /\ cur = None /\ ioctls > 0 /\ ioctls' = ioctls - 1
    /\ \/ /\ read_q' = Flushed(read_q) /\ UNCHANGED <<write_q, term>>
       \/ /\ write_q' = Flushed(write_q) /\ UNCHANGED <<read_q, term>>
       \/ /\ term' = job.other /\ UNCHANGED <<read_q, write_q>>
    /\ UNCHANGED <<job, secondary, data, cr_flag, txie, cur, pc, sleepers, signal,
                   timers, text, want, got, nr, held, line, took, keys, faults>>

-----------------------------------------------------------------------------
EmptyQueue == [buf |-> [i \in 0 .. job.size - 1 |-> "0"], head |-> 0, tail |-> 0]

\* A workload gives each task one call: to write, to read, or none.
TtyInit ==
    /\ job \in Workloads
    /\ term = job.term
    /\ read_q = EmptyQueue /\ write_q = EmptyQueue /\ secondary = EmptyQueue /\ data = 0
    /\ cr_flag = FALSE /\ txie = FALSE
    /\ cur = None /\ asleep = {} /\ tmp = [t \in Tasks |-> None]
    /\ list = [q \in {"secondary", "write_q"} |-> None] /\ signal = [t \in Tasks |-> {}]
    /\ pc = [t \in Tasks |-> IF job.texts[t] # <<>> THEN "wait"
                            ELSE IF job.reads[t] > 0 THEN "read" ELSE "done"]
    /\ alarm = [t \in Tasks |-> FALSE] /\ flag = alarm
    /\ text = job.texts /\ want = job.reads /\ got = [t \in Tasks |-> 0]
    /\ nr = 0 /\ held = "0" /\ line = <<>> /\ took = <<>>
    /\ keys = job.keys /\ ioctls = job.ioctls /\ faults = job.faults

Run(t) == \/ ReadCall(t) \/ Check(t) \/ Take(t) \/ Give(t) \/ SleepIf(t)
          \/ WaitForRoom(t) \/ PutNext(t) \/ Send(t) \/ PrintNext(t) \/ WriteOn(t)

Handler == Receive \/ Transmit

TtyNext ==
    \/ Handler \/ Ioctl
    \/ \E t \in Tasks : Alarm(t) \/ Dispatch(t) \/ FaultAt(t) \/ Run(t)

\* A task runs on, schedule() takes each task that can run in its time, the
\* transmitter asks for its next character and time passes.  Keys need not come.
Fairness ==
    /\ WF_tty_vars(Transmit)
    /\ \A t \in Tasks : WF_tty_vars(Run(t)) /\ SF_tty_vars(Dispatch(t)) /\ SF_tty_vars(Alarm(t))

TtySpec == TtyInit /\ [][TtyNext]_tty_vars /\ Fairness

-----------------------------------------------------------------------------
\* secondary.data is the number of line ends in the queue, whatever handlers,
\* readers and changes of the mode do to both.
LineEndsCounted ==
    data = Cardinality({i \in 1 .. CHARS(secondary) : Content(secondary)[i] \in LineEnds})

\* What leaves the write queue is what the tasks have put there, and echo: of
\* each task all, in its order and nothing twice, unless a flush took it, and
\* nothing else.
Out == line \o Content(write_q)
Inked(s, S) == SelectSeq(s, LAMBDA c : c \in S \ {"NL"})
AllComesOut ==
    /\ ToSet(Out) \subseteq UNION {ToSet(job.texts[t]) : t \in Tasks}
         \cup (IF job.console THEN job.keyset \cup {"CR", "NL", "^", "DEL"} ELSE {})
    /\ \A t \in Tasks :
         LET mine == ToSet(job.texts[t])
             sent == Inked(Out, mine)
             all == Inked(job.texts[t], mine) IN
         IF ioctls = job.ioctls THEN sent \o Inked(text[t], mine) = all
         ELSE \A i, j \in DOMAIN sent : i < j =>
                \E m, n \in DOMAIN all : m < n /\ all[m] = sent[i] /\ all[n] = sent[j]

\* So it is where no key is echoed between the characters of a task, and no
\* other task writes while a byte of one is brought in, after the test for room.
Writers == {t \in Tasks : job.texts[t] # <<>>}
OutputInOrder ==
    ~ (job.console /\ job.keys > 0) /\ (job.faults = 0 \/ Cardinality(Writers) = 1)
      => AllComesOut

\* Every newline written comes out as a carriage return and a newline (ONLCR).
\* (Echo does it the other way round.)
NlIsCrNl ==
    term.post /\ job.keys = 0 =>
      \A i \in DOMAIN line :
         /\ line[i] = "NL" => i > 1 /\ line[i - 1] = "CR"
         /\ line[i] = "CR" /\ i < Len(line) => line[i + 1] = "NL"

\* An ended line, and what a reader has taken, stays: no key takes it back.
Queued == took \o Content(secondary)
Ends(s) == {0} \cup {i \in DOMAIN s : s[i] \in LineEnds}
Fixed == SubSeq(Queued, 1, Max({Len(took)} \cup Ends(Queued)))
LinesStay == [][IsPrefix(Fixed, Queued')]_<<took, secondary>>

\* Tasks that will be woken: those that are awake or the head of a list, and the
\* tmp of each of them.  The others that sleep are lost.
Remembered ==
    LET after[k \in Nat] ==
          IF k = 0 THEN (Tasks \ asleep) \cup {list[q] : q \in DOMAIN list}
          ELSE after[k - 1] \cup {tmp[t] : t \in Tasks \cap after[k - 1]}
    IN  after[Cardinality(Tasks)]
Lost(t) == t \notin Remembered /\ signal[t] = {}

\* A reader is in the kernel and does not leave it.
Reading(t) == pc[t] \in {"check", "empty", "take", "taking", "give"}
Spinning == \E t \in Tasks : cur = t /\ Reading(t)

\* A write returns, however small the queue and whoever else writes, reads or
\* flushes, unless another writer makes interruptible_sleep_on() forget it, or a
\* reader at half a line keeps the processor.  Of several one returns always.
EveryWriterFinishes == \A t \in Tasks : [](pc[t] = "wait" => <>(pc[t] = "done"))

\* A reader returns, unless another takes it, when there is a line or all the
\* room is taken, in raw mode a character, when its time is over or a signal
\* comes; and unless another reader makes interruptible_sleep_on() forget it.
Due(t) ==
    \/ data > 0 \/ Full(secondary) \/ (~ term.canon /\ ~ Empty(secondary))
    \/ signal[t] # {} \/ alarm[t]
Readers == {t \in Tasks : job.reads[t] > 0}
EveryLineIsRead == \A t \in Tasks : (Reading(t) /\ Due(t)) ~> (pc[t] = "done" \/ ~ Due(t))

=============================================================================
