---------------------------- MODULE PipeQueue ----------------------------
(***************************************************************************)
(* What a pipe promises to the tasks that have its ends open: a queue of   *)
(* at most Capacity characters.  A call takes any number of turns at the   *)
(* queue, and ends when it has moved all it was asked to move, or when it  *)
(* cannot go on and nobody is left at the other end.  Module Pipe          *)
(* (fs/pipe.c) is shown to implement this.                                 *)
(***************************************************************************)
EXTENDS Integers, Sequences

CONSTANTS
    Tasks,      \* the tasks of the system
    Chars,      \* the characters
    Capacity,   \* how many the queue holds
    ReadSizes,  \* how many characters a read may ask for
    Payloads    \* what a write may send: non-empty sequences of characters

VARIABLES
    queue,      \* the characters in the pipe, oldest first
    ends,       \* the ends each task has open
    op,         \* the call a task is in: "none", "read" or "write"
    count,      \* how many characters the call has still to move
    buf,        \* what a read has got so far; what a write has still to send
    sigpipe     \* the task was told that nobody will read what it writes

qvars == <<queue, ends, op, count, buf, sigpipe>>

Nobody(e) == \A t \in Tasks : e \notin ends[t]

QInit ==
    /\ queue = <<>>
    /\ ends = [t \in Tasks |-> {}]
    /\ op = [t \in Tasks |-> "none"]
    /\ count = [t \in Tasks |-> 0]
    /\ buf = [t \in Tasks |-> <<>>]
    /\ sigpipe = [t \in Tasks |-> FALSE]

\* A new pipe is empty, whatever the one before it had left.
QOpen(t) ==
    /\ \A e \in {"read", "write"} : Nobody(e)
    /\ queue' = <<>>
    /\ ends' = [ends EXCEPT ![t] = {"read", "write"}]
    /\ UNCHANGED <<op, count, buf, sigpipe>>

QPass(t, u) ==
    /\ op[t] = "none" /\ op[u] = "none" /\ ends[u] = {}
    /\ ends' = [ends EXCEPT ![u] = ends[t]]
    /\ UNCHANGED <<queue, op, count, buf, sigpipe>>

QClose(t, e) ==
    /\ op[t] = "none" /\ e \in ends[t]
    /\ ends' = [ends EXCEPT ![t] = @ \ {e}]
    /\ UNCHANGED <<queue, op, count, buf, sigpipe>>

QRead(t, n) ==
    /\ op[t] = "none" /\ "read" \in ends[t]
    /\ op' = [op EXCEPT ![t] = "read"]
    /\ count' = [count EXCEPT ![t] = n]
    /\ buf' = [buf EXCEPT ![t] = <<>>]
    /\ UNCHANGED <<queue, ends, sigpipe>>

QWrite(t, s) ==
    /\ op[t] = "none" /\ "write" \in ends[t]
    /\ op' = [op EXCEPT ![t] = "write"]
    /\ count' = [count EXCEPT ![t] = Len(s)]
    /\ buf' = [buf EXCEPT ![t] = s]
    /\ UNCHANGED <<queue, ends, sigpipe>>

\* A reader takes the oldest k characters.
Get(t, k) ==
    /\ op[t] = "read" /\ k <= count[t]
    /\ queue' = SubSeq(queue, k + 1, Len(queue))
    /\ buf' = [buf EXCEPT ![t] = @ \o SubSeq(queue, 1, k)]
    /\ count' = [count EXCEPT ![t] = @ - k]
    /\ UNCHANGED <<ends, op, sigpipe>>

\* A writer puts its next k characters behind the others.
Put(t, k) ==
    /\ op[t] = "write" /\ k <= count[t] /\ Len(queue) + k <= Capacity
    /\ queue' = queue \o SubSeq(buf[t], 1, k)
    /\ buf' = [buf EXCEPT ![t] = SubSeq(@, k + 1, Len(@))]
    /\ count' = [count EXCEPT ![t] = @ - k]
    /\ UNCHANGED <<ends, op, sigpipe>>

EndCall(t) ==
    /\ op' = [op EXCEPT ![t] = "none"]
    /\ count' = [count EXCEPT ![t] = 0]
    /\ buf' = [buf EXCEPT ![t] = <<>>]

\* A read ends with all it asked for, or at the end of file: the pipe is
\* empty and nobody can write to it.
EndRead(t) ==
    /\ op[t] = "read"
    /\ count[t] = 0 \/ (queue = <<>> /\ Nobody("write"))
    /\ EndCall(t)
    /\ UNCHANGED <<queue, ends, sigpipe>>

\* A write ends when all is sent.
EndWrite(t) ==
    /\ op[t] = "write" /\ count[t] = 0
    /\ EndCall(t)
    /\ UNCHANGED <<queue, ends, sigpipe>>

\* Or with SIGPIPE: the pipe is full and nobody can read from it.
BreakWrite(t) ==
    /\ op[t] = "write" /\ Len(queue) = Capacity /\ Nobody("read")
    /\ EndCall(t)
    /\ sigpipe' = [sigpipe EXCEPT ![t] = TRUE]
    /\ UNCHANGED <<queue, ends>>

QTakeSignal(t) ==
    /\ sigpipe[t]
    /\ sigpipe' = [sigpipe EXCEPT ![t] = FALSE]
    /\ UNCHANGED <<queue, ends, op, count, buf>>

QNext ==
    \E t \in Tasks :
        \/ QOpen(t) \/ EndRead(t) \/ EndWrite(t) \/ BreakWrite(t) \/ QTakeSignal(t)
        \/ \E u \in Tasks : QPass(t, u)
        \/ \E e \in {"read", "write"} : QClose(t, e)
        \/ \E n \in ReadSizes : QRead(t, n)
        \/ \E s \in Payloads : QWrite(t, s)
        \/ \E k \in 1..Len(queue) : Get(t, k)
        \/ \E k \in 1..Len(buf[t]) : Put(t, k)

QSpec == QInit /\ [][QNext]_qvars

=============================================================================
