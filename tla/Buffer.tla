------------------------------ MODULE Buffer -------------------------------
(***************************************************************************)
(* The buffer cache, fs/buffer.c: getblk() with its races, bread(),        *)
(* breada(), brelse(), sync_dev() and sys_sync().                          *)
(*                                                                         *)
(* Kernel code is not preempted: an action runs one task up to the next    *)
(* place where it can sleep.  A sleep on a buffer's lock is the guard "the *)
(* buffer is not locked": wait_on_buffer() tests the lock again whenever   *)
(* it is woken, interrupts are masked, and the wake-up of such a queue is  *)
(* not lost (module WaitQueue).  The sleep on buffer_wait is explicit,     *)
(* because who wakes that queue is the point.                              *)
(*                                                                         *)
(* Abstractions.  There is one device; b_dev and b_blocknr are one value,  *)
(* None for a buffer that has never been used (b_dev = 0).  The hash       *)
(* chains are a search among all buffers and the free list has no order:   *)
(* getblk() takes any unused buffer of least BADNESS.  ll_rw_block()       *)
(* always gets a request slot (module BlockRequests has the wait for one). *)
(* sync_inodes() is left out of sync_dev().  A task may be overtaken where *)
(* it tests a lock, whether it finds it set or not.                        *)
(***************************************************************************)
EXTENDS Integers, FiniteSets

CONSTANTS
    Tasks,
    Blocks,         \* the blocks of the device
    NR_BUFFERS,
    Ops,            \* what the tasks call: see Calls
    Uses,           \* the ways to share these calls out among the tasks
    Failing,        \* the transfers that may fail: a subset of {"read", "write"}
    None

\* "new": new_block() calls getblk(); "write": block_write() calls it for a
\* whole block; "sync": sys_sync().
Calls == {"bread", "breada", "new", "write", "sync"}

ASSUME BufferAssumption ==
    /\ NR_BUFFERS \in Nat \ {0}
    /\ IsFiniteSet(Tasks)
    /\ None \notin Blocks \cup Nat \cup Calls \cup {"ahead"}
    /\ Ops \subseteq Calls
    /\ Uses \subseteq [Tasks -> SUBSET Ops]
    /\ Failing \subseteq {"read", "write"}

Buffers == 1..NR_BUFFERS

VARIABLES
    b_block,        \* b_dev and b_blocknr
    b_count, b_dirt, b_uptodate,
    io,             \* b_lock: the transfer in progress, or "none"
    unwritten,      \* ghost: the buffer holds changes no write has been asked for
    pc,             \* where the task is: see Places
    op,             \* the function it has called
    want,           \* the block it looks for
    also,           \* the other block that breada() was called with
    cur,            \* the variable bh of getblk(), or the buffer bread() waits for
    held,           \* the buffer the task has got, until it calls brelse()
    next,           \* the loop index of sync_dev()
    buffer_wait,    \* the tasks asleep on buffer_wait
    use             \* what each task calls in this behaviour

bufVars == <<b_block, b_count, b_dirt, b_uptodate, io, unwritten>>
vars == <<bufVars, pc, op, want, also, cur, held, next, buffer_wait, use>>

\* "repeat": at the label of getblk(); "found": counted cur, waits for its lock;
\* "asleep": on buffer_wait; "victim": waits for the lock of an unused buffer;
\* "sync": in sync_dev(); "got": getblk() has returned cur; "reading": waits
\* for the transfer of cur.
Places == {"idle", "repeat", "found", "asleep", "victim", "sync", "got", "reading"}

Init ==
    /\ b_block = [b \in Buffers |-> None]
    /\ b_count = [b \in Buffers |-> 0]
    /\ b_dirt = [b \in Buffers |-> FALSE]
    /\ b_uptodate = [b \in Buffers |-> FALSE]
    /\ io = [b \in Buffers |-> "none"]
    /\ unwritten = [b \in Buffers |-> FALSE]
    /\ pc = [t \in Tasks |-> "idle"]
    /\ op = [t \in Tasks |-> None]
    /\ want = [t \in Tasks |-> None]
    /\ also = [t \in Tasks |-> None]
    /\ cur = [t \in Tasks |-> None]
    /\ held = [t \in Tasks |-> None]
    /\ next = [t \in Tasks |-> 1]
    /\ buffer_wait = {}
    /\ use \in Uses

-----------------------------------------------------------------------------
b_lock(b) == io[b] # "none"

\* BADNESS: twice the dirty bit plus the lock.
BADNESS(b) == (IF b_dirt[b] THEN 2 ELSE 0) + (IF b_lock(b) THEN 1 ELSE 0)

\* find_buffer(): the buffers a search for this block can return.
find_buffer(blk) == {b \in Buffers : b_block[b] = blk}

Unused == {b \in Buffers : b_count[b] = 0}

Go(t, place) == pc' = [pc EXCEPT ![t] = place]

\* ll_rw_block() on a buffer that is not locked: add_request() clears b_dirt.
StartIO(b, rw) ==
    /\ io' = [io EXCEPT ![b] = rw]
    /\ b_dirt' = [b_dirt EXCEPT ![b] = FALSE]
    /\ unwritten' = [unwritten EXCEPT ![b] = @ /\ rw = "read"]

\* The task is about a block of which new_block() has just set the bit, or
\* about any block at all.
Wants(t, blk) == want[t] = blk /\ (pc[t] # "idle" \/ held[t] # None)
Allocates(t, blk) == Wants(t, blk) /\ op[t] = "new" /\ held[t] = None

\* A call of bread(), breada(), new_block() or block_write().  A block that is
\* being allocated is nobody else's (the panic of new_block()).
Call(t, o, blk, ahead) ==
    /\ pc[t] = "idle" /\ held[t] = None
    /\ o \in use[t] \ {"sync"}
    /\ \A u \in Tasks : ~Allocates(u, blk) /\ ~Allocates(u, ahead)
    /\ o = "new" => \A u \in Tasks : ~Wants(u, blk)
    /\ IF o = "breada" THEN ahead # blk ELSE ahead = blk
    /\ op' = [op EXCEPT ![t] = o]
    /\ want' = [want EXCEPT ![t] = blk]
    /\ also' = [also EXCEPT ![t] = ahead]
    /\ Go(t, "repeat")
    /\ UNCHANGED <<bufVars, cur, held, next, buffer_wait, use>>

\* sys_sync(): the loop of sync_dev() over all buffers, once.
CallSync(t) ==
    /\ pc[t] = "idle" /\ held[t] = None /\ "sync" \in use[t]
    /\ op' = [op EXCEPT ![t] = "sync"]
    /\ next' = [next EXCEPT ![t] = 1]
    /\ Go(t, "sync")
    /\ UNCHANGED <<bufVars, want, also, cur, held, buffer_wait, use>>

\* Mutant: get_hash_table() counts the buffer only after the wait.
LookupUncounted(t) ==
    /\ pc[t] = "repeat"
    /\ \E b \in find_buffer(want[t]) : cur' = [cur EXCEPT ![t] = b]
    /\ Go(t, "found")
    /\ UNCHANGED <<bufVars, op, want, also, held, next, buffer_wait, use>>

\* getblk() from repeat: get_hash_table() finds the block and counts it.
Lookup(t) ==
    /\ pc[t] = "repeat"
    /\ \E b \in find_buffer(want[t]) :
          /\ cur' = [cur EXCEPT ![t] = b]
          /\ b_count' = [b_count EXCEPT ![b] = @ + 1]
    /\ Go(t, "found")
    /\ UNCHANGED <<b_block, b_dirt, b_uptodate, io, unwritten, op, want, also,
                   held, next, buffer_wait, use>>

\* get_hash_table() after wait_on_buffer(): is it still the block?
FoundUnlocked(t) ==
    /\ pc[t] = "found" /\ ~b_lock(cur[t])
    /\ IF b_block[cur[t]] = want[t]
       THEN Go(t, "got") /\ UNCHANGED <<b_count, cur>>
       ELSE /\ b_count' = [b_count EXCEPT ![cur[t]] = @ - 1]
            /\ cur' = [cur EXCEPT ![t] = None]
            /\ Go(t, "repeat")
    /\ UNCHANGED <<b_block, b_dirt, b_uptodate, io, unwritten, op, want, also,
                   held, next, buffer_wait, use>>

\* The search of the free list.
PickVictim(t) ==
    /\ pc[t] = "repeat" /\ find_buffer(want[t]) = {}
    /\ \E b \in Unused :
          /\ \A u \in Unused : BADNESS(b) <= BADNESS(u)
          /\ cur' = [cur EXCEPT ![t] = b]
    /\ Go(t, "victim")
    /\ UNCHANGED <<bufVars, op, want, also, held, next, buffer_wait, use>>

\* Every buffer is in use.
SleepForBuffer(t) ==
    /\ pc[t] = "repeat" /\ find_buffer(want[t]) = {}
    /\ Unused = {}
    /\ buffer_wait' = buffer_wait \cup {t}
    /\ Go(t, "asleep")
    /\ UNCHANGED <<bufVars, op, want, also, cur, held, next, use>>

\* Mutant: the count of the victim is not tested again after the sleep.
CountNotTested(t) == FALSE

\* While getblk() waited for the victim, somebody took it.
VictimTaken(t) == b_count[cur[t]] # 0

\* Mutant: the second find_buffer() of getblk() is missing.
BlockNotSearched(t) == FALSE

\* ... or somebody brought the wanted block in.
BlockCameIn(t) == find_buffer(want[t]) # {}

\* Lines 231 to 243: any reason to start again.
StartAgain(t) ==
    /\ pc[t] = "victim" /\ ~b_lock(cur[t])
    /\ VictimTaken(t) \/ (~b_dirt[cur[t]] /\ BlockCameIn(t))
    /\ cur' = [cur EXCEPT ![t] = None]
    /\ Go(t, "repeat")
    /\ UNCHANGED <<bufVars, op, want, also, held, next, buffer_wait, use>>

\* A dirty victim: sync_dev(), and then look at the victim again.
SyncVictim(t) ==
    /\ pc[t] = "victim" /\ ~b_lock(cur[t])
    /\ ~VictimTaken(t) /\ b_dirt[cur[t]]
    /\ next' = [next EXCEPT ![t] = 1]
    /\ Go(t, "sync")
    /\ UNCHANGED <<bufVars, op, want, also, cur, held, buffer_wait, use>>

\* Mutant: the victim's dirty bit is not looked at again.
TakeDirtyVictim(t) ==
    /\ pc[t] = "victim" /\ ~b_lock(cur[t])
    /\ ~VictimTaken(t) /\ ~BlockCameIn(t)
    /\ b_block' = [b_block EXCEPT ![cur[t]] = want[t]]
    /\ b_count' = [b_count EXCEPT ![cur[t]] = 1]
    /\ b_dirt' = [b_dirt EXCEPT ![cur[t]] = FALSE]
    /\ b_uptodate' = [b_uptodate EXCEPT ![cur[t]] = FALSE]
    /\ Go(t, "got")
    /\ UNCHANGED <<io, unwritten, op, want, also, cur, held, next, buffer_wait, use>>

\* Lines 244 to 253: the victim becomes the block.
TakeVictim(t) ==
    /\ pc[t] = "victim" /\ ~b_lock(cur[t])
    /\ ~VictimTaken(t) /\ ~b_dirt[cur[t]] /\ ~BlockCameIn(t)
    /\ b_block' = [b_block EXCEPT ![cur[t]] = want[t]]
    /\ b_count' = [b_count EXCEPT ![cur[t]] = 1]
    /\ b_dirt' = [b_dirt EXCEPT ![cur[t]] = FALSE]
    /\ b_uptodate' = [b_uptodate EXCEPT ![cur[t]] = FALSE]
    /\ Go(t, "got")
    /\ UNCHANGED <<io, unwritten, op, want, also, cur, held, next, buffer_wait, use>>

\* sync_dev() makes two rounds, sys_sync() one.
Rounds(t) == IF op[t] = "sync" THEN NR_BUFFERS ELSE 2 * NR_BUFFERS

\* One turn of the loop: wait for the buffer, write it if it is dirty.
SyncBuffer(t) ==
    LET b == ((next[t] - 1) % NR_BUFFERS) + 1
    IN  /\ pc[t] = "sync" /\ next[t] <= Rounds(t)
        /\ ~b_lock(b)
        /\ IF b_dirt[b] THEN StartIO(b, "write")
           ELSE UNCHANGED <<io, b_dirt, unwritten>>
        /\ next' = [next EXCEPT ![t] = @ + 1]
        /\ UNCHANGED <<b_block, b_count, b_uptodate, pc, op, want, also, cur,
                       held, buffer_wait, use>>

SyncDone(t) ==
    /\ pc[t] = "sync" /\ next[t] > Rounds(t)
    /\ next' = [next EXCEPT ![t] = 1]
    /\ Go(t, IF op[t] = "sync" THEN "idle" ELSE "victim")
    /\ UNCHANGED <<bufVars, op, want, also, cur, held, buffer_wait, use>>

-----------------------------------------------------------------------------
\* new_block() fills the buffer itself.
FillNew(t) ==
    /\ pc[t] = "got" /\ op[t] = "new"
    /\ b_uptodate' = [b_uptodate EXCEPT ![cur[t]] = TRUE]
    /\ b_dirt' = [b_dirt EXCEPT ![cur[t]] = TRUE]
    /\ unwritten' = [unwritten EXCEPT ![cur[t]] = TRUE]
    /\ held' = [held EXCEPT ![t] = cur[t]]
    /\ cur' = [cur EXCEPT ![t] = None]
    /\ Go(t, "idle")
    /\ UNCHANGED <<b_block, b_count, io, op, want, also, next, buffer_wait, use>>

\* block_write() overwrites the whole buffer, and leaves b_uptodate alone.
Overwrite(t) ==
    /\ pc[t] = "got" /\ op[t] = "write"
    /\ b_dirt' = [b_dirt EXCEPT ![cur[t]] = TRUE]
    /\ unwritten' = [unwritten EXCEPT ![cur[t]] = TRUE]
    /\ held' = [held EXCEPT ![t] = cur[t]]
    /\ cur' = [cur EXCEPT ![t] = None]
    /\ Go(t, "idle")
    /\ UNCHANGED <<b_block, b_count, b_uptodate, io, op, want, also, next,
                   buffer_wait, use>>

\* bread(), breada(): the buffer is up to date, or ll_rw_block(READ) reads it;
\* lock_buffer() waits for another transfer first.
ReadIfNeeded(b) ==
    IF b_uptodate[b] THEN UNCHANGED <<io, b_dirt, unwritten>>
    ELSE ~b_lock(b) /\ StartIO(b, "read")

Bread(t) ==
    /\ pc[t] = "got" /\ op[t] = "bread"
    /\ ReadIfNeeded(cur[t])
    /\ Go(t, "reading")
    /\ UNCHANGED <<b_block, b_count, b_uptodate, op, want, also, cur, held,
                   next, buffer_wait, use>>

\* breada() has the first block and looks for one to read ahead.
Breada(t) ==
    /\ pc[t] = "got" /\ op[t] = "breada"
    /\ ReadIfNeeded(cur[t])
    /\ held' = [held EXCEPT ![t] = cur[t]]
    /\ cur' = [cur EXCEPT ![t] = None]
    /\ op' = [op EXCEPT ![t] = "ahead"]
    /\ want' = [want EXCEPT ![t] = also[t]]
    /\ also' = [also EXCEPT ![t] = want[t]]
    /\ Go(t, "repeat")
    /\ UNCHANGED <<b_block, b_count, b_uptodate, next, buffer_wait, use>>

\* Lines 336 to 341: the read-ahead is asked for the first buffer, not for the
\* one just found, and that one is given back without a wake-up.
Ahead(t) ==
    /\ pc[t] = "got" /\ op[t] = "ahead"
    /\ IF ~b_uptodate[cur[t]] /\ ~b_lock(held[t]) /\ ~b_uptodate[held[t]]
       THEN StartIO(held[t], "read")
       ELSE UNCHANGED <<io, b_dirt, unwritten>>
    /\ b_count' = [b_count EXCEPT ![cur[t]] = @ - 1]
    /\ cur' = [cur EXCEPT ![t] = held[t]]
    /\ held' = [held EXCEPT ![t] = None]
    /\ want' = [want EXCEPT ![t] = also[t]]
    /\ also' = [also EXCEPT ![t] = want[t]]
    /\ op' = [op EXCEPT ![t] = "breada"]
    /\ Go(t, "reading")
    /\ UNCHANGED <<b_block, b_uptodate, next, buffer_wait, use>>

\* wake_up(&buffer_wait).
WakeBufferWait ==
    /\ pc' = [u \in Tasks |-> IF u \in buffer_wait THEN "repeat" ELSE pc[u]]
    /\ buffer_wait' = {}

\* The end of bread() and breada(): the block was read ...
ReadDone(t) ==
    /\ pc[t] = "reading" /\ ~b_lock(cur[t]) /\ b_uptodate[cur[t]]
    /\ held' = [held EXCEPT ![t] = cur[t]]
    /\ cur' = [cur EXCEPT ![t] = None]
    /\ Go(t, "idle")
    /\ UNCHANGED <<bufVars, op, want, also, next, buffer_wait, use>>

\* ... or it was not, and brelse() gives the buffer back.
ReadFailed(t) ==
    /\ pc[t] = "reading" /\ ~b_lock(cur[t]) /\ ~b_uptodate[cur[t]]
    /\ b_count' = [b_count EXCEPT ![cur[t]] = @ - 1]
    /\ cur' = [cur EXCEPT ![t] = None]
    /\ pc' = [u \in Tasks |-> IF u = t THEN "idle"
                              ELSE IF u \in buffer_wait THEN "repeat" ELSE pc[u]]
    /\ buffer_wait' = {}
    /\ UNCHANGED <<b_block, b_dirt, b_uptodate, io, unwritten, op, want, also,
                   held, next, use>>

\* The holder of a buffer changes it and sets b_dirt.
Modify(t) ==
    /\ pc[t] = "idle" /\ held[t] # None
    /\ b_dirt' = [b_dirt EXCEPT ![held[t]] = TRUE]
    /\ unwritten' = [unwritten EXCEPT ![held[t]] = TRUE]
    /\ UNCHANGED <<b_block, b_count, b_uptodate, io, pc, op, want, also, cur,
                   held, next, buffer_wait, use>>

\* Mutant: brelse() without the wake_up().
BrelseWithoutWakeUp(t) ==
    /\ pc[t] = "idle" /\ held[t] # None
    /\ ~b_lock(held[t])
    /\ b_count' = [b_count EXCEPT ![held[t]] = @ - 1]
    /\ held' = [held EXCEPT ![t] = None]
    /\ UNCHANGED <<b_block, b_dirt, b_uptodate, io, unwritten, pc, op, want,
                   also, cur, next, buffer_wait, use>>

\* brelse().
brelse(t) ==
    /\ pc[t] = "idle" /\ held[t] # None
    /\ ~b_lock(held[t])
    /\ b_count' = [b_count EXCEPT ![held[t]] = @ - 1]
    /\ held' = [held EXCEPT ![t] = None]
    /\ WakeBufferWait
    /\ UNCHANGED <<b_block, b_dirt, b_uptodate, io, unwritten, op, want, also,
                   cur, next, use>>

\* end_request() from the disk interrupt, without and with an error.
EndIO(b, ok) ==
    /\ b_lock(b) /\ (ok \/ io[b] \in Failing)
    /\ io' = [io EXCEPT ![b] = "none"]
    /\ b_uptodate' = [b_uptodate EXCEPT ![b] = ok]
    /\ UNCHANGED <<b_block, b_count, b_dirt, unwritten, pc, op, want, also,
                   cur, held, next, buffer_wait, use>>

\* getblk() returns without a sleep: its caller goes on before any other task.
MayRun(t) == \A u \in Tasks \ {t} : pc[u] # "got"

Next ==
    \/ \E t \in Tasks :
        /\ MayRun(t)
        /\ \/ \E o \in Ops, blk, ahead \in Blocks : Call(t, o, blk, ahead)
           \/ CallSync(t) \/ SyncBuffer(t) \/ SyncDone(t)
           \/ Lookup(t) \/ FoundUnlocked(t) \/ PickVictim(t) \/ SleepForBuffer(t)
           \/ StartAgain(t) \/ SyncVictim(t) \/ TakeVictim(t)
           \/ FillNew(t) \/ Overwrite(t) \/ Bread(t) \/ Breada(t) \/ Ahead(t)
           \/ ReadDone(t) \/ ReadFailed(t) \/ Modify(t) \/ brelse(t)
    \/ \E b \in Buffers, ok \in BOOLEAN : EndIO(b, ok)

Spec == Init /\ [][Next]_vars

-----------------------------------------------------------------------------
\* Every variable has its type; above all no count goes below zero (b_count is
\* an unsigned char).
TypeOK ==
    /\ b_block \in [Buffers -> Blocks \cup {None}]
    /\ b_count \in [Buffers -> Nat]
    /\ b_dirt \in [Buffers -> BOOLEAN]
    /\ b_uptodate \in [Buffers -> BOOLEAN]
    /\ io \in [Buffers -> {"none", "read", "write"}]
    /\ unwritten \in [Buffers -> BOOLEAN]
    /\ pc \in [Tasks -> Places]
    /\ op \in [Tasks -> Ops \cup {"ahead", None}]
    /\ want \in [Tasks -> Blocks \cup {None}]
    /\ also \in [Tasks -> Blocks \cup {None}]
    /\ cur \in [Tasks -> Buffers \cup {None}]
    /\ held \in [Tasks -> Buffers \cup {None}]
    /\ next \in [Tasks -> Nat \ {0}]
    /\ buffer_wait \subseteq Tasks
    /\ use \in Uses

\* The places where cur is a buffer this task has counted.
Counted == {"found", "got", "reading"}

Holders(b) == {t \in Tasks : held[t] = b}
Users(b) == {t \in Tasks : pc[t] \in Counted /\ cur[t] = b}

\* b_count is the number of references: brelse() never frees a free buffer
\* (the panic of line 262) and no buffer stays in use for ever.
CountIsReferences ==
    \A b \in Buffers : b_count[b] = Cardinality(Holders(b)) + Cardinality(Users(b))

\* No block is in two buffers (getblk, lines 240 to 245).
OneBufferPerBlock ==
    \A a, b \in Buffers : b_block[a] = b_block[b] /\ b_block[a] # None => a = b

\* A buffer that a task has got stays the buffer of that block until the task
\* gives it back, whatever getblk() does for others meanwhile (lines 179 to
\* 199 provide for the contrary).
KeepsItsBlock ==
    \A t \in Tasks :
        /\ pc[t] \in Counted => b_block[cur[t]] = want[t]
        /\ held[t] # None => b_block[held[t]] = IF op[t] = "ahead" THEN also[t] ELSE want[t]

Calling(o) == \E t \in Tasks : o \in use[t]

\* Changes that no write was asked for are in a dirty buffer: getblk() gives it
\* to no other block, and nobody reads over it (block_write() apart: see
\* WrittenIsDirty; and writes that fail, after which the buffer is not up to date).
UnwrittenIsDirty ==
    ~Calling("write") /\ "write" \notin Failing =>
        \A b \in Buffers : unwritten[b] => b_dirt[b]

\* A task sleeps on buffer_wait only while all the buffers are in use (breada()
\* apart: see WokenForEveryBuffer).
SleepsOnlyIfFull == ~Calling("breada") /\ buffer_wait # {} => Unused = {}

\* fs.h:73 says of b_dirt "0-clean,1-dirty": changed data that no write has
\* been asked for are in a dirty buffer, whoever made the change.
WrittenIsDirty == \A b \in Buffers : unwritten[b] => b_dirt[b]

\* buffer.c:320-321 says that "breada can be used as bread": it makes no task
\* wait for a buffer when there is one.
WokenForEveryBuffer == buffer_wait # {} => Unused = {}

\* breada() has the blocks read ahead that it is asked to (lines 320 to 324):
\* when it has dealt with one, the block is up to date or on its way.
ReadsAhead ==
    [][\A t \in Tasks :
         op[t] = "ahead" /\ pc[t] = "got" /\ pc'[t] = "reading" /\ ~b_lock(cur[t]) =>
            b_uptodate'[cur[t]] \/ io'[cur[t]] = "read"]_vars
=============================================================================
