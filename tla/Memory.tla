------------------------------ MODULE Memory -------------------------------
(***************************************************************************)
(* The page frames and page tables, mm/memory.c and mm/swap.c, with the    *)
(* callers in kernel/fork.c, fs/exec.c and kernel/exit.c.                  *)
(*                                                                         *)
(* SWAP_DEV is 0 and nothing sets it, so swap_bitmap is always NULL:       *)
(* swap_out() never writes a page, and all it can do for get_free_page()   *)
(* is to drop pages that are not dirty.  Nothing here sleeps but the       *)
(* reading of a page from the executable and do_execve(); the rest of each *)
(* call is one action, and inside it one record of memory is handed from   *)
(* operator to operator.  fork() is an action for each page table: between *)
(* them nothing else happens, but any of them may fail.                    *)
(*                                                                         *)
(* mem_map is an array of bytes: counts wrap at COUNTS, which is 256 in    *)
(* the code, and un_wp_page() leaves counts behind.  wrapped remembers     *)
(* that one has wrapped: the behaviour goes on, the claims end there.      *)
(*                                                                         *)
(* Abstractions.  All tasks run the same executable; FilePages are those   *)
(* below end_data.  Which droppable pages swap_out() takes first is left   *)
(* open.  Frames hold one of four kinds of contents.  A write to physical  *)
(* address 0 (the page directory) ends the behaviour: halt = "wild".       *)
(***************************************************************************)
EXTENDS Integers, FiniteSets

CONSTANTS
    Tasks,
    Pages, FilePages,   \* pages of a task; those that come from the executable
    NTABLES, TableOf,   \* page tables of a task; the one that a page is in
    NFRAMES,            \* frames from LOW_MEM to HIGH_MEMORY
    COUNTS              \* values of a byte of mem_map: 256

ASSUME MemoryAssumption ==
    /\ NFRAMES \in Nat /\ NFRAMES >= 2
    /\ COUNTS \in Nat /\ COUNTS >= 2
    /\ NTABLES \in Nat /\ NTABLES >= 1 /\ TableOf \in [Pages -> 1..NTABLES]
    /\ FilePages \subseteq Pages
    /\ IsFiniteSet(Tasks) /\ IsFiniteSet(Pages)

Frames == 1..NFRAMES
NoFrame == 0
Tables == 1..NTABLES
Absent == [frame |-> NoFrame, rw |-> FALSE, dirty |-> FALSE]

VARIABLES
    mem,        \* see Memories
    wrapped,    \* a count of mem_map has gone from COUNTS - 1 to 0
    fork,       \* the fork() that is in copy_page_tables(), or NoFork
    pc,         \* "none", "new", "user", "reading", "exec" or "zombie"
    page,       \* the frame that do_no_page() or do_execve() has in hand
    at,         \* the address (page) that do_no_page() was called for
    area        \* the page that verify_area() has approved, or NoArea

NoArea == "none"
NoFork == [parent |-> "none"]
vars == <<mem, wrapped, fork, pc, page, at, area>>

\* What a frame holds: zeroes, a page of the executable, some other blocks, or
\* what a task has written (or execve() for it).
Contents == {"zero", "file", "junk", "private"}

Memories == [map : [Frames -> 0 .. COUNTS - 1],           \* mem_map
             data : [Frames -> Contents],
             task : [Tasks -> Frames \cup {NoFrame}],     \* task[]
             dir : [Tasks \X Tables -> Frames \cup {NoFrame}],    \* pg_dir
             pte : [Tasks -> [Pages -> [frame : Frames \cup {NoFrame},
                                        rw : BOOLEAN, dirty : BOOLEAN]]],
             halt : {"none", "free", "exists", "block", "wild"}]

\* One task runs, with one page table that is empty.
Init ==
    /\ \E t \in Tasks :
          /\ pc = [u \in Tasks |-> IF u = t THEN "user" ELSE "none"]
          /\ mem = [map |-> [f \in Frames |-> IF f >= NFRAMES - 1 THEN 1 ELSE 0],
                    data |-> [f \in Frames |-> "zero"],
                    task |-> [u \in Tasks |-> IF u = t THEN NFRAMES ELSE NoFrame],
                    dir |-> [e \in Tasks \X Tables |->
                                IF e = <<t, 1>> THEN NFRAMES - 1 ELSE NoFrame],
                    pte |-> [u \in Tasks |-> [p \in Pages |-> Absent]],
                    halt |-> "none"]
    /\ wrapped = FALSE
    /\ fork = NoFork
    /\ page = [t \in Tasks |-> NoFrame]
    /\ at = [t \in Tasks |-> NoArea]
    /\ area = [t \in Tasks |-> NoArea]

-----------------------------------------------------------------------------
Present(m, t, p) == m.pte[t][p].frame # NoFrame
Halt(m, why) == [m EXCEPT !.halt = why]

\* free_page() of n[f] references to each frame f, with its panic.
Release(m, n) ==
    IF \A f \in Frames : n[f] <= m.map[f]
    THEN [m EXCEPT !.map = [f \in Frames |-> m.map[f] - n[f]]]
    ELSE Halt(m, "free")

\* n[f] more references to each frame f, in a byte, and whether one wraps.
Refer(m, n) == [m EXCEPT !.map = [f \in Frames |-> (m.map[f] + n[f]) % COUNTS]]
Wraps(m, n) == \E f \in Frames : m.map[f] + n[f] >= COUNTS

Once(f) == [g \in Frames |-> IF g = f THEN 1 ELSE 0]

free_page(m, f) == Release(m, Once(f))

InTable(d) == {p \in Pages : TableOf[p] = d}

\* The entries try_to_swap_out() can clear: present and not dirty.
Droppable(m) ==
    {e \in Tasks \X Pages : Present(m, e[1], e[2]) /\ ~m.pte[e[1]][e[2]].dirty}

Drops(m, D, f) == Cardinality({e \in D : m.pte[e[1]][e[2]].frame = f})

\* try_to_swap_out() of the entries D.
Drop(m, D) ==
    [Release(m, [f \in Frames |-> Drops(m, D, f)]) EXCEPT
        !.pte = [t \in Tasks |-> [p \in Pages |->
                    IF <<t, p>> \in D THEN Absent ELSE m.pte[t][p]]]]

FreeFrames(m) == {f \in Frames : m.map[f] = 0}

\* The scan of get_free_page() goes down from the last byte of mem_map.
Take(m) ==
    LET f == CHOOSE f \in FreeFrames(m) : \A g \in FreeFrames(m) : g <= f
    IN  [mem |-> [m EXCEPT !.map[f] = 1, !.data[f] = "zero"], page |-> f]

\* get_free_page(): swap_out() is called until a frame is free, or until it
\* finds nothing more.  It may miss entries of one page table.
get_free_page(m) ==
    IF FreeFrames(m) # {} THEN {Take(m)}
    ELSE {Take(Drop(m, D)) : D \in {D \in SUBSET Droppable(m) :
              Cardinality(FreeFrames(Drop(m, D))) = 1}}
         \cup
         {[mem |-> Drop(m, D), page |-> NoFrame] : D \in {D \in SUBSET Droppable(m) :
              /\ FreeFrames(Drop(m, D)) = {}
              /\ \E t \in Tasks, d \in Tables : Droppable(m) \ D \subseteq {t} \X InTable(d)}}

\* Mutant: put_page() goes on without a page table.
PutWithoutTable(m, f, t, p) ==
    {[mem |-> [m EXCEPT !.pte[t][p] = [frame |-> f, rw |-> TRUE, dirty |-> FALSE]],
      page |-> f]}

\* put_page(): the results have page = NoFrame if there was no page table and
\* no frame for one.
put_page(m, f, t, p) ==
    LET Entered(n) == [n EXCEPT !.pte[t][p] = [frame |-> f, rw |-> TRUE, dirty |-> FALSE]]
        d == TableOf[p]
    IN  IF m.dir[<<t, d>>] # NoFrame THEN {[mem |-> Entered(m), page |-> f]}
        ELSE {IF r.page = NoFrame THEN r
              ELSE [mem |-> Entered([r.mem EXCEPT !.dir[<<t, d>>] = r.page]), page |-> f] :
                 r \in get_free_page(m)}

\* get_empty_page().
get_empty_page(m, t, p) ==
    UNION {IF r.page = NoFrame THEN {r.mem}
           ELSE {IF q.page = NoFrame THEN free_page(q.mem, r.page) ELSE q.mem :
                    q \in put_page(r.mem, r.page, t, p)} :
              r \in get_free_page(m)}

\* The references to each frame from the entries of t in the pages P.
InEntries(m, t, P) == [f \in Frames |-> Cardinality({p \in P : m.pte[t][p].frame = f})]

\* The references from the page tables of t and from their entries.
OfTables(m, t) ==
    [f \in Frames |-> InEntries(m, t, Pages)[f] + Cardinality({d \in Tables : m.dir[<<t, d>>] = f})]

\* Mutant: the page directory entries are not cleared.
LeavesDirectory(m, t) ==
    [Release(m, OfTables(m, t)) EXCEPT !.pte[t] = [p \in Pages |-> Absent]]

\* free_page_tables().
free_page_tables(m, t) ==
    [Release(m, OfTables(m, t)) EXCEPT
        !.dir = [e \in Tasks \X Tables |-> IF e[1] = t THEN NoFrame ELSE m.dir[e]],
        !.pte[t] = [p \in Pages |-> Absent]]

\* The loop of copy_page_tables() over one page table: both become read-only.
ShareTable(m, t, u, d) ==
    [Refer(m, InEntries(m, t, InTable(d))) EXCEPT
        !.pte = [v \in Tasks |-> [p \in Pages |->
                    IF v \in {t, u} /\ TableOf[p] = d THEN [m.pte[t][p] EXCEPT !.rw = FALSE]
                    ELSE m.pte[v][p]]]]

\* copy_page_tables() of the page table d, which t has and u has not.  The results
\* have page = NoFrame where it returns -1.
copy_table(m, t, u, d) ==
    {IF r.page = NoFrame THEN [mem |-> r.mem, page |-> NoFrame, wraps |-> FALSE]
     ELSE [mem |-> ShareTable([r.mem EXCEPT !.dir[<<u, d>>] = r.page], t, u, d), page |-> r.page,
           wraps |-> Wraps(r.mem, InEntries(r.mem, t, InTable(d)))] :
        r \in get_free_page(m)}

\* un_wp_page(): the line that should count the old page down runs only if
\* there is no new page, and then the entry becomes 7: frame 0, writable.
un_wp_page(m, t, p) ==
    LET old == m.pte[t][p].frame
    IN  IF m.map[old] = 1 THEN {[m EXCEPT !.pte[t][p].rw = TRUE]}
        ELSE {IF r.page = NoFrame THEN Halt(r.mem, "wild")
              ELSE [r.mem EXCEPT !.pte[t][p] = [frame |-> r.page, rw |-> TRUE, dirty |-> FALSE],
                                 !.data[r.page] = r.mem.data[old]] :
                 r \in get_free_page(m)}

\* Mutant: the page is shared without being write-protected.
ShareWritable(m, t, u, p, phys) ==
    [Refer(m, Once(phys)) EXCEPT !.pte[t][p] = m.pte[u][p]]

\* Mutant: the new reference is not counted.
ShareUncounted(m, t, u, p, phys) ==
    LET e == [m.pte[u][p] EXCEPT !.rw = FALSE]
    IN  [m EXCEPT !.pte = [m.pte EXCEPT ![u][p] = e, ![t][p] = e]]

\* The end of try_to_share(), lines 295 to 301: phys was read before the page
\* table of t was allocated, the entry of u is read again.
Share(m, t, u, p, phys) ==
    LET e == [m.pte[u][p] EXCEPT !.rw = FALSE]
    IN  [Refer(m, Once(phys)) EXCEPT !.pte = [m.pte EXCEPT ![u][p] = e, ![t][p] = e]]

\* try_to_share() with a task u that has the page clean.  Without a frame for
\* the page table of t, physical page 0 is taken for it.
try_to_share(m, t, u, p) ==
    LET phys == m.pte[u][p].frame
        d == TableOf[p]
        Shared(n) == [mem |-> Share(n, t, u, p, phys), wraps |-> Wraps(n, Once(phys))]
        Stopped(n, why) == [mem |-> Halt(n, why), wraps |-> FALSE]
    IN  IF m.dir[<<t, d>>] # NoFrame
        THEN {IF Present(m, t, p) THEN Stopped(m, "exists") ELSE Shared(m)}
        ELSE {IF r.page = NoFrame THEN Stopped(r.mem, "wild")
              ELSE Shared([r.mem EXCEPT !.dir[<<t, d>>] = r.page]) : r \in get_free_page(m)}

-----------------------------------------------------------------------------
\* Nobody is in the middle of fork(), which does not sleep.
Going == mem.halt = "none" /\ fork = NoFork
Running(t) == pc[t] = "user" /\ Going
Go(t, place) == pc' = [pc EXCEPT ![t] = place]

\* find_empty_process() and the first half of copy_process().
Fork(t, u) ==
    /\ Running(t) /\ area[t] = NoArea /\ pc[u] = "none"
    /\ \E r \in get_free_page(mem) :
          IF r.page = NoFrame THEN mem' = r.mem /\ UNCHANGED <<fork, pc>>
          ELSE /\ mem' = [r.mem EXCEPT !.task[u] = r.page]
               /\ fork' = [parent |-> t, child |-> u, table |-> 1]
               /\ Go(u, "new")
    /\ UNCHANGED <<wrapped, page, at, area>>

\* One turn of the loop of copy_page_tables() over the page directory; if it
\* fails, copy_mem() and copy_process() take everything back.
CopyTable(t, u, d) ==
    /\ fork = [parent |-> t, child |-> u, table |-> d] /\ mem.halt = "none"
    /\ \/ /\ mem.dir[<<u, d>>] # NoFrame
          /\ mem' = Halt(mem, "exists")
          /\ UNCHANGED <<wrapped, fork, pc>>
       \/ /\ mem.dir[<<u, d>>] = NoFrame /\ mem.dir[<<t, d>>] = NoFrame
          /\ fork' = [fork EXCEPT !.table = d + 1]
          /\ UNCHANGED <<mem, wrapped, pc>>
       \/ /\ mem.dir[<<u, d>>] = NoFrame /\ mem.dir[<<t, d>>] # NoFrame
          /\ \E r \in copy_table(mem, t, u, d) :
                IF r.page = NoFrame
                THEN /\ mem' = free_page([free_page_tables(r.mem, u) EXCEPT
                                            !.task[u] = NoFrame], mem.task[u])
                     /\ fork' = NoFork
                     /\ Go(u, "none")
                     /\ UNCHANGED wrapped
                ELSE /\ mem' = r.mem
                     /\ wrapped' = (wrapped \/ r.wraps)
                     /\ fork' = [fork EXCEPT !.table = d + 1]
                     /\ UNCHANGED pc
    /\ UNCHANGED <<page, at, area>>

\* The end of copy_process().
Forked(t, u) ==
    /\ fork = [parent |-> t, child |-> u, table |-> NTABLES + 1] /\ mem.halt = "none"
    /\ fork' = NoFork
    /\ Go(u, "user")
    /\ UNCHANGED <<mem, wrapped, page, at, area>>

\* The clean pages share_page() can find.
Sharable(t, p) ==
    {u \in Tasks \ {t} : Present(mem, u, p) /\ ~mem.pte[u][p].dirty}

\* do_no_page() of a page that is not in the executable.
EmptyPage(t, p) ==
    /\ Running(t) /\ ~Present(mem, t, p) /\ p \notin FilePages
    /\ mem' \in get_empty_page(mem, t, p)
    /\ UNCHANGED <<wrapped, fork, pc, page, at, area>>

\* do_no_page() with share_page().
SharePage(t, p) ==
    /\ Running(t) /\ ~Present(mem, t, p) /\ p \in FilePages
    /\ \E u \in Sharable(t, p) : \E r \in try_to_share(mem, t, u, p) :
          mem' = r.mem /\ wrapped' = (wrapped \/ r.wraps)
    /\ UNCHANGED <<fork, pc, page, at, area>>

\* do_no_page() up to the wait for the disk.  With a page in hand, block is not
\* set: bmap() panics, or maps some block or other.
ReadPage(t, p) ==
    /\ Running(t) /\ ~Present(mem, t, p) /\ p \in FilePages /\ Sharable(t, p) = {}
    /\ \E r \in get_free_page(mem) :
          \/ /\ r.page = NoFrame
             /\ mem' = Halt(r.mem, "wild")
             /\ UNCHANGED <<pc, page, at>>
          \/ /\ r.page # NoFrame
             /\ mem' = Halt(r.mem, "block")
             /\ UNCHANGED <<pc, page, at>>
          \/ /\ r.page # NoFrame
             /\ \E what \in {"file", "junk"} : mem' = [r.mem EXCEPT !.data[r.page] = what]
             /\ page' = [page EXCEPT ![t] = r.page]
             /\ at' = [at EXCEPT ![t] = p]
             /\ Go(t, "reading")
    /\ UNCHANGED <<wrapped, fork, area>>

\* The rest of do_no_page().
PageRead(t) ==
    /\ pc[t] = "reading" /\ Going
    /\ \E q \in put_page(mem, page[t], t, at[t]) :
          mem' = IF q.page = NoFrame THEN free_page(q.mem, page[t]) ELSE q.mem
    /\ page' = [page EXCEPT ![t] = NoFrame]
    /\ at' = [at EXCEPT ![t] = NoArea]
    /\ Go(t, "user")
    /\ UNCHANGED <<wrapped, fork, area>>

\* do_wp_page(): the task writes to a page that is present and read-only.
WriteProtected(t, p) ==
    /\ Running(t) /\ area[t] = NoArea
    /\ Present(mem, t, p) /\ ~mem.pte[t][p].rw
    /\ mem' \in un_wp_page(mem, t, p)
    /\ UNCHANGED <<wrapped, fork, pc, page, at, area>>

Written(m, t, p) == [m EXCEPT !.pte[t][p].dirty = TRUE, !.data[m.pte[t][p].frame] = "private"]

\* The task writes to a writable page; the processor sets PAGE_DIRTY.
Write(t, p) ==
    /\ Running(t) /\ area[t] = NoArea
    /\ Present(mem, t, p) /\ mem.pte[t][p].rw
    /\ mem' = Written(mem, t, p)
    /\ UNCHANGED <<wrapped, fork, pc, page, at, area>>

\* verify_area() in a system call that goes on to sleep.
VerifyArea(t, p) ==
    /\ Running(t) /\ area[t] = NoArea
    /\ IF Present(mem, t, p) /\ ~mem.pte[t][p].rw THEN mem' \in un_wp_page(mem, t, p)
       ELSE UNCHANGED mem
    /\ area' = [area EXCEPT ![t] = p]
    /\ UNCHANGED <<wrapped, fork, pc, page, at>>

\* ... and then writes: the kernel is not stopped by a read-only page.
KernelWrite(t) ==
    /\ Running(t) /\ area[t] # NoArea /\ Present(mem, t, area[t])
    /\ mem' = Written(mem, t, area[t])
    /\ area' = [area EXCEPT ![t] = NoArea]
    /\ UNCHANGED <<wrapped, fork, pc, page, at>>

\* do_execve() puts the arguments in a page of their own (copy_strings()) ...
ExecStrings(t) ==
    /\ Running(t) /\ area[t] = NoArea
    /\ \E r \in get_free_page(mem) :
          IF r.page = NoFrame THEN mem' = r.mem /\ UNCHANGED <<pc, page>>
          ELSE /\ mem' = [r.mem EXCEPT !.data[r.page] = "private"]
               /\ page' = [page EXCEPT ![t] = r.page]
               /\ Go(t, "exec")
    /\ UNCHANGED <<wrapped, fork, at, area>>

\* ... gives it up again if the program cannot be run (exec_error2) ...
ExecFails(t) ==
    /\ pc[t] = "exec" /\ Going
    /\ mem' = free_page(mem, page[t])
    /\ page' = [page EXCEPT ![t] = NoFrame]
    /\ Go(t, "user")
    /\ UNCHANGED <<wrapped, fork, at, area>>

\* ... or frees the old image and puts that page in the new one (change_ldt()).
\* create_tables() then writes to the lowest page of the arguments only.
Exec(t, p) ==
    /\ pc[t] = "exec" /\ Going /\ p \in Pages \ FilePages
    /\ \E q \in put_page(free_page_tables(mem, t), page[t], t, p), lowest \in BOOLEAN :
          mem' = IF lowest /\ q.page # NoFrame THEN Written(q.mem, t, p) ELSE q.mem
    /\ page' = [page EXCEPT ![t] = NoFrame]
    /\ Go(t, "user")
    /\ UNCHANGED <<wrapped, fork, at, area>>

\* do_exit() frees the page tables ...
Exit(t) ==
    /\ Running(t) /\ area[t] = NoArea
    /\ mem' = free_page_tables(mem, t)
    /\ Go(t, "zombie")
    /\ UNCHANGED <<wrapped, fork, page, at, area>>

\* ... and release() the task structure.
Reap(t) ==
    /\ pc[t] = "zombie" /\ Going
    /\ mem' = free_page([mem EXCEPT !.task[t] = NoFrame], mem.task[t])
    /\ Go(t, "none")
    /\ UNCHANGED <<wrapped, fork, page, at, area>>

Next ==
    \E t \in Tasks :
        \/ \E u \in Tasks : Fork(t, u) \/ Forked(t, u) \/ \E d \in Tables : CopyTable(t, u, d)
        \/ \E p \in Pages : EmptyPage(t, p) \/ SharePage(t, p) \/ ReadPage(t, p)
        \/ \E p \in Pages : WriteProtected(t, p) \/ Write(t, p) \/ VerifyArea(t, p)
        \/ PageRead(t) \/ KernelWrite(t)
        \/ ExecStrings(t) \/ ExecFails(t) \/ (\E p \in Pages : Exec(t, p))
        \/ Exit(t) \/ Reap(t)

Spec == Init /\ [][Next]_vars

-----------------------------------------------------------------------------
\* Every variable has its type; a task has pages only in a page table, a frame
\* in hand only while it waits, and a task structure from fork() to release().
TypeOK ==
    /\ mem \in Memories
    /\ \A t \in Tasks, p \in Pages : Present(mem, t, p) => mem.dir[<<t, TableOf[p]>>] # NoFrame
    /\ \A t \in Tasks : page[t] # NoFrame <=> pc[t] \in {"reading", "exec"}
    /\ \A t \in Tasks : mem.task[t] # NoFrame <=> pc[t] # "none"
    /\ \A u \in Tasks : pc[u] = "new" <=> fork # NoFork /\ fork.child = u
    /\ wrapped \in BOOLEAN
    /\ fork \in [parent : Tasks, child : Tasks, table : 1 .. NTABLES + 1] \cup {NoFork}
    /\ pc \in [Tasks -> {"none", "new", "user", "reading", "exec", "zombie"}]
    /\ page \in [Tasks -> Frames \cup {NoFrame}]
    /\ at \in [Tasks -> Pages \cup {NoArea}]
    /\ area \in [Tasks -> Pages \cup {NoArea}]

Entries(f) == {e \in Tasks \X Pages : mem.pte[e[1]][e[2]].frame = f}

\* The references to a frame: entries, page tables, task structures, pages in hand.
References(f) ==
    Cardinality(Entries(f)) + Cardinality({e \in Tasks \X Tables : mem.dir[e] = f})
    + Cardinality({t \in Tasks : mem.task[t] = f}) + Cardinality({t \in Tasks : page[t] = f})

\* mem_map can be relied on: the page directory has not been overwritten, and no
\* count has wrapped.
Reliable == mem.halt # "wild" /\ ~wrapped

\* No frame in use is free or counted too low: get_free_page() gives nobody a
\* frame that somebody still has, until a count wraps.
NeverTooLow == Reliable => \A f \in Frames : References(f) <= mem.map[f]

\* A page that a task can write is in no other page table entry, until a count
\* wraps.
WritableIsAlone ==
    Reliable =>
        \A t \in Tasks, p \in Pages :
            Present(mem, t, p) /\ mem.pte[t][p].rw =>
                Cardinality(Entries(mem.pte[t][p].frame)) = 1

\* The frames of page tables and of task structures are not in any task's pages,
\* until a count wraps.
KernelFramesApart ==
    Reliable =>
        \A t \in Tasks, d \in Tables :
            \A f \in {mem.dir[<<t, d>>], mem.task[t]} \ {NoFrame} : References(f) = 1

\* The panics of free_page(), copy_page_tables() and try_to_share() are not reached,
\* wherever a fork() fails, until a count wraps.
NoPanic == ~wrapped => mem.halt \notin {"free", "exists"}

-----------------------------------------------------------------------------
\* un_wp_page() copies the page "and decrementing the shared-page counter for
\* the old page" (memory.c:210): mem_map counts references, no more.
NeverTooHigh == mem.halt = "none" => \A f \in Frames : References(f) >= mem.map[f]

\* "trying to free free page" (memory.c:66) says that nothing is freed twice; nor
\* is it, but a count that has wrapped makes the panic.
NothingFreedTwice == mem.halt # "free"

\* A page dropped to get a frame can be had again: it is "swap out", and
\* without a swap device only what the disk has may go (swap.c:53).
DropsWhatDiskHas ==
    [][mem'.halt = "none" =>
         \A t \in Tasks, p \in Pages :
           pc[t] = "user" /\ pc'[t] = "user" /\ Present(mem, t, p)
             /\ ~Present(mem', t, p) => mem.data[mem.pte[t][p].frame] # "private"]_vars

\* try_to_share() shares a page only "if it is clean" (memory.c:253): what a
\* task finds in a page of its executable is not what another task wrote.
SharesCleanPages ==
    [][\A t \in Tasks, p \in FilePages :
         mem'.halt = "none" /\ pc[t] = "user" /\ ~Present(mem, t, p) /\ Present(mem', t, p)
            => mem'.data[mem'.pte[t][p].frame] # "private"]_vars

\* "when users try to write to a shared page. It is done by copying the page"
\* (memory.c:209): what the kernel writes for one task no other task sees.
KernelWritesAlone ==
    [][\A t \in Tasks :
         area[t] # NoArea /\ area'[t] = NoArea =>
            Cardinality(Entries(mem.pte[t][area[t]].frame)) = 1]_vars

\* A page fault in the executable brings the page of the executable: the
\* blocks after the one that "is used for header" (memory.c:378).
FaultBringsFile ==
    [][\A t \in Tasks : pc[t] = "reading" /\ pc'[t] = "user" => mem.data[page[t]] = "file"]_vars
=============================================================================
