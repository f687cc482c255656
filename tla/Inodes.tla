------------------------------- MODULE Inodes -------------------------------
(***************************************************************************)
(* The inode table, the two bitmaps and the blocks of files: fs/inode.c,   *)
(* fs/bitmap.c and fs/truncate.c.  Module Names adds the system calls.     *)
(*                                                                         *)
(* Kernel code is not preempted: cpu is the task that is in the kernel and *)
(* has not slept since it was given the processor.  Every bread(), getblk()*)
(* and wait on a lock is a place to sleep, and ends an action there.  What *)
(* a task does next is in its record k[t], a picture of its kernel stack:  *)
(* pc says where it is, puts lists the inodes it is about to iput(), and   *)
(* ret and mret where iget() and _bmap() return to.                        *)
(*                                                                         *)
(* Abstractions.  There is one device.  What the buffer cache holds counts *)
(* as the disk.  Blocks have Width entries or pointers, and an inode one   *)
(* direct zone, one indirect and one doubly indirect.  Times, owners and   *)
(* the characters of files are left out.  Reads of blocks succeed.         *)
(***************************************************************************)
EXTENDS Integers, Sequences, FiniteSets, FiniteSetsExt

CONSTANTS
    Tasks,
    None,
    NR_INODE,       \* slots of inode_table
    NInodes,        \* inodes of the device; the root directory is number 1
    NBlocks,        \* blocks of its data zone
    Width           \* entries of a directory block, pointers of an indirect one

ASSUME TableAssumption ==
    /\ IsFiniteSet(Tasks) /\ None \notin Tasks
    /\ NR_INODE \in Nat \ {0} /\ NInodes \in Nat \ {0} /\ NBlocks \in Nat \ {0}
    /\ Width \in Nat /\ Width > 1

VARIABLES
    table,      \* inode_table
    disk,       \* the inodes of the device
    imap, zmap, \* the bits that are set in its bitmaps
    blks,       \* contents of its blocks: of directories and pointers
    last_inode, \* the slot that get_empty_inode() last looked at
    k,          \* what each task is doing in the kernel
    cpu,        \* the task that has not slept, or None
    halt        \* the panic that has ended it all, or "no"

ivars == <<table, disk, imap, zmap, blks, last_inode, k, cpu, halt>>

Slots == 1 .. NR_INODE
Inums == 1 .. NInodes
Blocks == 1 .. NBlocks
ROOT_INO == 1

\* An entry of a directory, and a pointer to a block: one without a name, which
\* is also the name after a final slash.
NoName == ""
FreeEntry == <<NoName, 0>>
EmptyBlock == [i \in 1 .. Width |-> FreeEntry]

\* The zones: 1 is direct, 2 indirect and 3 doubly indirect.
NoZones == <<0, 0, 0>>
NoInode == [num |-> 0, count |-> 0, dirt |-> FALSE, lock |-> FALSE,
            nlinks |-> 0, kind |-> "none", size |-> 0, zone |-> NoZones]

\* struct d_inode: what is on the disk of an inode.
OnDisk(r) == [nlinks |-> r.nlinks, kind |-> r.kind, size |-> r.size, zone |-> r.zone]

\* A task with nothing to do in the kernel.
Idle == [pc |-> "user", op |-> "none", flag |-> {}, path |-> <<>>, more |-> <<>>,
         dir |-> 0, ino |-> 0, old |-> 0, empty |-> 0, nr |-> 0, ent |-> <<0, 0>>,
         fd |-> 0, n |-> 0, lim |-> 0, obj |-> 0, blk |-> 0, cells |-> <<>>, at |-> 0,
         got |-> 0, ret |-> "none", mret |-> "none", io |-> "none", puts |-> <<>>]

-----------------------------------------------------------------------------
\* t may take its next step.
Runs(t) == halt = "no" /\ cpu \in {None, t}

\* The next step of t is at place p, with no inode to put before.
At(t, p) == Runs(t) /\ k[t].puts = <<>> /\ k[t].io = "none" /\ k[t].pc = p

\* The record x with the fields of r as they are in r.
Changed(x, r) == [f \in DOMAIN x |-> IF f \in DOMAIN r THEN r[f] ELSE x[f]]

\* The stack of t changes as r says; t goes on, or sleeps.
Go(t, r) == k' = [k EXCEPT ![t] = Changed(@, r)] /\ cpu' = t
Sleep(t, r) == k' = [k EXCEPT ![t] = Changed(@, r)] /\ cpu' = None

panic(m) ==
    /\ halt' = m
    /\ UNCHANGED <<table, disk, imap, zmap, blks, last_inode, k, cpu>>

\* The slots that have inode number n.
InCore(n) == {s \in Slots : table[s].num = n /\ table[s].count > 0}

-----------------------------------------------------------------------------
\* free_block() for the blocks of a set.  (A block whose buffer somebody
\* else has in use stays allocated: left out.)
free_blocks(B) == zmap' = zmap \ B

\* The blocks that a pointer of the given depth leads to.
Pointers(b) == {blks[b][i][2] : i \in 1 .. Width} \ {0}
Tree(b, depth) ==
    IF b = 0 THEN {}
    ELSE IF depth = 0 THEN {b}
    ELSE {b} \cup UNION {IF depth = 1 THEN {c} ELSE {c} \cup Pointers(c) : c \in Pointers(b)}

\* All blocks of an inode: its zones are pointers only in files and directories.
HasBlocks(r) == r.kind \in {"reg", "dir"}
BlocksOf(r) == UNION {Tree(r.zone[i], i - 1) : i \in 1 .. 3}

\* truncate(), for an inode in slot s.  The sleeps inside free_ind() and
\* free_dind() are left out: the direct zone goes first, then the rest.
TruncateStep(t, s, then) ==
    LET r == table[s] IN
    \/ /\ HasBlocks(r) /\ r.zone[1] # 0
       /\ IF r.zone[1] \notin zmap THEN panic("free_block: bit already cleared")
          ELSE /\ free_blocks({r.zone[1]})
               /\ table' = [table EXCEPT ![s].zone[1] = 0]
               /\ UNCHANGED k /\ cpu' = None
               /\ UNCHANGED <<disk, imap, blks, last_inode, halt>>
    \/ /\ HasBlocks(r) /\ r.zone[1] = 0
       /\ IF ~ BlocksOf(r) \subseteq zmap THEN panic("free_block: bit already cleared")
          ELSE /\ free_blocks(BlocksOf(r))
               /\ table' = [table EXCEPT ![s].zone = NoZones, ![s].size = 0, ![s].dirt = TRUE]
               /\ Go(t, then)
               /\ UNCHANGED <<disk, imap, blks, last_inode, halt>>
    \/ /\ ~ HasBlocks(r)
       /\ Go(t, then)
       /\ UNCHANGED <<table, disk, imap, zmap, blks, last_inode, halt>>

\* free_inode().
free_inode(t, s) ==
    IF table[s].count > 1 THEN panic("free_inode")
    ELSE IF table[s].nlinks # 0 THEN panic("trying to free inode with links")
    ELSE /\ imap' = imap \ {table[s].num}
         /\ table' = [table EXCEPT ![s] = NoInode]
         /\ Go(t, [io |-> "none", puts |-> Tail(k[t].puts)])
         /\ UNCHANGED <<disk, zmap, blks, last_inode, halt>>

\* write_inode(): the lock, and the read of the block it goes to ...
WriteInode(t, s, r) ==
    /\ table' = [table EXCEPT ![s].lock = TRUE]
    /\ Sleep(t, r)
    /\ UNCHANGED <<disk, imap, zmap, blks, last_inode, halt>>

\* Mutant: the inode stays dirty.
WrittenStillDirty(t, s, r) ==
    /\ disk' = [disk EXCEPT ![table[s].num] = OnDisk(table[s])]
    /\ table' = [table EXCEPT ![s].lock = FALSE]
    /\ Go(t, r)
    /\ UNCHANGED <<imap, zmap, blks, last_inode, halt>>

\* ... and the copying.
InodeWritten(t, s, r) ==
    /\ disk' = [disk EXCEPT ![table[s].num] = OnDisk(table[s])]
    /\ table' = [table EXCEPT ![s].dirt = FALSE, ![s].lock = FALSE]
    /\ Go(t, r)
    /\ UNCHANGED <<imap, zmap, blks, last_inode, halt>>

\* Mutant: the last user of an inode gives it back before it is written.
IputUnwritten(t) ==
    /\ Runs(t) /\ k[t].puts # <<>> /\ k[t].io = "none"
    /\ LET s == Head(k[t].puts) IN
       /\ ~ table[s].lock
       /\ IF table[s].num # 0 /\ table[s].count = 1 /\ table[s].nlinks = 0
          THEN /\ Go(t, [io |-> "trunc"])
               /\ UNCHANGED <<table, disk, imap, zmap, blks, last_inode, halt>>
          ELSE /\ table' = [table EXCEPT ![s].count = @ - 1]
               /\ Go(t, [puts |-> Tail(k[t].puts)])
               /\ UNCHANGED <<disk, imap, zmap, blks, last_inode, halt>>

\* iput(), from its beginning or from "repeat", to the next sleep.
Iput(t) ==
    /\ Runs(t) /\ k[t].puts # <<>> /\ k[t].io = "none"
    /\ LET s == Head(k[t].puts) IN
       /\ ~ table[s].lock
       /\ \/ /\ table[s].count = 0
             /\ panic("iput: trying to free free inode")
          \/ /\ table[s].num = 0 \/ table[s].count > 1
                \/ (table[s].count = 1 /\ table[s].nlinks # 0 /\ ~ table[s].dirt)
             /\ table[s].count # 0
             /\ table' = [table EXCEPT ![s].count = @ - 1]
             /\ Go(t, [puts |-> Tail(k[t].puts)])
             /\ UNCHANGED <<disk, imap, zmap, blks, last_inode, halt>>
          \/ /\ table[s].num # 0 /\ table[s].count = 1 /\ table[s].nlinks = 0
             /\ Go(t, [io |-> "trunc"])
             /\ UNCHANGED <<table, disk, imap, zmap, blks, last_inode, halt>>
          \/ /\ table[s].num # 0 /\ table[s].count = 1 /\ table[s].nlinks # 0 /\ table[s].dirt
             /\ WriteInode(t, s, [io |-> "write"])

\* iput() goes on after write_inode(), in truncate(), and after it.
IputWritten(t) ==
    /\ Runs(t) /\ k[t].io = "write"
    /\ InodeWritten(t, Head(k[t].puts), [io |-> "none"])

IputTruncates(t) ==
    /\ Runs(t) /\ k[t].puts # <<>> /\ k[t].io = "trunc"
    /\ TruncateStep(t, Head(k[t].puts), [io |-> "free"])

IputFrees(t) ==
    /\ Runs(t) /\ k[t].io = "free"
    /\ free_inode(t, Head(k[t].puts))

-----------------------------------------------------------------------------
\* get_empty_inode(): a slot that nobody has.  An unused slot is never dirty
\* or locked (UnusedIsClean), so there is nothing to wait for; and it does not
\* matter which of them last_inode comes upon.
Unused == {s \in Slots : table[s].count = 0}
After(i) == ((last_inode + i - 1) % NR_INODE) + 1
NewSlot == After(Min({i \in 1 .. NR_INODE : After(i) \in Unused}))

\* iget() of number nr, called with everything put: first the empty slot.
Iget(t) ==
    /\ At(t, "iget")
    /\ \/ /\ Unused = {}
          /\ panic("No free inodes in mem")
       \/ /\ Unused # {}
          /\ table' = [table EXCEPT ![NewSlot] = [NoInode EXCEPT !.count = 1]]
          /\ last_inode' = NewSlot
          /\ Go(t, [empty |-> NewSlot, pc |-> "search"])
          /\ UNCHANGED <<disk, imap, zmap, blks, halt>>

\* Mutant: an inode that is locked, being read, is passed over.
UnlockedHits(t) == {s \in Slots : table[s].num = k[t].nr /\ ~ table[s].lock}

Hits(t) == {s \in Slots : table[s].num = k[t].nr}

\* Somebody has it: one more user, and the empty slot goes back.  (If it is
\* locked the task waits and looks again.)
Found(t) ==
    /\ At(t, "search") /\ Hits(t) # {}
    /\ LET s == Min(Hits(t)) IN
       /\ ~ table[s].lock
       /\ table' = [table EXCEPT ![s].count = @ + 1, ![k[t].empty] = NoInode]
       /\ Go(t, [ino |-> s, empty |-> 0, pc |-> k[t].ret])
    /\ UNCHANGED <<disk, imap, zmap, blks, last_inode, halt>>

\* Nobody has it: read_inode() locks the slot and reads the block.
ReadInode(t) ==
    /\ At(t, "search") /\ Hits(t) = {}
    /\ table' = [table EXCEPT ![k[t].empty].num = k[t].nr, ![k[t].empty].lock = TRUE]
    /\ Sleep(t, [ino |-> k[t].empty, empty |-> 0, pc |-> "read"])
    /\ UNCHANGED <<disk, imap, zmap, blks, last_inode, halt>>

InodeRead(t) ==
    /\ At(t, "read")
    /\ table' = [table EXCEPT ![k[t].ino] = Changed([@ EXCEPT !.lock = FALSE], disk[k[t].nr])]
    /\ Go(t, [pc |-> k[t].ret])
    /\ UNCHANGED <<disk, imap, zmap, blks, last_inode, halt>>

\* A task whose next step is barred by a lock sleeps.
Barred(t) ==
    \/ k[t].puts # <<>> /\ k[t].io = "none" /\ table[Head(k[t].puts)].lock
    \/ /\ k[t].puts = <<>> /\ k[t].pc = "search" /\ Hits(t) # {}
       /\ table[Min(Hits(t))].lock
    \/ k[t].puts = <<>> /\ k[t].pc = "sync" /\ k[t].n \in Slots /\ table[k[t].n].lock

WaitForLock(t) ==
    /\ halt = "no" /\ cpu = t /\ Barred(t)
    /\ cpu' = None
    /\ UNCHANGED <<table, disk, imap, zmap, blks, k, last_inode, halt>>

\* Mutant: one number too many.
FreeInumsPastEnd == (1 .. NInodes + 1) \ imap

\* new_inode(): the number, in an empty slot; no slot's contents are kept.
FreeInums == Inums \ imap
NewInode(kind) ==
    [NoInode EXCEPT !.num = Min(FreeInums), !.count = 1, !.nlinks = 1, !.dirt = TRUE, !.kind = kind]

-----------------------------------------------------------------------------
\* _bmap(): where the pointer to block n of a file is: the zone, and the
\* entries of the indirect blocks to go through.
Cells(n) ==
    IF n = 0 THEN <<1>>
    ELSE IF n <= Width THEN <<2, n>>
    ELSE <<3, ((n - 1 - Width) \div Width) + 1, ((n - 1 - Width) % Width) + 1>>

\* The pointer that _bmap() has come to: in the inode, or in an indirect block.
Pointer(t, s) ==
    IF k[t].at = 0 THEN table[s].zone[Head(k[t].cells)]
    ELSE blks[k[t].at][Head(k[t].cells)][2]

\* It goes on with block b: to the result, which is read at once when there is
\* one, or to the next indirect block.
Follow(t, b) ==
    IF b = 0
    THEN Go(t, [blk |-> 0, cells |-> <<>>, at |-> 0, got |-> 0, pc |-> k[t].mret])
    ELSE IF Len(k[t].cells) = 1
    THEN Sleep(t, [blk |-> b, cells |-> <<>>, at |-> 0, got |-> 0, pc |-> k[t].mret])
    ELSE Sleep(t, [at |-> b, cells |-> Tail(k[t].cells), got |-> 0, pc |-> "bmap"])

\* bmap() only looks, create_block() and new_block() make what is missing.
Creates(t) == k[t].mret \in {"add", "dots", "wrote"}

\* A pointer that is there, or that is not to be made.
Bmap(t) ==
    /\ At(t, "bmap")
    /\ Pointer(t, k[t].obj) # 0 \/ ~ Creates(t) \/ zmap = Blocks
    /\ Follow(t, Pointer(t, k[t].obj))
    /\ UNCHANGED <<table, disk, imap, zmap, blks, last_inode, halt>>

\* new_block(): the first free bit; getblk() may sleep.
NewBlock(t) ==
    /\ At(t, "bmap")
    /\ Pointer(t, k[t].obj) = 0 /\ Creates(t) /\ zmap # Blocks
    /\ zmap' = zmap \cup {Min(Blocks \ zmap)}
    /\ Sleep(t, [got |-> Min(Blocks \ zmap), pc |-> "newblk"])
    /\ UNCHANGED <<table, disk, imap, blks, last_inode, halt>>

\* The block is cleared, and goes where the pointer was missing.
BlockMade(t) ==
    LET c == Head(k[t].cells)
        b == k[t].got IN
    /\ At(t, "newblk")
    /\ IF k[t].at = 0
       THEN /\ table' = [table EXCEPT ![k[t].obj].zone[c] = b, ![k[t].obj].dirt = TRUE]
            /\ blks' = [blks EXCEPT ![b] = EmptyBlock]
       ELSE /\ blks' = [blks EXCEPT ![b] = EmptyBlock, ![k[t].at][c] = <<NoName, b>>]
            /\ UNCHANGED table
    /\ Follow(t, b)
    /\ UNCHANGED <<disk, imap, zmap, last_inode, halt>>

InodeStep(t) ==
    \/ Iput(t) \/ IputWritten(t) \/ IputTruncates(t) \/ IputFrees(t)
    \/ Iget(t) \/ Found(t) \/ ReadInode(t) \/ InodeRead(t)
    \/ Bmap(t) \/ NewBlock(t) \/ BlockMade(t)
    \/ WaitForLock(t)

=============================================================================
