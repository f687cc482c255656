------------------------------- MODULE Names -------------------------------
(***************************************************************************)
(* Path names, directories and open files: fs/namei.c, fs/open.c,          *)
(* fs/fcntl.c, file_write(), and what fork and exit do to references,      *)
(* over the inodes of module Inodes.                                       *)
(*                                                                         *)
(* A system call is a walk from place to place: "walk" through the path,   *)
(* "scan" of a directory for a name, then "found" or "missed", and the     *)
(* places of the call itself.  Every task is a super-user, so permission() *)
(* fails only for a file without links.  A path is a sequence of names, of *)
(* which a first "/" is the root directory and a last "" a final slash.    *)
(* File positions and sizes of files count blocks, of directories entries. *)
(***************************************************************************)
EXTENDS Inodes

CONSTANTS
    NR_OPEN, NR_FILE,
    Uses        \* the workloads: for every task its calls, and how many of them

\* What the workloads may ask for: the calls modelled; link() has two paths,
\* and write() has a block in place of a path.
Known(c) ==
    /\ c.op \in {"open", "mknod", "mkdir", "link", "unlink", "rmdir", "touch", "chdir",
                 "chroot", "exec", "write", "close", "dup", "fork", "exit", "sync"}
    /\ c.op = "link" => c.more # <<>>
    /\ c.op = "write" => c.path \in Nat

ASSUME FilesAssumption ==
    /\ NR_OPEN \in Nat \ {0} /\ NR_FILE \in Nat \ {0}
    /\ \A u \in Uses : \A t \in Tasks : \A c \in u[t].calls : Known(c)

VARIABLES
    file_table,
    proc,       \* of each task: filp, pwd, root and executable
    use         \* what each task may still call

nvars == <<file_table, proc, use>>
vars == <<ivars, nvars>>

Fds == 1 .. NR_OPEN
Files == 1 .. NR_FILE
NoFile == [count |-> 0, inode |-> 0, write |-> FALSE]

Call(op, path) == [op |-> op, path |-> path, more |-> <<>>, flag |-> {}]
Open(path, flag) == [Call("open", path) EXCEPT !.flag = flag]
Link(old, new) == [Call("link", old) EXCEPT !.more = new]

\* t makes a call.
Calls(t, c) ==
    /\ At(t, "user")
    /\ use[t].left > 0 /\ c \in use[t].calls
    /\ use' = [use EXCEPT ![t].left = @ - 1]

FilesStay == UNCHANGED nvars
DiskStays == UNCHANGED <<table, disk, imap, zmap, blks, last_inode, halt>>

\* iput() of NULL does nothing.
IfAny(s) == IF s = 0 THEN <<>> ELSE <<s>>

\* The call is over, once the inodes of puts are put.
Finish(t, slots) ==
    Go(t, [pc |-> "done", dir |-> 0, ino |-> 0, old |-> 0, puts |-> slots])

-----------------------------------------------------------------------------
\* The first directory of a path, and the path after it.
Start(t, path) == IF Head(path) = "/" THEN proc[t].root ELSE proc[t].pwd
Rest(path) == IF Head(path) = "/" THEN Tail(path) ELSE path

\* A call with a path.  sys_open() takes a descriptor and a file first.
WithPath(t, c) ==
    LET fd == {i \in Fds : proc[t].filp[i] = 0}
        f == {i \in Files : file_table[i].count = 0}
    IN
    /\ c.op \notin {"write", "close", "dup", "fork", "exit", "sync"}
    /\ Calls(t, c)
    /\ IF c.op = "open"
       THEN /\ fd # {} /\ f # {}
            /\ proc' = [proc EXCEPT ![t].filp[Min(fd)] = Min(f)]
            /\ file_table' = [file_table EXCEPT ![Min(f)].count = 1]
       ELSE UNCHANGED <<proc, file_table>>
    /\ table' = [table EXCEPT ![Start(t, c.path)].count = @ + 1]
    /\ Go(t, [op |-> c.op, flag |-> c.flag, path |-> Rest(c.path), more |-> c.more,
              dir |-> Start(t, c.path), pc |-> "walk",
              fd |-> IF c.op = "open" THEN Min(fd) ELSE 0])
    /\ UNCHANGED <<disk, imap, zmap, blks, last_inode, halt>>

\* Calls that begin with namei(), and the first of the two paths of link.
ByNamei(t) ==
    \/ k[t].op \in {"touch", "chdir", "chroot", "exec"}
    \/ k[t].op = "link" /\ k[t].more # <<>>

\* The end of a path that ends in a slash: the directory itself, or an error.
FinalSlash(t) ==
    IF ByNamei(t) THEN Go(t, [ino |-> k[t].dir, dir |-> 0, pc |-> "named"])
    ELSE IF k[t].op = "open" /\ k[t].flag = {}
    THEN Go(t, [ino |-> k[t].dir, dir |-> 0, pc |-> "install"])
    ELSE Finish(t, IfAny(k[t].old) \o <<k[t].dir>>)

\* get_dir(): one directory of the path.  Then find_entry() reads its first
\* block.
Walk(t) ==
    LET d == table[k[t].dir]
        name == Head(k[t].path) IN
    /\ At(t, "walk")
    /\ IF d.kind # "dir" \/ d.nlinks = 0
       THEN Finish(t, <<k[t].dir>> \o IfAny(k[t].old))
       ELSE IF name = NoName THEN FinalSlash(t)
       ELSE IF d.zone[1] = 0 THEN Go(t, [pc |-> "missed"])
       ELSE Sleep(t, [pc |-> "scan", n |-> 0, lim |-> d.size, blk |-> d.zone[1]])
    /\ FilesStay /\ DiskStays

\* The loops over the entries of a directory: the entries of the block that
\* was read, if there is such a block, and bmap() or create_block() for the next.
Entries(t) == IF k[t].blk \in Blocks THEN blks[k[t].blk] ELSE EmptyBlock
Places(t) == k[t].n .. k[t].n + Width - 1
Entry(t, i) == Entries(t)[i - k[t].n + 1]
Place(t, i) == <<k[t].blk, i - k[t].n + 1>>
NextBlock(t, slot) ==
    Go(t, [n |-> k[t].n + Width, cells |-> Cells((k[t].n \div Width) + 1), at |-> 0,
           obj |-> slot, mret |-> k[t].pc, pc |-> "bmap"])

\* find_entry(), in one block.  The number of entries is what it was at first;
\* ".." of the root is the root.
Name(t) == IF Head(k[t].path) = ".." /\ k[t].dir = proc[t].root THEN "."
           ELSE Head(k[t].path)
Scan(t) ==
    LET hits == {i \in Places(t) : /\ i < k[t].lim
                                   /\ Entry(t, i)[1] = Name(t)
                                   /\ Entry(t, i)[2] # 0}
    IN
    /\ At(t, "scan")
    /\ IF hits # {} THEN Go(t, [ent |-> Place(t, Min(hits)), nr |-> Entry(t, Min(hits))[2],
                                pc |-> "found"])
       ELSE IF k[t].n + Width < k[t].lim THEN NextBlock(t, k[t].dir)
       ELSE Go(t, [pc |-> "missed"])
    /\ FilesStay /\ DiskStays

\* The entry is there.  Within a path, in namei() and in open_namei() its
\* directory is put before its inode is got; rmdir and unlink keep it.
FoundEntry(t) ==
    LET got(ret) == Go(t, [puts |-> <<k[t].dir>>, dir |-> 0, pc |-> "iget", ret |-> ret])
    IN
    /\ At(t, "found")
    /\ IF Len(k[t].path) > 1 THEN got("walked")
       ELSE IF ByNamei(t) THEN got("named")
       ELSE IF k[t].op = "open" /\ "excl" \notin k[t].flag THEN got("opened")
       ELSE IF k[t].op \in {"rmdir", "unlink"}
       THEN Go(t, [pc |-> "iget", ret |-> "victim"])
       ELSE Finish(t, <<k[t].dir>> \o IfAny(k[t].old))
    /\ FilesStay /\ DiskStays

Walked(t) ==
    /\ At(t, "walked")
    /\ Go(t, [dir |-> k[t].ino, ino |-> 0, path |-> Tail(k[t].path), pc |-> "walk"])
    /\ FilesStay /\ DiskStays

-----------------------------------------------------------------------------
\* There is no such entry: an error, or something new where the path ends.
\* new_inode() fails when no number is free; mkdir goes on with new_block().
\* open_namei() asks permission() when find_entry() is over, mknod and mkdir
\* asked before.
Makes(t) ==
    /\ Len(k[t].path) = 1
    /\ k[t].op \in {"mknod", "mkdir"} \/ (k[t].op = "open" /\ "creat" \in k[t].flag)

Kind(t) == CASE k[t].op = "open" -> "reg" [] k[t].op = "mknod" -> "dev" [] OTHER -> "none"

new_inode(t, then, where) ==
    /\ imap' = imap \cup {Min(FreeInums)}
    /\ table' = [table EXCEPT ![NewSlot] = NewInode(Kind(t))]
    /\ last_inode' = NewSlot
    /\ Go(t, [ino |-> NewSlot, pc |-> then, cells |-> <<1>>, at |-> 0, obj |-> NewSlot,
              mret |-> where])
    /\ UNCHANGED <<disk, zmap, blks, halt>>

Allowed(t) == k[t].op = "open" => table[k[t].dir].nlinks # 0

Missed(t) ==
    /\ At(t, "missed") /\ FilesStay
    /\ \/ /\ Makes(t) /\ Allowed(t) /\ FreeInums # {} /\ Unused # {}
          /\ IF k[t].op = "mkdir"
             THEN new_inode(t, "bmap", "dots")
             ELSE new_inode(t, "addentry", "none")
       \/ /\ Makes(t) /\ Allowed(t) /\ Unused = {}
          /\ panic("No free inodes in mem")
       \/ /\ ~ Makes(t) \/ ~ Allowed(t) \/ FreeInums = {}
          /\ IF k[t].op = "link" /\ ~ ByNamei(t) /\ Len(k[t].path) = 1
             THEN Go(t, [pc |-> "addentry"])
             ELSE Finish(t, <<k[t].dir>> \o IfAny(k[t].old))
          /\ DiskStays

\* mknod and mkdir, when there is no block: the directory is put, which may
\* sleep, before anything else.
GiveUp(t) == Go(t, [puts |-> <<k[t].dir>>, dir |-> 0, pc |-> "failed"])

\* mkdir: the entries of the new directory, in its new block.
Dots(t) ==
    LET r == table[k[t].ino] IN
    /\ At(t, "dots") /\ FilesStay
    /\ IF k[t].blk = 0
       THEN /\ table' = [table EXCEPT ![k[t].ino].size = 2]
            /\ GiveUp(t)
            /\ UNCHANGED blks
       ELSE /\ blks' = [blks EXCEPT ![k[t].blk][1] = <<".", r.num>>,
                                    ![k[t].blk][2] = <<"..", table[k[t].dir].num>>]
            /\ table' = [table EXCEPT ![k[t].ino] =
                           [@ EXCEPT !.nlinks = 2, !.kind = "dir", !.size = 2, !.dirt = TRUE]]
            /\ Go(t, [pc |-> "addentry"])
    /\ UNCHANGED <<disk, imap, zmap, last_inode, halt>>

\* add_entry() reads the first block, ...
AddEntry(t) ==
    /\ At(t, "addentry") /\ table[k[t].dir].zone[1] # 0
    /\ Sleep(t, [n |-> 0, blk |-> table[k[t].dir].zone[1], pc |-> "add"])
    /\ FilesStay /\ DiskStays

\* ... and looks for a free entry, or one past the end.
Room(t) ==
    IF k[t].blk = 0 THEN {}
    ELSE {i \in Places(t) : i >= table[k[t].dir].size \/ Entry(t, i)[2] = 0}

\* Mutant: mkdir() forgets the link that is the ".." of the new directory.
GrownUncounted(t, i) ==
    LET d == table[k[t].dir] IN
    [d EXCEPT !.size = Max({d.size, i + 1}), !.dirt = @ \/ i >= d.size]

\* The directory then: mkdir adds the link that is the ".." of the new one.
Grown(t, i) ==
    LET d == table[k[t].dir] IN
    [d EXCEPT !.size = Max({d.size, i + 1}),
              !.dirt = @ \/ i >= d.size \/ k[t].op = "mkdir",
              !.nlinks = IF k[t].op = "mkdir" THEN @ + 1 ELSE @]

\* The name and the number go there, with no sleep between.
EntryAdded(t) ==
    LET i == Min(Room(t))
        x == IF k[t].op = "link" THEN k[t].old ELSE k[t].ino IN
    /\ At(t, "add") /\ Room(t) # {}
    /\ blks' = [blks EXCEPT ![k[t].blk][i - k[t].n + 1] = <<Head(k[t].path), table[x].num>>]
    /\ table' = [table EXCEPT ![k[t].dir] = Grown(t, i)]
    /\ IF k[t].op \in {"open", "link"}
       THEN Go(t, [puts |-> <<k[t].dir>>, dir |-> 0,
                   pc |-> IF k[t].op = "open" THEN "install" ELSE "linked"])
       ELSE Finish(t, <<k[t].dir, x>>)
    /\ FilesStay
    /\ UNCHANGED <<disk, imap, zmap, last_inode, halt>>

AddNext(t) ==
    /\ At(t, "add") /\ k[t].blk # 0 /\ Room(t) = {}
    /\ NextBlock(t, k[t].dir)
    /\ FilesStay /\ DiskStays

\* No block for it.  open_namei() puts the new inode, and the directory last.
AddFails(t) ==
    LET x == k[t].ino IN
    /\ \/ At(t, "addentry") /\ table[k[t].dir].zone[1] = 0
       \/ At(t, "add") /\ k[t].blk = 0
    /\ table' = IF k[t].op = "open" THEN [table EXCEPT ![x].nlinks = 0] ELSE table
    /\ CASE k[t].op = "open" -> Finish(t, <<x, k[t].dir>>)
         [] k[t].op = "link" -> Finish(t, <<k[t].dir, k[t].old>>)
         [] OTHER -> GiveUp(t)
    /\ FilesStay
    /\ UNCHANGED <<disk, imap, zmap, blks, last_inode, halt>>

\* The end of mknod and mkdir that failed.  mkdir frees the first block of the
\* new directory, if it has one, and the inode still points at it when iput()
\* truncates it.
Failed(t) ==
    LET x == k[t].ino IN
    /\ At(t, "failed")
    /\ IF k[t].op = "mkdir" THEN free_blocks({table[x].zone[1]}) ELSE UNCHANGED zmap
    /\ table' = [table EXCEPT ![x].nlinks = 0]
    /\ Finish(t, <<x>>)
    /\ FilesStay
    /\ UNCHANGED <<disk, imap, blks, last_inode, halt>>

\* link counts the new entry when iput(dir) is over.
Linked(t) ==
    /\ At(t, "linked")
    /\ table' = [table EXCEPT ![k[t].old].nlinks = @ + 1, ![k[t].old].dirt = TRUE]
    /\ Finish(t, <<k[t].old>>)
    /\ FilesStay
    /\ UNCHANGED <<disk, imap, zmap, blks, last_inode, halt>>

-----------------------------------------------------------------------------
\* The calls that name an inode with namei(): it is marked dirty, unless the
\* name was empty.  chdir, chroot and exec keep it and put the one they had.
Named(t) ==
    LET x == k[t].ino
        kept == CASE k[t].op = "chdir" -> "pwd" [] k[t].op = "chroot" -> "root"
                  [] k[t].op = "exec" -> "executable" [] OTHER -> "none"
        wanted == IF k[t].op = "exec" THEN "reg" ELSE "dir"
    IN
    /\ At(t, "named")
    /\ UNCHANGED <<file_table, use, disk, imap, zmap, blks, last_inode, halt>>
    /\ \/ /\ kept # "none" /\ table[x].kind = wanted
          /\ proc' = [proc EXCEPT ![t][kept] = x]
          /\ table' = [table EXCEPT ![x].dirt = @ \/ k[t].path # <<NoName>>]
          /\ Finish(t, IfAny(proc[t][kept]))
       \/ /\ k[t].op = "link" /\ table[x].kind # "dir"
          /\ table' = [table EXCEPT ![x].dirt = TRUE, ![Start(t, k[t].more)].count = @ + 1]
          /\ Go(t, [old |-> x, ino |-> 0, dir |-> Start(t, k[t].more), more |-> <<>>,
                    path |-> Rest(k[t].more), pc |-> "walk"])
          /\ UNCHANGED proc
       \/ /\ k[t].op = "touch" \/ (kept # "none" /\ table[x].kind # wanted)
             \/ (k[t].op = "link" /\ table[x].kind = "dir")
          /\ table' = [table EXCEPT ![x].dirt = @ \/ k[t].path # <<NoName>> \/ k[t].op = "touch"]
          /\ Finish(t, <<x>>)
          /\ UNCHANGED proc

\* open_namei() has the inode: it may have to be truncated.
Opened(t) ==
    LET x == table[k[t].ino] IN
    /\ At(t, "opened")
    /\ IF x.nlinks = 0 \/ (x.kind = "dir" /\ k[t].flag \cap {"write", "trunc"} # {})
       THEN Finish(t, <<k[t].ino>>)
       ELSE Go(t, [pc |-> IF "trunc" \in k[t].flag THEN "truncate" ELSE "install"])
    /\ FilesStay /\ DiskStays

OpenTruncates(t) ==
    /\ At(t, "truncate") /\ FilesStay
    /\ TruncateStep(t, k[t].ino, [pc |-> "install"])

\* sys_open() fills in the file.
Install(t) ==
    LET f == proc[t].filp[k[t].fd] IN
    /\ At(t, "install")
    /\ file_table' = [file_table EXCEPT ![f] =
                        [count |-> 1, inode |-> k[t].ino,
                         write |-> k[t].flag \cap {"write", "trunc"} # {}]]
    /\ k' = [k EXCEPT ![t] = Idle] /\ cpu' = None
    /\ UNCHANGED <<proc, use>> /\ DiskStays

-----------------------------------------------------------------------------
\* rmdir: in use, ".", or no directory.
NotToRemove(t) ==
    table[k[t].ino].count > 1 \/ k[t].ino = k[t].dir \/ table[k[t].ino].kind # "dir"

\* unlink: the entry, and the link.  An inode without links gets one first.
Unlinked(t) ==
    LET x == k[t].ino IN
    /\ blks' = [blks EXCEPT ![k[t].ent[1]][k[t].ent[2]] = <<@[1], 0>>]
    /\ table' = [table EXCEPT ![x].nlinks = (IF @ = 0 THEN 1 ELSE @) - 1, ![x].dirt = TRUE]
    /\ Finish(t, <<x, k[t].dir>>)

\* rmdir and unlink have the inode of the entry.
Victim(t) ==
    LET x == k[t].ino IN
    /\ At(t, "victim") /\ FilesStay
    /\ UNCHANGED <<disk, imap, zmap, last_inode, halt>>
    /\ \/ /\ k[t].op = "unlink" /\ table[x].kind # "dir"
          /\ Unlinked(t)
       \/ /\ IF k[t].op = "unlink" THEN table[x].kind = "dir" ELSE NotToRemove(t)
          /\ Finish(t, IF table[x].count > 1 THEN <<k[t].dir, x>> ELSE <<x, k[t].dir>>)
          /\ UNCHANGED <<table, blks>>
       \/ /\ k[t].op = "rmdir" /\ ~ NotToRemove(t)
          /\ IF table[x].size < 2 \/ table[x].zone[1] = 0 THEN Finish(t, <<x, k[t].dir>>)
             ELSE Sleep(t, [n |-> 0, lim |-> table[x].size, blk |-> table[x].zone[1],
                            pc |-> "empty"])
          /\ UNCHANGED <<table, blks>>

\* empty_dir(), in one block; then the removal.
EmptyDir(t) ==
    LET x == k[t].ino
        others == {i \in Places(t) : 2 <= i /\ i < k[t].lim /\ Entry(t, i)[2] # 0}
        bad == k[t].n = 0 /\ (Entry(t, 0) # <<".", table[x].num>> \/ Entry(t, 1)[2] = 0)
        next == k[t].n + Width < k[t].lim
    IN
    /\ At(t, "empty") /\ FilesStay
    /\ UNCHANGED <<disk, imap, zmap, last_inode, halt>>
    /\ \/ /\ bad \/ others # {}
          /\ Finish(t, <<x, k[t].dir>>)
          /\ UNCHANGED <<table, blks>>
       \/ /\ ~ bad /\ others = {} /\ next
          /\ NextBlock(t, x)
          /\ UNCHANGED <<table, blks>>
       \/ /\ ~ bad /\ others = {} /\ ~ next
          /\ blks' = [blks EXCEPT ![k[t].ent[1]][k[t].ent[2]] = <<@[1], 0>>]
          /\ table' = [table EXCEPT ![x].nlinks = 0, ![x].dirt = TRUE,
                                    ![k[t].dir].nlinks = @ - 1, ![k[t].dir].dirt = TRUE]
          /\ Finish(t, <<k[t].dir, x>>)

-----------------------------------------------------------------------------
\* file_write(), of one block of an open file; its position is anywhere.
Write(t, c) ==
    /\ c.op = "write" /\ Calls(t, c)
    /\ \E fd \in Fds :
         LET f == file_table[proc[t].filp[fd]] IN
         /\ proc[t].filp[fd] # 0
         /\ f.write /\ table[f.inode].kind = "reg"
         /\ Go(t, [op |-> "write", pc |-> "bmap", mret |-> "wrote", n |-> c.path,
                   cells |-> Cells(c.path), at |-> 0, obj |-> f.inode])
    /\ UNCHANGED <<file_table, proc>> /\ DiskStays

Wrote(t) ==
    LET x == k[t].obj IN
    /\ At(t, "wrote") /\ FilesStay
    /\ table' = IF k[t].blk = 0 \/ k[t].n < table[x].size THEN table
                ELSE [table EXCEPT ![x].size = k[t].n + 1, ![x].dirt = TRUE]
    /\ Finish(t, <<>>)
    /\ UNCHANGED <<disk, imap, zmap, blks, last_inode, halt>>

\* Mutant: every descriptor that is closed puts the inode.
CloseAlwaysPuts(t, fd, then) ==
    LET f == proc[t].filp[fd] IN
    /\ proc' = [proc EXCEPT ![t].filp[fd] = 0]
    /\ file_table' = IF file_table[f].count = 1 THEN [file_table EXCEPT ![f] = NoFile]
                     ELSE [file_table EXCEPT ![f].count = @ - 1]
    /\ Go(t, [pc |-> then, puts |-> <<file_table[f].inode>>])

\* sys_close(): the last descriptor of a file puts its inode.
CloseFile(t, fd, then) ==
    LET f == proc[t].filp[fd] IN
    /\ proc' = [proc EXCEPT ![t].filp[fd] = 0]
    /\ file_table' = IF file_table[f].count = 1 THEN [file_table EXCEPT ![f] = NoFile]
                     ELSE [file_table EXCEPT ![f].count = @ - 1]
    /\ Go(t, [pc |-> then, puts |-> IF file_table[f].count = 1 THEN <<file_table[f].inode>>
                                    ELSE <<>>])

OpenFds(t) == {fd \in Fds : proc[t].filp[fd] # 0}

Close(t, c) ==
    /\ c.op = "close" /\ Calls(t, c)
    /\ \E fd \in OpenFds(t) : CloseFile(t, fd, "done")
    /\ DiskStays

\* dupfd(): the first free descriptor.
Dup(t, c) ==
    LET free == {fd \in Fds : proc[t].filp[fd] = 0} IN
    /\ c.op = "dup" /\ Calls(t, c) /\ free # {}
    /\ \E fd \in OpenFds(t) :
         /\ proc' = [proc EXCEPT ![t].filp[Min(free)] = proc[t].filp[fd]]
         /\ file_table' = [file_table EXCEPT ![proc[t].filp[fd]].count = @ + 1]
    /\ UNCHANGED k /\ cpu' = None
    /\ DiskStays

\* copy_process(): the child has the same files and directories.
Fork(t, c) ==
    LET p == proc[t]
        files(f) == Cardinality({fd \in Fds : p.filp[fd] = f})
        dirs(s) == Cardinality({x \in {"pwd", "root", "executable"} : p[x] = s}) IN
    /\ c.op = "fork" /\ Calls(t, c)
    /\ \E u \in Tasks :
         /\ k[u].pc = "dead"
         /\ proc' = [proc EXCEPT ![u] = p]
         /\ k' = [k EXCEPT ![u] = Idle]
    /\ file_table' = [f \in Files |-> [file_table[f] EXCEPT !.count = @ + files(f)]]
    /\ table' = [s \in Slots |-> [table[s] EXCEPT !.count = @ + dirs(s)]]
    /\ cpu' = None
    /\ UNCHANGED <<disk, imap, zmap, blks, last_inode, halt>>

\* do_exit(): the descriptors one by one, then the three inodes.
Exit(t, c) ==
    /\ c.op = "exit" /\ Calls(t, c)
    /\ Go(t, [op |-> "exit", pc |-> "exit"])
    /\ UNCHANGED <<file_table, proc>> /\ DiskStays

Exiting(t) ==
    /\ At(t, "exit")
    /\ IF OpenFds(t) # {} THEN CloseFile(t, Min(OpenFds(t)), "exit")
       ELSE /\ proc' = [proc EXCEPT ![t].pwd = 0, ![t].root = 0, ![t].executable = 0]
            /\ Finish(t, <<proc[t].pwd, proc[t].root>> \o IfAny(proc[t].executable))
            /\ UNCHANGED file_table
    /\ UNCHANGED use /\ DiskStays

\* sync_inodes(), slot by slot.
Sync(t, c) ==
    /\ c.op = "sync" /\ Calls(t, c)
    /\ Go(t, [pc |-> "sync", n |-> 1])
    /\ UNCHANGED <<file_table, proc>> /\ DiskStays

Syncing(t) ==
    /\ At(t, "sync") /\ FilesStay
    /\ \/ /\ k[t].n > NR_INODE
          /\ Finish(t, <<>>)
          /\ DiskStays
       \/ /\ k[t].n <= NR_INODE /\ ~ table[k[t].n].lock
          /\ IF table[k[t].n].dirt THEN WriteInode(t, k[t].n, [pc |-> "synced"])
             ELSE Go(t, [n |-> k[t].n + 1]) /\ DiskStays

Synced(t) ==
    /\ At(t, "synced") /\ FilesStay
    /\ InodeWritten(t, k[t].n, [pc |-> "sync", n |-> k[t].n + 1])

\* A call returns; open() that failed gives back its descriptor and its file.
Return(t) ==
    /\ At(t, "done")
    /\ IF k[t].op = "open"
       THEN /\ file_table' = [file_table EXCEPT ![proc[t].filp[k[t].fd]] = NoFile]
            /\ proc' = [proc EXCEPT ![t].filp[k[t].fd] = 0]
       ELSE UNCHANGED <<file_table, proc>>
    /\ k' = [k EXCEPT ![t] = [Idle EXCEPT !.pc = IF k[t].op = "exit" THEN "dead" ELSE "user"]]
    /\ cpu' = None
    /\ UNCHANGED use /\ DiskStays

-----------------------------------------------------------------------------
\* mkfs, mount_root() and the first task: the root directory is the super
\* block's s_isup and s_imount, and pwd and root of the task.
Init ==
    LET root == [NoInode EXCEPT !.num = ROOT_INO, !.nlinks = 2, !.kind = "dir", !.size = 2,
                                !.zone = <<1, 0, 0>>]
        first == CHOOSE t \in Tasks : TRUE
    IN
    /\ \E u \in Uses :
         LET alive == {t \in Tasks : u[t].alive} IN
         /\ use = [t \in Tasks |-> [calls |-> u[t].calls, left |-> u[t].left]]
         /\ table = [s \in Slots |-> IF s = 1 THEN [root EXCEPT !.count = 2 + 2 * Cardinality(alive)]
                                     ELSE NoInode]
         /\ proc = [t \in Tasks |-> [filp |-> [fd \in Fds |-> 0], executable |-> 0,
                                     pwd |-> IF t \in alive THEN 1 ELSE 0,
                                     root |-> IF t \in alive THEN 1 ELSE 0]]
         /\ k = [t \in Tasks |-> [Idle EXCEPT !.pc = IF t \in alive THEN "user" ELSE "dead"]]
    /\ disk = [n \in Inums |-> OnDisk(IF n = ROOT_INO THEN root ELSE NoInode)]
    /\ imap = {ROOT_INO} /\ zmap = {1}
    /\ blks = [b \in Blocks |-> IF b = 1 THEN [EmptyBlock EXCEPT ![1] = <<".", 1>>, ![2] = <<"..", 1>>]
                               ELSE EmptyBlock]
    /\ last_inode = 1
    /\ file_table = [f \in Files |-> NoFile]
    /\ cpu = None /\ halt = "no"

\* The next step of a task inside a call.
Step(t) ==
    \/ InodeStep(t) /\ FilesStay
    \/ Walk(t) \/ Scan(t) \/ FoundEntry(t) \/ Walked(t)
    \/ Missed(t) \/ Dots(t) \/ AddEntry(t) \/ EntryAdded(t) \/ AddNext(t) \/ AddFails(t)
    \/ Failed(t) \/ Linked(t) \/ Named(t) \/ Opened(t) \/ OpenTruncates(t) \/ Install(t)
    \/ Victim(t) \/ EmptyDir(t) \/ Wrote(t)
    \/ Exiting(t) \/ Syncing(t) \/ Synced(t) \/ Return(t)

SystemCall(t, c) ==
    \/ WithPath(t, c) \/ Write(t, c) \/ Close(t, c) \/ Dup(t, c)
    \/ Fork(t, c) \/ Exit(t, c) \/ Sync(t, c)

\* Nothing is left to be called, or the kernel has stopped.
Over ==
    /\ halt # "no" \/ \A t \in Tasks : k[t].pc \in {"user", "dead"}
    /\ UNCHANGED vars

Next ==
    \/ \E t \in Tasks : Step(t)
    \/ \E t \in Tasks : \E c \in use[t].calls : SystemCall(t, c)
    \/ Over

\* A task in the kernel goes on when it can: what it waits for is an interrupt
\* of the disk or a lock that another task gives back, and schedule() is fair
\* (NoStarvation of module Scheduler).
Spec == Init /\ [][Next]_vars /\ \A t \in Tasks : WF_vars(Step(t))

-----------------------------------------------------------------------------
\* Types of the variables.
TypeOK ==
    /\ \A s \in Slots :
         /\ table[s].num \in 0 .. NInodes /\ table[s].count \in Nat
         /\ table[s].nlinks \in Nat /\ table[s].size \in Nat
         /\ table[s].kind \in {"none", "reg", "dir", "dev"}
         /\ {table[s].dirt, table[s].lock} \subseteq BOOLEAN
         /\ \A i \in 1 .. 3 : table[s].zone[i] \in {0} \cup Blocks
    /\ imap \subseteq Inums /\ zmap \subseteq Blocks
    /\ cpu \in Tasks \cup {None}
    /\ \A t \in Tasks : \A fd \in Fds : proc[t].filp[fd] \in {0} \cup Files

\* How often slot s is referred to: by the super block, by open files, by
\* tasks for good, and by tasks that have it in hand in the middle of a call.
Hands(t) == <<k[t].dir, k[t].ino, k[t].old, k[t].empty, proc[t].pwd, proc[t].root,
              proc[t].executable>> \o k[t].puts
References(s) ==
    (IF s = 1 THEN 2 ELSE 0)
    + Cardinality({f \in Files : file_table[f].inode = s})
    + Cardinality({h \in Tasks \X (1 .. 10) : /\ h[2] \in DOMAIN Hands(h[1])
                                             /\ Hands(h[1])[h[2]] = s})

\* i_count is the number of references to the inode, and f_count of descriptors
\* of the file, at every moment of every call, through every error path.
CountIsReferences ==
    /\ \A s \in Slots : table[s].count = References(s)
    /\ \A f \in Files : file_table[f].count =
         Cardinality({h \in Tasks \X Fds : proc[h[1]].filp[h[2]] = f})

\* An inode that nobody uses has no changes that are not on the disk, and is
\* not locked: get_empty_inode() may take its slot.
UnusedIsClean == \A s \in Slots : table[s].count = 0 => ~ table[s].dirt /\ ~ table[s].lock

\* One task removes files while another is about.
Disturbed ==
    \E t, u \in Tasks : /\ t # u /\ use[u].calls # {}
                       /\ \E c \in use[t].calls : c.op \in {"unlink", "rmdir"}

\* No inode is in two slots: changes of one copy would be lost.  (This and the
\* next are for tasks that do not remove files behind one another's back.)
OneSlotPerInode ==
    halt = "no" /\ ~ Disturbed => \A n \in Inums : Cardinality(InCore(n)) <= 1

\* What that rests on: a task that is about to read an inode from the disk, for
\* nobody has it, found its number in an entry, and the inode is still allocated.
ReadsAllocated ==
    ~ Disturbed =>
    \A t \in Tasks : k[t].pc = "search" /\ Hits(t) = {} => k[t].nr \in imap

\* What fsck looks at, when no call is in progress.  An inode is what its
\* slot says, or the disk if nobody has it.
Now(n) == IF InCore(n) # {} THEN table[Min(InCore(n))] ELSE Changed(NoInode, disk[n])
FileBlock(r, n) ==
    LET c == Cells(n)
        z == r.zone[c[1]]
        y == IF z = 0 THEN 0 ELSE blks[z][c[2]][2] IN
    IF Len(c) = 1 THEN z
    ELSE IF Len(c) = 2 \/ y = 0 THEN y ELSE blks[y][c[3]][2]
EntryOf(n, i) == blks[FileBlock(Now(n), i \div Width)][(i % Width) + 1]
EntriesOf(n) == IF Now(n).kind # "dir" THEN {}
                ELSE {i \in 0 .. Now(n).size - 1 : EntryOf(n, i)[2] # 0}
Dirs == {n \in imap : Now(n).kind = "dir"}
Quiet == halt = "no" /\ ~ Disturbed /\ \A t \in Tasks : k[t].pc \in {"user", "dead"}

\* Between calls the file system is whole: the link count of every inode is
\* the number of entries that name it, an inode is allocated exactly while it
\* has links or users, and a block exactly while one file has it, once.
Whole ==
    Quiet =>
    /\ \A n \in Inums :
         /\ IF n \in imap THEN Now(n).nlinks > 0 \/ InCore(n) # {} ELSE InCore(n) = {}
         /\ n \in imap => Now(n).nlinks = MapThenSumSet(LAMBDA d :
                Cardinality({i \in EntriesOf(d) : EntryOf(d, i)[2] = n}), Dirs)
         /\ n \notin imap => \A d \in Dirs : \A i \in EntriesOf(d) : EntryOf(d, i)[2] # n
    /\ zmap = UNION {BlocksOf(Now(n)) : n \in {m \in imap : HasBlocks(Now(m))}}
    /\ \A m, n \in imap : m # n /\ HasBlocks(Now(m)) /\ HasBlocks(Now(n)) =>
         BlocksOf(Now(m)) \cap BlocksOf(Now(n)) = {}

\* No call sleeps for ever: every lock is given back and every loop ends.
CallsReturn ==
    \A t \in Tasks : k[t].pc # "user" ~> (k[t].pc \in {"user", "dead"} \/ halt # "no")

\* The check of free_block(): no block is freed twice.
NoDoubleFree == halt # "free_block: bit already cleared"

=============================================================================
