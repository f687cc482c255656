---------------------------- MODULE NamesProofs ----------------------------
(***************************************************************************)
(* Proofs about Names: through every call and every error path, i_count is *)
(* the number of references to an inode and f_count that of descriptors of *)
(* a file (CountIsReferences), and a slot that nobody uses has no changes  *)
(* to write and no lock (UnusedIsClean).                                   *)
(*                                                                         *)
(* The inductive invariant says which inodes a task has in hand at which   *)
(* place of which call (TasksInv), that an inode without a number is the   *)
(* empty slot of one task in iget() (EmptyHeld, Numbered), and what files  *)
(* and descriptors have to do with each other while files are opened and   *)
(* closed (FilesInv).                                                      *)
(***************************************************************************)
EXTENDS Names, FiniteSetTheorems, WellFoundedInduction, TLAPS

-----------------------------------------------------------------------------
\* The fields of what a task is doing.
Fields == {"pc", "op", "flag", "path", "more", "dir", "ino", "old", "empty", "nr", "ent",
           "fd", "n", "lim", "obj", "blk", "cells", "at", "got", "ret", "mret", "io", "puts"}

\* Where a call goes on when _bmap() or iget() is over.
Mapping == {"bmap", "newblk"}
Searching == {"iget", "search", "read"}
Place0(x) == IF x.pc \in Mapping THEN x.mret
             ELSE IF x.pc \in Searching THEN x.ret
             ELSE x.pc

WalkPlaces == {"walk", "scan", "found", "missed", "walked"}
OpenPlaces == {"opened", "truncate", "install"}
AddPlaces == {"addentry", "add"}
NoCall == {"user", "dead", "sync", "synced"}

\* link() is at its second path.
Second(x) == x.op = "link" /\ x.more = <<>>

\* Which calls come to which places.
Suits(x) ==
    /\ x.pc \in Mapping => x.mret \in {"scan", "add", "dots", "empty", "wrote"}
    /\ x.pc = "newblk" => x.mret \in {"add", "dots", "wrote"}
    /\ x.pc \in Searching => x.ret \in {"walked", "named", "opened", "victim"}
    /\ Place0(x) \in NoCall \cup WalkPlaces \cup OpenPlaces \cup AddPlaces
         \cup {"exit", "wrote", "named", "victim", "empty", "dots", "failed", "linked", "done"}
    /\ Place0(x) \in NoCall => x.op = "none"
    /\ Place0(x) = "exit" => x.op = "exit"
    /\ Place0(x) = "wrote" => x.op = "write"
    /\ Place0(x) \in WalkPlaces =>
         x.op \in {"open", "mknod", "mkdir", "link", "unlink", "rmdir", "touch", "chdir",
                   "chroot", "exec"}
    /\ Place0(x) = "named" =>
         x.op \in {"link", "touch", "chdir", "chroot", "exec"} /\ ~ Second(x)
    /\ Place0(x) \in OpenPlaces => x.op = "open"
    /\ Place0(x) = "victim" => x.op \in {"rmdir", "unlink"}
    /\ Place0(x) = "empty" => x.op = "rmdir"
    /\ Place0(x) = "dots" => x.op = "mkdir"
    /\ Place0(x) = "failed" => x.op \in {"mknod", "mkdir"}
    /\ Place0(x) \in AddPlaces => x.op \in {"open", "mknod", "mkdir"} \/ Second(x)
    /\ Place0(x) = "linked" => Second(x)

\* Where a task has an inode in dir, in ino and in old.
HasDir(x) ==
    Place0(x) \in {"walk", "scan", "found", "missed", "dots", "addentry", "add", "victim", "empty"}
HasIno(x) ==
    \/ x.pc = "read"
    \/ /\ x.pc \notin Searching
       /\ Place0(x) \in OpenPlaces \cup {"walked", "named", "victim", "empty", "dots",
                                         "failed"}
    \/ Place0(x) \in AddPlaces /\ x.op # "link"
HasOld(x) == Second(x) /\ x.pc # "done"

\* A task that has given back its files and directories.
Gone(x) == x.pc = "dead" \/ (x.op = "exit" /\ x.pc = "done")

If(b, S) == IF b THEN S ELSE {0}

\* What a task is doing, ...
DoingInv(x) ==
    /\ DOMAIN x = Fields
    /\ Suits(x)
    /\ x.dir \in If(HasDir(x), Slots) /\ x.ino \in If(HasIno(x), Slots)
    /\ x.old \in If(HasOld(x), Slots) /\ x.empty \in If(x.pc = "search", Slots)
    /\ x.puts \in Seq(Slots) /\ Len(x.puts) <= 3
    /\ x.pc \in {"user", "dead"} => x.puts = <<>>
    /\ x.io \in {"none", "write", "trunc", "free"} /\ (x.io # "none" => x.puts # <<>>)
    /\ x.n \in Nat
    /\ Place0(x) = "scan" => Head(x.path) # NoName
    /\ x.pc \in Searching \cup {"found"} => x.nr \in Inums
    /\ x.pc \in Mapping => /\ x.mret = "add" => x.obj = x.dir
                           /\ x.mret = "dots" => x.obj = x.ino

\* ... and what it has for good.
HavingInv(x, p) ==
    /\ DOMAIN p = {"filp", "pwd", "root", "executable"}
    /\ p.filp \in [Fds -> {0} \cup Files]
    /\ p.pwd \in If(~ Gone(x), Slots) /\ p.root \in If(~ Gone(x), Slots)
    /\ p.executable \in If(~ Gone(x), {0} \cup Slots)
    /\ Gone(x) => \A fd \in Fds : p.filp[fd] = 0

TasksInv ==
    /\ DOMAIN k = Tasks /\ DOMAIN proc = Tasks
    /\ \A t \in Tasks : DoingInv(k[t]) /\ HavingInv(k[t], proc[t])

\* A slot of the table.
RecInv(r) ==
    /\ DOMAIN r = {"num", "count", "dirt", "lock", "nlinks", "kind", "size", "zone"}
    /\ r.num \in 0 .. NInodes /\ r.count \in Nat /\ r.dirt \in BOOLEAN /\ r.lock \in BOOLEAN
    /\ r.count = 0 \/ r.num = 0 => ~ r.dirt /\ ~ r.lock

TableInv == DOMAIN table = Slots /\ \A s \in Slots : RecInv(table[s])

\* The empty slot of a task in iget() is its own; and only such a slot is in
\* use and has no number.
EmptyHeld ==
    \A t \in Tasks : k[t].empty # 0 =>
        table[k[t].empty].num = 0 /\ table[k[t].empty].count = 1
Numbered ==
    \A s \in Slots : table[s].num = 0 /\ table[s].count # 0 => \E t \in Tasks : k[t].empty = s

\* Files and descriptors: open() has one that has no inode yet, and write()
\* has the file open.
Reserved(x, fd) == x.op = "open" /\ x.fd = fd
FilesInv ==
    /\ DOMAIN file_table = Files
    /\ \A f \in Files :
         /\ DOMAIN file_table[f] = {"count", "inode", "write"}
         /\ file_table[f].count \in Nat /\ file_table[f].inode \in {0} \cup Slots
         /\ file_table[f].count = 0 => file_table[f].inode = 0
OpensInv(x, p, files) ==
    /\ x.op = "open" => /\ x.fd \in Fds /\ p.filp[x.fd] # 0
                        /\ files[p.filp[x.fd]].inode = 0 /\ files[p.filp[x.fd]].count = 1
    /\ \A fd \in Fds : p.filp[fd] # 0 /\ ~ Reserved(x, fd) => files[p.filp[fd]].inode # 0
    /\ Place0(x) = "wrote" => \E fd \in Fds : p.filp[fd] # 0 /\ files[p.filp[fd]].inode = x.obj
OpenInv == \A t \in Tasks : OpensInv(k[t], proc[t], file_table)

\* The disk: an entry with a name has the number of an inode, or none.
NameOf(e) == e[1]
NumberOf(e) == e[2]
DataInv ==
    /\ DOMAIN disk = Inums
    /\ \A n \in Inums : DOMAIN disk[n] = {"nlinks", "kind", "size", "zone"}
    /\ DOMAIN blks = Blocks
    /\ \A b \in Blocks :
         /\ DOMAIN blks[b] = 1 .. Width
         /\ \A i \in 1 .. Width :
              NameOf(blks[b][i]) # NoName => NumberOf(blks[b][i]) \in 0 .. NInodes
    /\ last_inode \in Slots

UseInv ==
    /\ DOMAIN use = Tasks
    /\ \A t \in Tasks : DOMAIN use[t] = {"calls", "left"} /\ \A c \in use[t].calls : Known(c)

IInv ==
    /\ TasksInv /\ TableInv /\ EmptyHeld /\ Numbered /\ FilesInv /\ OpenInv /\ DataInv /\ UseInv
    /\ CountIsReferences

-----------------------------------------------------------------------------
\* What a task has of slot s: the positions of its Hands.
One(x, s) == IF x = s THEN 1 ELSE 0
Waiting(q, s) == (IF Len(q) >= 1 THEN One(q[1], s) ELSE 0)
                 + (IF Len(q) >= 2 THEN One(q[2], s) ELSE 0)
                 + (IF Len(q) >= 3 THEN One(q[3], s) ELSE 0)
Mine(x, p, s) == One(x.dir, s) + One(x.ino, s) + One(x.old, s) + One(x.empty, s)
                 + One(p.pwd, s) + One(p.root, s) + One(p.executable, s) + Waiting(x.puts, s)
Held(x, p) == <<x.dir, x.ino, x.old, x.empty, p.pwd, p.root, p.executable>> \o x.puts

\* A set of natural numbers has a least element.
LEMMA LeastElement ==
    ASSUME NEW S, S \subseteq Nat, S # {}
    PROVE  Min(S) \in S
<1> DEFINE Less == OpToRel(<, Nat)
<1>1. \A i, j \in Nat : i < j => <<i, j>> \in Less
  BY DEF OpToRel
<1>2. IsWellFoundedOn(Less, Nat)
  BY NatLessThanWellFounded
<1> HIDE DEF Less
<1>3. PICK i \in S : \A j \in S : ~ (<<j, i>> \in Less)
  BY <1>2, WFMin
<1>4. ASSUME NEW j \in S PROVE i <= j
  <2>1. i \in Nat /\ j \in Nat /\ ~ (j < i)
    BY <1>1, <1>3
  <2> QED
    BY <2>1
<1> QED
  BY <1>3, <1>4 DEF Min

\* Counting the members of a set one number after the other.
LEMMA UpTo ==
    ASSUME NEW Q, NEW n \in Nat
    PROVE  /\ IsFiniteSet(Q \cap (1 .. n)) /\ Cardinality(Q \cap (1 .. n)) \in Nat
           /\ Cardinality(Q \cap (1 .. (n + 1)))
                = Cardinality(Q \cap (1 .. n)) + (IF n + 1 \in Q THEN 1 ELSE 0)
<1>1. IsFiniteSet(1 .. n)
  BY FS_Interval
<1>2. IsFiniteSet(Q \cap (1 .. n))
  BY <1>1, FS_Subset
<1>3. n + 1 \notin Q \cap (1 .. n)
  OBVIOUS
<1>4. Cardinality((Q \cap (1 .. n)) \cup {n + 1}) = Cardinality(Q \cap (1 .. n)) + 1
  BY <1>2, <1>3, FS_AddElement
<1>5. Q \cap (1 .. (n + 1)) = IF n + 1 \in Q THEN (Q \cap (1 .. n)) \cup {n + 1}
                              ELSE Q \cap (1 .. n)
  OBVIOUS
<1>6. Cardinality(Q \cap (1 .. n)) \in Nat
  BY <1>2, FS_CardinalityType
<1> QED
  BY <1>2, <1>4, <1>5, <1>6

\* The numbers up to 10, ...
LEMMA TenFinite == IsFiniteSet(1 .. 10)
<1>1. \A n \in Nat : IsFiniteSet(1 .. n)
  BY FS_Interval
<1> QED
  BY <1>1

\* ... and how many of them are in a set.
LEMMA UpToTen ==
    ASSUME NEW Q
    PROVE  Cardinality(Q \cap (1 .. 10))
             = (IF 1 \in Q THEN 1 ELSE 0) + (IF 2 \in Q THEN 1 ELSE 0)
               + (IF 3 \in Q THEN 1 ELSE 0) + (IF 4 \in Q THEN 1 ELSE 0)
               + (IF 5 \in Q THEN 1 ELSE 0) + (IF 6 \in Q THEN 1 ELSE 0)
               + (IF 7 \in Q THEN 1 ELSE 0) + (IF 8 \in Q THEN 1 ELSE 0)
               + (IF 9 \in Q THEN 1 ELSE 0) + (IF 10 \in Q THEN 1 ELSE 0)
<1> DEFINE C(n) == Cardinality(Q \cap (1 .. n))
<1>1. C(0) = 0
  <2>1. Q \cap (1 .. 0) = {}
    OBVIOUS
  <2> QED
    BY <2>1, FS_EmptySet
<1>2. \A n \in Nat : C(n) \in Nat /\ C(n + 1) = C(n) + (IF n + 1 \in Q THEN 1 ELSE 0)
  BY UpTo
<1> HIDE DEF C
<1>3. C(5) = (IF 1 \in Q THEN 1 ELSE 0) + (IF 2 \in Q THEN 1 ELSE 0)
             + (IF 3 \in Q THEN 1 ELSE 0) + (IF 4 \in Q THEN 1 ELSE 0)
             + (IF 5 \in Q THEN 1 ELSE 0)
  <2>1. C(0 + 1) = (IF 1 \in Q THEN 1 ELSE 0)
    BY <1>1, <1>2
  <2>2. C(1 + 1) = C(1) + (IF 2 \in Q THEN 1 ELSE 0)
    BY <1>2
  <2>3. C(2 + 1) = C(2) + (IF 3 \in Q THEN 1 ELSE 0)
    BY <1>2
  <2>4. C(3 + 1) = C(3) + (IF 4 \in Q THEN 1 ELSE 0)
    BY <1>2
  <2>5. C(4 + 1) = C(4) + (IF 5 \in Q THEN 1 ELSE 0)
    BY <1>2
  <2> QED
    BY <2>1, <2>2, <2>3, <2>4, <2>5
<1>4. C(10) = C(5) + (IF 6 \in Q THEN 1 ELSE 0) + (IF 7 \in Q THEN 1 ELSE 0)
              + (IF 8 \in Q THEN 1 ELSE 0) + (IF 9 \in Q THEN 1 ELSE 0)
              + (IF 10 \in Q THEN 1 ELSE 0)
  <2>1. C(5 + 1) = C(5) + (IF 6 \in Q THEN 1 ELSE 0) /\ C(5) \in Nat
    BY <1>2
  <2>2. C(6 + 1) = C(6) + (IF 7 \in Q THEN 1 ELSE 0)
    BY <1>2
  <2>3. C(7 + 1) = C(7) + (IF 8 \in Q THEN 1 ELSE 0)
    BY <1>2
  <2>4. C(8 + 1) = C(8) + (IF 9 \in Q THEN 1 ELSE 0)
    BY <1>2
  <2>5. C(9 + 1) = C(9) + (IF 10 \in Q THEN 1 ELSE 0)
    BY <1>2
  <2> QED
    BY <2>1, <2>2, <2>3, <2>4, <2>5
<1> QED
  BY <1>3, <1>4 DEF C

\* The hands of a task that are on a slot.
LEMMA HeldIsMine ==
    ASSUME NEW x, NEW p, x.puts \in Seq(Slots), Len(x.puts) <= 3, NEW s
    PROVE  Cardinality({i \in 1 .. 10 : i \in DOMAIN Held(x, p) /\ Held(x, p)[i] = s})
             = Mine(x, p, s)
<1> DEFINE h == Held(x, p)
           Q == {i \in 1 .. 10 : i \in DOMAIN h /\ h[i] = s}
           q == x.puts
<1>1. DOMAIN h = 1 .. 7 + Len(q) /\ Len(q) \in Nat
  BY DEF Held
<1>2. /\ h[1] = x.dir /\ h[2] = x.ino /\ h[3] = x.old /\ h[4] = x.empty
      /\ h[5] = p.pwd /\ h[6] = p.root /\ h[7] = p.executable
  BY DEF Held
<1>3. /\ Len(q) >= 1 => h[8] = q[1]
      /\ Len(q) >= 2 => h[9] = q[2]
      /\ Len(q) >= 3 => h[10] = q[3]
  BY DEF Held
<1> HIDE DEF h, q
<1>4. /\ 1 \in Q <=> x.dir = s
      /\ 2 \in Q <=> x.ino = s
      /\ 3 \in Q <=> x.old = s
      /\ 4 \in Q <=> x.empty = s
      /\ 5 \in Q <=> p.pwd = s
      /\ 6 \in Q <=> p.root = s
      /\ 7 \in Q <=> p.executable = s
      /\ 8 \in Q <=> Len(q) >= 1 /\ q[1] = s
      /\ 9 \in Q <=> Len(q) >= 2 /\ q[2] = s
      /\ 10 \in Q <=> Len(q) >= 3 /\ q[3] = s
  BY <1>1, <1>2, <1>3
<1>5. Q \cap (1 .. 10) = Q
  OBVIOUS
<1> HIDE DEF Q
<1>6. Cardinality(Q) = Mine(x, p, s)
  BY <1>4, <1>5, UpToTen DEF Mine, Waiting, One, q
<1> QED
  BY <1>6 DEF Q, h

\* The hands of all tasks that are on slot s, and those of all tasks but t.
HandsOn(kk, pp, s) ==
    {h \in Tasks \X (1 .. 10) : /\ h[2] \in DOMAIN Held(kk[h[1]], pp[h[1]])
                               /\ Held(kk[h[1]], pp[h[1]])[h[2]] = s}
OthersOn(kk, pp, t, s) == Cardinality({h \in HandsOn(kk, pp, s) : h[1] # t})
FilesOn(files, s) == Cardinality({f \in Files : files[f].inode = s})

\* Every task's hands are in sequences that References counts in full.
ShortPuts(kk) == \A t \in Tasks : kk[t].puts \in Seq(Slots) /\ Len(kk[t].puts) <= 3

\* The sets that are counted are finite.
LEMMA HandsFinite ==
    ASSUME NEW kk, NEW pp, NEW s
    PROVE  IsFiniteSet(HandsOn(kk, pp, s)) /\ Cardinality(HandsOn(kk, pp, s)) \in Nat
<1>1. IsFiniteSet(Tasks) /\ IsFiniteSet(1 .. 10)
  BY TableAssumption, TenFinite
<1>2. IsFiniteSet(Tasks \X (1 .. 10))
  BY <1>1, FS_Product
<1>3. HandsOn(kk, pp, s) \subseteq Tasks \X (1 .. 10)
  BY DEF HandsOn
<1> QED
  BY <1>2, <1>3, FS_Subset, FS_CardinalityType

\* The hands on a slot are those of one task and those of the others.
LEMMA OwnPart ==
    ASSUME NEW kk, NEW pp, ShortPuts(kk), NEW t \in Tasks, NEW s
    PROVE  /\ Cardinality(HandsOn(kk, pp, s)) = OthersOn(kk, pp, t, s) + Mine(kk[t], pp[t], s)
           /\ OthersOn(kk, pp, t, s) \in Nat /\ Mine(kk[t], pp[t], s) \in Nat
<1> DEFINE H == HandsOn(kk, pp, s)
           A == {h \in H : h[1] # t}
           I == {i \in 1 .. 10 : i \in DOMAIN Held(kk[t], pp[t]) /\ Held(kk[t], pp[t])[i] = s}
           B == {t} \X I
<1>1. IsFiniteSet(H)
  BY HandsFinite
<1>2. IsFiniteSet(A) /\ Cardinality(A) \in Nat
  BY <1>1, FS_Subset, FS_CardinalityType
<1>3. IsFiniteSet(I) /\ Cardinality(I) \in Nat
  <2>1. IsFiniteSet(1 .. 10)
    BY TenFinite
  <2> QED
    BY <2>1, FS_Subset, FS_CardinalityType
<1>4. IsFiniteSet(B) /\ Cardinality(B) = Cardinality(I)
  <2>1. IsFiniteSet({t}) /\ Cardinality({t}) = 1
    BY FS_Singleton
  <2>2. IsFiniteSet(B) /\ Cardinality(B) = Cardinality({t}) * Cardinality(I)
    BY <1>3, <2>1, FS_Product
  <2> QED
    BY <1>3, <2>1, <2>2
<1>5. H = A \cup B /\ A \cap B = {}
  BY DEF HandsOn
<1>6. Cardinality(I) = Mine(kk[t], pp[t], s)
  <2>1. kk[t].puts \in Seq(Slots) /\ Len(kk[t].puts) <= 3
    BY DEF ShortPuts
  <2> QED
    BY <2>1, HeldIsMine
<1>7. OthersOn(kk, pp, t, s) = Cardinality(A)
  BY DEF OthersOn
<1> HIDE DEF H, A, I, B
<1>8. Cardinality(A \cap B) = 0
  BY <1>5, FS_EmptySet
<1>9. Cardinality(H) = Cardinality(A) + Cardinality(B) - Cardinality(A \cap B)
  BY <1>2, <1>4, <1>5, FS_Union
<1>10. Cardinality(H) = Cardinality(A) + Cardinality(I)
  BY <1>2, <1>3, <1>4, <1>8, <1>9
<1> QED
  BY <1>2, <1>3, <1>6, <1>7, <1>10 DEF H

\* The hands of another task are among those of the others.
LEMMA OtherIsOthers ==
    ASSUME NEW kk, NEW pp, ShortPuts(kk), NEW t \in Tasks, NEW u \in Tasks, u # t, NEW s
    PROVE  OthersOn(kk, pp, t, s) >= Mine(kk[u], pp[u], s)
<1> DEFINE A == {h \in HandsOn(kk, pp, s) : h[1] # t}
           I == {i \in 1 .. 10 : i \in DOMAIN Held(kk[u], pp[u]) /\ Held(kk[u], pp[u])[i] = s}
           B == {u} \X I
<1>1. IsFiniteSet(A)
  BY HandsFinite, FS_Subset
<1>2. IsFiniteSet(I) /\ Cardinality(I) \in Nat
  <2>1. IsFiniteSet(1 .. 10)
    BY TenFinite
  <2> QED
    BY <2>1, FS_Subset, FS_CardinalityType
<1>3. Cardinality(B) = Cardinality(I)
  <2>1. IsFiniteSet({u}) /\ Cardinality({u}) = 1
    BY FS_Singleton
  <2>2. Cardinality(B) = Cardinality({u}) * Cardinality(I)
    BY <1>2, <2>1, FS_Product
  <2> QED
    BY <1>2, <2>1, <2>2
<1>4. B \subseteq A
  BY DEF HandsOn
<1>5. Cardinality(I) = Mine(kk[u], pp[u], s)
  <2>1. kk[u].puts \in Seq(Slots) /\ Len(kk[u].puts) <= 3
    BY DEF ShortPuts
  <2> QED
    BY <2>1, HeldIsMine
<1>6. OthersOn(kk, pp, t, s) = Cardinality(A)
  BY DEF OthersOn
<1> HIDE DEF A, I, B
<1>7. Cardinality(B) <= Cardinality(A)
  BY <1>1, <1>4, FS_Subset
<1> QED
  BY <1>3, <1>5, <1>6, <1>7

\* The counts of the inodes, in terms of these.
Counted(tab, files, kk, pp) ==
    \A s \in Slots : tab[s].count = (IF s = 1 THEN 2 ELSE 0) + FilesOn(files, s)
                                   + Cardinality(HandsOn(kk, pp, s))

\* The two ways to count are the same.
LEMMA ReferencesCounted ==
    (\A s \in Slots : table[s].count = References(s)) <=> Counted(table, file_table, k, proc)
<1> SUFFICES ASSUME NEW s \in Slots
             PROVE  References(s) = (IF s = 1 THEN 2 ELSE 0) + FilesOn(file_table, s)
                                    + Cardinality(HandsOn(k, proc, s))
  BY DEF Counted
<1>1. {h \in Tasks \X (1 .. 10) : h[2] \in DOMAIN Hands(h[1]) /\ Hands(h[1])[h[2]] = s}
        = HandsOn(k, proc, s)
  BY DEF HandsOn, Hands, Held
<1> QED
  BY <1>1 DEF References, FilesOn

\* How many files have an inode is a number, and what changes when one does.
LEMMA FilesFinite ==
    ASSUME NEW files, NEW s
    PROVE  FilesOn(files, s) \in Nat
<1>1. IsFiniteSet(Files)
  BY FilesAssumption, FS_Interval DEF Files
<1> QED
  BY <1>1, FS_Subset, FS_CardinalityType DEF FilesOn

ButFor(f, files, filez) == \A e \in Files \ {f} : filez[e].inode = files[e].inode

LEMMA FileChanges ==
    ASSUME NEW files, NEW filez, NEW f \in Files, ButFor(f, files, filez), NEW s
    PROVE  FilesOn(filez, s) + One(files[f].inode, s) = FilesOn(files, s) + One(filez[f].inode, s)
<1> DEFINE A == {e \in Files \ {f} : files[e].inode = s}
<1>1. IsFiniteSet(Files)
  BY FilesAssumption, FS_Interval DEF Files
<1>2. IsFiniteSet(A) /\ Cardinality(A) \in Nat /\ f \notin A
  <2>1. A \subseteq Files
    OBVIOUS
  <2> QED
    BY <1>1, <2>1, FS_Subset, FS_CardinalityType
<1>3. Cardinality(A \cup {f}) = Cardinality(A) + 1
  BY <1>2, FS_AddElement
<1>4. FilesOn(files, s) = Cardinality(A) + One(files[f].inode, s)
  <2> DEFINE B == {e \in Files : files[e].inode = s}
  <2>1. B = IF files[f].inode = s THEN A \cup {f} ELSE A
    OBVIOUS
  <2>2. FilesOn(files, s) = Cardinality(B)
    BY DEF FilesOn
  <2> HIDE DEF A, B
  <2> QED
    BY <1>2, <1>3, <2>1, <2>2 DEF One
<1>5. FilesOn(filez, s) = Cardinality(A) + One(filez[f].inode, s)
  <2> DEFINE B == {e \in Files : filez[e].inode = s}
  <2>1. B = IF filez[f].inode = s THEN A \cup {f} ELSE A
    BY DEF ButFor
  <2>2. FilesOn(filez, s) = Cardinality(B)
    BY DEF FilesOn
  <2> HIDE DEF A, B
  <2> QED
    BY <1>2, <1>3, <2>1, <2>2 DEF One
<1> HIDE DEF A
<1> QED
  BY <1>2, <1>4, <1>5 DEF One

-----------------------------------------------------------------------------
\* The invariant says that puts are short.
LEMMA PutsAreShort == ASSUME TasksInv PROVE ShortPuts(k)
BY DEF TasksInv, DoingInv, ShortPuts

\* The hands that puts are, are a number of hands.
LEMMA WaitingNat == ASSUME NEW q \in Seq(Slots), NEW s PROVE Waiting(q, s) \in Nat
BY DEF Waiting, One

\* Every reference has been counted.
LEMMA Enough ==
    ASSUME IInv, NEW t \in Tasks, NEW s \in Slots
    PROVE  /\ table[s].count \in Nat /\ Mine(k[t], proc[t], s) \in Nat
           /\ FilesOn(file_table, s) \in Nat
           /\ table[s].count >= Mine(k[t], proc[t], s) + FilesOn(file_table, s)
           /\ \A u \in Tasks \ {t} :
                table[s].count >= Mine(k[t], proc[t], s) + Mine(k[u], proc[u], s)
<1>1. ShortPuts(k)
  BY PutsAreShort DEF IInv
<1>2. table[s].count = (IF s = 1 THEN 2 ELSE 0) + FilesOn(file_table, s)
                       + Cardinality(HandsOn(k, proc, s))
  BY ReferencesCounted DEF IInv, CountIsReferences, Counted
<1>3. /\ Cardinality(HandsOn(k, proc, s)) = OthersOn(k, proc, t, s) + Mine(k[t], proc[t], s)
      /\ OthersOn(k, proc, t, s) \in Nat /\ Mine(k[t], proc[t], s) \in Nat
  BY <1>1, OwnPart
<1>4. \A u \in Tasks \ {t} : /\ OthersOn(k, proc, t, s) >= Mine(k[u], proc[u], s)
                            /\ Mine(k[u], proc[u], s) \in Nat
  BY <1>1, OtherIsOthers, OwnPart
<1>5. FilesOn(file_table, s) \in Nat
  BY FilesFinite
<1> QED
  BY <1>2, <1>3, <1>4, <1>5

\* An inode that a task has, and not just as the empty slot of iget(), ...
Has(x, p, s) ==
    \/ s \in {x.dir, x.ino, x.old, p.pwd, p.root, p.executable}
    \/ x.puts # <<>> /\ s = Head(x.puts)

\* ... is a hand of it, beside the empty slot.
LEMMA HasIsMine ==
    ASSUME NEW x, NEW p, x.puts \in Seq(Slots), NEW s, Has(x, p, s)
    PROVE  Mine(x, p, s) >= 1 + One(x.empty, s) /\ Mine(x, p, s) \in Nat
<1>1. Waiting(x.puts, s) \in Nat /\ (x.puts # <<>> /\ s = Head(x.puts) => Waiting(x.puts, s) >= 1)
  <2>1. Len(x.puts) \in Nat /\ (x.puts # <<>> => Len(x.puts) >= 1 /\ Head(x.puts) = x.puts[1])
    OBVIOUS
  <2> QED
    BY <2>1 DEF Waiting, One
<1> QED
  BY <1>1 DEF Mine, One, Has

\* Such an inode has a number, is in use and is nobody's empty slot.
LEMMA HadIsNumbered ==
    ASSUME IInv, NEW t \in Tasks, NEW s \in Slots, Has(k[t], proc[t], s)
    PROVE  /\ table[s].num \in Inums /\ table[s].count >= 1
           /\ Mine(k[t], proc[t], s) >= 1
           /\ \A u \in Tasks : k[u].empty # s
<1>1. Mine(k[t], proc[t], s) >= 1 + One(k[t].empty, s) /\ Mine(k[t], proc[t], s) \in Nat
  BY HasIsMine DEF IInv, TasksInv, DoingInv
<1>2. ASSUME NEW u \in Tasks, k[u].empty = s PROVE FALSE
  <2>1. table[s].count = 1
    BY <1>2 DEF IInv, EmptyHeld, Slots
  <2>2. CASE u = t
    BY <1>1, <1>2, <2>1, <2>2, Enough DEF One
  <2>3. CASE u # t
    <3>1. Mine(k[u], proc[u], s) >= 1
      <4>1. Waiting(k[u].puts, s) \in Nat
        BY PutsAreShort, WaitingNat DEF IInv, ShortPuts
      <4> QED
        BY <1>2, <4>1 DEF Mine, One
    <3>2. table[s].count >= Mine(k[t], proc[t], s) + Mine(k[u], proc[u], s)
      BY <2>3, Enough
    <3>3. Mine(k[u], proc[u], s) \in Nat
      BY Enough
    <3> QED
      BY <1>1, <2>1, <3>1, <3>2, <3>3 DEF One
  <2> QED
    BY <2>2, <2>3
<1>3. table[s].count >= 1
  <2>1. FilesOn(file_table, s) \in Nat /\ table[s].count \in Nat
        /\ table[s].count >= Mine(k[t], proc[t], s) + FilesOn(file_table, s)
    BY Enough
  <2> QED
    BY <1>1, <2>1 DEF One
<1>4. table[s].num # 0
  BY <1>2, <1>3 DEF IInv, Numbered
<1>5. table[s].num \in 0 .. NInodes
  BY DEF IInv, TableInv, RecInv
<1>6. Mine(k[t], proc[t], s) >= 1
  BY <1>1 DEF One
<1> QED
  BY <1>2, <1>3, <1>4, <1>5, <1>6, TableAssumption DEF Inums

\* The same of the inode of an open file.
LEMMA OpenIsNumbered ==
    ASSUME IInv, NEW f \in Files, NEW s \in Slots, file_table[f].inode = s
    PROVE  /\ table[s].num \in Inums /\ table[s].count >= 1
           /\ \A u \in Tasks : k[u].empty # s
<1>1. FilesOn(file_table, s) >= 1 /\ FilesOn(file_table, s) \in Nat
  <2> DEFINE B == {e \in Files : file_table[e].inode = s}
  <2>1. IsFiniteSet(Files)
    BY FilesAssumption, FS_Interval DEF Files
  <2>2. IsFiniteSet(B) /\ Cardinality(B) \in Nat
    BY <2>1, FS_Subset, FS_CardinalityType
  <2>3. B # {}
    OBVIOUS
  <2>4. FilesOn(file_table, s) = Cardinality(B)
    BY DEF FilesOn
  <2> HIDE DEF B
  <2>5. Cardinality(B) # 0
    BY <2>2, <2>3, FS_EmptySet
  <2> QED
    BY <2>2, <2>4, <2>5
<1>2. ASSUME NEW u \in Tasks, k[u].empty = s PROVE FALSE
  <2>1. table[s].count = 1
    BY <1>2 DEF IInv, EmptyHeld, Slots
  <2>2. Waiting(k[u].puts, s) \in Nat
    BY PutsAreShort, WaitingNat DEF IInv, ShortPuts
  <2>3. Mine(k[u], proc[u], s) >= 1
    BY <1>2, <2>2 DEF Mine, One
  <2>4. /\ table[s].count >= Mine(k[u], proc[u], s) + FilesOn(file_table, s)
        /\ Mine(k[u], proc[u], s) \in Nat
    BY Enough
  <2> QED
    BY <1>1, <2>1, <2>3, <2>4
<1>3. table[s].count >= 1
  <2>1. table[s].count = (IF s = 1 THEN 2 ELSE 0) + FilesOn(file_table, s)
                         + Cardinality(HandsOn(k, proc, s))
    BY ReferencesCounted DEF IInv, CountIsReferences, Counted
  <2>2. Cardinality(HandsOn(k, proc, s)) \in Nat
    BY HandsFinite
  <2> QED
    BY <1>1, <2>1, <2>2
<1>4. table[s].num # 0
  BY <1>2, <1>3 DEF IInv, Numbered
<1>5. table[s].num \in 0 .. NInodes
  BY DEF IInv, TableInv, RecInv
<1> QED
  BY <1>2, <1>3, <1>4, <1>5, TableAssumption DEF Inums

-----------------------------------------------------------------------------
\* What the step of a task may do to a slot: r becomes q, where the task had m
\* hands on slot s, and its empty slot was e and is f.
SlotStep(r, q, m, s, e, f) ==
    /\ q.num # r.num \/ q.count # r.count => m >= 1 \/ r.count = 0 \/ r.num # 0
    /\ q.num = 0 /\ q.count # 0 => (r.num = 0 /\ r.count # 0 /\ s # e) \/ s = f
    /\ s = f => q.num = 0 /\ q.count = 1

\* The part of the invariant about descriptors.
DescriptorsCounted ==
    \A f \in Files : file_table[f].count =
        Cardinality({h \in Tasks \X Fds : proc[h[1]].filp[h[2]] = f})

\* The step of one task keeps the counts.
LEMMA CountsKept ==
    ASSUME NEW tab, NEW tac, NEW files, NEW filez, NEW kk, NEW kl, NEW pp, NEW pq,
           Counted(tab, files, kk, pp), ShortPuts(kk), ShortPuts(kl), NEW t \in Tasks,
           \A u \in Tasks \ {t} : kl[u] = kk[u] /\ pq[u] = pp[u],
           \A s \in Slots : tab[s].count \in Nat /\ tac[s].count \in Nat,
           \A s \in Slots :
             tac[s].count + Mine(kk[t], pp[t], s) + FilesOn(files, s)
               = tab[s].count + Mine(kl[t], pq[t], s) + FilesOn(filez, s)
    PROVE  Counted(tac, filez, kl, pq)
<1> SUFFICES ASSUME NEW s \in Slots
             PROVE  tac[s].count = (IF s = 1 THEN 2 ELSE 0) + FilesOn(filez, s)
                                   + Cardinality(HandsOn(kl, pq, s))
  BY DEF Counted
<1>1. tab[s].count = (IF s = 1 THEN 2 ELSE 0) + FilesOn(files, s) + Cardinality(HandsOn(kk, pp, s))
  BY DEF Counted
<1>2. FilesOn(files, s) \in Nat /\ FilesOn(filez, s) \in Nat
  BY FilesFinite
<1>3. /\ Cardinality(HandsOn(kk, pp, s)) = OthersOn(kk, pp, t, s) + Mine(kk[t], pp[t], s)
      /\ OthersOn(kk, pp, t, s) \in Nat /\ Mine(kk[t], pp[t], s) \in Nat
  BY OwnPart
<1>4. /\ Cardinality(HandsOn(kl, pq, s)) = OthersOn(kl, pq, t, s) + Mine(kl[t], pq[t], s)
      /\ OthersOn(kl, pq, t, s) \in Nat /\ Mine(kl[t], pq[t], s) \in Nat
  BY OwnPart
<1>5. OthersOn(kl, pq, t, s) = OthersOn(kk, pp, t, s)
  <2>1. {h \in HandsOn(kk, pp, s) : h[1] # t} = {h \in HandsOn(kl, pq, s) : h[1] # t}
    BY DEF HandsOn
  <2> QED
    BY <2>1 DEF OthersOn
<1>6. tac[s].count + Mine(kk[t], pp[t], s) + FilesOn(files, s)
        = tab[s].count + Mine(kl[t], pq[t], s) + FilesOn(filez, s)
  OBVIOUS
<1>7. tab[s].count \in Nat /\ tac[s].count \in Nat
  OBVIOUS
<1> QED
  BY <1>1, <1>2, <1>3, <1>4, <1>5, <1>6, <1>7

\* The step of one task keeps the invariant, if it keeps what is about the
\* task and what is about one slot or file.
LEMMA StepKeeps ==
    ASSUME IInv, NEW t \in Tasks,
           (DOMAIN k)' = Tasks, (DOMAIN proc)' = Tasks,
           \A u \in Tasks \ {t} : k'[u] = k[u] /\ proc'[u] = proc[u],
           DoingInv(k'[t]), HavingInv(k'[t], proc'[t]),
           TableInv', FilesInv', OpenInv', DataInv', UseInv', DescriptorsCounted',
           \A s \in Slots : SlotStep(table[s], table'[s], Mine(k[t], proc[t], s), s,
                                    k[t].empty, k'[t].empty),
           \A s \in Slots :
             table'[s].count + Mine(k[t], proc[t], s) + FilesOn(file_table, s)
               = table[s].count + Mine(k'[t], proc'[t], s) + FilesOn(file_table', s)
    PROVE  IInv'
<1>1. TasksInv'
  BY DEF IInv, TasksInv
<1>2. EmptyHeld'
  <2> SUFFICES ASSUME NEW u \in Tasks, k'[u].empty # 0
               PROVE  table'[k'[u].empty].num = 0 /\ table'[k'[u].empty].count = 1
    BY DEF EmptyHeld
  <2>1. k'[u].empty \in Slots
    BY <1>1 DEF TasksInv, DoingInv, If
  <2>2. CASE u = t
    BY <2>1, <2>2 DEF SlotStep
  <2>3. CASE u # t
    <3> DEFINE e == k[u].empty
    <3>1. k'[u].empty = e /\ e \in Slots /\ e # 0
      BY <2>1, <2>3
    <3>2. table[e].num = 0 /\ table[e].count = 1
      BY <3>1 DEF IInv, EmptyHeld
    <3>3. Mine(k[u], proc[u], e) >= 1 /\ Mine(k[u], proc[u], e) \in Nat
      <4>1. Waiting(k[u].puts, e) \in Nat
        BY PutsAreShort, WaitingNat DEF IInv, ShortPuts
      <4> QED
        BY <4>1 DEF Mine, One
    <3>4. /\ table[e].count >= Mine(k[t], proc[t], e) + Mine(k[u], proc[u], e)
          /\ Mine(k[t], proc[t], e) \in Nat
      BY <2>3, <3>1, Enough
    <3>5. ~ (Mine(k[t], proc[t], e) >= 1)
      BY <3>2, <3>3, <3>4
    <3>6. SlotStep(table[e], table'[e], Mine(k[t], proc[t], e), e, k[t].empty, k'[t].empty)
      BY <3>1
    <3> HIDE DEF e
    <3>7. table'[e].num = 0 /\ table'[e].count = 1
      BY <3>2, <3>5, <3>6 DEF SlotStep
    <3> QED
      BY <3>1, <3>7
  <2> QED
    BY <2>2, <2>3
<1>3. Numbered'
  <2> SUFFICES ASSUME NEW s \in Slots, table'[s].num = 0, table'[s].count # 0
               PROVE  \E u \in Tasks : k'[u].empty = s
    BY DEF Numbered
  <2>1. (table[s].num = 0 /\ table[s].count # 0 /\ s # k[t].empty) \/ s = k'[t].empty
    BY DEF SlotStep
  <2>2. CASE s = k'[t].empty
    BY <2>2
  <2>3. CASE table[s].num = 0 /\ table[s].count # 0 /\ s # k[t].empty
    <3>1. PICK u \in Tasks : k[u].empty = s
      BY <2>3 DEF IInv, Numbered
    <3>2. u # t
      BY <2>3, <3>1
    <3> QED
      BY <3>1, <3>2
  <2> QED
    BY <2>1, <2>2, <2>3
<1>4. Counted(table', file_table', k', proc')
  <2>1. Counted(table, file_table, k, proc) /\ ShortPuts(k) /\ ShortPuts(k)'
    BY <1>1, ReferencesCounted, PutsAreShort, PTL DEF IInv, CountIsReferences
  <2>2. \A s \in Slots : table[s].count \in Nat /\ table'[s].count \in Nat
    BY DEF IInv, TableInv, RecInv
  <2> QED
    BY <2>1, <2>2, CountsKept DEF ShortPuts
<1>5. CountIsReferences'
  <2>1. (\A s \in Slots : table[s].count = References(s))' <=> Counted(table, file_table, k, proc)'
    BY ReferencesCounted, PTL
  <2> QED
    BY <1>4, <2>1 DEF CountIsReferences, DescriptorsCounted, Counted
<1> QED
  BY <1>1, <1>2, <1>3, <1>5 DEF IInv

-----------------------------------------------------------------------------
\* Only t does something; and it is in the same call as before.
Only(t) == (DOMAIN k)' = Tasks /\ \A u \in Tasks \ {t} : k'[u] = k[u]
SameCall(x, y) ==
    /\ y.op = x.op /\ y.fd = x.fd /\ (Gone(y) <=> Gone(x))
    /\ Place0(y) = "wrote" => Place0(x) = "wrote" /\ y.obj = x.obj

\* A step that changes no file, no descriptor and no directory of a task.
LEMMA LocalStep ==
    ASSUME IInv, NEW t \in Tasks, UNCHANGED nvars, Only(t), DoingInv(k'[t]),
           SameCall(k[t], k'[t]), TableInv', DataInv',
           \A s \in Slots : SlotStep(table[s], table'[s], Mine(k[t], proc[t], s), s,
                                    k[t].empty, k'[t].empty),
           \A s \in Slots : table'[s].count + Mine(k[t], proc[t], s)
                              = table[s].count + Mine(k'[t], proc[t], s)
    PROVE  IInv'
<1>1. proc' = proc /\ file_table' = file_table /\ use' = use
  BY DEF nvars
<1>2. /\ (DOMAIN k)' = Tasks /\ (DOMAIN proc)' = Tasks
      /\ \A u \in Tasks \ {t} : k'[u] = k[u] /\ proc'[u] = proc[u]
  BY <1>1 DEF IInv, TasksInv, Only
<1>3. HavingInv(k'[t], proc'[t])
  <2>1. HavingInv(k[t], proc[t]) /\ (Gone(k'[t]) <=> Gone(k[t]))
    BY DEF IInv, TasksInv, SameCall
  <2> QED
    BY <1>1, <2>1 DEF HavingInv
<1>4. FilesInv' /\ UseInv' /\ DescriptorsCounted'
  BY <1>1 DEF IInv, FilesInv, UseInv, DescriptorsCounted, CountIsReferences
<1>5. OpenInv'
  <2> SUFFICES ASSUME NEW u \in Tasks PROVE OpensInv(k'[u], proc'[u], file_table')
    BY DEF OpenInv
  <2>1. OpensInv(k[u], proc[u], file_table)
    BY DEF IInv, OpenInv
  <2>2. CASE u # t
    BY <1>1, <1>2, <2>1, <2>2
  <2>3. CASE u = t
    BY <1>1, <2>1, <2>3 DEF OpensInv, SameCall, Reserved
  <2> QED
    BY <2>2, <2>3
<1>6. \A s \in Slots :
        table'[s].count + Mine(k[t], proc[t], s) + FilesOn(file_table, s)
          = table[s].count + Mine(k'[t], proc'[t], s) + FilesOn(file_table', s)
  BY <1>1
<1> QED
  BY <1>2, <1>3, <1>4, <1>5, <1>6, StepKeeps

\* What may happen to a slot whose number and count stay: it may be cleaned,
\* and marked dirty or locked if it is in use and has a number.
Marked(r, q) ==
    /\ DOMAIN q = DOMAIN r /\ q.num = r.num /\ q.count = r.count
    /\ q.dirt \in BOOLEAN /\ q.lock \in BOOLEAN
    /\ r.num = 0 \/ r.count = 0 => (q.dirt => r.dirt) /\ (q.lock => r.lock)

\* ... in a step that changes no number and no count of a slot.
Marks == DataInv' /\ (DOMAIN table)' = Slots /\ \A s \in Slots : Marked(table[s], table'[s])

\* What such a step leaves true of the slots.
LEMMA MarksSlots ==
    ASSUME IInv, NEW t \in Tasks, Marks, k'[t].empty = k[t].empty
    PROVE  /\ TableInv' /\ DataInv' /\ \A s \in Slots : table'[s].count = table[s].count
           /\ \A s \in Slots : SlotStep(table[s], table'[s], Mine(k[t], proc[t], s), s,
                                       k[t].empty, k'[t].empty)
<1>1. TableInv'
  <2> SUFFICES ASSUME NEW s \in Slots PROVE RecInv(table'[s])
    BY DEF TableInv, Marks
  <2>1. RecInv(table[s]) /\ Marked(table[s], table'[s])
    BY DEF IInv, TableInv, Marks
  <2> QED
    BY <2>1 DEF RecInv, Marked
<1>2. ASSUME NEW s \in Slots
      PROVE  SlotStep(table[s], table'[s], Mine(k[t], proc[t], s), s, k[t].empty, k'[t].empty)
  <2>1. Marked(table[s], table'[s])
    BY DEF Marks
  <2>2. s = k[t].empty => table[s].num = 0 /\ table[s].count = 1
    BY DEF IInv, EmptyHeld, Slots
  <2> QED
    BY <2>1, <2>2 DEF SlotStep, Marked
<1>3. DataInv' /\ \A s \in Slots : table'[s].count = table[s].count
  BY DEF Marks, Marked
<1> QED
  BY <1>1, <1>2, <1>3

\* A step of this kind that changes nothing about files keeps the invariant.
LEMMA MarkStep ==
    ASSUME IInv, NEW t \in Tasks, UNCHANGED nvars, Only(t), DoingInv(k'[t]),
           SameCall(k[t], k'[t]), Marks, k'[t].empty = k[t].empty,
           \A s \in Slots : Mine(k'[t], proc[t], s) = Mine(k[t], proc[t], s)
    PROVE  IInv'
<1>1. /\ TableInv' /\ DataInv' /\ \A s \in Slots : table'[s].count = table[s].count
      /\ \A s \in Slots : SlotStep(table[s], table'[s], Mine(k[t], proc[t], s), s,
                                  k[t].empty, k'[t].empty)
  BY MarksSlots
<1>2. ASSUME NEW s \in Slots
      PROVE  table'[s].count + Mine(k[t], proc[t], s) = table[s].count + Mine(k'[t], proc[t], s)
  BY <1>1
<1> QED
  BY <1>1, <1>2, LocalStep

\* A step that changes no inode and no block is one of these.
LEMMA Unmarked ==
    ASSUME IInv, UNCHANGED <<table, disk, blks, last_inode>>
    PROVE  Marks
BY DEF Marks, IInv, DataInv, TableInv, RecInv, Marked

-----------------------------------------------------------------------------
\* The fields of a task after a step.
LEMMA GoIs ==
    ASSUME TasksInv, NEW t \in Tasks, NEW r, k' = [k EXCEPT ![t] = Changed(@, r)]
    PROVE  /\ Only(t) /\ DOMAIN k'[t] = Fields
           /\ \A f \in Fields : k'[t][f] = IF f \in DOMAIN r THEN r[f] ELSE k[t][f]
<1>1. DOMAIN k = Tasks /\ DOMAIN k[t] = Fields
  BY DEF TasksInv, DoingInv
<1> QED
  BY <1>1 DEF Only, Changed

\* The hands of a task that does not have s otherwise are in its puts.
Lasting(p, s) == One(p.pwd, s) + One(p.root, s) + One(p.executable, s)

\* What a task does when its call ends.
LEMMA FinishIs ==
    ASSUME TasksInv, NEW t \in Tasks, NEW q, q \in Seq(Slots), Len(q) <= 3, Finish(t, q),
           k[t].io = "none", k[t].pc # "search", k[t].op # "exit", k[t].pc # "dead"
    PROVE  /\ Only(t) /\ DoingInv(k'[t]) /\ SameCall(k[t], k'[t])
           /\ k'[t].empty = k[t].empty
           /\ \A s \in Slots : Mine(k'[t], proc[t], s) = Lasting(proc[t], s) + Waiting(q, s)
<1> DEFINE y == k'[t]
<1>1. DoingInv(k[t])
  BY DEF TasksInv
<1>2. /\ Only(t) /\ DOMAIN y = Fields
      /\ y.pc = "done" /\ y.dir = 0 /\ y.ino = 0 /\ y.old = 0 /\ y.puts = q
      /\ y.op = k[t].op /\ y.more = k[t].more /\ y.empty = k[t].empty /\ y.io = k[t].io
      /\ y.n = k[t].n /\ y.fd = k[t].fd
  <2>1. DOMAIN k = Tasks /\ DOMAIN k[t] = Fields
    BY <1>1 DEF TasksInv, DoingInv
  <2> QED
    BY <2>1 DEF Finish, Go, Changed, Only, Fields
<1>3. k[t].empty = 0
  BY <1>1 DEF DoingInv, If
<1> HIDE DEF y
<1>4. DoingInv(y)
  <2>1. Place0(y) = "done" /\ Suits(y) /\ ~ HasDir(y) /\ ~ HasIno(y) /\ ~ HasOld(y)
    BY <1>2 DEF Place0, Mapping, Searching, Suits, NoCall, WalkPlaces, OpenPlaces, AddPlaces,
                HasDir, HasIno, HasOld
  <2> QED
    BY <1>1, <1>2, <1>3, <2>1 DEF DoingInv, If, Mapping, Searching
<1>5. SameCall(k[t], y)
  BY <1>2 DEF SameCall, Gone, Place0, Mapping, Searching
<1>6. \A s \in Slots : Mine(y, proc[t], s) = Lasting(proc[t], s) + Waiting(q, s)
  <2> TAKE s \in Slots
  <2>1. One(0, s) = 0
    BY DEF One, Slots
  <2>2. Waiting(q, s) \in Nat
    BY WaitingNat
  <2> QED
    BY <1>2, <1>3, <2>1, <2>2 DEF Mine, Lasting, One
<1> QED
  BY <1>2, <1>4, <1>5, <1>6 DEF y

\* The sequences of inodes that calls put, and the hands they are.
LEMMA PutsIs ==
    ASSUME NEW a \in Slots, NEW s \in Slots
    PROVE  /\ <<>> \in Seq(Slots) /\ Len(<<>>) <= 3 /\ Waiting(<<>>, s) = 0
           /\ <<a>> \in Seq(Slots) /\ Len(<<a>>) <= 3 /\ Waiting(<<a>>, s) = One(a, s)
           /\ \A b \in Slots : /\ <<a, b>> \in Seq(Slots) /\ Len(<<a, b>>) <= 3
                               /\ Waiting(<<a, b>>, s) = One(a, s) + One(b, s)
<1>1. /\ <<>> \in Seq(Slots) /\ Len(<<>>) <= 3 /\ Waiting(<<>>, s) = 0
      /\ <<a>> \in Seq(Slots) /\ Len(<<a>>) <= 3 /\ Waiting(<<a>>, s) = One(a, s)
  BY DEF Waiting, One
<1>2. ASSUME NEW b \in Slots
      PROVE  /\ <<a, b>> \in Seq(Slots) /\ Len(<<a, b>>) <= 3
             /\ Waiting(<<a, b>>, s) = One(a, s) + One(b, s)
  BY DEF Waiting, One
<1> QED
  BY <1>1, <1>2

\* The same of one that is there and one that may be.
LEMMA PutsAny ==
    ASSUME NEW a \in Slots, NEW b \in {0} \cup Slots, NEW s \in Slots,
           NEW q \in {<<a>> \o IfAny(b), IfAny(b) \o <<a>>}
    PROVE  q \in Seq(Slots) /\ Len(q) <= 3 /\ Waiting(q, s) = One(a, s) + One(b, s)
<1>1. CASE b = 0
  <2>1. IfAny(b) = <<>>
    BY <1>1 DEF IfAny
  <2>2. q = <<a>>
    BY <2>1
  <2>3. One(b, s) = 0 /\ One(a, s) + 0 = One(a, s)
    BY <1>1 DEF One, Slots
  <2> QED
    BY <2>2, <2>3, PutsIs
<1>2. CASE b \in Slots
  <2>1. IfAny(b) = <<b>>
    BY <1>2 DEF IfAny, Slots
  <2>2. /\ <<a>> \o <<b>> \in Seq(Slots) /\ Len(<<a>> \o <<b>>) = 2
        /\ (<<a>> \o <<b>>)[1] = a /\ (<<a>> \o <<b>>)[2] = b
    BY <1>2
  <2>3. /\ <<b>> \o <<a>> \in Seq(Slots) /\ Len(<<b>> \o <<a>>) = 2
        /\ (<<b>> \o <<a>>)[1] = b /\ (<<b>> \o <<a>>)[2] = a
    BY <1>2
  <2>4. CASE q = <<a>> \o <<b>>
    BY <2>2, <2>4 DEF Waiting, One
  <2>5. CASE q = <<b>> \o <<a>>
    BY <2>3, <2>5 DEF Waiting, One
  <2> QED
    BY <2>1, <2>4, <2>5
<1> QED
  BY <1>1, <1>2

-----------------------------------------------------------------------------
\* What is known of a task at a place, with no inode to put before.
LEMMA AtIs ==
    ASSUME IInv, NEW t \in Tasks, NEW p, At(t, p)
    PROVE  /\ TasksInv /\ DoingInv(k[t]) /\ HavingInv(k[t], proc[t])
           /\ DOMAIN k = Tasks /\ DOMAIN k[t] = Fields
           /\ k[t].pc = p /\ k[t].io = "none" /\ k[t].puts = <<>>
           /\ \A s \in Slots : /\ Mine(k[t], proc[t], s) = One(k[t].dir, s) + One(k[t].ino, s)
                                    + One(k[t].old, s) + One(k[t].empty, s) + Lasting(proc[t], s)
                               /\ Lasting(proc[t], s) \in Nat /\ One(0, s) = 0
<1>1. /\ TasksInv /\ DoingInv(k[t]) /\ HavingInv(k[t], proc[t])
      /\ DOMAIN k = Tasks /\ DOMAIN k[t] = Fields
  BY DEF IInv, TasksInv, DoingInv
<1>2. k[t].pc = p /\ k[t].io = "none" /\ k[t].puts = <<>>
  BY DEF At
<1>3. ASSUME NEW s \in Slots
      PROVE  /\ Mine(k[t], proc[t], s) = One(k[t].dir, s) + One(k[t].ino, s)
                  + One(k[t].old, s) + One(k[t].empty, s) + Lasting(proc[t], s)
             /\ Lasting(proc[t], s) \in Nat /\ One(0, s) = 0
  <2>1. Waiting(k[t].puts, s) = 0
    BY <1>2 DEF Waiting
  <2> QED
    BY <2>1 DEF Mine, Lasting, One, Slots
<1> QED
  BY <1>1, <1>2, <1>3

\* The same after a step that leaves the puts empty.
LEMMA MineIs ==
    ASSUME NEW x, NEW p, x.puts = <<>>
    PROVE  \A s \in Slots :
             Mine(x, p, s) = One(x.dir, s) + One(x.ino, s) + One(x.old, s) + One(x.empty, s)
                             + Lasting(p, s)
<1> SUFFICES ASSUME NEW s \in Slots
             PROVE  Mine(x, p, s) = One(x.dir, s) + One(x.ino, s) + One(x.old, s)
                                    + One(x.empty, s) + Lasting(p, s)
  OBVIOUS
<1>1. Waiting(x.puts, s) = 0
  BY DEF Waiting
<1> QED
  BY <1>1 DEF Mine, Lasting, One, Slots

\* A step that moves inodes between dir, ino and old.
LEMMA MoveStep ==
    ASSUME IInv, NEW t \in Tasks, NEW p, At(t, p), UNCHANGED nvars, Marks,
           Only(t), DoingInv(k'[t]), SameCall(k[t], k'[t]),
           k'[t].puts = <<>>, k'[t].empty = k[t].empty,
           \A s \in Slots : One(k'[t].dir, s) + One(k'[t].ino, s) + One(k'[t].old, s)
                              = One(k[t].dir, s) + One(k[t].ino, s) + One(k[t].old, s)
    PROVE  IInv'
<1>1. ASSUME NEW s \in Slots PROVE Mine(k'[t], proc[t], s) = Mine(k[t], proc[t], s)
  <2>1. /\ Mine(k[t], proc[t], s) = One(k[t].dir, s) + One(k[t].ino, s)
             + One(k[t].old, s) + One(k[t].empty, s) + Lasting(proc[t], s)
        /\ Lasting(proc[t], s) \in Nat
    BY AtIs
  <2>2. Mine(k'[t], proc[t], s) = One(k'[t].dir, s) + One(k'[t].ino, s)
             + One(k'[t].old, s) + One(k'[t].empty, s) + Lasting(proc[t], s)
    BY MineIs
  <2>3. One(k'[t].dir, s) + One(k'[t].ino, s) + One(k'[t].old, s)
          = One(k[t].dir, s) + One(k[t].ino, s) + One(k[t].old, s)
    OBVIOUS
  <2> QED
    BY <2>1, <2>2, <2>3 DEF One
<1> QED
  BY <1>1, MarkStep

\* The same, when one of them is put.
LEMMA PutStep ==
    ASSUME IInv, NEW t \in Tasks, NEW p, At(t, p), UNCHANGED nvars, Marks,
           Only(t), DoingInv(k'[t]), SameCall(k[t], k'[t]),
           NEW a \in Slots, k'[t].puts = <<a>>, k'[t].empty = k[t].empty,
           \A s \in Slots : One(k'[t].dir, s) + One(k'[t].ino, s) + One(k'[t].old, s) + One(a, s)
                              = One(k[t].dir, s) + One(k[t].ino, s) + One(k[t].old, s)
    PROVE  IInv'
<1>1. ASSUME NEW s \in Slots PROVE Mine(k'[t], proc[t], s) = Mine(k[t], proc[t], s)
  <2>1. /\ Mine(k[t], proc[t], s) = One(k[t].dir, s) + One(k[t].ino, s)
             + One(k[t].old, s) + One(k[t].empty, s) + Lasting(proc[t], s)
        /\ Lasting(proc[t], s) \in Nat
    BY AtIs
  <2>2. Waiting(k'[t].puts, s) = One(a, s)
    BY PutsIs
  <2>3. One(k'[t].dir, s) + One(k'[t].ino, s) + One(k'[t].old, s) + One(a, s)
          = One(k[t].dir, s) + One(k[t].ino, s) + One(k[t].old, s)
    OBVIOUS
  <2> QED
    BY <2>1, <2>2, <2>3 DEF One, Mine, Lasting
<1> QED
  BY <1>1, MarkStep

\* The end of a call that puts what it has.
LEMMA FinishStep ==
    ASSUME IInv, NEW t \in Tasks, NEW p, At(t, p), UNCHANGED nvars, Marks,
           p \notin {"search", "dead"}, k[t].op # "exit",
           NEW q \in Seq(Slots), Len(q) <= 3, Finish(t, q),
           \A s \in Slots :
             Waiting(q, s) = One(k[t].dir, s) + One(k[t].ino, s) + One(k[t].old, s)
    PROVE  IInv'
<1>1. /\ TasksInv /\ DoingInv(k[t]) /\ k[t].pc = p /\ k[t].io = "none"
      /\ \A s \in Slots : /\ Mine(k[t], proc[t], s) = One(k[t].dir, s) + One(k[t].ino, s)
                                + One(k[t].old, s) + One(k[t].empty, s) + Lasting(proc[t], s)
                          /\ Lasting(proc[t], s) \in Nat /\ One(0, s) = 0
  BY AtIs
<1>2. k[t].empty = 0
  BY <1>1 DEF DoingInv, If
<1>3. /\ Only(t) /\ DoingInv(k'[t]) /\ SameCall(k[t], k'[t]) /\ k'[t].empty = k[t].empty
      /\ \A s \in Slots : Mine(k'[t], proc[t], s) = Lasting(proc[t], s) + Waiting(q, s)
  BY <1>1, FinishIs
<1>4. \A s \in Slots : Mine(k'[t], proc[t], s) = Mine(k[t], proc[t], s)
  BY <1>1, <1>2, <1>3 DEF One
<1> QED
  BY <1>3, <1>4, MarkStep

\* get_dir() keeps the invariant.
LEMMA WalkKeeps == ASSUME IInv, NEW t \in Tasks, Walk(t) PROVE IInv'
<1> DEFINE x == k[t]
           y == k'[t]
<1> USE DEF Suits, Place0, Mapping, Searching, NoCall, WalkPlaces, OpenPlaces, AddPlaces,
            HasDir, HasIno, HasOld, Second, If
<1>1. /\ TasksInv /\ DoingInv(x) /\ DOMAIN k = Tasks /\ DOMAIN x = Fields /\ At(t, "walk")
      /\ x.pc = "walk" /\ x.io = "none" /\ x.puts = <<>>
  BY AtIs DEF Walk
<1>2. /\ x.dir \in Slots /\ x.ino = 0 /\ x.empty = 0 /\ x.old \in {0} \cup Slots
      /\ x.op # "exit"
  BY <1>1 DEF DoingInv
<1>3. UNCHANGED nvars /\ Marks
  BY Unmarked DEF Walk, FilesStay, DiskStays
<1>4. ASSUME NEW q, q \in {<<x.dir>> \o IfAny(x.old), IfAny(x.old) \o <<x.dir>>}, Finish(t, q)
      PROVE  IInv'
  <2>1. q \in Seq(Slots) /\ Len(q) <= 3
    BY <1>2, <1>4, PutsAny
  <2>2. \A s \in Slots : Waiting(q, s) = One(x.dir, s) + One(x.ino, s) + One(x.old, s)
    <3> TAKE s \in Slots
    <3>1. Waiting(q, s) = One(x.dir, s) + One(x.old, s)
      BY <1>2, <1>4, PutsAny
    <3> QED
      BY <1>2, <3>1 DEF One, Slots
  <2> QED
    BY <1>1, <1>2, <1>3, <1>4, <2>1, <2>2, FinishStep
<1>5. ASSUME NEW p \in {"named", "install"}, Go(t, [ino |-> x.dir, dir |-> 0, pc |-> p]),
             p = "named" => ByNamei(t), p = "install" => x.op = "open"
      PROVE  IInv'
  <2>1. /\ Only(t) /\ DOMAIN y = Fields
        /\ y.pc = p /\ y.dir = 0 /\ y.ino = x.dir /\ y.old = x.old /\ y.puts = <<>>
        /\ y.op = x.op /\ y.more = x.more /\ y.empty = x.empty /\ y.io = x.io
        /\ y.n = x.n /\ y.fd = x.fd
    BY <1>1, <1>5 DEF Go, Changed, Only, Fields
  <2>2. DoingInv(y)
    BY <1>1, <1>2, <1>5, <2>1 DEF DoingInv, ByNamei
  <2>3. SameCall(x, y)
    BY <1>1, <1>2, <1>5, <2>1 DEF SameCall, Gone
  <2>4. \A s \in Slots : One(y.dir, s) + One(y.ino, s) + One(y.old, s)
                           = One(x.dir, s) + One(x.ino, s) + One(x.old, s)
    BY <1>2, <2>1 DEF One
  <2> QED
    BY <1>1, <1>3, <2>1, <2>2, <2>3, <2>4, MoveStep
<1>6. ASSUME y.pc = "scan" => Head(y.path) # NoName, y.pc \in {"scan", "missed"}, 
             Only(t), DOMAIN y = Fields, y.dir = x.dir, y.ino = x.ino, y.old = x.old,
             y.puts = <<>>, y.op = x.op, y.more = x.more, y.empty = x.empty, y.io = x.io,
             y.fd = x.fd, y.n \in Nat
      PROVE  IInv'
  <2>1. DoingInv(y)
    <3>1. CASE y.pc = "scan"
      BY <1>1, <1>2, <1>6, <3>1 DEF DoingInv
    <3>2. CASE y.pc = "missed"
      BY <1>1, <1>2, <1>6, <3>2 DEF DoingInv
    <3> QED
      BY <1>6, <3>1, <3>2
  <2>2. SameCall(x, y)
    BY <1>1, <1>2, <1>6 DEF SameCall, Gone
  <2> QED
    BY <1>1, <1>3, <1>6, <2>1, <2>2, MoveStep
<1>7. CASE Go(t, [pc |-> "missed"])
  <2>1. x.n \in Nat
    BY <1>1 DEF DoingInv
  <2> QED
    BY <1>1, <1>6, <1>7, <2>1 DEF Go, Changed, Only, Fields
<1>8. CASE /\ Sleep(t, [pc |-> "scan", n |-> 0, lim |-> table[x.dir].size,
                        blk |-> table[x.dir].zone[1]])
           /\ Head(x.path) # NoName
  BY <1>1, <1>6, <1>8 DEF Sleep, Changed, Only, Fields
<1> QED
  BY <1>4, <1>5, <1>7, <1>8 DEF Walk, FinalSlash

\* An entry with a name that is not empty has the number of an inode, or none.
LEMMA EntryIs ==
    ASSUME IInv, NEW t \in Tasks, NEW i \in Places(t), NameOf(Entry(t, i)) # NoName,
           NumberOf(Entry(t, i)) # 0
    PROVE  NumberOf(Entry(t, i)) \in Inums
<1> DEFINE n == k[t].n
           j == i - n + 1
<1>1. DataInv /\ n \in Nat
  BY DEF IInv, TasksInv, DoingInv
<1>2. j \in 1 .. Width
  <2>1. Width \in Nat
    BY TableAssumption
  <2>2. i \in n .. n + Width - 1
    BY DEF Places
  <2> HIDE DEF n
  <2> QED
    BY <1>1, <2>1, <2>2
<1>3. Entry(t, i) = Entries(t)[j]
  BY DEF Entry
<1>4. CASE k[t].blk \in Blocks
  <2>1. Entries(t) = blks[k[t].blk]
    BY <1>4 DEF Entries
  <2> HIDE DEF n, j
  <2>2. NumberOf(Entry(t, i)) \in 0 .. NInodes
    BY <1>1, <1>2, <1>3, <1>4, <2>1 DEF DataInv
  <2>3. NInodes \in Nat
    BY TableAssumption
  <2> QED
    BY <2>2, <2>3 DEF Inums
<1>5. CASE k[t].blk \notin Blocks
  <2>1. Entries(t) = [d \in 1 .. Width |-> FreeEntry]
    BY <1>5 DEF Entries, EmptyBlock
  <2> HIDE DEF n, j
  <2>2. NameOf(Entry(t, i)) = NoName
    BY <1>2, <1>3, <2>1 DEF FreeEntry, NameOf
  <2> QED
    BY <2>2
<1> QED
  BY <1>4, <1>5

\* A loop over the entries of a directory goes on with the next block.
LEMMA NextBlockIs ==
    ASSUME IInv, NEW t \in Tasks, NEW p \in {"scan", "add", "empty"}, At(t, p), UNCHANGED nvars, Marks,
           NEW s, NextBlock(t, s),
           p = "add" => s = k[t].dir
    PROVE  IInv'
<1> DEFINE x == k[t]
           y == k'[t]
<1> USE DEF Suits, Place0, Mapping, Searching, NoCall, WalkPlaces, OpenPlaces, AddPlaces,
            HasDir, HasIno, HasOld, Second, If
<1>1. /\ TasksInv /\ DoingInv(x) /\ DOMAIN k = Tasks /\ DOMAIN x = Fields
      /\ x.pc = p /\ x.io = "none" /\ x.puts = <<>>
  BY AtIs
<1>2. x.n \in Nat /\ Width \in Nat
  BY <1>1, TableAssumption DEF DoingInv
<1>3. /\ Only(t) /\ DOMAIN y = Fields
      /\ y.pc = "bmap" /\ y.mret = p /\ y.obj = s /\ y.dir = x.dir /\ y.ino = x.ino
      /\ y.old = x.old /\ y.puts = <<>> /\ y.op = x.op /\ y.more = x.more
      /\ y.empty = x.empty /\ y.io = x.io /\ y.n = x.n + Width /\ y.fd = x.fd
      /\ y.path = x.path
  BY <1>1 DEF NextBlock, Go, Changed, Only, Fields
<1>4. DoingInv(y)
  BY <1>1, <1>2, <1>3 DEF DoingInv
<1>5. SameCall(x, y)
  BY <1>1, <1>3 DEF SameCall, Gone
<1> QED
  BY <1>1, <1>3, <1>4, <1>5, MoveStep

\* find_entry() keeps the invariant.
LEMMA ScanKeeps == ASSUME IInv, NEW t \in Tasks, Scan(t) PROVE IInv'
<1> DEFINE x == k[t]
           y == k'[t]
           hits == {i \in Places(t) : /\ i < k[t].lim
                                      /\ Entry(t, i)[1] = Name(t)
                                      /\ Entry(t, i)[2] # 0}
<1> USE DEF Suits, Place0, Mapping, Searching, NoCall, WalkPlaces, OpenPlaces, AddPlaces,
            HasDir, HasIno, HasOld, Second, If
<1>1. /\ TasksInv /\ DoingInv(x) /\ DOMAIN k = Tasks /\ DOMAIN x = Fields /\ At(t, "scan")
      /\ x.pc = "scan" /\ x.io = "none" /\ x.puts = <<>>
  BY AtIs DEF Scan
<1>2. x.n \in Nat /\ Head(x.path) # NoName
  BY <1>1 DEF DoingInv
<1>3. UNCHANGED nvars /\ Marks
  BY Unmarked DEF Scan, FilesStay, DiskStays
<1>4. CASE /\ hits # {}
           /\ Go(t, [ent |-> Place(t, Min(hits)), nr |-> Entry(t, Min(hits))[2], pc |-> "found"])
  <2>1. Min(hits) \in hits
    <3>1. hits \subseteq Nat
      BY <1>2, TableAssumption DEF Places
    <3> HIDE DEF hits
    <3> QED
      BY <1>4, <3>1, LeastElement
  <2>2. Name(t) # NoName
    <3>1. "." # NoName
      BY Zenon DEF NoName
    <3> QED
      BY <1>2, <3>1 DEF Name
  <2>3. Entry(t, Min(hits))[2] \in Inums
    <3>1. NameOf(Entry(t, Min(hits))) # NoName
      BY <2>1, <2>2 DEF NameOf
    <3>2. NumberOf(Entry(t, Min(hits))) # 0
      BY <2>1 DEF NumberOf
    <3>3. Min(hits) \in Places(t)
      BY <2>1
    <3>4. NumberOf(Entry(t, Min(hits))) \in Inums
      BY <3>1, <3>2, <3>3, EntryIs
    <3> QED
      BY <3>4 DEF NumberOf
  <2> HIDE DEF hits
  <2>4. /\ Only(t) /\ DOMAIN y = Fields
        /\ y.pc = "found" /\ y.dir = x.dir /\ y.ino = x.ino /\ y.old = x.old /\ y.puts = <<>>
        /\ y.op = x.op /\ y.more = x.more /\ y.empty = x.empty /\ y.io = x.io
        /\ y.n = x.n /\ y.fd = x.fd /\ y.nr \in Inums
    BY <1>1, <1>4, <2>3 DEF Go, Changed, Only, Fields
  <2>5. DoingInv(y)
    BY <1>1, <2>4 DEF DoingInv
  <2>6. SameCall(x, y)
    BY <1>1, <2>4 DEF SameCall, Gone
  <2> QED
    BY <1>1, <1>3, <2>4, <2>5, <2>6, MoveStep
<1>5. CASE NextBlock(t, x.dir)
  BY <1>1, <1>3, <1>5, NextBlockIs
<1>6. CASE Go(t, [pc |-> "missed"])
  <2>1. /\ Only(t) /\ DOMAIN y = Fields
        /\ y.pc = "missed" /\ y.dir = x.dir /\ y.ino = x.ino /\ y.old = x.old /\ y.puts = <<>>
        /\ y.op = x.op /\ y.more = x.more /\ y.empty = x.empty /\ y.io = x.io
        /\ y.n = x.n /\ y.fd = x.fd
    BY <1>1, <1>6 DEF Go, Changed, Only, Fields
  <2>2. DoingInv(y)
    BY <1>1, <2>1 DEF DoingInv
  <2>3. SameCall(x, y)
    BY <1>1, <2>1 DEF SameCall, Gone
  <2> QED
    BY <1>1, <1>3, <2>1, <2>2, <2>3, MoveStep
<1> QED
  BY <1>4, <1>5, <1>6 DEF Scan

\* What FoundEntry does with the entry keeps the invariant.
LEMMA FoundEntryKeeps == ASSUME IInv, NEW t \in Tasks, FoundEntry(t) PROVE IInv'
<1> DEFINE x == k[t]
           y == k'[t]
<1> USE DEF Suits, Place0, Mapping, Searching, NoCall, WalkPlaces, OpenPlaces, AddPlaces,
            HasDir, HasIno, HasOld, Second, If
<1>1. /\ TasksInv /\ DoingInv(x) /\ DOMAIN k = Tasks /\ DOMAIN x = Fields /\ At(t, "found")
      /\ x.pc = "found" /\ x.io = "none" /\ x.puts = <<>>
  BY AtIs DEF FoundEntry
<1>2. /\ x.dir \in Slots /\ x.ino = 0 /\ x.empty = 0 /\ x.old \in {0} \cup Slots
      /\ x.op # "exit" /\ x.nr \in Inums /\ x.n \in Nat
  BY <1>1 DEF DoingInv
<1>3. UNCHANGED nvars /\ Marks
  BY Unmarked DEF FoundEntry, FilesStay, DiskStays
<1>4. ASSUME NEW p \in {"walked", "named", "opened"},
             Go(t, [puts |-> <<x.dir>>, dir |-> 0, pc |-> "iget", ret |-> p]),
             p = "named" => ByNamei(t), p = "opened" => x.op = "open"
      PROVE  IInv'
  <2>1. /\ Only(t) /\ DOMAIN y = Fields
        /\ y.pc = "iget" /\ y.ret = p /\ y.dir = 0 /\ y.ino = x.ino /\ y.old = x.old
        /\ y.puts = <<x.dir>> /\ y.op = x.op /\ y.more = x.more /\ y.empty = x.empty
        /\ y.io = x.io /\ y.n = x.n /\ y.fd = x.fd /\ y.nr = x.nr
    BY <1>1, <1>4 DEF Go, Changed, Only, Fields
  <2>2. <<x.dir>> \in Seq(Slots) /\ Len(<<x.dir>>) <= 3 /\ <<x.dir>> # <<>>
    BY <1>2, PutsIs
  <2>3. DoingInv(y)
    BY <1>1, <1>2, <1>4, <2>1, <2>2 DEF DoingInv, ByNamei
  <2>4. SameCall(x, y)
    BY <1>1, <1>4, <2>1 DEF SameCall, Gone
  <2>5. \A s \in Slots : One(y.dir, s) + One(y.ino, s) + One(y.old, s) + One(x.dir, s)
                           = One(x.dir, s) + One(x.ino, s) + One(x.old, s)
    BY <2>1 DEF One, Slots
  <2> QED
    BY <1>1, <1>2, <1>3, <2>1, <2>3, <2>4, <2>5, PutStep
<1>5. CASE x.op \in {"rmdir", "unlink"} /\ Go(t, [pc |-> "iget", ret |-> "victim"])
  <2>1. /\ Only(t) /\ DOMAIN y = Fields
        /\ y.pc = "iget" /\ y.ret = "victim" /\ y.dir = x.dir /\ y.ino = x.ino
        /\ y.old = x.old /\ y.puts = <<>> /\ y.op = x.op /\ y.more = x.more
        /\ y.empty = x.empty /\ y.io = x.io /\ y.n = x.n /\ y.fd = x.fd /\ y.nr = x.nr
    BY <1>1, <1>5 DEF Go, Changed, Only, Fields
  <2>2. DoingInv(y)
    BY <1>1, <1>2, <1>5, <2>1 DEF DoingInv
  <2>3. SameCall(x, y)
    BY <1>1, <2>1 DEF SameCall, Gone
  <2> QED
    BY <1>1, <1>3, <2>1, <2>2, <2>3, MoveStep
<1>6. ASSUME NEW q, q = <<x.dir>> \o IfAny(x.old), Finish(t, q)
      PROVE  IInv'
  <2>1. q \in Seq(Slots) /\ Len(q) <= 3
    BY <1>2, <1>6, PutsAny
  <2>2. \A s \in Slots : Waiting(q, s) = One(x.dir, s) + One(x.ino, s) + One(x.old, s)
    <3> TAKE s \in Slots
    <3>1. Waiting(q, s) = One(x.dir, s) + One(x.old, s)
      BY <1>2, <1>6, PutsAny
    <3> QED
      BY <1>2, <3>1 DEF One, Slots
  <2> QED
    BY <1>1, <1>2, <1>3, <1>6, <2>1, <2>2, FinishStep
<1> QED
  BY <1>4, <1>5, <1>6 DEF FoundEntry

\* The next directory of a path.
LEMMA WalkedKeeps == ASSUME IInv, NEW t \in Tasks, Walked(t) PROVE IInv'
<1> DEFINE x == k[t]
           y == k'[t]
<1> USE DEF Suits, Place0, Mapping, Searching, NoCall, WalkPlaces, OpenPlaces, AddPlaces,
            HasDir, HasIno, HasOld, Second, If
<1>1. /\ TasksInv /\ DoingInv(x) /\ DOMAIN k = Tasks /\ DOMAIN x = Fields /\ At(t, "walked")
      /\ x.pc = "walked" /\ x.io = "none" /\ x.puts = <<>>
  BY AtIs DEF Walked
<1>2. x.dir = 0 /\ x.ino \in Slots
  BY <1>1 DEF DoingInv
<1>3. UNCHANGED nvars /\ Marks
  BY Unmarked DEF Walked, FilesStay, DiskStays
<1>4. /\ Only(t) /\ DOMAIN y = Fields
      /\ y.pc = "walk" /\ y.dir = x.ino /\ y.ino = 0 /\ y.old = x.old /\ y.puts = <<>>
      /\ y.op = x.op /\ y.more = x.more /\ y.empty = x.empty /\ y.io = x.io
      /\ y.n = x.n /\ y.fd = x.fd
  BY <1>1 DEF Walked, Go, Changed, Only, Fields
<1>5. DoingInv(y)
  BY <1>1, <1>2, <1>4 DEF DoingInv
<1>6. SameCall(x, y)
  BY <1>1, <1>4 DEF SameCall, Gone
<1>7. \A s \in Slots : One(y.dir, s) + One(y.ino, s) + One(y.old, s)
                         = One(x.dir, s) + One(x.ino, s) + One(x.old, s)
  BY <1>2, <1>4 DEF One
<1> QED
  BY <1>1, <1>3, <1>4, <1>5, <1>6, <1>7, MoveStep

-----------------------------------------------------------------------------
\* A step that leaves the inodes, the tasks and the files alone.
LEMMA StayKeeps ==
    ASSUME IInv, UNCHANGED <<table, disk, blks, last_inode, k>>, UNCHANGED nvars
    PROVE  IInv'
<1>1. proc' = proc /\ file_table' = file_table /\ use' = use
  BY DEF nvars
<1>2. TasksInv' /\ TableInv' /\ EmptyHeld' /\ Numbered'
  BY <1>1 DEF IInv, TasksInv, TableInv, EmptyHeld, Numbered
<1>3. FilesInv' /\ OpenInv' /\ DataInv' /\ UseInv'
  BY <1>1 DEF IInv, FilesInv, OpenInv, DataInv, UseInv
<1>4. CountIsReferences'
  <2>1. \A s \in Slots : References(s)' = References(s)
    BY <1>1 DEF References, Hands
  <2> QED
    BY <1>1, <2>1 DEF IInv, CountIsReferences
<1> QED
  BY <1>2, <1>3, <1>4 DEF IInv

\* get_empty_inode() comes upon every slot.
LEMMA NewSlotIs ==
    ASSUME IInv, Unused # {}
    PROVE  NewSlot \in Slots /\ table[NewSlot].count = 0
<1> DEFINE Free == {i \in 1 .. NR_INODE : After(i) \in Unused}
<1>1. last_inode \in 1 .. NR_INODE /\ NR_INODE \in Nat
  BY TableAssumption DEF IInv, DataInv, Slots
<1>2. PICK s \in 1 .. NR_INODE : s \in Unused
  BY DEF Unused, Slots
<1>3. \E i \in 1 .. NR_INODE : After(i) = s
  <2>1. CASE s > last_inode
    <3>1. s - last_inode \in 1 .. NR_INODE
      BY <1>1, <2>1
    <3>2. (last_inode + (s - last_inode) - 1) % NR_INODE = s - 1
      BY <1>1, <2>1
    <3>3. After(s - last_inode) = s
      BY <1>1, <3>2 DEF After
    <3> QED
      BY <3>1, <3>3
  <2>2. CASE s <= last_inode
    <3> DEFINE i == s - last_inode + NR_INODE
    <3>1. i \in 1 .. NR_INODE
      BY <1>1, <2>2
    <3>2. (last_inode + i - 1) % NR_INODE = s - 1
      BY <1>1, <2>2
    <3>3. After(i) = s
      BY <1>1, <3>2 DEF After
    <3> QED
      BY <3>1, <3>3
  <2> QED
    BY <1>1, <2>1, <2>2
<1>4. Free # {} /\ Free \subseteq Nat
  BY <1>2, <1>3
<1> HIDE DEF Free
<1>5. Min(Free) \in Free
  BY <1>4, LeastElement
<1>6. NewSlot \in Unused
  BY <1>5 DEF Free, NewSlot
<1> QED
  BY <1>6 DEF Unused

\* A step that takes an unused slot: the task has it in hand from then on.
LEMMA TakeStep ==
    ASSUME IInv, NEW t \in Tasks, NEW p, At(t, p), UNCHANGED nvars,
           UNCHANGED <<disk, blks>>,
           Only(t), DoingInv(k'[t]), SameCall(k[t], k'[t]), k'[t].puts = <<>>,
           NEW s \in Slots, table[s].count = 0, last_inode' = s,
           NEW r, RecInv(r), r.count = 1, table' = [table EXCEPT ![s] = r],
           r.num = 0 => k'[t].empty = s,
           k'[t].empty = s => r.num = 0,
           k'[t].empty \in {s, k[t].empty},
           k[t].empty = 0,
           \A z \in Slots : One(k'[t].dir, z) + One(k'[t].ino, z) + One(k'[t].old, z)
                                + One(k'[t].empty, z)
                              = One(k[t].dir, z) + One(k[t].ino, z) + One(k[t].old, z)
                                + One(s, z)
    PROVE  IInv'
<1>1. DOMAIN table = Slots /\ \A z \in Slots : RecInv(table[z])
  BY DEF IInv, TableInv
<1>2. (DOMAIN table)' = Slots /\ \A z \in Slots : table'[z] = IF z = s THEN r ELSE table[z]
  BY <1>1
<1>3. TableInv'
  BY <1>1, <1>2 DEF TableInv
<1>4. DataInv'
  BY DEF IInv, DataInv
<1>5. ASSUME NEW z \in Slots
      PROVE  SlotStep(table[z], table'[z], Mine(k[t], proc[t], z), z, k[t].empty, k'[t].empty)
  BY <1>2 DEF SlotStep, Slots
<1>6. ASSUME NEW z \in Slots
      PROVE  table'[z].count + Mine(k[t], proc[t], z) = table[z].count + Mine(k'[t], proc[t], z)
  <2>1. /\ Mine(k[t], proc[t], z) = One(k[t].dir, z) + One(k[t].ino, z)
             + One(k[t].old, z) + One(k[t].empty, z) + Lasting(proc[t], z)
        /\ Lasting(proc[t], z) \in Nat /\ One(0, z) = 0
    BY AtIs
  <2>2. Mine(k'[t], proc[t], z) = One(k'[t].dir, z) + One(k'[t].ino, z)
             + One(k'[t].old, z) + One(k'[t].empty, z) + Lasting(proc[t], z)
    BY MineIs
  <2>3. One(k'[t].dir, z) + One(k'[t].ino, z) + One(k'[t].old, z) + One(k'[t].empty, z)
          = One(k[t].dir, z) + One(k[t].ino, z) + One(k[t].old, z) + One(s, z)
    OBVIOUS
  <2>4. table'[z].count = table[z].count + One(s, z)
    BY <1>1, <1>2 DEF One, RecInv
  <2>5. table[z].count \in Nat
    BY <1>1 DEF RecInv
  <2> QED
    BY <2>1, <2>2, <2>3, <2>4, <2>5 DEF One
<1> QED
  BY <1>3, <1>4, <1>5, <1>6, LocalStep

\* new_inode(), and the other ways on from a name that is not there.
LEMMA MissedKeeps == ASSUME IInv, NEW t \in Tasks, Missed(t) PROVE IInv'
<1> DEFINE x == k[t]
           y == k'[t]
<1> USE DEF Suits, Place0, Mapping, Searching, NoCall, WalkPlaces, OpenPlaces, AddPlaces,
            HasDir, HasIno, HasOld, Second, If
<1>1. /\ TasksInv /\ DoingInv(x) /\ DOMAIN k = Tasks /\ DOMAIN x = Fields /\ At(t, "missed")
      /\ x.pc = "missed" /\ x.io = "none" /\ x.puts = <<>>
  BY AtIs DEF Missed
<1>2. /\ x.dir \in Slots /\ x.ino = 0 /\ x.empty = 0 /\ x.old \in {0} \cup Slots
      /\ x.op # "exit" /\ x.n \in Nat
  BY <1>1 DEF DoingInv
<1>3. UNCHANGED nvars
  BY DEF Missed, FilesStay
<1>4. ASSUME FreeInums # {}, Unused # {}, Makes(t),
             NEW p, NEW m, new_inode(t, p, m),
             (p = "bmap" /\ m = "dots" /\ x.op = "mkdir")
               \/ (p = "addentry" /\ x.op \in {"open", "mknod"})
      PROVE  IInv'
  <2> DEFINE s == NewSlot
             r == NewInode(Kind(t))
  <2>1. s \in Slots /\ table[s].count = 0
    BY <1>4, NewSlotIs
  <2>2. Min(FreeInums) \in Inums
    <3>1. FreeInums \subseteq Nat
      BY DEF FreeInums, Inums
    <3> QED
      BY <1>4, <3>1, LeastElement DEF FreeInums
  <2>3. RecInv(r) /\ r.count = 1 /\ r.num # 0
    BY <2>2, TableAssumption DEF NewInode, NoInode, RecInv, Inums
  <2> HIDE DEF s, r
  <2>4. /\ table' = [table EXCEPT ![s] = r] /\ last_inode' = s /\ UNCHANGED <<disk, blks>>
        /\ Go(t, [ino |-> s, pc |-> p, cells |-> <<1>>, at |-> 0, obj |-> s, mret |-> m])
    BY <1>4 DEF new_inode, s, r
  <2>5. /\ Only(t) /\ DOMAIN y = Fields
        /\ y.pc = p /\ y.mret = m /\ y.dir = x.dir /\ y.ino = s /\ y.obj = s
        /\ y.old = x.old /\ y.puts = <<>> /\ y.op = x.op /\ y.more = x.more
        /\ y.empty = x.empty /\ y.io = x.io /\ y.n = x.n /\ y.fd = x.fd
    BY <1>1, <2>4 DEF Go, Changed, Only, Fields
  <2>6. DoingInv(y)
    <3>1. CASE p = "bmap"
      BY <1>1, <1>2, <1>4, <2>1, <2>5, <3>1 DEF DoingInv
    <3>2. CASE p = "addentry"
      BY <1>1, <1>2, <1>4, <2>1, <2>5, <3>2 DEF DoingInv
    <3> QED
      BY <1>4, <3>1, <3>2
  <2>7. SameCall(x, y)
    BY <1>1, <1>2, <1>4, <2>5 DEF SameCall, Gone
  <2>8. \A z \in Slots : One(y.dir, z) + One(y.ino, z) + One(y.old, z) + One(y.empty, z)
                           = One(x.dir, z) + One(x.ino, z) + One(x.old, z) + One(s, z)
    BY <1>2, <2>5 DEF One, Slots
  <2>9. s # 0
    BY <2>1 DEF Slots
  <2> QED
    BY <1>1, <1>2, <1>3, <2>1, <2>3, <2>4, <2>5, <2>6, <2>7, <2>8, <2>9, TakeStep
<1>5. CASE panic("No free inodes in mem")
  BY <1>3, <1>5, StayKeeps DEF panic
<1>6. ASSUME DiskStays, x.op = "link", ~ ByNamei(t), Go(t, [pc |-> "addentry"])
      PROVE  IInv'
  <2>1. Marks
    BY <1>6, Unmarked DEF DiskStays
  <2>2. /\ Only(t) /\ DOMAIN y = Fields
        /\ y.pc = "addentry" /\ y.dir = x.dir /\ y.ino = x.ino /\ y.old = x.old /\ y.puts = <<>>
        /\ y.op = x.op /\ y.more = x.more /\ y.empty = x.empty /\ y.io = x.io
        /\ y.n = x.n /\ y.fd = x.fd
    BY <1>1, <1>6 DEF Go, Changed, Only, Fields
  <2>3. DoingInv(y)
    BY <1>1, <1>2, <1>6, <2>2 DEF DoingInv, ByNamei
  <2>4. SameCall(x, y)
    BY <1>1, <2>2 DEF SameCall, Gone
  <2> QED
    BY <1>1, <1>3, <2>1, <2>2, <2>3, <2>4, MoveStep
<1>7. ASSUME DiskStays, NEW q, q = <<x.dir>> \o IfAny(x.old), Finish(t, q)
      PROVE  IInv'
  <2>1. q \in Seq(Slots) /\ Len(q) <= 3
    BY <1>2, <1>7, PutsAny
  <2>2. \A s \in Slots : Waiting(q, s) = One(x.dir, s) + One(x.ino, s) + One(x.old, s)
    <3> TAKE s \in Slots
    <3>1. Waiting(q, s) = One(x.dir, s) + One(x.old, s)
      BY <1>2, <1>7, PutsAny
    <3> QED
      BY <1>2, <3>1 DEF One, Slots
  <2>3. Marks
    BY <1>7, Unmarked DEF DiskStays
  <2> QED
    BY <1>1, <1>2, <1>3, <1>7, <2>1, <2>2, <2>3, FinishStep
<1> QED
  BY <1>4, <1>5, <1>6, <1>7 DEF Missed, Makes

-----------------------------------------------------------------------------
\* A step that marks one slot.
LEMMA MarkOne ==
    ASSUME IInv, NEW s, (DOMAIN table)' = Slots,
           \A z \in Slots \ {s} : table'[z] = table[z],
           s \in Slots => Marked(table[s], table'[s]), DataInv'
    PROVE  Marks
<1>1. \A z \in Slots : RecInv(table[z])
  BY DEF IInv, TableInv
<1> QED
  BY <1>1 DEF Marks, Marked, RecInv

\* A step that marks a slot that is in use.
LEMMA MarkUsed ==
    ASSUME IInv, NEW s \in Slots, table[s].num \in Inums, table[s].count >= 1,
           (DOMAIN table)' = Slots, \A z \in Slots \ {s} : table'[z] = table[z],
           DOMAIN table'[s] = DOMAIN table[s], table'[s].num = table[s].num,
           table'[s].count = table[s].count,
           table'[s].dirt \in BOOLEAN, table'[s].lock \in BOOLEAN, DataInv'
    PROVE  Marks
<1>1. table[s].num # 0
  BY TableAssumption DEF Inums
<1>2. table[s].count # 0
  BY DEF IInv, TableInv, RecInv
<1>3. Marked(table[s], table'[s])
  BY <1>1, <1>2 DEF Marked
<1> QED
  BY <1>3, MarkOne

\* One entry of one block changes.
LEMMA EntryChanges ==
    ASSUME IInv, NEW b, NEW i, NEW e, NumberOf(e) \in 0 .. NInodes,
           blks' = [blks EXCEPT ![b][i] = e], UNCHANGED <<disk, last_inode>>
    PROVE  DataInv'
<1>1. DataInv
  BY DEF IInv
<1>2. (DOMAIN blks)' = Blocks
  BY <1>1 DEF DataInv
<1>3. ASSUME NEW c \in Blocks
      PROVE  /\ DOMAIN blks'[c] = 1 .. Width
             /\ \A j \in 1 .. Width : blks'[c][j] \in {e, blks[c][j]}
  <2>1. DOMAIN blks = Blocks /\ DOMAIN blks[c] = 1 .. Width
    BY <1>1 DEF DataInv
  <2> QED
    BY <2>1
<1>4. ASSUME NEW c \in Blocks, NEW j \in 1 .. Width, NameOf(blks'[c][j]) # NoName
      PROVE  NumberOf(blks'[c][j]) \in 0 .. NInodes
  <2>1. blks'[c][j] \in {e, blks[c][j]}
    BY <1>3
  <2> QED
    BY <1>1, <1>4, <2>1 DEF DataInv
<1> QED
  BY <1>1, <1>2, <1>3, <1>4 DEF DataInv

\* mknod() and mkdir() that failed put the directory first.
LEMMA GiveUpKeeps ==
    ASSUME IInv, NEW t \in Tasks, NEW p \in {"dots", "addentry", "add"}, At(t, p),
           UNCHANGED nvars, Marks, k[t].op \in {"mknod", "mkdir"}, GiveUp(t)
    PROVE  IInv'
<1> DEFINE x == k[t]
           y == k'[t]
<1> USE DEF Suits, Place0, Mapping, Searching, NoCall, WalkPlaces, OpenPlaces, AddPlaces,
            HasDir, HasIno, HasOld, Second, If
<1>1. /\ TasksInv /\ DoingInv(x) /\ DOMAIN k = Tasks /\ DOMAIN x = Fields
      /\ x.pc = p /\ x.io = "none" /\ x.puts = <<>>
  BY AtIs
<1>2. /\ x.dir \in Slots /\ x.ino \in Slots /\ x.empty = 0 /\ x.old = 0 /\ x.n \in Nat
  BY <1>1 DEF DoingInv
<1>3. /\ Only(t) /\ DOMAIN y = Fields
      /\ y.pc = "failed" /\ y.dir = 0 /\ y.ino = x.ino /\ y.old = x.old /\ y.puts = <<x.dir>>
      /\ y.op = x.op /\ y.more = x.more /\ y.empty = x.empty /\ y.io = x.io
      /\ y.n = x.n /\ y.fd = x.fd
  BY <1>1 DEF GiveUp, Go, Changed, Only, Fields
<1>4. <<x.dir>> \in Seq(Slots) /\ Len(<<x.dir>>) <= 3 /\ <<x.dir>> # <<>>
  BY <1>2, PutsIs
<1>5. DoingInv(y)
  BY <1>1, <1>2, <1>3, <1>4 DEF DoingInv
<1>6. SameCall(x, y)
  BY <1>1, <1>3 DEF SameCall, Gone
<1>7. \A s \in Slots : One(y.dir, s) + One(y.ino, s) + One(y.old, s) + One(x.dir, s)
                         = One(x.dir, s) + One(x.ino, s) + One(x.old, s)
  BY <1>3 DEF One, Slots
<1> QED
  BY <1>1, <1>2, <1>3, <1>5, <1>6, <1>7, PutStep

\* Then they forget the inode, and mkdir() its block.
LEMMA FailedKeeps == ASSUME IInv, NEW t \in Tasks, Failed(t) PROVE IInv'
<1> DEFINE x == k[t]
           q == <<x.ino>>
<1> USE DEF Suits, Place0, Mapping, Searching, NoCall, WalkPlaces, OpenPlaces, AddPlaces,
            HasDir, HasIno, HasOld, Second, If
<1>1. /\ TasksInv /\ DoingInv(x) /\ DOMAIN k = Tasks /\ DOMAIN x = Fields /\ At(t, "failed")
      /\ x.pc = "failed" /\ x.io = "none" /\ x.puts = <<>>
  BY AtIs DEF Failed
<1>2. x.dir = 0 /\ x.ino \in Slots /\ x.empty = 0 /\ x.old = 0 /\ x.op \in {"mknod", "mkdir"}
  BY <1>1 DEF DoingInv
<1>3. /\ UNCHANGED nvars /\ UNCHANGED <<disk, blks, last_inode>> /\ Finish(t, q)
      /\ table' = [table EXCEPT ![x.ino].nlinks = 0]
  BY DEF Failed, FilesStay
<1>4. DOMAIN table = Slots /\ RecInv(table[x.ino]) /\ DataInv
  BY <1>2 DEF IInv, TableInv
<1>5. Marks
  <2>1. (DOMAIN table)' = Slots /\ \A z \in Slots \ {x.ino} : table'[z] = table[z]
    BY <1>3, <1>4
  <2>2. Marked(table[x.ino], table'[x.ino])
    BY <1>2, <1>3, <1>4 DEF Marked, RecInv
  <2>3. DataInv'
    BY <1>3, <1>4 DEF DataInv
  <2> QED
    BY <2>1, <2>2, <2>3, MarkOne
<1>6. q \in Seq(Slots) /\ Len(q) <= 3
  BY <1>2, PutsIs
<1>7. \A s \in Slots : Waiting(q, s) = One(x.dir, s) + One(x.ino, s) + One(x.old, s)
  <2> TAKE s \in Slots
  <2>1. Waiting(q, s) = One(x.ino, s)
    BY <1>2, PutsIs
  <2> QED
    BY <1>2, <2>1 DEF One, Slots
<1> HIDE DEF q
<1> QED
  BY <1>1, <1>2, <1>3, <1>5, <1>6, <1>7, FinishStep

\* mkdir() writes the entries of a new directory, or has no block for them.
LEMMA DotsKeeps == ASSUME IInv, NEW t \in Tasks, Dots(t) PROVE IInv'
<1> DEFINE x == k[t]
           y == k'[t]
<1> USE DEF Suits, Place0, Mapping, Searching, NoCall, WalkPlaces, OpenPlaces, AddPlaces,
            HasDir, HasIno, HasOld, Second, If
<1>1. /\ TasksInv /\ DoingInv(x) /\ DOMAIN k = Tasks /\ DOMAIN x = Fields /\ At(t, "dots")
      /\ x.pc = "dots" /\ x.io = "none" /\ x.puts = <<>>
  BY AtIs DEF Dots
<1>2. /\ x.dir \in Slots /\ x.ino \in Slots /\ x.empty = 0 /\ x.old = 0
      /\ x.op = "mkdir" /\ x.n \in Nat
  BY <1>1 DEF DoingInv
<1>3. UNCHANGED nvars /\ UNCHANGED <<disk, last_inode>>
  BY DEF Dots, FilesStay
<1>4. /\ table[x.ino].num \in Inums /\ table[x.ino].count >= 1
      /\ RecInv(table[x.ino]) /\ RecInv(table[x.dir]) /\ DOMAIN table = Slots /\ DataInv
  BY <1>2, HadIsNumbered DEF Has, IInv, TableInv
<1>5. CASE table' = [table EXCEPT ![x.ino].size = 2] /\ GiveUp(t) /\ UNCHANGED blks
  <2>1. DataInv'
    BY <1>3, <1>4, <1>5 DEF DataInv
  <2>2. (DOMAIN table)' = Slots /\ \A z \in Slots \ {x.ino} : table'[z] = table[z]
    BY <1>4, <1>5
  <2>3. Marked(table[x.ino], table'[x.ino])
    BY <1>2, <1>4, <1>5 DEF Marked, RecInv
  <2>4. Marks
    BY <2>1, <2>2, <2>3, MarkOne
  <2> QED
    BY <1>1, <1>2, <1>3, <1>5, <2>4, GiveUpKeeps
<1>6. CASE /\ blks' = [blks EXCEPT ![x.blk][1] = <<".", table[x.ino].num>>,
                                   ![x.blk][2] = <<"..", table[x.dir].num>>]
           /\ table' = [table EXCEPT ![x.ino] =
                          [@ EXCEPT !.nlinks = 2, !.kind = "dir", !.size = 2, !.dirt = TRUE]]
           /\ Go(t, [pc |-> "addentry"])
  <2>1. DataInv'
    <3> DEFINE d == <<".", table[x.ino].num>>
               e == <<"..", table[x.dir].num>>
    <3>1. NumberOf(d) \in 0 .. NInodes /\ NumberOf(e) \in 0 .. NInodes
      BY <1>4 DEF RecInv, NumberOf
    <3> HIDE DEF d, e
    <3>2. blks' = [blks EXCEPT ![x.blk][1] = d, ![x.blk][2] = e]
      BY <1>6 DEF d, e
    <3>3. (DOMAIN blks)' = Blocks
      BY <1>4, <3>2 DEF DataInv
    <3>4. ASSUME NEW c \in Blocks
          PROVE  /\ DOMAIN blks'[c] = 1 .. Width
                 /\ \A j \in 1 .. Width : blks'[c][j] \in {d, e, blks[c][j]}
      <4>1. DOMAIN blks = Blocks /\ DOMAIN blks[c] = 1 .. Width
        BY <1>4 DEF DataInv
      <4> QED
        BY <3>2, <4>1
    <3>5. ASSUME NEW c \in Blocks, NEW j \in 1 .. Width, NameOf(blks'[c][j]) # NoName
          PROVE  NumberOf(blks'[c][j]) \in 0 .. NInodes
      <4>1. blks'[c][j] \in {d, e, blks[c][j]}
        BY <3>4
      <4> QED
        BY <1>4, <3>1, <3>5, <4>1 DEF DataInv
    <3> QED
      BY <1>3, <1>4, <3>3, <3>4, <3>5 DEF DataInv
  <2>2. Marks
    <3>1. (DOMAIN table)' = Slots /\ \A z \in Slots \ {x.ino} : table'[z] = table[z]
      BY <1>4, <1>6
    <3>2. /\ DOMAIN table'[x.ino] = DOMAIN table[x.ino]
          /\ table'[x.ino].num = table[x.ino].num /\ table'[x.ino].count = table[x.ino].count
          /\ table'[x.ino].dirt = TRUE /\ table'[x.ino].lock = table[x.ino].lock
      BY <1>2, <1>4, <1>6 DEF RecInv
    <3>3. table'[x.ino].dirt \in BOOLEAN /\ table'[x.ino].lock \in BOOLEAN
      BY <1>4, <3>2 DEF RecInv
    <3> QED
      BY <1>2, <1>4, <2>1, <3>1, <3>2, <3>3, MarkUsed
  <2>3. /\ Only(t) /\ DOMAIN y = Fields
        /\ y.pc = "addentry" /\ y.dir = x.dir /\ y.ino = x.ino /\ y.old = x.old /\ y.puts = <<>>
        /\ y.op = x.op /\ y.more = x.more /\ y.empty = x.empty /\ y.io = x.io
        /\ y.n = x.n /\ y.fd = x.fd
    BY <1>1, <1>6 DEF Go, Changed, Only, Fields
  <2>4. DoingInv(y)
    BY <1>1, <1>2, <2>3 DEF DoingInv
  <2>5. SameCall(x, y)
    BY <1>1, <2>3 DEF SameCall, Gone
  <2> QED
    BY <1>1, <1>3, <2>2, <2>3, <2>4, <2>5, MoveStep
<1> QED
  BY <1>5, <1>6 DEF Dots

\* add_entry() reads the first block of the directory.
LEMMA AddEntryKeeps == ASSUME IInv, NEW t \in Tasks, AddEntry(t) PROVE IInv'
<1> DEFINE x == k[t]
           y == k'[t]
<1> USE DEF Suits, Place0, Mapping, Searching, NoCall, WalkPlaces, OpenPlaces, AddPlaces,
            HasDir, HasIno, HasOld, Second, If
<1>1. /\ TasksInv /\ DoingInv(x) /\ DOMAIN k = Tasks /\ DOMAIN x = Fields /\ At(t, "addentry")
      /\ x.pc = "addentry" /\ x.io = "none" /\ x.puts = <<>>
  BY AtIs DEF AddEntry
<1>2. UNCHANGED nvars /\ Marks
  BY Unmarked DEF AddEntry, FilesStay, DiskStays
<1>3. /\ Only(t) /\ DOMAIN y = Fields
      /\ y.pc = "add" /\ y.dir = x.dir /\ y.ino = x.ino /\ y.old = x.old /\ y.puts = <<>>
      /\ y.op = x.op /\ y.more = x.more /\ y.empty = x.empty /\ y.io = x.io
      /\ y.n = 0 /\ y.fd = x.fd
  BY <1>1 DEF AddEntry, Sleep, Changed, Only, Fields
<1>4. DoingInv(y)
  BY <1>1, <1>3 DEF DoingInv
<1>5. SameCall(x, y)
  BY <1>1, <1>3 DEF SameCall, Gone
<1> QED
  BY <1>1, <1>2, <1>3, <1>4, <1>5, MoveStep

\* It goes on to the next block.
LEMMA AddNextKeeps == ASSUME IInv, NEW t \in Tasks, AddNext(t) PROVE IInv'
<1>1. UNCHANGED nvars /\ Marks
  BY Unmarked DEF AddNext, FilesStay, DiskStays
<1> QED
  BY <1>1, NextBlockIs DEF AddNext

\* link() counts the new entry.
LEMMA LinkedKeeps == ASSUME IInv, NEW t \in Tasks, Linked(t) PROVE IInv'
<1> DEFINE x == k[t]
           q == <<x.old>>
<1> USE DEF Suits, Place0, Mapping, Searching, NoCall, WalkPlaces, OpenPlaces, AddPlaces,
            HasDir, HasIno, HasOld, Second, If
<1>1. /\ TasksInv /\ DoingInv(x) /\ DOMAIN k = Tasks /\ DOMAIN x = Fields /\ At(t, "linked")
      /\ x.pc = "linked" /\ x.io = "none" /\ x.puts = <<>>
  BY AtIs DEF Linked
<1>2. x.dir = 0 /\ x.ino = 0 /\ x.empty = 0 /\ x.old \in Slots /\ x.op = "link"
  BY <1>1 DEF DoingInv
<1>3. /\ UNCHANGED nvars /\ UNCHANGED <<disk, blks, last_inode>> /\ Finish(t, q)
      /\ table' = [table EXCEPT ![x.old].nlinks = @ + 1, ![x.old].dirt = TRUE]
  BY DEF Linked, FilesStay
<1>4. /\ table[x.old].num \in Inums /\ table[x.old].count >= 1
      /\ RecInv(table[x.old]) /\ DOMAIN table = Slots /\ DataInv
  BY <1>2, HadIsNumbered DEF Has, IInv, TableInv
<1>5. Marks
  <2>1. (DOMAIN table)' = Slots /\ \A z \in Slots \ {x.old} : table'[z] = table[z]
    BY <1>3, <1>4
  <2>2. /\ DOMAIN table'[x.old] = DOMAIN table[x.old]
        /\ table'[x.old].num = table[x.old].num /\ table'[x.old].count = table[x.old].count
        /\ table'[x.old].dirt = TRUE /\ table'[x.old].lock = table[x.old].lock
    BY <1>2, <1>3, <1>4 DEF RecInv
  <2>3. table'[x.old].dirt \in BOOLEAN /\ table'[x.old].lock \in BOOLEAN
    BY <1>4, <2>2 DEF RecInv
  <2>4. DataInv'
    BY <1>3, <1>4 DEF DataInv
  <2> QED
    BY <1>2, <1>4, <2>1, <2>2, <2>3, <2>4, MarkUsed
<1>6. q \in Seq(Slots) /\ Len(q) <= 3
  BY <1>2, PutsIs
<1>7. \A s \in Slots : Waiting(q, s) = One(x.dir, s) + One(x.ino, s) + One(x.old, s)
  <2> TAKE s \in Slots
  <2>1. Waiting(q, s) = One(x.old, s)
    BY <1>2, PutsIs
  <2> QED
    BY <1>2, <2>1 DEF One, Slots
<1> HIDE DEF q
<1> QED
  BY <1>1, <1>2, <1>3, <1>5, <1>6, <1>7, FinishStep

\* open_namei() has the inode.
LEMMA OpenedKeeps == ASSUME IInv, NEW t \in Tasks, Opened(t) PROVE IInv'
<1> DEFINE x == k[t]
           y == k'[t]
           q == <<x.ino>>
<1> USE DEF Suits, Place0, Mapping, Searching, NoCall, WalkPlaces, OpenPlaces, AddPlaces,
            HasDir, HasIno, HasOld, Second, If
<1>1. /\ TasksInv /\ DoingInv(x) /\ DOMAIN k = Tasks /\ DOMAIN x = Fields /\ At(t, "opened")
      /\ x.pc = "opened" /\ x.io = "none" /\ x.puts = <<>>
  BY AtIs DEF Opened
<1>2. x.dir = 0 /\ x.ino \in Slots /\ x.empty = 0 /\ x.old = 0 /\ x.op = "open"
  BY <1>1 DEF DoingInv
<1>3. UNCHANGED nvars /\ Marks
  BY Unmarked DEF Opened, FilesStay, DiskStays
<1>4. CASE Finish(t, q)
  <2>1. q \in Seq(Slots) /\ Len(q) <= 3
    BY <1>2, PutsIs
  <2>2. \A s \in Slots : Waiting(q, s) = One(x.dir, s) + One(x.ino, s) + One(x.old, s)
    <3> TAKE s \in Slots
    <3>1. Waiting(q, s) = One(x.ino, s)
      BY <1>2, PutsIs
    <3> QED
      BY <1>2, <3>1 DEF One, Slots
  <2> HIDE DEF q
  <2> QED
    BY <1>1, <1>2, <1>3, <1>4, <2>1, <2>2, FinishStep
<1>5. ASSUME NEW p \in {"truncate", "install"}, Go(t, [pc |-> p])
      PROVE  IInv'
  <2>1. /\ Only(t) /\ DOMAIN y = Fields
        /\ y.pc = p /\ y.dir = x.dir /\ y.ino = x.ino /\ y.old = x.old /\ y.puts = <<>>
        /\ y.op = x.op /\ y.more = x.more /\ y.empty = x.empty /\ y.io = x.io
        /\ y.n = x.n /\ y.fd = x.fd
    BY <1>1, <1>5 DEF Go, Changed, Only, Fields
  <2>2. DoingInv(y)
    <3>1. CASE p = "truncate"
      BY <1>1, <1>2, <2>1, <3>1 DEF DoingInv
    <3>2. CASE p = "install"
      BY <1>1, <1>2, <2>1, <3>2 DEF DoingInv
    <3> QED
      BY <3>1, <3>2
  <2>3. SameCall(x, y)
    BY <1>1, <1>2, <1>5, <2>1 DEF SameCall, Gone
  <2> QED
    BY <1>1, <1>3, <2>1, <2>2, <2>3, MoveStep
<1> QED
  BY <1>4, <1>5 DEF Opened

\* The end of a call that has two inodes.
LEMMA FinishTwo ==
    ASSUME IInv, NEW t \in Tasks, NEW p, At(t, p), UNCHANGED nvars, Marks,
           p \notin {"search", "dead"}, k[t].op # "exit",
           NEW a \in Slots, NEW b \in Slots, Finish(t, <<a, b>>),
           \A s \in Slots : One(a, s) + One(b, s)
                              = One(k[t].dir, s) + One(k[t].ino, s) + One(k[t].old, s)
    PROVE  IInv'
<1> DEFINE q == <<a, b>>
<1>1. q \in Seq(Slots) /\ Len(q) <= 3
  BY PutsIs
<1>2. \A s \in Slots :
        Waiting(q, s) = One(k[t].dir, s) + One(k[t].ino, s) + One(k[t].old, s)
  BY PutsIs
<1> HIDE DEF q
<1> QED
  BY <1>1, <1>2, FinishStep DEF q

\* add_entry() has found room for the entry.
LEMMA EntryAddedKeeps == ASSUME IInv, NEW t \in Tasks, EntryAdded(t) PROVE IInv'
<1> DEFINE x == k[t]
           y == k'[t]
           i == Min(Room(t))
           a == IF x.op = "link" THEN x.old ELSE x.ino
<1> USE DEF Suits, Place0, Mapping, Searching, NoCall, WalkPlaces, OpenPlaces, AddPlaces,
            HasDir, HasIno, HasOld, Second, If
<1>1. /\ TasksInv /\ DoingInv(x) /\ DOMAIN k = Tasks /\ DOMAIN x = Fields /\ At(t, "add")
      /\ x.pc = "add" /\ x.io = "none" /\ x.puts = <<>>
  BY AtIs DEF EntryAdded
<1>2. /\ x.dir \in Slots /\ x.empty = 0 /\ a \in Slots /\ x.n \in Nat
      /\ x.op \in {"open", "mknod", "mkdir", "link"}
      /\ IF x.op = "link" THEN x.more = <<>> /\ x.ino = 0 ELSE x.old = 0
  BY <1>1 DEF DoingInv
<1>3. /\ UNCHANGED nvars /\ UNCHANGED <<disk, last_inode>>
      /\ blks' = [blks EXCEPT ![x.blk][i - x.n + 1] = <<Head(x.path), table[a].num>>]
      /\ table' = [table EXCEPT ![x.dir] = Grown(t, i)]
      /\ IF x.op \in {"open", "link"}
         THEN Go(t, [puts |-> <<x.dir>>, dir |-> 0,
                     pc |-> IF x.op = "open" THEN "install" ELSE "linked"])
         ELSE Finish(t, <<x.dir, a>>)
  BY DEF EntryAdded, FilesStay
<1> HIDE DEF i, a
<1>4. /\ table[x.dir].num \in Inums /\ table[x.dir].count >= 1
      /\ RecInv(table[x.dir]) /\ RecInv(table[a]) /\ DOMAIN table = Slots
  BY <1>2, HadIsNumbered DEF Has, IInv, TableInv
<1>5. Marks
  <2>1. (DOMAIN table)' = Slots /\ \A z \in Slots \ {x.dir} : table'[z] = table[z]
    BY <1>3, <1>4
  <2>2. /\ DOMAIN table'[x.dir] = DOMAIN table[x.dir]
        /\ table'[x.dir].num = table[x.dir].num /\ table'[x.dir].count = table[x.dir].count
        /\ table'[x.dir].dirt = (table[x.dir].dirt \/ i >= table[x.dir].size \/ x.op = "mkdir")
        /\ table'[x.dir].lock = table[x.dir].lock
    BY <1>2, <1>3, <1>4 DEF RecInv, Grown
  <2>3. table'[x.dir].dirt \in BOOLEAN /\ table'[x.dir].lock \in BOOLEAN
    BY <1>4, <2>2 DEF RecInv
  <2>4. NumberOf(<<Head(x.path), table[a].num>>) \in 0 .. NInodes
    BY <1>4 DEF NumberOf, RecInv
  <2>5. DataInv'
    BY <1>3, <2>4, EntryChanges
  <2> QED
    BY <1>2, <1>4, <2>1, <2>2, <2>3, <2>5, MarkUsed
<1>6. ASSUME NEW p \in {"install", "linked"}, x.op = IF p = "install" THEN "open" ELSE "link",
             Go(t, [puts |-> <<x.dir>>, dir |-> 0, pc |-> p])
      PROVE  IInv'
  <2>1. /\ Only(t) /\ DOMAIN y = Fields
        /\ y.pc = p /\ y.dir = 0 /\ y.ino = x.ino /\ y.old = x.old /\ y.puts = <<x.dir>>
        /\ y.op = x.op /\ y.more = x.more /\ y.empty = x.empty /\ y.io = x.io
        /\ y.n = x.n /\ y.fd = x.fd
    BY <1>1, <1>6 DEF Go, Changed, Only, Fields
  <2>2. <<x.dir>> \in Seq(Slots) /\ Len(<<x.dir>>) <= 3 /\ <<x.dir>> # <<>>
    BY <1>2, PutsIs
  <2>3. DoingInv(y)
    <3>1. CASE p = "install"
      BY <1>1, <1>2, <1>6, <2>1, <2>2, <3>1 DEF DoingInv
    <3>2. CASE p = "linked"
      BY <1>1, <1>2, <1>6, <2>1, <2>2, <3>2 DEF DoingInv
    <3> QED
      BY <3>1, <3>2
  <2>4. SameCall(x, y)
    BY <1>1, <1>6, <2>1 DEF SameCall, Gone
  <2>5. \A s \in Slots : One(y.dir, s) + One(y.ino, s) + One(y.old, s) + One(x.dir, s)
                           = One(x.dir, s) + One(x.ino, s) + One(x.old, s)
    BY <2>1 DEF One, Slots
  <2> QED
    BY <1>1, <1>2, <1>3, <1>5, <2>1, <2>3, <2>4, <2>5, PutStep
<1>7. CASE x.op \in {"mknod", "mkdir"} /\ Finish(t, <<x.dir, a>>)
  <2>1. \A s \in Slots : One(x.dir, s) + One(a, s) = One(x.dir, s) + One(x.ino, s) + One(x.old, s)
    BY <1>2, <1>7 DEF One, Slots, a
  <2> QED
    BY <1>1, <1>2, <1>3, <1>5, <1>7, <2>1, FinishTwo
<1> QED
  BY <1>2, <1>3, <1>6, <1>7

\* There is no block for the entry.
LEMMA AddFailsKeeps == ASSUME IInv, NEW t \in Tasks, AddFails(t) PROVE IInv'
<1> DEFINE x == k[t]
<1> USE DEF Suits, Place0, Mapping, Searching, NoCall, WalkPlaces, OpenPlaces, AddPlaces,
            HasDir, HasIno, HasOld, Second, If
<1>1. PICK p \in AddPlaces : At(t, p)
  BY DEF AddFails
<1>2. /\ TasksInv /\ DoingInv(x) /\ DOMAIN k = Tasks /\ DOMAIN x = Fields
      /\ x.pc = p /\ x.io = "none" /\ x.puts = <<>>
  BY <1>1, AtIs
<1>3. /\ x.dir \in Slots /\ x.empty = 0 /\ x.n \in Nat
      /\ x.op \in {"open", "mknod", "mkdir", "link"}
      /\ IF x.op = "link" THEN x.ino = 0 /\ x.old \in Slots ELSE x.ino \in Slots /\ x.old = 0
  BY <1>1, <1>2 DEF DoingInv
<1>4. /\ UNCHANGED nvars /\ UNCHANGED <<disk, blks, last_inode>>
      /\ table' = IF x.op = "open" THEN [table EXCEPT ![x.ino].nlinks = 0] ELSE table
      /\ x.op = "open" => Finish(t, <<x.ino, x.dir>>)
      /\ x.op = "link" => Finish(t, <<x.dir, x.old>>)
      /\ x.op \in {"mknod", "mkdir"} => GiveUp(t)
  BY DEF AddFails, FilesStay
<1>5. DataInv'
  BY <1>4 DEF IInv, DataInv
<1>6. DOMAIN table = Slots /\ \A z \in Slots : RecInv(table[z])
  BY DEF IInv, TableInv
<1>7. Marks
  <2>1. (DOMAIN table)' = Slots /\ \A z \in Slots \ {x.ino} : table'[z] = table[z]
    BY <1>4, <1>6
  <2>2. x.ino \in Slots => Marked(table[x.ino], table'[x.ino])
    BY <1>4, <1>6 DEF Marked, RecInv
  <2> QED
    BY <1>5, <2>1, <2>2, MarkOne
<1>8. CASE x.op = "open"
  <2>1. \A s \in Slots : One(x.ino, s) + One(x.dir, s) = One(x.dir, s) + One(x.ino, s) + One(x.old, s)
    BY <1>3, <1>8 DEF One, Slots
  <2>2. Finish(t, <<x.ino, x.dir>>)
    BY <1>4, <1>8
  <2> QED
    BY <1>1, <1>3, <1>4, <1>7, <1>8, <2>1, <2>2, FinishTwo
<1>9. CASE x.op = "link"
  <2>1. \A s \in Slots : One(x.dir, s) + One(x.old, s) = One(x.dir, s) + One(x.ino, s) + One(x.old, s)
    BY <1>3, <1>9 DEF One, Slots
  <2> QED
    BY <1>1, <1>3, <1>4, <1>7, <1>9, <2>1, FinishTwo
<1>10. CASE x.op \in {"mknod", "mkdir"}
  BY <1>1, <1>4, <1>7, <1>10, GiveUpKeeps
<1> QED
  BY <1>3, <1>8, <1>9, <1>10

\* What truncate() does to the table.
LEMMA TruncateMarks ==
    ASSUME IInv, NEW t, NEW s \in Slots, NEW then, TruncateStep(t, s, then),
           table[s].num \in Inums, table[s].count >= 1
    PROVE  Marks /\ (UNCHANGED k \/ Go(t, then))
<1>1. RecInv(table[s]) /\ DOMAIN table = Slots
  BY DEF IInv, TableInv
<1>2. UNCHANGED <<disk, blks, last_inode>>
  BY DEF TruncateStep, panic
<1>3. DataInv'
  BY <1>2 DEF IInv, DataInv
<1>4. ASSUME table' = table PROVE Marks
  BY <1>2, <1>4, Unmarked
<1>5. CASE table' = [table EXCEPT ![s].zone[1] = 0]
  <2>1. (DOMAIN table)' = Slots /\ \A z \in Slots \ {s} : table'[z] = table[z]
    BY <1>1, <1>5
  <2>2. Marked(table[s], table'[s])
    BY <1>1, <1>5 DEF Marked, RecInv
  <2>3. Marks
    BY <1>3, <2>1, <2>2, MarkOne
  <2> QED
    BY <1>2, <1>5, <2>3 DEF TruncateStep, panic
<1>6. CASE table' = [table EXCEPT ![s].zone = NoZones, ![s].size = 0, ![s].dirt = TRUE]
  <2>1. (DOMAIN table)' = Slots /\ \A z \in Slots \ {s} : table'[z] = table[z]
    BY <1>1, <1>6
  <2>2. /\ DOMAIN table'[s] = DOMAIN table[s]
        /\ table'[s].num = table[s].num /\ table'[s].count = table[s].count
        /\ table'[s].dirt = TRUE /\ table'[s].lock = table[s].lock
    BY <1>1, <1>6 DEF RecInv
  <2>3. table'[s].dirt \in BOOLEAN /\ table'[s].lock \in BOOLEAN
    BY <1>1, <2>2 DEF RecInv
  <2>4. Marks
    BY <1>3, <2>1, <2>2, <2>3, MarkUsed
  <2> QED
    BY <1>2, <1>6, <2>4 DEF TruncateStep, panic
<1> QED
  BY <1>2, <1>4, <1>5, <1>6 DEF TruncateStep, panic

\* A step that marks slots and leaves the tasks alone keeps the invariant.
LEMMA MarksKeep ==
    ASSUME IInv, NEW t \in Tasks, UNCHANGED nvars, UNCHANGED k, Marks
    PROVE  IInv'
<1>1. Only(t) /\ DoingInv(k'[t]) /\ SameCall(k[t], k'[t])
  BY DEF IInv, TasksInv, Only, SameCall
<1> QED
  BY <1>1, MarkStep

\* open() truncates the file.
LEMMA OpenTruncatesKeeps == ASSUME IInv, NEW t \in Tasks, OpenTruncates(t) PROVE IInv'
<1> DEFINE x == k[t]
           y == k'[t]
<1> USE DEF Suits, Place0, Mapping, Searching, NoCall, WalkPlaces, OpenPlaces, AddPlaces,
            HasDir, HasIno, HasOld, Second, If
<1>1. /\ TasksInv /\ DoingInv(x) /\ DOMAIN k = Tasks /\ DOMAIN x = Fields /\ At(t, "truncate")
      /\ x.pc = "truncate" /\ x.io = "none" /\ x.puts = <<>>
  BY AtIs DEF OpenTruncates
<1>2. x.ino \in Slots /\ x.op = "open"
  BY <1>1 DEF DoingInv
<1>3. table[x.ino].num \in Inums /\ table[x.ino].count >= 1
  BY <1>2, HadIsNumbered DEF Has
<1>4. UNCHANGED nvars /\ TruncateStep(t, x.ino, [pc |-> "install"])
  BY DEF OpenTruncates, FilesStay
<1>5. Marks /\ (UNCHANGED k \/ Go(t, [pc |-> "install"]))
  BY <1>2, <1>3, <1>4, TruncateMarks
<1>6. CASE UNCHANGED k
  BY <1>4, <1>5, <1>6, MarksKeep
<1>7. CASE Go(t, [pc |-> "install"])
  <2>1. /\ Only(t) /\ DOMAIN y = Fields
        /\ y.pc = "install" /\ y.dir = x.dir /\ y.ino = x.ino /\ y.old = x.old /\ y.puts = <<>>
        /\ y.op = x.op /\ y.more = x.more /\ y.empty = x.empty /\ y.io = x.io
        /\ y.n = x.n /\ y.fd = x.fd
    BY <1>1, <1>7 DEF Go, Changed, Only, Fields
  <2>2. DoingInv(y)
    BY <1>1, <1>2, <2>1 DEF DoingInv
  <2>3. SameCall(x, y)
    BY <1>1, <1>2, <2>1 DEF SameCall, Gone
  <2> QED
    BY <1>1, <1>4, <1>5, <2>1, <2>2, <2>3, MoveStep
<1> QED
  BY <1>5, <1>6, <1>7

\* rmdir() and unlink() have the inode.
LEMMA VictimKeeps == ASSUME IInv, NEW t \in Tasks, Victim(t) PROVE IInv'
<1> DEFINE x == k[t]
           y == k'[t]
<1> USE DEF Suits, Place0, Mapping, Searching, NoCall, WalkPlaces, OpenPlaces, AddPlaces,
            HasDir, HasIno, HasOld, Second, If
<1>1. /\ TasksInv /\ DoingInv(x) /\ DOMAIN k = Tasks /\ DOMAIN x = Fields /\ At(t, "victim")
      /\ x.pc = "victim" /\ x.io = "none" /\ x.puts = <<>>
  BY AtIs DEF Victim
<1>2. /\ x.dir \in Slots /\ x.ino \in Slots /\ x.empty = 0 /\ x.old = 0
      /\ x.op \in {"rmdir", "unlink"}
  BY <1>1 DEF DoingInv
<1>3. UNCHANGED nvars /\ UNCHANGED <<disk, last_inode>>
  BY DEF Victim, FilesStay
<1>4. \A s \in Slots :
        /\ One(x.dir, s) + One(x.ino, s) = One(x.dir, s) + One(x.ino, s) + One(x.old, s)
        /\ One(x.ino, s) + One(x.dir, s) = One(x.dir, s) + One(x.ino, s) + One(x.old, s)
  BY <1>2 DEF One, Slots
<1>5. CASE Unlinked(t)
  <2>1. /\ blks' = [blks EXCEPT ![x.ent[1]][x.ent[2]] = <<@[1], 0>>]
        /\ table' = [table EXCEPT ![x.ino].nlinks = (IF @ = 0 THEN 1 ELSE @) - 1,
                                  ![x.ino].dirt = TRUE]
        /\ Finish(t, <<x.ino, x.dir>>)
    BY <1>5 DEF Unlinked
  <2>2. /\ table[x.ino].num \in Inums /\ table[x.ino].count >= 1
        /\ RecInv(table[x.ino]) /\ DOMAIN table = Slots
    BY <1>2, HadIsNumbered DEF Has, IInv, TableInv
  <2>3. (DOMAIN table)' = Slots /\ \A z \in Slots \ {x.ino} : table'[z] = table[z]
    BY <2>1, <2>2
  <2>4. /\ DOMAIN table'[x.ino] = DOMAIN table[x.ino]
        /\ table'[x.ino].num = table[x.ino].num /\ table'[x.ino].count = table[x.ino].count
        /\ table'[x.ino].dirt = TRUE /\ table'[x.ino].lock = table[x.ino].lock
    BY <1>2, <2>1, <2>2 DEF RecInv
  <2>5. table'[x.ino].dirt \in BOOLEAN /\ table'[x.ino].lock \in BOOLEAN
    BY <2>2, <2>4 DEF RecInv
  <2>6. DataInv'
    <3> DEFINE e == <<blks[x.ent[1]][x.ent[2]][1], 0>>
    <3>1. NumberOf(e) \in 0 .. NInodes
      BY TableAssumption DEF NumberOf
    <3>2. blks' = [blks EXCEPT ![x.ent[1]][x.ent[2]] = e]
      BY <2>1
    <3> HIDE DEF e
    <3> QED
      BY <1>3, <3>1, <3>2, EntryChanges
  <2>7. Marks
    BY <1>2, <2>2, <2>3, <2>4, <2>5, <2>6, MarkUsed
  <2> QED
    BY <1>1, <1>2, <1>3, <1>4, <2>1, <2>7, FinishTwo
<1>6. CASE UNCHANGED <<table, blks>>
  <2>1. Marks
    BY <1>3, <1>6, Unmarked
  <2>2. CASE Finish(t, <<x.dir, x.ino>>)
    BY <1>1, <1>2, <1>3, <1>4, <2>1, <2>2, FinishTwo
  <2>3. CASE Finish(t, <<x.ino, x.dir>>)
    BY <1>1, <1>2, <1>3, <1>4, <2>1, <2>3, FinishTwo
  <2>4. CASE /\ Sleep(t, [n |-> 0, lim |-> table[x.ino].size, blk |-> table[x.ino].zone[1],
                          pc |-> "empty"])
             /\ x.op = "rmdir"
    <3>1. /\ Only(t) /\ DOMAIN y = Fields
          /\ y.pc = "empty" /\ y.dir = x.dir /\ y.ino = x.ino /\ y.old = x.old /\ y.puts = <<>>
          /\ y.op = x.op /\ y.more = x.more /\ y.empty = x.empty /\ y.io = x.io
          /\ y.n = 0 /\ y.fd = x.fd
      BY <1>1, <2>4 DEF Sleep, Changed, Only, Fields
    <3>2. DoingInv(y)
      BY <1>1, <1>2, <2>4, <3>1 DEF DoingInv
    <3>3. SameCall(x, y)
      BY <1>1, <3>1 DEF SameCall, Gone
    <3> QED
      BY <1>1, <1>3, <2>1, <3>1, <3>2, <3>3, MoveStep
  <2> QED
    BY <1>5, <1>6, <2>2, <2>3, <2>4 DEF Victim
<1> QED
  BY <1>5, <1>6 DEF Victim

\* empty_dir() and the removal of a directory.
LEMMA EmptyDirKeeps == ASSUME IInv, NEW t \in Tasks, EmptyDir(t) PROVE IInv'
<1> DEFINE x == k[t]
<1> USE DEF Suits, Place0, Mapping, Searching, NoCall, WalkPlaces, OpenPlaces, AddPlaces,
            HasDir, HasIno, HasOld, Second, If
<1>1. /\ TasksInv /\ DoingInv(x) /\ DOMAIN k = Tasks /\ DOMAIN x = Fields /\ At(t, "empty")
      /\ x.pc = "empty" /\ x.io = "none" /\ x.puts = <<>>
  BY AtIs DEF EmptyDir
<1>2. /\ x.dir \in Slots /\ x.ino \in Slots /\ x.empty = 0 /\ x.old = 0 /\ x.op = "rmdir"
  BY <1>1 DEF DoingInv
<1>3. UNCHANGED nvars /\ UNCHANGED <<disk, last_inode>>
  BY DEF EmptyDir, FilesStay
<1>4. \A s \in Slots :
        /\ One(x.dir, s) + One(x.ino, s) = One(x.dir, s) + One(x.ino, s) + One(x.old, s)
        /\ One(x.ino, s) + One(x.dir, s) = One(x.dir, s) + One(x.ino, s) + One(x.old, s)
  BY <1>2 DEF One, Slots
<1>5. CASE UNCHANGED <<table, blks>> /\ (Finish(t, <<x.ino, x.dir>>) \/ NextBlock(t, x.ino))
  <2>1. Marks
    BY <1>3, <1>5, Unmarked
  <2>2. CASE Finish(t, <<x.ino, x.dir>>)
    BY <1>1, <1>2, <1>3, <1>4, <2>1, <2>2, FinishTwo
  <2>3. CASE NextBlock(t, x.ino)
    BY <1>1, <1>3, <2>1, <2>3, NextBlockIs
  <2> QED
    BY <1>5, <2>2, <2>3
<1>6. CASE /\ blks' = [blks EXCEPT ![x.ent[1]][x.ent[2]] = <<@[1], 0>>]
           /\ table' = [table EXCEPT ![x.ino].nlinks = 0, ![x.ino].dirt = TRUE,
                                     ![x.dir].nlinks = @ - 1, ![x.dir].dirt = TRUE]
           /\ Finish(t, <<x.dir, x.ino>>)
  <2>1. /\ \A s \in {x.ino, x.dir} : /\ table[s].num \in Inums /\ table[s].count >= 1
                                     /\ RecInv(table[s])
        /\ DOMAIN table = Slots
    BY <1>2, HadIsNumbered DEF Has, IInv, TableInv
  <2>2. (DOMAIN table)' = Slots /\ \A z \in Slots \ {x.ino, x.dir} : table'[z] = table[z]
    BY <1>6, <2>1
  <2>3. \A s \in {x.ino, x.dir} :
          /\ DOMAIN table'[s] = DOMAIN table[s]
          /\ table'[s].num = table[s].num /\ table'[s].count = table[s].count
          /\ table'[s].dirt = TRUE /\ table'[s].lock = table[s].lock
    BY <1>2, <1>6, <2>1 DEF RecInv
  <2>4. \A s \in {x.ino, x.dir} :
          /\ table'[s].dirt \in BOOLEAN /\ table'[s].lock \in BOOLEAN
          /\ table[s].num # 0 /\ table[s].count # 0
    <3> SUFFICES ASSUME NEW s \in {x.ino, x.dir}
                 PROVE  /\ table'[s].dirt \in BOOLEAN /\ table'[s].lock \in BOOLEAN
                        /\ table[s].num # 0 /\ table[s].count # 0
      OBVIOUS
    <3>1. RecInv(table[s]) /\ table[s].num \in Inums /\ table[s].count >= 1
      BY <2>1
    <3>2. table[s].num # 0
      BY <3>1, TableAssumption DEF Inums
    <3>3. table[s].count # 0
      BY <3>1 DEF RecInv
    <3>4. table'[s].dirt \in BOOLEAN
      BY <2>3
    <3>5. table'[s].lock \in BOOLEAN
      BY <2>3, <3>1 DEF RecInv
    <3> QED
      BY <3>2, <3>3, <3>4, <3>5
  <2>5. DataInv'
    <3> DEFINE e == <<blks[x.ent[1]][x.ent[2]][1], 0>>
    <3>1. NumberOf(e) \in 0 .. NInodes
      BY TableAssumption DEF NumberOf
    <3>2. blks' = [blks EXCEPT ![x.ent[1]][x.ent[2]] = e]
      BY <1>6
    <3> HIDE DEF e
    <3> QED
      BY <1>3, <3>1, <3>2, EntryChanges
  <2>6. Marks
    <3>1. \A z \in Slots : RecInv(table[z])
      BY DEF IInv, TableInv
    <3>2. \A s \in {x.ino, x.dir} : Marked(table[s], table'[s])
      BY <2>3, <2>4 DEF Marked
    <3>3. \A z \in Slots \ {x.ino, x.dir} : Marked(table[z], table'[z])
      BY <2>2, <3>1 DEF Marked, RecInv
    <3> QED
      BY <2>2, <2>5, <3>2, <3>3 DEF Marks
  <2> QED
    BY <1>1, <1>2, <1>3, <1>4, <1>6, <2>6, FinishTwo
<1> QED
  BY <1>5, <1>6 DEF EmptyDir

-----------------------------------------------------------------------------
\* write_inode() leaves the slot clean.
LEMMA WrittenMarks ==
    ASSUME IInv, NEW t, NEW s, NEW r, InodeWritten(t, s, r)
    PROVE  Marks /\ Go(t, r)
<1>1. /\ disk' = [disk EXCEPT ![table[s].num] = OnDisk(table[s])]
      /\ table' = [table EXCEPT ![s].dirt = FALSE, ![s].lock = FALSE]
      /\ UNCHANGED <<blks, last_inode>> /\ Go(t, r)
  BY DEF InodeWritten
<1>2. DOMAIN table = Slots /\ DataInv /\ \A z \in Slots : RecInv(table[z])
  BY DEF IInv, TableInv
<1>3. DataInv'
  BY <1>1, <1>2 DEF DataInv, OnDisk
<1>4. (DOMAIN table)' = Slots /\ \A z \in Slots \ {s} : table'[z] = table[z]
  BY <1>1, <1>2
<1>5. ASSUME s \in Slots PROVE Marked(table[s], table'[s])
  <2>1. /\ DOMAIN table'[s] = DOMAIN table[s]
        /\ table'[s].num = table[s].num /\ table'[s].count = table[s].count
        /\ table'[s].dirt = FALSE /\ table'[s].lock = FALSE
    BY <1>1, <1>2, <1>5 DEF RecInv
  <2>2. table'[s].dirt \in BOOLEAN /\ table'[s].lock \in BOOLEAN
    BY <2>1
  <2> QED
    BY <2>1, <2>2 DEF Marked
<1> QED
  BY <1>1, <1>3, <1>4, <1>5, MarkOne

\* write_inode() locks the slot of an inode that is in use.
LEMMA LockedMarks ==
    ASSUME IInv, NEW t, NEW s, NEW r, WriteInode(t, s, r),
           s \in Slots => table[s].num # 0 /\ table[s].count # 0
    PROVE  Marks /\ Sleep(t, r)
<1>1. /\ table' = [table EXCEPT ![s].lock = TRUE]
      /\ UNCHANGED <<disk, blks, last_inode>> /\ Sleep(t, r)
  BY DEF WriteInode
<1>2. DOMAIN table = Slots /\ DataInv /\ \A z \in Slots : RecInv(table[z])
  BY DEF IInv, TableInv
<1>3. DataInv'
  BY <1>1, <1>2 DEF DataInv
<1>4. (DOMAIN table)' = Slots /\ \A z \in Slots \ {s} : table'[z] = table[z]
  BY <1>1, <1>2
<1>5. ASSUME s \in Slots PROVE Marked(table[s], table'[s])
  <2>1. /\ DOMAIN table'[s] = DOMAIN table[s]
        /\ table'[s].num = table[s].num /\ table'[s].count = table[s].count
        /\ table'[s].dirt = table[s].dirt /\ table'[s].lock = TRUE
    BY <1>1, <1>2, <1>5 DEF RecInv
  <2>2. table'[s].dirt \in BOOLEAN /\ table'[s].lock \in BOOLEAN
    BY <1>2, <1>5, <2>1 DEF RecInv
  <2> QED
    BY <1>5, <2>1, <2>2 DEF Marked
<1> QED
  BY <1>1, <1>3, <1>4, <1>5, MarkOne

\* sync_inodes() looks at a slot.
LEMMA SyncingKeeps == ASSUME IInv, NEW t \in Tasks, Syncing(t) PROVE IInv'
<1> DEFINE x == k[t]
           y == k'[t]
<1> USE DEF Suits, Place0, Mapping, Searching, NoCall, WalkPlaces, OpenPlaces, AddPlaces,
            HasDir, HasIno, HasOld, Second, If
<1>1. /\ TasksInv /\ DoingInv(x) /\ DOMAIN k = Tasks /\ DOMAIN x = Fields /\ At(t, "sync")
      /\ x.pc = "sync" /\ x.io = "none" /\ x.puts = <<>>
  BY AtIs DEF Syncing
<1>2. /\ x.dir = 0 /\ x.ino = 0 /\ x.empty = 0 /\ x.old = 0 /\ x.op = "none" /\ x.n \in Nat
  BY <1>1 DEF DoingInv
<1>3. UNCHANGED nvars
  BY DEF Syncing, FilesStay
<1>4. CASE Finish(t, <<>>) /\ DiskStays
  <2> DEFINE q == <<>>
  <2>1. q \in Seq(Slots) /\ Len(q) <= 3
    OBVIOUS
  <2>2. \A s \in Slots : Waiting(q, s) = One(x.dir, s) + One(x.ino, s) + One(x.old, s)
    BY <1>2 DEF Waiting, One, Slots
  <2>3. Marks
    BY <1>4, Unmarked DEF DiskStays
  <2> HIDE DEF q
  <2> QED
    BY <1>1, <1>2, <1>3, <1>4, <2>1, <2>2, <2>3, FinishStep DEF q
<1>5. ASSUME Marks, y.pc \in {"sync", "synced"}, Only(t), DOMAIN y = Fields, y.dir = x.dir,
             y.ino = x.ino, y.old = x.old, y.puts = <<>>, y.op = x.op, y.more = x.more,
             y.empty = x.empty, y.io = x.io, y.fd = x.fd, y.n \in Nat
      PROVE  IInv'
  <2>1. DoingInv(y)
    <3>1. CASE y.pc = "sync"
      BY <1>1, <1>2, <1>5, <3>1 DEF DoingInv
    <3>2. CASE y.pc = "synced"
      BY <1>1, <1>2, <1>5, <3>2 DEF DoingInv
    <3> QED
      BY <1>5, <3>1, <3>2
  <2>2. SameCall(x, y)
    BY <1>1, <1>2, <1>5 DEF SameCall, Gone
  <2> QED
    BY <1>1, <1>3, <1>5, <2>1, <2>2, MoveStep
<1>6. CASE table[x.n].dirt /\ WriteInode(t, x.n, [pc |-> "synced"])
  <2>1. x.n \in Slots => table[x.n].num # 0 /\ table[x.n].count # 0
    BY <1>6 DEF IInv, TableInv, RecInv
  <2>2. Marks /\ Sleep(t, [pc |-> "synced"])
    BY <1>6, <2>1, LockedMarks
  <2> QED
    BY <1>1, <1>2, <1>5, <2>2 DEF Sleep, Changed, Only, Fields
<1>7. CASE Go(t, [n |-> x.n + 1]) /\ DiskStays
  <2>1. Marks
    BY <1>7, Unmarked DEF DiskStays
  <2>2. x.n + 1 \in Nat
    BY <1>2
  <2> QED
    BY <1>1, <1>2, <1>5, <1>7, <2>1, <2>2 DEF Go, Changed, Only, Fields
<1> QED
  BY <1>4, <1>6, <1>7 DEF Syncing

\* sync_inodes() has written it.
LEMMA SyncedKeeps == ASSUME IInv, NEW t \in Tasks, Synced(t) PROVE IInv'
<1> DEFINE x == k[t]
           y == k'[t]
<1> USE DEF Suits, Place0, Mapping, Searching, NoCall, WalkPlaces, OpenPlaces, AddPlaces,
            HasDir, HasIno, HasOld, Second, If
<1>1. /\ TasksInv /\ DoingInv(x) /\ DOMAIN k = Tasks /\ DOMAIN x = Fields /\ At(t, "synced")
      /\ x.pc = "synced" /\ x.io = "none" /\ x.puts = <<>>
  BY AtIs DEF Synced
<1>2. /\ x.dir = 0 /\ x.ino = 0 /\ x.empty = 0 /\ x.old = 0 /\ x.op = "none" /\ x.n \in Nat
  BY <1>1 DEF DoingInv
<1>3. UNCHANGED nvars
  BY DEF Synced, FilesStay
<1>4. Marks /\ Go(t, [pc |-> "sync", n |-> x.n + 1])
  BY WrittenMarks DEF Synced
<1>5. /\ Only(t) /\ DOMAIN y = Fields
      /\ y.pc = "sync" /\ y.dir = x.dir /\ y.ino = x.ino /\ y.old = x.old /\ y.puts = <<>>
      /\ y.op = x.op /\ y.more = x.more /\ y.empty = x.empty /\ y.io = x.io
      /\ y.n = x.n + 1 /\ y.fd = x.fd
  BY <1>1, <1>4 DEF Go, Changed, Only, Fields
<1>6. DoingInv(y)
  BY <1>1, <1>2, <1>5 DEF DoingInv
<1>7. SameCall(x, y)
  BY <1>1, <1>2, <1>5 DEF SameCall, Gone
<1> QED
  BY <1>1, <1>3, <1>4, <1>5, <1>6, <1>7, MoveStep

\* The inode that write() works on is that of an open file.
LEMMA WritesOpen ==
    ASSUME IInv, NEW t \in Tasks, Place0(k[t]) = "wrote"
    PROVE  k[t].obj \in Slots /\ table[k[t].obj].num \in Inums /\ table[k[t].obj].count >= 1
<1>1. OpensInv(k[t], proc[t], file_table) /\ HavingInv(k[t], proc[t])
  BY DEF IInv, OpenInv, TasksInv
<1>2. k[t].op = "write"
  BY DEF IInv, TasksInv, DoingInv, Suits
<1>3. PICK fd \in Fds : proc[t].filp[fd] # 0 /\ file_table[proc[t].filp[fd]].inode = k[t].obj
  BY <1>1 DEF OpensInv
<1>4. k[t].obj # 0
  BY <1>1, <1>2, <1>3 DEF OpensInv, Reserved
<1>5. proc[t].filp[fd] \in Files
  BY <1>1, <1>3 DEF HavingInv
<1>6. k[t].obj \in Slots
  BY <1>3, <1>4, <1>5 DEF IInv, FilesInv
<1> QED
  BY <1>3, <1>5, <1>6, OpenIsNumbered

\* The end of write().
LEMMA WroteKeeps == ASSUME IInv, NEW t \in Tasks, Wrote(t) PROVE IInv'
<1> DEFINE x == k[t]
           q == <<>>
<1>1. /\ TasksInv /\ DoingInv(x) /\ DOMAIN k = Tasks /\ DOMAIN x = Fields /\ At(t, "wrote")
      /\ x.pc = "wrote" /\ x.io = "none" /\ x.puts = <<>>
  BY AtIs DEF Wrote
<1>2. x.dir = 0 /\ x.ino = 0 /\ x.empty = 0 /\ x.old = 0 /\ x.op = "write"
  BY <1>1 DEF DoingInv, Suits, Place0, Mapping, Searching, NoCall, WalkPlaces, OpenPlaces,
              AddPlaces, HasDir, HasIno, HasOld, Second, If
<1>3. /\ UNCHANGED nvars /\ UNCHANGED <<disk, blks, last_inode>> /\ Finish(t, q)
      /\ \/ table' = table
         \/ table' = [table EXCEPT ![x.obj].size = x.n + 1, ![x.obj].dirt = TRUE]
  BY DEF Wrote, FilesStay
<1>4. x.obj \in Slots /\ table[x.obj].num \in Inums /\ table[x.obj].count >= 1
  BY <1>1, WritesOpen DEF Place0, Mapping, Searching
<1>5. DOMAIN table = Slots /\ DataInv /\ RecInv(table[x.obj])
  BY <1>4 DEF IInv, TableInv
<1>6. Marks
  <2>1. CASE table' = table
    BY <1>3, <2>1, Unmarked
  <2>2. CASE table' = [table EXCEPT ![x.obj].size = x.n + 1, ![x.obj].dirt = TRUE]
    <3>1. (DOMAIN table)' = Slots /\ \A z \in Slots \ {x.obj} : table'[z] = table[z]
      BY <1>5, <2>2
    <3>2. /\ DOMAIN table'[x.obj] = DOMAIN table[x.obj]
          /\ table'[x.obj].num = table[x.obj].num /\ table'[x.obj].count = table[x.obj].count
          /\ table'[x.obj].dirt = TRUE /\ table'[x.obj].lock = table[x.obj].lock
      BY <1>4, <1>5, <2>2 DEF RecInv
    <3>3. table'[x.obj].dirt \in BOOLEAN /\ table'[x.obj].lock \in BOOLEAN
      BY <1>5, <3>2 DEF RecInv
    <3>4. DataInv'
      BY <1>3, <1>5 DEF DataInv
    <3> QED
      BY <1>4, <3>1, <3>2, <3>3, <3>4, MarkUsed
  <2> QED
    BY <1>3, <2>1, <2>2
<1>7. q \in Seq(Slots) /\ Len(q) <= 3
  OBVIOUS
<1>8. \A s \in Slots : Waiting(q, s) = One(x.dir, s) + One(x.ino, s) + One(x.old, s)
  BY <1>2 DEF Waiting, One, Slots
<1> HIDE DEF q
<1> QED
  BY <1>1, <1>2, <1>3, <1>6, <1>7, <1>8, FinishStep

-----------------------------------------------------------------------------
\* A task has the same inodes in hand, and others for good.
LEMMA LastingChanges ==
    ASSUME NEW x, NEW p, NEW q, x.puts \in Seq(Slots), NEW s
    PROVE  /\ Mine(x, q, s) + Lasting(p, s) = Mine(x, p, s) + Lasting(q, s)
           /\ Mine(x, p, s) \in Nat /\ Mine(x, q, s) \in Nat
           /\ Lasting(p, s) \in Nat /\ Lasting(q, s) \in Nat
<1>1. Waiting(x.puts, s) \in Nat
  BY WaitingNat
<1> QED
  BY <1>1 DEF Mine, Lasting, One

\* chdir(), chroot() and exec() have put an inode in the place of another.
Replaced(p, q, a, b) ==
    /\ DOMAIN q = DOMAIN p /\ q.filp = p.filp
    /\ \/ q.pwd = a /\ b = p.pwd /\ q.root = p.root /\ q.executable = p.executable
       \/ q.root = a /\ b = p.root /\ q.pwd = p.pwd /\ q.executable = p.executable
       \/ q.executable = a /\ b = p.executable /\ q.pwd = p.pwd /\ q.root = p.root

\* The inode that a name has led to is kept.
LEMMA KeptKeeps ==
    ASSUME IInv, NEW t \in Tasks, At(t, "named"), UNCHANGED <<file_table, use>>, Marks,
           DOMAIN proc' = Tasks, \A u \in Tasks \ {t} : proc'[u] = proc[u],
           NEW b, Replaced(proc[t], proc'[t], k[t].ino, b),
           Finish(t, IfAny(b)), k[t].old = 0
    PROVE  IInv'
<1> DEFINE x == k[t]
           y == k'[t]
           p == proc[t]
           r == proc'[t]
           q == IfAny(b)
<1> USE DEF Suits, Place0, Mapping, Searching, NoCall, WalkPlaces, OpenPlaces, AddPlaces,
            HasDir, HasIno, HasOld, Second, If
<1>1. /\ TasksInv /\ DoingInv(x) /\ DOMAIN k = Tasks /\ DOMAIN x = Fields
      /\ x.pc = "named" /\ x.io = "none" /\ x.puts = <<>> /\ HavingInv(x, p)
      /\ \A s \in Slots : /\ Mine(x, p, s) = One(x.dir, s) + One(x.ino, s)
                                + One(x.old, s) + One(x.empty, s) + Lasting(p, s)
                          /\ Lasting(p, s) \in Nat /\ One(0, s) = 0
  BY AtIs
<1>2. /\ x.dir = 0 /\ x.ino \in Slots /\ x.empty = 0 /\ x.old = 0
      /\ x.op \notin {"exit", "open", "none"}
  BY <1>1 DEF DoingInv
<1>3. ~ Gone(x) /\ b \in {0} \cup Slots
  BY <1>1, <1>2 DEF Gone, HavingInv, Replaced
<1>4. q \in Seq(Slots) /\ Len(q) <= 3 /\ \A s \in Slots : Waiting(q, s) = One(b, s)
  <2>1. CASE b = 0
    <3>1. q = <<>>
      BY <2>1 DEF IfAny
    <3> HIDE DEF q
    <3> QED
      BY <2>1, <3>1 DEF Waiting, One, Slots
  <2>2. CASE b \in Slots
    <3>1. q = <<b>>
      BY <2>2 DEF IfAny, Slots
    <3> HIDE DEF q
    <3> QED
      BY <2>2, <3>1, PutsIs
  <2> QED
    BY <1>3, <2>1, <2>2
<1> HIDE DEF q
<1>5. /\ Only(t) /\ DoingInv(y) /\ SameCall(x, y) /\ y.empty = x.empty
      /\ \A s \in Slots : Mine(y, p, s) = Lasting(p, s) + Waiting(q, s)
  BY <1>1, <1>2, <1>4, FinishIs DEF q
<1>6. HavingInv(y, r)
  BY <1>1, <1>2, <1>3, <1>5 DEF HavingInv, Replaced, SameCall
<1>7. ASSUME NEW s \in Slots PROVE Mine(x, p, s) = Mine(y, r, s)
  <2>1. y.puts \in Seq(Slots)
    BY <1>5 DEF DoingInv
  <2>2. /\ Mine(y, r, s) + Lasting(p, s) = Mine(y, p, s) + Lasting(r, s)
        /\ Mine(y, r, s) \in Nat /\ Mine(y, p, s) \in Nat
        /\ Lasting(p, s) \in Nat /\ Lasting(r, s) \in Nat
    BY ONLY <2>1, LastingChanges
  <2>3. Lasting(r, s) + One(b, s) = Lasting(p, s) + One(x.ino, s)
    BY DEF Replaced, Lasting, One
  <2>4. Mine(x, p, s) = One(x.ino, s) + Lasting(p, s)
    BY <1>1, <1>2 DEF One
  <2>5. Mine(y, p, s) = Lasting(p, s) + One(b, s)
    BY <1>4, <1>5
  <2>6. One(b, s) \in Nat /\ One(x.ino, s) \in Nat
    BY DEF One
  <2> HIDE DEF x, y, p, r
  <2> QED
    BY <2>2, <2>3, <2>4, <2>5, <2>6
<1>8. /\ TableInv' /\ DataInv' /\ \A s \in Slots : table'[s].count = table[s].count
      /\ \A s \in Slots : SlotStep(table[s], table'[s], Mine(x, p, s), s, x.empty, y.empty)
  BY <1>5, MarksSlots
<1>9. FilesInv' /\ UseInv'
  BY DEF IInv, FilesInv, UseInv
<1>10. \A u \in Tasks : proc'[u].filp = proc[u].filp
  BY DEF Replaced
<1>11. DescriptorsCounted'
  <2>1. \A f \in Files : {h \in Tasks \X Fds : proc'[h[1]].filp[h[2]] = f}
                           = {h \in Tasks \X Fds : proc[h[1]].filp[h[2]] = f}
    BY <1>10
  <2> QED
    BY <2>1 DEF IInv, CountIsReferences, DescriptorsCounted
<1>12. OpenInv'
  <2> SUFFICES ASSUME NEW u \in Tasks PROVE OpensInv(k'[u], proc'[u], file_table')
    BY DEF OpenInv
  <2>1. OpensInv(k[u], proc[u], file_table)
    BY DEF IInv, OpenInv
  <2>2. CASE u # t
    BY <1>5, <2>1, <2>2 DEF Only
  <2>3. CASE u = t
    BY <1>5, <1>10, <2>1, <2>3, SMTT(60) DEF OpensInv, SameCall, Reserved
  <2> QED
    BY <2>2, <2>3
<1>13. /\ (DOMAIN k)' = Tasks /\ (DOMAIN proc)' = Tasks
       /\ \A u \in Tasks \ {t} : k'[u] = k[u] /\ proc'[u] = proc[u]
  BY <1>5 DEF Only
<1>14. \A s \in Slots :
         table'[s].count + Mine(x, p, s) + FilesOn(file_table, s)
           = table[s].count + Mine(y, r, s) + FilesOn(file_table', s)
  BY <1>7, <1>8
<1> QED
  BY <1>5, <1>6, <1>8, <1>9, <1>11, <1>12, <1>13, <1>14, StepKeeps

\* One more user of a slot that is in use, and perhaps a mark on another: what
\* this leaves true of the table.
Joined(a, r, q, s) ==
    /\ DOMAIN q = DOMAIN r /\ q.num = r.num /\ q.count = r.count + One(a, s)
    /\ q.dirt \in BOOLEAN /\ q.lock \in BOOLEAN
    /\ r.num = 0 \/ r.count = 0 => (q.dirt => r.dirt) /\ (q.lock => r.lock)

LEMMA JoinedSlots ==
    ASSUME IInv, NEW t \in Tasks, NEW a \in Slots, table[a].num \in Inums,
           table[a].count >= 1,
           (DOMAIN table)' = Slots, \A s \in Slots : Joined(a, table[s], table'[s], s),
           NEW e, e = k[t].empty
    PROVE  /\ TableInv'
           /\ \A s \in Slots : SlotStep(table[s], table'[s], Mine(k[t], proc[t], s), s,
                                       k[t].empty, e)
<1>1. \A s \in Slots : RecInv(table[s])
  BY DEF IInv, TableInv
<1>2. table[a].num # 0
  BY TableAssumption DEF Inums
<1>3. ASSUME NEW s \in Slots PROVE RecInv(table'[s])
  <2>1. RecInv(table[s]) /\ Joined(a, table[s], table'[s], s)
    BY <1>1
  <2>2. CASE s = a
    BY <1>2, <2>1, <2>2 DEF RecInv, Joined, One
  <2>3. CASE s # a
    BY <2>1, <2>3 DEF RecInv, Joined, One
  <2> QED
    BY <2>2, <2>3
<1>4. ASSUME NEW s \in Slots
      PROVE  SlotStep(table[s], table'[s], Mine(k[t], proc[t], s), s, k[t].empty, e)
  <2>1. Joined(a, table[s], table'[s], s) /\ table[s].count \in Nat
    BY <1>1 DEF RecInv
  <2>2. s = k[t].empty => table[s].num = 0 /\ table[s].count = 1
    BY DEF IInv, EmptyHeld, Slots
  <2> QED
    BY <1>2, <2>1, <2>2 DEF SlotStep, Joined, One
<1> QED
  BY <1>3, <1>4 DEF TableInv

\* Where a path starts is an inode that the task has.
LEMMA StartIs ==
    ASSUME IInv, NEW t \in Tasks, ~ Gone(k[t]), NEW path
    PROVE  /\ Start(t, path) \in Slots
           /\ table[Start(t, path)].num \in Inums /\ table[Start(t, path)].count >= 1
<1>1. proc[t].root \in Slots /\ proc[t].pwd \in Slots
  BY DEF IInv, TasksInv, HavingInv, If
<1> QED
  BY <1>1, HadIsNumbered DEF Start, Has

\* The calls that name an inode.
LEMMA NamedKeeps == ASSUME IInv, NEW t \in Tasks, Named(t) PROVE IInv'
<1> DEFINE x == k[t]
           y == k'[t]
           kept == CASE x.op = "chdir" -> "pwd" [] x.op = "chroot" -> "root"
                     [] x.op = "exec" -> "executable" [] OTHER -> "none"
<1> USE DEF Suits, Place0, Mapping, Searching, NoCall, WalkPlaces, OpenPlaces, AddPlaces,
            HasDir, HasIno, HasOld, Second, If
<1>1. /\ TasksInv /\ DoingInv(x) /\ DOMAIN k = Tasks /\ DOMAIN x = Fields /\ At(t, "named")
      /\ x.pc = "named" /\ x.io = "none" /\ x.puts = <<>>
      /\ \A s \in Slots : /\ Mine(x, proc[t], s) = One(x.dir, s) + One(x.ino, s)
                                + One(x.old, s) + One(x.empty, s) + Lasting(proc[t], s)
                          /\ Lasting(proc[t], s) \in Nat /\ One(0, s) = 0
  BY AtIs DEF Named
<1>2. /\ x.dir = 0 /\ x.ino \in Slots /\ x.empty = 0 /\ x.old = 0
      /\ x.op \in {"link", "touch", "chdir", "chroot", "exec"} /\ x.n \in Nat
  BY <1>1 DEF DoingInv
<1>3. /\ table[x.ino].num \in Inums /\ table[x.ino].count >= 1 /\ RecInv(table[x.ino])
      /\ DOMAIN table = Slots /\ \A z \in Slots : RecInv(table[z])
  BY <1>2, HadIsNumbered DEF Has, IInv, TableInv
<1>4. UNCHANGED <<file_table, use>> /\ UNCHANGED <<disk, blks, last_inode>> /\ DataInv'
  BY DEF Named, IInv, DataInv
<1>5. ASSUME NEW b \in BOOLEAN, table' = [table EXCEPT ![x.ino].dirt = b]
      PROVE  Marks
  <2>1. (DOMAIN table)' = Slots /\ \A z \in Slots \ {x.ino} : table'[z] = table[z]
    BY <1>3, <1>5
  <2>2. /\ DOMAIN table'[x.ino] = DOMAIN table[x.ino]
        /\ table'[x.ino].num = table[x.ino].num /\ table'[x.ino].count = table[x.ino].count
        /\ table'[x.ino].dirt = b /\ table'[x.ino].lock = table[x.ino].lock
    BY <1>2, <1>3, <1>5 DEF RecInv
  <2>3. table'[x.ino].dirt \in BOOLEAN /\ table'[x.ino].lock \in BOOLEAN
    BY <1>3, <2>2 DEF RecInv
  <2> QED
    BY <1>2, <1>3, <1>4, <2>1, <2>2, <2>3, MarkUsed
<1>6. CASE /\ kept # "none"
           /\ proc' = [proc EXCEPT ![t][kept] = x.ino]
           /\ table' = [table EXCEPT ![x.ino].dirt = @ \/ x.path # <<NoName>>]
           /\ Finish(t, IfAny(proc[t][kept]))
  <2>1. Marks
    <3> DEFINE b == table[x.ino].dirt \/ x.path # <<NoName>>
    <3>1. b \in BOOLEAN /\ table' = [table EXCEPT ![x.ino].dirt = b]
      BY <1>6
    <3> HIDE DEF b
    <3> QED
      BY <1>5, <3>1
  <2>2. DOMAIN proc = Tasks /\ DOMAIN proc[t] = {"filp", "pwd", "root", "executable"}
    BY <1>1 DEF TasksInv, HavingInv
  <2>3. DOMAIN proc' = Tasks /\ \A u \in Tasks \ {t} : proc'[u] = proc[u]
    BY <1>6, <2>2
  <2>4. Replaced(proc[t], proc'[t], x.ino, proc[t][kept])
    <3>1. CASE x.op = "chdir"
      BY <1>6, <2>2, <3>1 DEF Replaced
    <3>2. CASE x.op = "chroot"
      BY <1>6, <2>2, <3>2 DEF Replaced
    <3>3. CASE x.op = "exec"
      BY <1>6, <2>2, <3>3 DEF Replaced
    <3> QED
      BY <1>2, <1>6, <3>1, <3>2, <3>3
  <2> HIDE DEF kept
  <2> QED
    BY <1>1, <1>2, <1>4, <1>6, <2>1, <2>3, <2>4, KeptKeeps
<1>7. CASE /\ x.op = "link" /\ UNCHANGED proc
           /\ table' = [table EXCEPT ![x.ino].dirt = TRUE, ![Start(t, x.more)].count = @ + 1]
           /\ Go(t, [old |-> x.ino, ino |-> 0, dir |-> Start(t, x.more), more |-> <<>>,
                     path |-> Rest(x.more), pc |-> "walk"])
  <2> DEFINE a == Start(t, x.more)
  <2>1. ~ Gone(x)
    BY <1>1, <1>2 DEF Gone
  <2>2. a \in Slots /\ table[a].num \in Inums /\ table[a].count >= 1
    BY <2>1, StartIs
  <2> HIDE DEF a
  <2>3. /\ table' = [table EXCEPT ![x.ino].dirt = TRUE, ![a].count = @ + 1]
        /\ Go(t, [old |-> x.ino, ino |-> 0, dir |-> a, more |-> <<>>,
                  path |-> Rest(x.more), pc |-> "walk"])
    BY <1>7 DEF a
  <2>4. /\ Only(t) /\ DOMAIN y = Fields
        /\ y.pc = "walk" /\ y.dir = a /\ y.ino = 0 /\ y.old = x.ino /\ y.puts = <<>>
        /\ y.op = x.op /\ y.more = <<>> /\ y.empty = x.empty /\ y.io = x.io
        /\ y.n = x.n /\ y.fd = x.fd
    BY <1>1, <2>3 DEF Go, Changed, Only, Fields
  <2>5. DoingInv(y)
    BY <1>1, <1>2, <1>7, <2>2, <2>4 DEF DoingInv
  <2>6. SameCall(x, y)
    BY <1>1, <1>2, <2>4 DEF SameCall, Gone
  <2>7. (DOMAIN table)' = Slots
    BY <1>3, <2>3
  <2>8. ASSUME NEW s \in Slots PROVE Joined(a, table[s], table'[s], s)
    <3>1. /\ DOMAIN table'[s] = DOMAIN table[s] /\ table'[s].num = table[s].num
          /\ table'[s].count = table[s].count + One(a, s)
          /\ table'[s].lock = table[s].lock
      BY <1>2, <1>3, <2>2, <2>3, SMTT(60) DEF RecInv, One
    <3>2. /\ s = x.ino => table'[s].dirt = TRUE
          /\ s # x.ino => table'[s].dirt = table[s].dirt
      BY <1>2, <1>3, <2>2, <2>3 DEF RecInv
    <3>3. RecInv(table[s])
      BY <1>3
    <3>4. table'[s].dirt \in BOOLEAN /\ table'[s].lock \in BOOLEAN
      BY <3>1, <3>2, <3>3 DEF RecInv
    <3>5. s = x.ino => table[s].num # 0 /\ table[s].count # 0
      BY <1>3, TableAssumption DEF RecInv, Inums
    <3> QED
      BY <3>1, <3>2, <3>4, <3>5 DEF Joined
  <2>9. /\ TableInv'
        /\ \A s \in Slots : SlotStep(table[s], table'[s], Mine(x, proc[t], s), s,
                                     x.empty, y.empty)
    BY <2>2, <2>4, <2>7, <2>8, JoinedSlots
  <2>10. ASSUME NEW s \in Slots
         PROVE  table'[s].count + Mine(x, proc[t], s) = table[s].count + Mine(y, proc[t], s)
    <3>1. Mine(y, proc[t], s) = One(y.dir, s) + One(y.ino, s) + One(y.old, s)
                                + One(y.empty, s) + Lasting(proc[t], s)
      BY <2>4, MineIs
    <3>2. table'[s].count = table[s].count + One(a, s) /\ table[s].count \in Nat
      BY <1>3, <2>8 DEF Joined, RecInv
    <3> QED
      BY <1>1, <1>2, <2>4, <3>1, <3>2, SMTT(60) DEF One
  <2>11. UNCHANGED nvars
    BY <1>4, <1>7 DEF nvars
  <2> QED
    BY <1>4, <2>4, <2>5, <2>6, <2>9, <2>10, <2>11, LocalStep
<1>8. CASE /\ UNCHANGED proc
           /\ table' = [table EXCEPT ![x.ino].dirt = @ \/ x.path # <<NoName>> \/ x.op = "touch"]
           /\ Finish(t, <<x.ino>>)
  <2> DEFINE q == <<x.ino>>
  <2>1. Marks
    <3> DEFINE b == table[x.ino].dirt \/ x.path # <<NoName>> \/ x.op = "touch"
    <3>1. b \in BOOLEAN /\ table' = [table EXCEPT ![x.ino].dirt = b]
      BY <1>8
    <3> HIDE DEF b
    <3> QED
      BY <1>5, <3>1
  <2>2. q \in Seq(Slots) /\ Len(q) <= 3
    BY <1>2, PutsIs
  <2>3. \A s \in Slots : Waiting(q, s) = One(x.dir, s) + One(x.ino, s) + One(x.old, s)
    <3> TAKE s \in Slots
    <3>1. Waiting(q, s) = One(x.ino, s)
      BY <1>2, PutsIs
    <3> QED
      BY <1>2, <3>1 DEF One, Slots
  <2>4. UNCHANGED nvars
    BY <1>4, <1>8 DEF nvars
  <2> HIDE DEF q
  <2> QED
    BY <1>1, <1>2, <1>8, <2>1, <2>2, <2>3, <2>4, FinishStep DEF q
<1> QED
  BY <1>6, <1>7, <1>8 DEF Named

-----------------------------------------------------------------------------
\* The descriptors of a file, over all tasks.
Pairs(pp, f) == {h \in Tasks \X Fds : pp[h[1]].filp[h[2]] = f}

\* They are finitely many.
LEMMA PairsFinite ==
    ASSUME NEW pp, NEW f
    PROVE  IsFiniteSet(Pairs(pp, f)) /\ Cardinality(Pairs(pp, f)) \in Nat
<1>1. IsFiniteSet(Tasks) /\ IsFiniteSet(Fds)
  BY TableAssumption, FilesAssumption, FS_Interval DEF Fds
<1>2. IsFiniteSet(Tasks \X Fds)
  BY <1>1, FS_Product
<1>3. Pairs(pp, f) \subseteq Tasks \X Fds
  BY DEF Pairs
<1> QED
  BY <1>2, <1>3, FS_Subset, FS_CardinalityType

\* What changes when one descriptor does.
ButForOne(t, i, pp, pq) ==
    \A u \in Tasks : \A j \in Fds : u # t \/ j # i => pq[u].filp[j] = pp[u].filp[j]

LEMMA PairsChange ==
    ASSUME NEW pp, NEW pq, NEW t \in Tasks, NEW i \in Fds, ButForOne(t, i, pp, pq), NEW f
    PROVE  Cardinality(Pairs(pq, f)) + One(pp[t].filp[i], f)
             = Cardinality(Pairs(pp, f)) + One(pq[t].filp[i], f)
<1> DEFINE A == {h \in Pairs(pp, f) : h # <<t, i>>}
<1>1. IsFiniteSet(A) /\ Cardinality(A) \in Nat /\ <<t, i>> \notin A
  <2>1. A \subseteq Pairs(pp, f)
    OBVIOUS
  <2> QED
    BY <2>1, PairsFinite, FS_Subset, FS_CardinalityType
<1>2. Cardinality(A \cup {<<t, i>>}) = Cardinality(A) + 1
  BY <1>1, FS_AddElement
<1>3. Pairs(pp, f) = IF pp[t].filp[i] = f THEN A \cup {<<t, i>>} ELSE A
  BY DEF Pairs
<1>4. Pairs(pq, f) = IF pq[t].filp[i] = f THEN A \cup {<<t, i>>} ELSE A
  <2>1. A = {h \in Pairs(pq, f) : h # <<t, i>>}
    <3>1. \A h \in Tasks \X Fds : h # <<t, i>> => pq[h[1]].filp[h[2]] = pp[h[1]].filp[h[2]]
      BY DEF ButForOne
    <3> QED
      BY <3>1 DEF Pairs
  <2> HIDE DEF A
  <2> QED
    BY <2>1 DEF Pairs
<1> HIDE DEF A
<1>5. Cardinality(Pairs(pp, f)) = Cardinality(A) + One(pp[t].filp[i], f)
  BY <1>1, <1>2, <1>3 DEF One
<1>6. Cardinality(Pairs(pq, f)) = Cardinality(A) + One(pq[t].filp[i], f)
  BY <1>1, <1>2, <1>4 DEF One
<1> QED
  BY <1>1, <1>5, <1>6 DEF One

\* f_count counts them.
LEMMA CountIsPairs ==
    ASSUME IInv, NEW f \in Files
    PROVE  file_table[f].count = Cardinality(Pairs(proc, f)) /\ file_table[f].count \in Nat
<1>1. file_table[f].count = Cardinality({h \in Tasks \X Fds : proc[h[1]].filp[h[2]] = f})
  BY DEF IInv, CountIsReferences
<1>2. file_table[f].count = Cardinality(Pairs(proc, f))
  BY <1>1 DEF Pairs
<1> QED
  BY <1>2, PairsFinite

\* A file that a descriptor has is in use, and if its count is 1 this is the
\* only descriptor of it.
LEMMA Sole ==
    ASSUME IInv, NEW t \in Tasks, NEW i \in Fds, proc[t].filp[i] \in Files
    PROVE  /\ file_table[proc[t].filp[i]].count >= 1
           /\ file_table[proc[t].filp[i]].count \in Nat
           /\ file_table[proc[t].filp[i]].count = 1 =>
                \A u \in Tasks : \A j \in Fds :
                  u # t \/ j # i => proc[u].filp[j] # proc[t].filp[i]
<1> DEFINE f == proc[t].filp[i]
           P == Pairs(proc, f)
<1>1. file_table[f].count = Cardinality(P) /\ file_table[f].count \in Nat
  BY CountIsPairs
<1>2. <<t, i>> \in P
  BY DEF Pairs
<1>3. IsFiniteSet(P)
  BY PairsFinite
<1>4. \A u \in Tasks : \A j \in Fds : proc[u].filp[j] = f => <<u, j>> \in P
  BY DEF Pairs
<1> HIDE DEF f, P
<1>5. Cardinality(P) # 0
  BY <1>2, <1>3, FS_EmptySet
<1>6. Cardinality(P) = 1 => \E h : P = {h}
  BY <1>3, FS_Singleton
<1>7. ASSUME Cardinality(P) = 1, NEW u \in Tasks, NEW j \in Fds, proc[u].filp[j] = f
      PROVE  u = t /\ j = i
  <2>1. PICK h : P = {h}
    BY <1>6, <1>7
  <2>2. <<u, j>> = <<t, i>>
    BY <1>2, <1>4, <1>7, <2>1
  <2> QED
    BY <2>2
<1> QED
  BY <1>1, <1>5, <1>7 DEF f

\* A file that is not in use has no descriptors.
LEMMA NoneOf ==
    ASSUME IInv, NEW f \in Files, file_table[f].count = 0
    PROVE  \A u \in Tasks : \A j \in Fds : proc[u].filp[j] # f
<1>1. Cardinality(Pairs(proc, f)) = 0 /\ IsFiniteSet(Pairs(proc, f))
  BY CountIsPairs, PairsFinite
<1>2. Pairs(proc, f) = {}
  BY <1>1, FS_EmptySet
<1>3. \A u \in Tasks : \A j \in Fds : proc[u].filp[j] = f => <<u, j>> \in Pairs(proc, f)
  BY DEF Pairs
<1> QED
  BY <1>2, <1>3

\* A step of task t changes file f: what it does to others.
Fileless(u, f) == \A j \in Fds : proc[u].filp[j] # f

LEMMA OthersOpen ==
    ASSUME IInv, NEW u \in Tasks, NEW f \in Files,
           \A e \in Files \ {f} : file_table'[e] = file_table[e],
           \/ Fileless(u, f)
           \/ file_table'[f].inode = file_table[f].inode /\ file_table[f].count # 1
    PROVE  OpensInv(k[u], proc[u], file_table')
<1>1. OpensInv(k[u], proc[u], file_table) /\ proc[u].filp \in [Fds -> {0} \cup Files]
  BY DEF IInv, OpenInv, TasksInv, HavingInv
<1>2. CASE Fileless(u, f)
  <2>1. \A j \in Fds : proc[u].filp[j] # 0 =>
          file_table'[proc[u].filp[j]] = file_table[proc[u].filp[j]]
    BY <1>1, <1>2 DEF Fileless
  <2> QED
    BY <1>1, <2>1 DEF OpensInv
<1>3. CASE file_table'[f].inode = file_table[f].inode /\ file_table[f].count # 1
  <2>1. \A j \in Fds : proc[u].filp[j] # 0 =>
          file_table'[proc[u].filp[j]].inode = file_table[proc[u].filp[j]].inode
    BY <1>1, <1>3
  <2>2. \A j \in Fds : proc[u].filp[j] # 0 /\ file_table[proc[u].filp[j]].count = 1 =>
          file_table'[proc[u].filp[j]].count = 1
    BY <1>1, <1>3
  <2> QED
    BY <1>1, <2>1, <2>2 DEF OpensInv
<1> QED
  BY <1>2, <1>3

\* A step of task t that changes one file and one descriptor of t, which
\* are of each other before or after it.
LEMMA FileStep ==
    ASSUME IInv, NEW t \in Tasks, NEW i \in Fds, NEW f \in Files,
           DOMAIN k' = Tasks, DOMAIN proc' = Tasks,
           \A u \in Tasks \ {t} : k'[u] = k[u] /\ proc'[u] = proc[u],
           DoingInv(k'[t]), HavingInv(k'[t], proc'[t]),
           \A j \in Fds \ {i} : proc'[t].filp[j] = proc[t].filp[j],
           proc[t].filp[i] \in {0, f}, proc'[t].filp[i] \in {0, f},
           DOMAIN file_table' = Files,
           \A e \in Files \ {f} : file_table'[e] = file_table[e],
           DOMAIN file_table'[f] = {"count", "inode", "write"},
           file_table'[f].count \in Nat, file_table'[f].inode \in {0} \cup Slots,
           file_table'[f].count = 0 => file_table'[f].inode = 0,
           file_table'[f].count + One(proc[t].filp[i], f)
             = file_table[f].count + One(proc'[t].filp[i], f),
           file_table'[f].inode = file_table[f].inode
             \/ file_table[f].count \in {0, 1},
           file_table[f].count = 1 => \E j \in Fds : proc[t].filp[j] = f,
           OpensInv(k'[t], proc'[t], file_table'),
           TableInv', DataInv', UseInv',
           \A s \in Slots : SlotStep(table[s], table'[s], Mine(k[t], proc[t], s), s,
                                    k[t].empty, k'[t].empty),
           \A s \in Slots :
             table'[s].count + Mine(k[t], proc[t], s) + One(file_table[f].inode, s)
               = table[s].count + Mine(k'[t], proc'[t], s) + One(file_table'[f].inode, s)
    PROVE  IInv'
<1>1. FilesInv'
  BY DEF IInv, FilesInv
<1>2. f # 0
  BY DEF Files
<1>3. DescriptorsCounted'
  <2> SUFFICES ASSUME NEW e \in Files
               PROVE  file_table'[e].count = Cardinality(Pairs(proc', e))
    BY DEF DescriptorsCounted, Pairs
  <2>1. Cardinality(Pairs(proc', e)) + One(proc[t].filp[i], e)
          = Cardinality(Pairs(proc, e)) + One(proc'[t].filp[i], e)
    <3>1. ButForOne(t, i, proc, proc')
      BY DEF ButForOne
    <3> QED
      BY <3>1, PairsChange
  <2>2. Cardinality(Pairs(proc', e)) \in Nat /\ Cardinality(Pairs(proc, e)) \in Nat
    BY PairsFinite
  <2>3. file_table[e].count = Cardinality(Pairs(proc, e)) /\ file_table'[e].count \in Nat
    BY <1>1, CountIsPairs DEF FilesInv
  <2>4. CASE e = f
    BY <2>1, <2>2, <2>3, <2>4 DEF One
  <2>5. CASE e # f
    <3>1. One(proc[t].filp[i], e) = 0 /\ One(proc'[t].filp[i], e) = 0 /\ e # 0
      BY <2>5 DEF One, Files
    <3> QED
      BY <2>1, <2>2, <2>3, <2>5, <3>1
  <2> QED
    BY <2>4, <2>5
<1>4. OpenInv'
  <2> SUFFICES ASSUME NEW u \in Tasks PROVE OpensInv(k'[u], proc'[u], file_table')
    BY DEF OpenInv
  <2>1. CASE u = t
    BY <2>1
  <2>2. CASE u # t
    <3>1. k'[u] = k[u] /\ proc'[u] = proc[u]
      BY <2>2
    <3>2. CASE file_table[f].count = 0
      <4>1. Fileless(u, f)
        BY <3>2, NoneOf DEF Fileless
      <4> QED
        BY <3>1, <4>1, OthersOpen
    <3>3. CASE file_table[f].count = 1
      <4>1. PICK j \in Fds : proc[t].filp[j] = f
        BY <3>3
      <4>2. Fileless(u, f)
        BY <2>2, <3>3, <4>1, Sole DEF Fileless
      <4> QED
        BY <3>1, <4>2, OthersOpen
    <3>4. CASE file_table[f].count \notin {0, 1}
      <4>1. file_table'[f].inode = file_table[f].inode /\ file_table[f].count # 1
        BY <3>4
      <4> QED
        BY <3>1, <4>1, OthersOpen
    <3> QED
      BY <3>2, <3>3, <3>4
  <2> QED
    BY <2>1, <2>2
<1>5. ASSUME NEW s \in Slots
      PROVE  table'[s].count + Mine(k[t], proc[t], s) + FilesOn(file_table, s)
               = table[s].count + Mine(k'[t], proc'[t], s) + FilesOn(file_table', s)
  <2>1. FilesOn(file_table', s) + One(file_table[f].inode, s)
          = FilesOn(file_table, s) + One(file_table'[f].inode, s)
    <3>1. ButFor(f, file_table, file_table')
      BY DEF ButFor
    <3> QED
      BY <3>1, FileChanges
  <2>2. FilesOn(file_table, s) \in Nat /\ FilesOn(file_table', s) \in Nat
    BY FilesFinite
  <2>3. /\ table'[s].count \in Nat /\ table[s].count \in Nat
        /\ Mine(k[t], proc[t], s) \in Nat
    BY Enough DEF TableInv, RecInv
  <2>4. Mine(k'[t], proc'[t], s) \in Nat
    <3>1. Waiting(k'[t].puts, s) \in Nat
      BY WaitingNat DEF DoingInv
    <3> QED
      BY <3>1 DEF Mine, One
  <2>5. /\ One(file_table[f].inode, s) \in Nat /\ One(file_table'[f].inode, s) \in Nat
        /\ table'[s].count + Mine(k[t], proc[t], s) + One(file_table[f].inode, s)
             = table[s].count + Mine(k'[t], proc'[t], s) + One(file_table'[f].inode, s)
    BY DEF One
  <2> QED
    BY ONLY <2>1, <2>2, <2>3, <2>4, <2>5
<1> QED
  BY <1>1, <1>3, <1>4, <1>5, StepKeeps

\* The file that open() has taken, until it is installed or given back.
LEMMA ReservedIs ==
    ASSUME IInv, NEW t \in Tasks, k[t].op = "open"
    PROVE  /\ k[t].fd \in Fds /\ proc[t].filp[k[t].fd] \in Files
           /\ file_table[proc[t].filp[k[t].fd]].inode = 0
           /\ file_table[proc[t].filp[k[t].fd]].count = 1
           /\ \A j \in Fds \ {k[t].fd} :
                /\ proc[t].filp[j] # proc[t].filp[k[t].fd]
                /\ proc[t].filp[j] # 0 => file_table[proc[t].filp[j]].inode # 0
<1> DEFINE fd == k[t].fd
           f == proc[t].filp[fd]
<1>1. OpensInv(k[t], proc[t], file_table) /\ HavingInv(k[t], proc[t])
  BY DEF IInv, OpenInv, TasksInv
<1>2. fd \in Fds /\ f # 0 /\ file_table[f].inode = 0 /\ file_table[f].count = 1
  BY <1>1 DEF OpensInv
<1>3. f \in Files
  BY <1>1, <1>2 DEF HavingInv
<1>4. \A j \in Fds \ {fd} : proc[t].filp[j] # f
  BY <1>2, <1>3, Sole
<1>5. \A j \in Fds \ {fd} : proc[t].filp[j] # 0 => file_table[proc[t].filp[j]].inode # 0
  BY <1>1 DEF OpensInv, Reserved
<1> QED
  BY <1>2, <1>3, <1>4, <1>5

\* open() fills in the file.
LEMMA InstallKeeps == ASSUME IInv, NEW t \in Tasks, Install(t) PROVE IInv'
<1> DEFINE x == k[t]
           y == k'[t]
           fd == k[t].fd
           f == proc[t].filp[fd]
<1> USE DEF Suits, Place0, Mapping, Searching, NoCall, WalkPlaces, OpenPlaces, AddPlaces,
            HasDir, HasIno, HasOld, Second, If
<1>1. /\ TasksInv /\ DoingInv(x) /\ DOMAIN k = Tasks /\ DOMAIN x = Fields /\ At(t, "install")
      /\ x.pc = "install" /\ x.io = "none" /\ x.puts = <<>> /\ HavingInv(x, proc[t])
      /\ \A s \in Slots : /\ Mine(x, proc[t], s) = One(x.dir, s) + One(x.ino, s)
                                + One(x.old, s) + One(x.empty, s) + Lasting(proc[t], s)
                          /\ Lasting(proc[t], s) \in Nat /\ One(0, s) = 0
  BY AtIs DEF Install
<1>2. x.dir = 0 /\ x.ino \in Slots /\ x.empty = 0 /\ x.old = 0 /\ x.op = "open"
  BY <1>1 DEF DoingInv
<1>3. /\ fd \in Fds /\ f \in Files /\ file_table[f].inode = 0 /\ file_table[f].count = 1
      /\ \A j \in Fds \ {fd} : /\ proc[t].filp[j] # f
                               /\ proc[t].filp[j] # 0 => file_table[proc[t].filp[j]].inode # 0
  BY <1>2, ReservedIs
<1>4. /\ file_table' = [file_table EXCEPT ![f] =
                          [count |-> 1, inode |-> x.ino,
                           write |-> x.flag \cap {"write", "trunc"} # {}]]
      /\ k' = [k EXCEPT ![t] = Idle]
      /\ UNCHANGED <<proc, use>> /\ UNCHANGED <<table, disk, blks, last_inode>>
  BY DEF Install, DiskStays
<1>5. Only(t) /\ y = Idle
  BY <1>1, <1>4 DEF Only
<1>6. DoingInv(y)
  BY <1>5 DEF DoingInv, Idle, Fields
<1>7. ~ Gone(x) /\ ~ Gone(y) /\ y.empty = 0
  BY <1>1, <1>2, <1>5 DEF Gone, Idle
<1>8. HavingInv(y, proc'[t])
  BY <1>1, <1>4, <1>7 DEF HavingInv
<1>9. /\ DOMAIN file_table' = Files
      /\ \A e \in Files \ {f} : file_table'[e] = file_table[e]
      /\ DOMAIN file_table'[f] = {"count", "inode", "write"}
      /\ file_table'[f].count = 1 /\ file_table'[f].inode = x.ino
  BY <1>3, <1>4 DEF IInv, FilesInv
<1>10. OpensInv(y, proc'[t], file_table')
  <2>1. y.op = "none" /\ Place0(y) = "user"
    BY <1>5 DEF Idle
  <2>2. proc'[t] = proc[t] /\ proc[t].filp \in [Fds -> {0} \cup Files]
    BY <1>1, <1>4 DEF HavingInv
  <2>3. \A j \in Fds : proc[t].filp[j] # 0 => file_table'[proc[t].filp[j]].inode # 0
    <3> SUFFICES ASSUME NEW j \in Fds, proc[t].filp[j] # 0
                 PROVE  file_table'[proc[t].filp[j]].inode # 0
      OBVIOUS
    <3>1. CASE j = fd
      BY <1>2, <1>9, <3>1, SMTT(60) DEF Slots
    <3>2. CASE j # fd
      BY <1>3, <1>9, <2>2, <3>2, SMTT(60)
    <3> QED
      BY <3>1, <3>2
  <2> QED
    BY <2>1, <2>2, <2>3 DEF OpensInv
<1>11. Marks
  BY <1>4, Unmarked
<1>12. /\ TableInv' /\ DataInv' /\ \A s \in Slots : table'[s].count = table[s].count
       /\ \A s \in Slots : SlotStep(table[s], table'[s], Mine(x, proc[t], s), s, x.empty, y.empty)
  BY <1>2, <1>7, <1>11, MarksSlots
<1>13. UseInv' /\ DOMAIN proc' = Tasks /\ DOMAIN k' = Tasks
  BY <1>1, <1>4 DEF IInv, UseInv, TasksInv
<1>14. ASSUME NEW s \in Slots
       PROVE  table'[s].count + Mine(x, proc[t], s) + One(file_table[f].inode, s)
                = table[s].count + Mine(y, proc'[t], s) + One(file_table'[f].inode, s)
  <2>1. Mine(y, proc[t], s) = One(y.dir, s) + One(y.ino, s) + One(y.old, s) + One(y.empty, s)
                              + Lasting(proc[t], s)
    BY <1>5, MineIs DEF Idle
  <2>2. y.dir = 0 /\ y.ino = 0 /\ y.old = 0 /\ y.empty = 0
    BY <1>5 DEF Idle
  <2>3. table[s].count \in Nat
    BY DEF IInv, TableInv, RecInv
  <2>4. One(x.ino, s) \in Nat /\ proc'[t] = proc[t]
    BY <1>4 DEF One
  <2>5. Mine(y, proc'[t], s) = Lasting(proc[t], s) /\ Mine(x, proc[t], s) = One(x.ino, s) + Lasting(proc[t], s)
    BY <1>1, <1>2, <2>1, <2>2, <2>4
  <2>6. One(file_table[f].inode, s) = 0 /\ One(file_table'[f].inode, s) = One(x.ino, s)
    BY <1>1, <1>3, <1>9
  <2> HIDE DEF x, y, f, fd
  <2> QED
    BY <1>1, <1>12, <2>3, <2>4, <2>5, <2>6
<1>15. \A u \in Tasks \ {t} : k'[u] = k[u] /\ proc'[u] = proc[u]
  BY <1>4, <1>5 DEF Only
<1>16. /\ \A j \in Fds \ {fd} : proc'[t].filp[j] = proc[t].filp[j]
       /\ proc[t].filp[fd] \in {0, f} /\ proc'[t].filp[fd] \in {0, f}
       /\ file_table'[f].count \in Nat /\ file_table'[f].inode \in {0} \cup Slots
       /\ file_table'[f].count = 0 => file_table'[f].inode = 0
       /\ file_table[f].count \in {0, 1}
  <2>1. proc'[t].filp = proc[t].filp
    BY <1>4
  <2>2. proc[t].filp[fd] \in {0, f} /\ proc'[t].filp[fd] \in {0, f}
    BY <2>1
  <2> HIDE DEF f, fd
  <2> QED
    BY <1>2, <1>3, <1>9, <2>1, <2>2
<1>17. \E j \in Fds : proc[t].filp[j] = f
  BY <1>3
<1>18. file_table'[f].count + One(proc[t].filp[fd], f)
         = file_table[f].count + One(proc'[t].filp[fd], f)
  BY <1>3, <1>4, <1>9
<1> HIDE DEF f, fd
<1> QED
  BY <1>3, <1>6, <1>8, <1>9, <1>10, <1>12, <1>13, <1>14, <1>15, <1>16, <1>17, <1>18, FileStep

\* sys_close(), from a call of its own or from do_exit().
LEMMA CloseFileKeeps ==
    ASSUME IInv, NEW t \in Tasks, NEW p, NEW then, At(t, p),
           (p = "user" /\ then = "done") \/ (p = "exit" /\ then = "exit"),
           NEW fd \in OpenFds(t), CloseFile(t, fd, then), DiskStays, UseInv'
    PROVE  IInv'
<1> DEFINE x == k[t]
           y == k'[t]
           f == proc[t].filp[fd]
           q == IF file_table[f].count = 1 THEN <<file_table[f].inode>> ELSE <<>>
<1> USE DEF Suits, Place0, Mapping, Searching, NoCall, WalkPlaces, OpenPlaces, AddPlaces,
            HasDir, HasIno, HasOld, Second, If
<1>1. /\ TasksInv /\ DoingInv(x) /\ DOMAIN k = Tasks /\ DOMAIN x = Fields
      /\ x.pc = p /\ x.io = "none" /\ x.puts = <<>> /\ HavingInv(x, proc[t])
      /\ \A s \in Slots : /\ Mine(x, proc[t], s) = One(x.dir, s) + One(x.ino, s)
                                + One(x.old, s) + One(x.empty, s) + Lasting(proc[t], s)
                          /\ Lasting(proc[t], s) \in Nat /\ One(0, s) = 0
  BY AtIs
<1>2. /\ x.dir = 0 /\ x.ino = 0 /\ x.empty = 0 /\ x.old = 0 /\ x.n \in Nat
      /\ x.op = IF p = "user" THEN "none" ELSE "exit"
  BY <1>1 DEF DoingInv
<1>3. fd \in Fds /\ f # 0 /\ f \in Files
  BY <1>1 DEF OpenFds, HavingInv
<1>4. /\ file_table[f].count >= 1 /\ file_table[f].count \in Nat
      /\ file_table[f].inode \in Slots
      /\ file_table[f].count = 1 => \A j \in Fds \ {fd} : proc[t].filp[j] # f
  <2>1. file_table[f].inode # 0
    BY <1>2, <1>3 DEF IInv, OpenInv, OpensInv, Reserved
  <2>2. file_table[f].inode \in Slots
    BY <1>3, <2>1 DEF IInv, FilesInv
  <2> QED
    BY <1>3, <2>2, Sole
<1>5. /\ proc' = [proc EXCEPT ![t].filp[fd] = 0]
      /\ file_table' = IF file_table[f].count = 1 THEN [file_table EXCEPT ![f] = NoFile]
                       ELSE [file_table EXCEPT ![f].count = @ - 1]
      /\ Go(t, [pc |-> then, puts |-> q])
  BY DEF CloseFile
<1>6. q \in Seq(Slots) /\ Len(q) <= 3
  <2>1. /\ <<>> \in Seq(Slots) /\ Len(<<>>) <= 3
        /\ <<file_table[f].inode>> \in Seq(Slots) /\ Len(<<file_table[f].inode>>) <= 3
    BY <1>4, PutsIs
  <2> QED
    BY <2>1
<1>7. ASSUME NEW s \in Slots
      PROVE  Waiting(q, s) = IF file_table[f].count = 1 THEN One(file_table[f].inode, s) ELSE 0
  <2>1. Waiting(<<>>, s) = 0 /\ Waiting(<<file_table[f].inode>>, s) = One(file_table[f].inode, s)
    BY <1>4, PutsIs
  <2> QED
    BY <2>1
<1> HIDE DEF q
<1>8. /\ Only(t) /\ DOMAIN y = Fields
      /\ y.pc = then /\ y.dir = x.dir /\ y.ino = x.ino /\ y.old = x.old /\ y.puts = q
      /\ y.op = x.op /\ y.more = x.more /\ y.empty = x.empty /\ y.io = x.io
      /\ y.n = x.n /\ y.fd = x.fd
  BY <1>1, <1>5 DEF Go, Changed, Only, Fields
<1>9. DoingInv(y)
  <2>1. CASE p = "user"
    BY <1>1, <1>2, <1>6, <1>8, <2>1 DEF DoingInv
  <2>2. CASE p = "exit"
    BY <1>1, <1>2, <1>6, <1>8, <2>2 DEF DoingInv
  <2> QED
    BY <2>1, <2>2
<1>10. ~ Gone(x) /\ ~ Gone(y)
  BY <1>1, <1>2, <1>8 DEF Gone
<1>11. /\ DOMAIN proc' = Tasks /\ \A u \in Tasks \ {t} : proc'[u] = proc[u]
       /\ DOMAIN proc'[t] = {"filp", "pwd", "root", "executable"}
       /\ proc'[t].pwd = proc[t].pwd /\ proc'[t].root = proc[t].root
       /\ proc'[t].executable = proc[t].executable
       /\ DOMAIN proc'[t].filp = Fds
       /\ proc'[t].filp[fd] = 0 /\ \A j \in Fds \ {fd} : proc'[t].filp[j] = proc[t].filp[j]
       /\ proc'[t].filp = [proc[t].filp EXCEPT ![fd] = 0]
  BY <1>1, <1>3, <1>5 DEF TasksInv, HavingInv
<1>12. HavingInv(y, proc'[t])
  <2>1. proc'[t].filp \in [Fds -> {0} \cup Files]
    <3>1. proc[t].filp \in [Fds -> {0} \cup Files]
      BY <1>1 DEF HavingInv
    <3>2. proc'[t].filp = [proc[t].filp EXCEPT ![fd] = 0]
      BY <1>11
    <3> QED
      BY ONLY <3>1, <3>2
  <2> QED
    BY <1>1, <1>10, <1>11, <2>1 DEF HavingInv
<1>13. /\ DOMAIN file_table' = Files
       /\ \A e \in Files \ {f} : file_table'[e] = file_table[e]
       /\ DOMAIN file_table'[f] = {"count", "inode", "write"}
       /\ file_table'[f].count = file_table[f].count - 1
       /\ file_table'[f].inode = IF file_table[f].count = 1 THEN 0 ELSE file_table[f].inode
  <2>1. /\ DOMAIN file_table = Files /\ DOMAIN file_table[f] = {"count", "inode", "write"}
    BY <1>3 DEF IInv, FilesInv
  <2> HIDE DEF f
  <2>2. CASE file_table[f].count = 1
    <3>1. file_table' = [file_table EXCEPT ![f] = NoFile]
      BY <1>5, <2>2
    <3> QED
      BY <1>3, <2>1, <2>2, <3>1 DEF NoFile
  <2>3. CASE file_table[f].count # 1
    <3>1. file_table' = [file_table EXCEPT ![f].count = @ - 1]
      BY <1>5, <2>3
    <3> QED
      BY <1>3, <2>1, <2>3, <3>1
  <2> QED
    BY <2>2, <2>3
<1>14. OpensInv(y, proc'[t], file_table')
  <2>1. y.op \in {"none", "exit"} /\ Place0(y) # "wrote"
    BY <1>2, <1>8
  <2>2. ASSUME NEW j \in Fds, proc'[t].filp[j] # 0
        PROVE  file_table'[proc'[t].filp[j]].inode # 0
    <3>1. j # fd /\ proc'[t].filp[j] = proc[t].filp[j] /\ proc[t].filp[j] \in Files
      BY <1>1, <1>11, <2>2 DEF HavingInv
    <3>2. file_table[proc[t].filp[j]].inode # 0
      BY <1>2, <2>2, <3>1 DEF IInv, OpenInv, OpensInv, Reserved
    <3>3. CASE proc[t].filp[j] = f
      BY <1>4, <1>13, <3>1, <3>2, <3>3
    <3>4. CASE proc[t].filp[j] # f
      BY <1>13, <3>1, <3>2, <3>4
    <3> QED
      BY <3>3, <3>4
  <2> QED
    BY <2>1, <2>2 DEF OpensInv
<1>15. Marks
  BY Unmarked DEF DiskStays
<1>16. /\ TableInv' /\ DataInv' /\ \A s \in Slots : table'[s].count = table[s].count
       /\ \A s \in Slots : SlotStep(table[s], table'[s], Mine(x, proc[t], s), s, x.empty, y.empty)
  BY <1>8, <1>15, MarksSlots
<1>17. DOMAIN k' = Tasks /\ \A u \in Tasks \ {t} : k'[u] = k[u] /\ proc'[u] = proc[u]
  BY <1>8, <1>11 DEF Only
<1>18. ASSUME NEW s \in Slots
       PROVE  table'[s].count + Mine(x, proc[t], s) + One(file_table[f].inode, s)
                = table[s].count + Mine(y, proc'[t], s) + One(file_table'[f].inode, s)
  <2>1. Mine(x, proc[t], s) = Lasting(proc[t], s)
    BY <1>1, <1>2
  <2>2. Lasting(proc'[t], s) = Lasting(proc[t], s)
    BY <1>11 DEF Lasting
  <2>3. Mine(y, proc'[t], s) = Lasting(proc[t], s) + Waiting(q, s)
    <3>1. One(y.dir, s) = 0 /\ One(y.ino, s) = 0 /\ One(y.old, s) = 0 /\ One(y.empty, s) = 0
      BY <1>1, <1>2, <1>8
    <3>2. Waiting(y.puts, s) = Waiting(q, s) /\ Waiting(q, s) \in Nat
      BY <1>6, <1>8, WaitingNat
    <3> QED
      BY <2>2, <3>1, <3>2 DEF Mine, Lasting, One
  <2>4. table[s].count \in Nat /\ Lasting(proc[t], s) \in Nat
    BY <1>1 DEF IInv, TableInv, RecInv
  <2>5. One(file_table[f].inode, s) \in Nat
    BY DEF One
  <2>6. One(file_table'[f].inode, s) = IF file_table[f].count = 1 THEN 0
                                       ELSE One(file_table[f].inode, s)
    BY <1>1, <1>13
  <2> HIDE DEF x, y, f
  <2> QED
    BY <1>7, <1>16, <2>1, <2>3, <2>4, <2>5, <2>6
<1>19. /\ \A j \in Fds \ {fd} : proc'[t].filp[j] = proc[t].filp[j]
       /\ proc[t].filp[fd] \in {0, f} /\ proc'[t].filp[fd] \in {0, f}
       /\ file_table'[f].count \in Nat /\ file_table'[f].inode \in {0} \cup Slots
       /\ file_table'[f].count = 0 => file_table'[f].inode = 0
       /\ file_table'[f].inode = file_table[f].inode \/ file_table[f].count \in {0, 1}
  <2>1. proc[t].filp[fd] = f
    OBVIOUS
  <2> HIDE DEF f
  <2> QED
    BY <1>4, <1>11, <1>13, <2>1
<1>20. \E j \in Fds : proc[t].filp[j] = f
  BY <1>3
<1>21. file_table'[f].count + One(proc[t].filp[fd], f)
         = file_table[f].count + One(proc'[t].filp[fd], f)
  <2>1. One(proc[t].filp[fd], f) = 1 /\ One(proc'[t].filp[fd], f) = 0
    BY <1>3, <1>11 DEF One
  <2> HIDE DEF f
  <2> QED
    BY <1>4, <1>13, <2>1
<1> HIDE DEF f
<1>22. fd \in Fds /\ f \in Files
  BY <1>3
<1>23. DOMAIN k' = Tasks
  BY <1>17
<1>24. DOMAIN proc' = Tasks
  BY <1>11
<1>25. \A u \in Tasks \ {t} : k'[u] = k[u] /\ proc'[u] = proc[u]
  BY <1>17
<1>26. DoingInv(k'[t])
  BY <1>9
<1>27. HavingInv(k'[t], proc'[t])
  BY <1>12
<1>28. \A j \in Fds \ {fd} : proc'[t].filp[j] = proc[t].filp[j]
  BY <1>19
<1>29. proc[t].filp[fd] \in {0, f} /\ proc'[t].filp[fd] \in {0, f}
  BY <1>19
<1>30. DOMAIN file_table' = Files
  BY <1>13
<1>31. \A e \in Files \ {f} : file_table'[e] = file_table[e]
  BY <1>13
<1>32. DOMAIN file_table'[f] = {"count", "inode", "write"}
  BY <1>13
<1>33. file_table'[f].count \in Nat /\ file_table'[f].inode \in {0} \cup Slots
  BY <1>19
<1>34. file_table'[f].count = 0 => file_table'[f].inode = 0
  BY <1>19
<1>35. file_table'[f].inode = file_table[f].inode \/ file_table[f].count \in {0, 1}
  BY <1>19
<1>36. file_table[f].count = 1 => \E j \in Fds : proc[t].filp[j] = f
  BY <1>20
<1>37. OpensInv(k'[t], proc'[t], file_table')
  BY <1>14
<1>38. TableInv' /\ DataInv' /\ UseInv'
  BY <1>16
<1>39. \A s \in Slots : SlotStep(table[s], table'[s], Mine(k[t], proc[t], s), s,
                               k[t].empty, k'[t].empty)
  BY <1>16
<1>40. \A s \in Slots :
         table'[s].count + Mine(k[t], proc[t], s) + One(file_table[f].inode, s)
           = table[s].count + Mine(k'[t], proc'[t], s) + One(file_table'[f].inode, s)
  BY <1>18
<1> QED
  BY ONLY IInv, t \in Tasks, FileStep, <1>21, <1>22, <1>23, <1>24, <1>25, <1>26, <1>27,
          <1>28, <1>29, <1>30, <1>31, <1>32, <1>33, <1>34, <1>35, <1>36, <1>37, <1>38,
          <1>39, <1>40

\* The last three inodes of a task, as do_exit() puts them.
LEMMA PutsThree ==
    ASSUME NEW a \in Slots, NEW b \in Slots, NEW c \in {0} \cup Slots, NEW s \in Slots,
           NEW q \in {<<a, b>> \o IfAny(c)}
    PROVE  q \in Seq(Slots) /\ Len(q) <= 3 /\ Waiting(q, s) = One(a, s) + One(b, s) + One(c, s)
<1>1. CASE c = 0
  <2>1. IfAny(c) = <<>>
    BY <1>1 DEF IfAny
  <2>2. q = <<a, b>>
    BY <2>1
  <2>3. One(c, s) = 0 /\ One(a, s) + One(b, s) + 0 = One(a, s) + One(b, s)
    BY <1>1 DEF One, Slots
  <2>4. /\ <<a, b>> \in Seq(Slots) /\ Len(<<a, b>>) <= 3
        /\ Waiting(<<a, b>>, s) = One(a, s) + One(b, s)
    BY PutsIs
  <2> QED
    BY <2>2, <2>3, <2>4
<1>2. CASE c \in Slots
  <2>1. IfAny(c) = <<c>>
    BY <1>2 DEF IfAny, Slots
  <2>2. /\ <<a, b>> \o <<c>> \in Seq(Slots) /\ Len(<<a, b>> \o <<c>>) = 3
        /\ (<<a, b>> \o <<c>>)[1] = a /\ (<<a, b>> \o <<c>>)[2] = b
        /\ (<<a, b>> \o <<c>>)[3] = c
    BY <1>2
  <2>3. q = <<a, b>> \o <<c>>
    BY <2>1
  <2>4. /\ Len(q) = 3 /\ q \in Seq(Slots)
        /\ q[1] = a /\ q[2] = b /\ q[3] = c
    BY <2>2, <2>3
  <2> QED
    BY <2>4 DEF Waiting, One
<1> QED
  BY <1>1, <1>2

\* do_exit() gives back the three inodes of a task that has closed its files.
LEMMA GoneKeeps ==
    ASSUME IInv, NEW t \in Tasks, At(t, "exit"), OpenFds(t) = {},
           proc' = [proc EXCEPT ![t].pwd = 0, ![t].root = 0, ![t].executable = 0],
           Finish(t, <<proc[t].pwd, proc[t].root>> \o IfAny(proc[t].executable)),
           UNCHANGED <<file_table, use>>, DiskStays
    PROVE  IInv'
<1> DEFINE x == k[t]
           y == k'[t]
           p == proc[t]
           q == <<proc[t].pwd, proc[t].root>> \o IfAny(proc[t].executable)
<1> USE DEF Suits, Place0, Mapping, Searching, NoCall, WalkPlaces, OpenPlaces, AddPlaces,
            HasDir, HasIno, HasOld, Second, If
<1>1. /\ TasksInv /\ DoingInv(x) /\ DOMAIN k = Tasks /\ DOMAIN x = Fields
      /\ x.pc = "exit" /\ x.io = "none" /\ x.puts = <<>> /\ HavingInv(x, p)
      /\ \A s \in Slots : /\ Mine(x, p, s) = One(x.dir, s) + One(x.ino, s)
                                + One(x.old, s) + One(x.empty, s) + Lasting(p, s)
                          /\ Lasting(p, s) \in Nat /\ One(0, s) = 0
  BY AtIs
<1>2. x.dir = 0 /\ x.ino = 0 /\ x.empty = 0 /\ x.old = 0 /\ x.n \in Nat /\ x.op = "exit"
  BY <1>1 DEF DoingInv
<1>3. p.pwd \in Slots /\ p.root \in Slots /\ p.executable \in {0} \cup Slots
  BY <1>1 DEF HavingInv, Gone
<1>4. /\ q \in Seq(Slots) /\ Len(q) <= 3
      /\ \A s \in Slots : Waiting(q, s) = Lasting(p, s)
  <2> DEFINE a == p.pwd
             b == p.root
             c == p.executable
  <2>1. a \in Slots /\ b \in Slots /\ c \in {0} \cup Slots /\ q = <<a, b>> \o IfAny(c)
    BY <1>3
  <2> HIDE DEF a, b, c, q
  <2>2. q \in Seq(Slots) /\ Len(q) <= 3
    BY <1>3, <2>1, PutsThree
  <2>3. ASSUME NEW s \in Slots PROVE Waiting(q, s) = Lasting(p, s)
    <3>1. Waiting(q, s) = One(a, s) + One(b, s) + One(c, s)
      BY <2>1, PutsThree
    <3> QED
      BY <3>1 DEF Lasting, a, b, c
  <2> QED
    BY <2>2, <2>3
<1>5. Finish(t, q)
  OBVIOUS
<1> HIDE DEF q
<1>6. /\ Only(t) /\ DOMAIN y = Fields
      /\ y.pc = "done" /\ y.dir = 0 /\ y.ino = 0 /\ y.old = 0 /\ y.puts = q
      /\ y.op = "exit" /\ y.more = x.more /\ y.empty = 0 /\ y.io = "none" /\ y.n \in Nat
  BY <1>1, <1>2, <1>5 DEF Finish, Go, Changed, Only, Fields
<1>7. DoingInv(y) /\ Gone(y)
  BY <1>4, <1>6 DEF DoingInv, Gone
<1>8. /\ DOMAIN proc' = Tasks /\ \A u \in Tasks \ {t} : proc'[u] = proc[u]
      /\ DOMAIN proc'[t] = {"filp", "pwd", "root", "executable"}
      /\ proc'[t].pwd = 0 /\ proc'[t].root = 0 /\ proc'[t].executable = 0
      /\ proc'[t].filp = p.filp
  BY <1>1 DEF TasksInv, HavingInv
<1>9. \A j \in Fds : p.filp[j] = 0
  BY DEF OpenFds
<1>10. HavingInv(y, proc'[t])
  BY <1>1, <1>7, <1>8, <1>9 DEF HavingInv
<1>11. Marks
  BY Unmarked DEF DiskStays
<1>12. /\ TableInv' /\ DataInv' /\ \A s \in Slots : table'[s].count = table[s].count
       /\ \A s \in Slots : SlotStep(table[s], table'[s], Mine(x, p, s), s, x.empty, y.empty)
  BY <1>2, <1>6, <1>11, MarksSlots
<1>13. FilesInv' /\ UseInv'
  BY DEF IInv, FilesInv, UseInv
<1>14. \A u \in Tasks : proc'[u].filp = proc[u].filp
  BY <1>8
<1>15. DescriptorsCounted'
  <2>1. \A f \in Files : {h \in Tasks \X Fds : proc'[h[1]].filp[h[2]] = f}
                           = {h \in Tasks \X Fds : proc[h[1]].filp[h[2]] = f}
    BY <1>14
  <2> QED
    BY <2>1 DEF IInv, CountIsReferences, DescriptorsCounted
<1>16. (DOMAIN k)' = Tasks /\ \A u \in Tasks \ {t} : k'[u] = k[u] /\ proc'[u] = proc[u]
  BY <1>6, <1>8 DEF Only
<1>17. OpenInv'
  <2> SUFFICES ASSUME NEW u \in Tasks PROVE OpensInv(k'[u], proc'[u], file_table')
    BY DEF OpenInv
  <2>1. CASE u # t
    BY <1>16, <2>1 DEF IInv, OpenInv
  <2>2. CASE u = t
    BY <1>6, <1>8, <1>9, <2>2 DEF OpensInv
  <2> QED
    BY <2>1, <2>2
<1>18. ASSUME NEW s \in Slots
       PROVE  table'[s].count + Mine(x, p, s) + FilesOn(file_table, s)
                = table[s].count + Mine(y, proc'[t], s) + FilesOn(file_table', s)
  <2>1. Mine(x, p, s) = Lasting(p, s) /\ Lasting(p, s) \in Nat /\ One(0, s) = 0
    BY <1>1, <1>2
  <2>2. Mine(y, proc'[t], s) = Lasting(p, s)
    BY <1>4, <1>6, <1>8, <2>1 DEF Mine
  <2> QED
    BY <1>12, <2>1, <2>2
<1> QED
  BY <1>7, <1>8, <1>10, <1>12, <1>13, <1>15, <1>16, <1>17, <1>18, StepKeeps

\* do_exit(), step by step.
LEMMA ExitingKeeps == ASSUME IInv, NEW t \in Tasks, Exiting(t) PROVE IInv'
<1>1. At(t, "exit") /\ UNCHANGED use /\ DiskStays
  BY DEF Exiting
<1>2. UseInv'
  BY <1>1 DEF IInv, UseInv
<1>3. CASE OpenFds(t) # {} /\ CloseFile(t, Min(OpenFds(t)), "exit")
  <2>1. OpenFds(t) \subseteq Nat
    BY DEF OpenFds, Fds
  <2>2. Min(OpenFds(t)) \in OpenFds(t)
    BY <1>3, <2>1, LeastElement
  <2> QED
    BY <1>1, <1>2, <1>3, <2>2, CloseFileKeeps
<1>4. CASE /\ OpenFds(t) = {}
           /\ proc' = [proc EXCEPT ![t].pwd = 0, ![t].root = 0, ![t].executable = 0]
           /\ Finish(t, <<proc[t].pwd, proc[t].root>> \o IfAny(proc[t].executable))
           /\ UNCHANGED file_table
  BY <1>1, <1>4, GoneKeeps
<1> QED
  BY <1>3, <1>4 DEF Exiting

\* A task that is in no call.
IdleAt(p) == [Idle EXCEPT !.pc = p]

LEMMA IdleIs ==
    ASSUME NEW p \in {"user", "dead"}, NEW y, y = IdleAt(p)
    PROVE  /\ DoingInv(y) /\ y.op = "none" /\ Place0(y) = p /\ y.empty = 0
           /\ Gone(y) <=> p = "dead"
           /\ \A pp : \A s \in Slots : Mine(y, pp, s) = Lasting(pp, s)
<1> USE DEF Suits, Place0, Mapping, Searching, NoCall, WalkPlaces, OpenPlaces, AddPlaces,
            HasDir, HasIno, HasOld, Second, If
<1>1. /\ DOMAIN y = Fields /\ y.pc = p /\ y.op = "none" /\ y.dir = 0 /\ y.ino = 0
      /\ y.old = 0 /\ y.empty = 0 /\ y.puts = <<>> /\ y.io = "none" /\ y.n = 0
  BY DEF Idle, IdleAt, Fields
<1>2. y.puts \in Seq(Slots) /\ Len(y.puts) <= 3
  <2>1. <<>> \in Seq(Slots) /\ Len(<<>>) <= 3
    OBVIOUS
  <2> QED
    BY ONLY <1>1, <2>1
<1>3. Place0(y) = p /\ (Gone(y) <=> p = "dead")
  BY <1>1 DEF Gone
<1>4. DoingInv(y)
  <2>1. Suits(y) /\ ~ HasDir(y) /\ ~ HasIno(y) /\ ~ HasOld(y)
    BY <1>1
  <2> QED
    BY ONLY <1>1, <1>2, <2>1, p \in {"user", "dead"} DEF DoingInv, If, Place0, Mapping, Searching
<1>5. ASSUME NEW pp, NEW s \in Slots PROVE Mine(y, pp, s) = Lasting(pp, s)
  <2>1. One(0, s) = 0 /\ Lasting(pp, s) \in Nat
    BY DEF One, Slots, Lasting
  <2>2. Mine(y, pp, s) = One(y.dir, s) + One(y.ino, s) + One(y.old, s) + One(y.empty, s)
                         + Lasting(pp, s)
    BY <1>1, MineIs
  <2> QED
    BY <1>1, <2>1, <2>2
<1> QED
  BY <1>1, <1>3, <1>4, <1>5

\* A call that is over has no inode left.
LEMMA DoneIs ==
    ASSUME IInv, NEW t \in Tasks, At(t, "done")
    PROVE  /\ k[t].empty = 0 /\ (Gone(k[t]) <=> k[t].op = "exit")
           /\ \A s \in Slots : /\ Mine(k[t], proc[t], s) = Lasting(proc[t], s)
                               /\ Lasting(proc[t], s) \in Nat
<1> DEFINE x == k[t]
<1>1. /\ TasksInv /\ DoingInv(x) /\ x.pc = "done"
      /\ \A s \in Slots : /\ Mine(x, proc[t], s) = One(x.dir, s) + One(x.ino, s)
                                + One(x.old, s) + One(x.empty, s) + Lasting(proc[t], s)
                          /\ Lasting(proc[t], s) \in Nat /\ One(0, s) = 0
  BY AtIs
<1>2. x.dir = 0 /\ x.ino = 0 /\ x.empty = 0 /\ x.old = 0
  BY <1>1 DEF DoingInv, Place0, Mapping, Searching, HasDir, HasIno, HasOld, OpenPlaces,
              AddPlaces, If
<1>3. Gone(x) <=> x.op = "exit"
  BY <1>1 DEF Gone
<1> QED
  BY <1>1, <1>2, <1>3

\* A call other than open() returns.
LEMMA ReturnsKeeps ==
    ASSUME IInv, NEW t \in Tasks, At(t, "done"), k[t].op # "open",
           NEW p \in {"user", "dead"}, p = "dead" <=> k[t].op = "exit",
           k' = [k EXCEPT ![t] = [Idle EXCEPT !.pc = p]],
           UNCHANGED nvars, DiskStays
    PROVE  IInv'
<1> DEFINE x == k[t]
           y == k'[t]
<1>1. TasksInv /\ HavingInv(x, proc[t]) /\ DOMAIN k = Tasks
  BY AtIs
<1>2. /\ k[t].empty = 0 /\ (Gone(x) <=> p = "dead")
      /\ \A s \in Slots : /\ Mine(x, proc[t], s) = Lasting(proc[t], s)
                          /\ Lasting(proc[t], s) \in Nat
  BY DoneIs
<1>3. y = IdleAt(p)
  BY <1>1 DEF IdleAt
<1>4. /\ DOMAIN k' = Tasks /\ DOMAIN proc' = Tasks
      /\ \A u \in Tasks \ {t} : k'[u] = k[u] /\ proc'[u] = proc[u]
  BY <1>1 DEF nvars, TasksInv
<1>5. UNCHANGED <<proc, file_table, use>>
  BY DEF nvars
<1> HIDE DEF y
<1>6. /\ DoingInv(y) /\ y.op = "none" /\ Place0(y) = p /\ y.empty = 0
      /\ Gone(y) <=> p = "dead"
      /\ \A pp : \A s \in Slots : Mine(y, pp, s) = Lasting(pp, s)
  BY <1>3, IdleIs
<1>7. HavingInv(y, proc'[t])
  BY <1>1, <1>2, <1>5, <1>6 DEF HavingInv
<1>8. Marks
  BY Unmarked DEF DiskStays
<1>9. /\ TableInv' /\ DataInv' /\ \A s \in Slots : table'[s].count = table[s].count
      /\ \A s \in Slots : SlotStep(table[s], table'[s], Mine(x, proc[t], s), s, x.empty, y.empty)
  BY <1>2, <1>6, <1>8, MarksSlots DEF y
<1>10. FilesInv' /\ UseInv' /\ DescriptorsCounted'
  BY <1>5 DEF IInv, FilesInv, UseInv, DescriptorsCounted, CountIsReferences
<1>11. OpenInv'
  <2> SUFFICES ASSUME NEW u \in Tasks PROVE OpensInv(k'[u], proc'[u], file_table')
    BY DEF OpenInv
  <2>1. OpensInv(k[u], proc[u], file_table)
    BY DEF IInv, OpenInv
  <2>2. CASE u # t
    BY <1>4, <1>5, <2>1, <2>2
  <2>3. CASE u = t
    BY <1>5, <1>6, <2>1, <2>3 DEF OpensInv, Reserved, y
  <2> QED
    BY <2>2, <2>3
<1>12. ASSUME NEW s \in Slots
       PROVE  table'[s].count + Mine(x, proc[t], s) + FilesOn(file_table, s)
                = table[s].count + Mine(y, proc'[t], s) + FilesOn(file_table', s)
  BY <1>2, <1>5, <1>6, <1>9
<1> QED
  BY <1>4, <1>6, <1>7, <1>9, <1>10, <1>11, <1>12, StepKeeps DEF y

\* open() has failed.
LEMMA OpenFailsKeeps ==
    ASSUME IInv, NEW t \in Tasks, At(t, "done"), k[t].op = "open",
           k' = [k EXCEPT ![t] = [Idle EXCEPT !.pc = "user"]],
           file_table' = [file_table EXCEPT ![proc[t].filp[k[t].fd]] = NoFile],
           proc' = [proc EXCEPT ![t].filp[k[t].fd] = 0],
           UNCHANGED use, DiskStays
    PROVE  IInv'
<1> DEFINE x == k[t]
           y == k'[t]
           fd == k[t].fd
           f == proc[t].filp[fd]
<1>1. TasksInv /\ HavingInv(x, proc[t]) /\ DOMAIN k = Tasks /\ x.pc = "done"
  BY AtIs
<1>2. /\ x.empty = 0 /\ ~ Gone(x)
      /\ \A s \in Slots : /\ Mine(x, proc[t], s) = Lasting(proc[t], s)
                          /\ Lasting(proc[t], s) \in Nat
  BY <1>1, DoneIs DEF Gone
<1>3. /\ fd \in Fds /\ f \in Files /\ file_table[f].inode = 0 /\ file_table[f].count = 1
      /\ \A j \in Fds \ {fd} : /\ proc[t].filp[j] # f
                               /\ proc[t].filp[j] # 0 => file_table[proc[t].filp[j]].inode # 0
  BY ReservedIs
<1>4. y = IdleAt("user") /\ Only(t)
  BY <1>1 DEF Only, IdleAt
<1> HIDE DEF y
<1>5. /\ DoingInv(y) /\ y.op = "none" /\ Place0(y) = "user" /\ y.empty = 0 /\ ~ Gone(y)
      /\ \A pp : \A s \in Slots : Mine(y, pp, s) = Lasting(pp, s)
  BY <1>4, IdleIs
<1>6. /\ DOMAIN proc' = Tasks /\ \A u \in Tasks \ {t} : proc'[u] = proc[u]
      /\ DOMAIN proc'[t] = {"filp", "pwd", "root", "executable"}
      /\ proc'[t].pwd = proc[t].pwd /\ proc'[t].root = proc[t].root
      /\ proc'[t].executable = proc[t].executable
      /\ proc'[t].filp[fd] = 0 /\ \A j \in Fds \ {fd} : proc'[t].filp[j] = proc[t].filp[j]
      /\ proc'[t].filp = [proc[t].filp EXCEPT ![fd] = 0]
  BY <1>1, <1>3 DEF TasksInv, HavingInv
<1>7. HavingInv(y, proc'[t])
  <2>1. proc'[t].filp \in [Fds -> {0} \cup Files]
    BY <1>1, <1>6 DEF HavingInv
  <2> QED
    BY <1>1, <1>2, <1>5, <1>6, <2>1 DEF HavingInv
<1>8. DOMAIN file_table = Files
  BY DEF IInv, FilesInv
<1>9. Marks
  BY Unmarked DEF DiskStays
<1>10. /\ TableInv' /\ DataInv' /\ \A s \in Slots : table'[s].count = table[s].count
       /\ \A s \in Slots : SlotStep(table[s], table'[s], Mine(x, proc[t], s), s, x.empty, y.empty)
  BY <1>2, <1>5, <1>9, MarksSlots DEF y
<1>11. proc[t].filp[fd] = f
  OBVIOUS
<1>12. file_table' = [file_table EXCEPT ![f] = NoFile]
  OBVIOUS
<1> HIDE DEF f, fd, x
<1>13. fd \in Fds /\ f \in Files /\ f # 0
  BY <1>3 DEF Files
<1>14. DOMAIN k' = Tasks
  BY <1>4 DEF Only
<1>15. DOMAIN proc' = Tasks
  BY <1>6
<1>16. \A u \in Tasks \ {t} : k'[u] = k[u] /\ proc'[u] = proc[u]
  BY <1>4, <1>6 DEF Only
<1>17. DoingInv(k'[t])
  BY <1>5 DEF y
<1>18. HavingInv(k'[t], proc'[t])
  BY <1>7 DEF y
<1>19. \A j \in Fds \ {fd} : proc'[t].filp[j] = proc[t].filp[j]
  BY <1>6
<1>20. proc[t].filp[fd] \in {0, f} /\ proc'[t].filp[fd] \in {0, f}
  BY <1>6, <1>11
<1>21. DOMAIN file_table' = Files
  BY <1>8, <1>12
<1>22. \A e \in Files \ {f} : file_table'[e] = file_table[e]
  BY <1>8, <1>12
<1>23. file_table'[f] = NoFile
  BY <1>8, <1>12, <1>13
<1>24. /\ DOMAIN file_table'[f] = {"count", "inode", "write"}
       /\ file_table'[f].count = 0 /\ file_table'[f].inode = 0
  BY <1>23 DEF NoFile
<1>25. file_table'[f].count \in Nat /\ file_table'[f].inode \in {0} \cup Slots
  BY <1>24
<1>26. file_table'[f].count = 0 => file_table'[f].inode = 0
  BY <1>24
<1>27. file_table'[f].inode = file_table[f].inode \/ file_table[f].count \in {0, 1}
  BY <1>3
<1>28. file_table[f].count = 1 => \E j \in Fds : proc[t].filp[j] = f
  BY <1>11, <1>13
<1>29. file_table'[f].count + One(proc[t].filp[fd], f)
         = file_table[f].count + One(proc'[t].filp[fd], f)
  BY <1>3, <1>6, <1>11, <1>13, <1>24 DEF One
<1>30. OpensInv(k'[t], proc'[t], file_table')
  <2>1. ASSUME NEW j \in Fds, proc'[t].filp[j] # 0
        PROVE  file_table'[proc'[t].filp[j]].inode # 0
    <3>1. j # fd /\ proc'[t].filp[j] = proc[t].filp[j] /\ proc[t].filp[j] \in Files \ {f}
      BY <1>1, <1>3, <1>6, <2>1 DEF HavingInv
    <3> QED
      BY <1>3, <1>22, <2>1, <3>1
  <2> QED
    BY <1>5, <2>1 DEF OpensInv, y
<1>31. TableInv' /\ DataInv' /\ UseInv'
  BY <1>10 DEF IInv, UseInv
<1>32. \A s \in Slots : SlotStep(table[s], table'[s], Mine(k[t], proc[t], s), s,
                               k[t].empty, k'[t].empty)
  BY <1>10 DEF x, y
<1>33. ASSUME NEW s \in Slots
       PROVE  table'[s].count + Mine(k[t], proc[t], s) + One(file_table[f].inode, s)
                = table[s].count + Mine(k'[t], proc'[t], s) + One(file_table'[f].inode, s)
  <2>1. Lasting(proc'[t], s) = Lasting(proc[t], s)
    BY <1>6 DEF Lasting
  <2>2. Mine(k'[t], proc'[t], s) = Mine(k[t], proc[t], s)
    BY <1>2, <1>5, <2>1 DEF x, y
  <2>3. table'[s].count = table[s].count /\ file_table'[f].inode = file_table[f].inode
    BY <1>3, <1>10, <1>24
  <2> QED
    BY <2>2, <2>3
<1> QED
  BY ONLY IInv, t \in Tasks, FileStep, <1>13, <1>14, <1>15, <1>16, <1>17, <1>18, <1>19,
          <1>20, <1>21, <1>22, <1>24, <1>25, <1>26, <1>27, <1>28, <1>29, <1>30, <1>31,
          <1>32, <1>33

\* A call returns.
LEMMA ReturnKeeps == ASSUME IInv, NEW t \in Tasks, Return(t) PROVE IInv'
<1>1. At(t, "done") /\ UNCHANGED use /\ DiskStays
  BY DEF Return
<1>2. CASE k[t].op = "open"
  BY <1>1, <1>2, OpenFailsKeeps DEF Return
<1>3. CASE k[t].op # "open"
  <2> DEFINE p == IF k[t].op = "exit" THEN "dead" ELSE "user"
  <2>1. /\ k' = [k EXCEPT ![t] = [Idle EXCEPT !.pc = p]]
        /\ UNCHANGED <<file_table, proc>>
    BY <1>3 DEF Return
  <2>2. p \in {"user", "dead"} /\ (p = "dead" <=> k[t].op = "exit")
    OBVIOUS
  <2> HIDE DEF p
  <2>3. UNCHANGED nvars
    BY <1>1, <2>1 DEF nvars
  <2> QED
    BY <1>1, <1>3, <2>1, <2>2, <2>3, ReturnsKeeps
<1> QED
  BY <1>2, <1>3

-----------------------------------------------------------------------------
\* The hands of the inodes to put, when the first of them is gone.
LEMMA TailIs ==
    ASSUME NEW q \in Seq(Slots), q # <<>>, Len(q) <= 3, NEW s
    PROVE  /\ Head(q) \in Slots /\ Tail(q) \in Seq(Slots) /\ Len(Tail(q)) <= 3
           /\ Waiting(q, s) = One(Head(q), s) + Waiting(Tail(q), s)
<1> DEFINE r == Tail(q)
<1>1. /\ Head(q) \in Slots /\ Head(q) = q[1] /\ r \in Seq(Slots)
      /\ Len(q) \in Nat /\ Len(q) >= 1 /\ Len(r) = Len(q) - 1
  OBVIOUS
<1>2. (Len(r) >= 1 => r[1] = q[2]) /\ (Len(r) >= 2 => r[2] = q[3])
  OBVIOUS
<1> HIDE DEF r
<1>3. Waiting(q, s) = One(q[1], s) + Waiting(r, s)
  <2>1. CASE Len(q) = 1
    BY <1>1, <2>1 DEF Waiting, One
  <2>2. CASE Len(q) = 2
    BY <1>1, <1>2, <2>2 DEF Waiting, One
  <2>3. CASE Len(q) = 3
    BY <1>1, <1>2, <2>3 DEF Waiting, One
  <2> QED
    BY <1>1, <2>1, <2>2, <2>3
<1> QED
  BY <1>1, <1>3 DEF r

\* A task that only has other inodes to put is where it was.
LEMMA PutsAlone ==
    ASSUME NEW x, NEW y, DoingInv(x), DOMAIN y = Fields,
           \A f \in Fields \ {"puts", "io"} : y[f] = x[f],
           y.puts \in Seq(Slots), Len(y.puts) <= 3, y.puts # <<>> => x.puts # <<>>,
           y.io \in {"none", "write", "trunc", "free"}, y.io # "none" => y.puts # <<>>
    PROVE  /\ DoingInv(y) /\ SameCall(x, y) /\ y.empty = x.empty
           /\ \A p, s : Mine(y, p, s) + Waiting(x.puts, s) = Mine(x, p, s) + Waiting(y.puts, s)
<1>1. /\ y.pc = x.pc /\ y.op = x.op /\ y.path = x.path /\ y.more = x.more
      /\ y.dir = x.dir /\ y.ino = x.ino /\ y.old = x.old /\ y.empty = x.empty
      /\ y.nr = x.nr /\ y.fd = x.fd /\ y.n = x.n /\ y.obj = x.obj
      /\ y.ret = x.ret /\ y.mret = x.mret
  BY DEF Fields
<1>2. Place0(y) = Place0(x)
  BY <1>1 DEF Place0
<1>3. /\ Suits(y) /\ (HasDir(y) <=> HasDir(x)) /\ (HasIno(y) <=> HasIno(x))
      /\ HasOld(y) <=> HasOld(x)
  BY <1>1, <1>2 DEF DoingInv, Suits, HasDir, HasIno, HasOld, Second
<1>4. DoingInv(y)
  BY <1>1, <1>2, <1>3 DEF DoingInv, If
<1>5. SameCall(x, y)
  BY <1>1, <1>2 DEF SameCall, Gone
<1>6. ASSUME NEW p, NEW s
      PROVE  Mine(y, p, s) + Waiting(x.puts, s) = Mine(x, p, s) + Waiting(y.puts, s)
  <2>1. Waiting(x.puts, s) \in Nat /\ Waiting(y.puts, s) \in Nat
    BY WaitingNat DEF DoingInv
  <2> QED
    BY <1>1, <2>1 DEF Mine, One
<1> QED
  BY <1>1, <1>4, <1>5, <1>6

\* iput() has one user of the inode less, perhaps none.
LEMMA PutOne ==
    ASSUME IInv, NEW t \in Tasks, UNCHANGED nvars, UNCHANGED <<disk, blks, last_inode>>,
           k[t].puts # <<>>, NEW s, s = Head(k[t].puts),
           NEW r, RecInv(r), r.count = table[s].count - 1,
           r.num = table[s].num \/ r.count = 0,
           table' = [table EXCEPT ![s] = r],
           Go(t, [io |-> "none", puts |-> Tail(k[t].puts)])
    PROVE  IInv'
<1> DEFINE x == k[t]
           y == k'[t]
<1>1. /\ TasksInv /\ DoingInv(x) /\ x.puts \in Seq(Slots) /\ Len(x.puts) <= 3
      /\ DOMAIN k = Tasks /\ DOMAIN x = Fields
  BY DEF IInv, TasksInv, DoingInv
<1>2. s \in Slots
  BY <1>1, TailIs
<1>3. /\ table[s].num \in Inums /\ table[s].count >= 1 /\ Mine(x, proc[t], s) >= 1
      /\ x.empty # s
  BY <1>2, HadIsNumbered DEF Has
<1>4. /\ Only(t) /\ DOMAIN y = Fields
      /\ \A f \in Fields \ {"puts", "io"} : y[f] = x[f]
      /\ y.puts = Tail(x.puts) /\ y.io = "none"
  <2> DEFINE a == Tail(x.puts)
  <2>1. Go(t, [io |-> "none", puts |-> a])
    OBVIOUS
  <2> HIDE DEF a
  <2>2. /\ Only(t) /\ DOMAIN y = Fields
        /\ \A f \in Fields \ {"puts", "io"} : y[f] = x[f]
        /\ y.puts = a /\ y.io = "none"
    BY <1>1, <2>1 DEF Go, Changed, Only, Fields
  <2> QED
    BY <2>2 DEF a
<1>5. y.puts \in Seq(Slots) /\ Len(y.puts) <= 3
  BY <1>1, <1>4, TailIs
<1>6. /\ DoingInv(y) /\ SameCall(x, y) /\ y.empty = x.empty
      /\ \A p, z : Mine(y, p, z) + Waiting(x.puts, z) = Mine(x, p, z) + Waiting(y.puts, z)
  <2>1. /\ DoingInv(x) /\ DOMAIN y = Fields
        /\ \A f \in Fields \ {"puts", "io"} : y[f] = x[f]
        /\ y.puts \in Seq(Slots) /\ Len(y.puts) <= 3 /\ x.puts # <<>> /\ y.io = "none"
    BY <1>1, <1>4, <1>5
  <2> HIDE DEF x, y
  <2> QED
    BY ONLY <2>1, PutsAlone
<1>7. DOMAIN table = Slots /\ \A z \in Slots : RecInv(table[z])
  BY DEF IInv, TableInv
<1>8. (DOMAIN table)' = Slots /\ \A z \in Slots : table'[z] = IF z = s THEN r ELSE table[z]
  BY <1>7
<1>9. TableInv' /\ DataInv'
  BY <1>7, <1>8 DEF TableInv, IInv, DataInv
<1>10. ASSUME NEW z \in Slots
       PROVE  SlotStep(table[z], table'[z], Mine(x, proc[t], z), z, x.empty, y.empty)
  <2>1. z = x.empty => table[z].num = 0 /\ table[z].count = 1
    BY DEF IInv, EmptyHeld, Slots
  <2>2. table[s].num # 0
    BY <1>3, TableAssumption DEF Inums
  <2> QED
    BY <1>3, <1>6, <1>8, <2>1, <2>2 DEF SlotStep
<1>11. ASSUME NEW z \in Slots
       PROVE  table'[z].count + Mine(x, proc[t], z) = table[z].count + Mine(y, proc[t], z)
  <2>1. Waiting(x.puts, z) = One(s, z) + Waiting(y.puts, z)
    BY <1>1, <1>4, TailIs
  <2>2. Waiting(x.puts, z) \in Nat /\ Waiting(y.puts, z) \in Nat
    BY <1>1, <1>5, WaitingNat
  <2>3. /\ table[z].count \in Nat /\ Mine(x, proc[t], z) \in Nat
        /\ Mine(y, proc[t], z) + Waiting(x.puts, z) = Mine(x, proc[t], z) + Waiting(y.puts, z)
    BY <1>6, Enough
  <2>4. Mine(y, proc[t], z) \in Nat
    BY <2>2 DEF Mine, One
  <2>5. table'[z].count = table[z].count - One(s, z)
    BY <1>7, <1>8 DEF One, RecInv
  <2> QED
    BY ONLY <2>1, <2>2, <2>3, <2>4, <2>5 DEF One
<1> QED
  BY <1>4, <1>6, <1>9, <1>10, <1>11, LocalStep

\* iput() goes on with a place of its own.
LEMMA IoStep ==
    ASSUME IInv, NEW t \in Tasks, UNCHANGED nvars, Marks, k[t].puts # <<>>,
           NEW i \in {"none", "write", "trunc", "free"},
           k' = [k EXCEPT ![t] = Changed(@, [io |-> i])]
    PROVE  IInv'
<1> DEFINE x == k[t]
           y == k'[t]
<1>1. /\ TasksInv /\ DoingInv(x) /\ x.puts \in Seq(Slots) /\ Len(x.puts) <= 3
      /\ DOMAIN k = Tasks /\ DOMAIN x = Fields
  BY DEF IInv, TasksInv, DoingInv
<1>2. /\ Only(t) /\ DOMAIN y = Fields
      /\ \A f \in Fields \ {"puts", "io"} : y[f] = x[f]
      /\ y.puts = x.puts /\ y.io = i
  BY <1>1 DEF Changed, Only, Fields
<1>3. /\ DoingInv(y) /\ SameCall(x, y) /\ y.empty = x.empty
      /\ \A p, z : Mine(y, p, z) + Waiting(x.puts, z) = Mine(x, p, z) + Waiting(y.puts, z)
  BY <1>1, <1>2, PutsAlone
<1>4. ASSUME NEW z \in Slots PROVE Mine(y, proc[t], z) = Mine(x, proc[t], z)
  <2>1. Waiting(x.puts, z) \in Nat /\ Waiting(y.puts, z) = Waiting(x.puts, z)
    BY <1>1, <1>2, WaitingNat
  <2>2. Mine(x, proc[t], z) \in Nat /\ Mine(y, proc[t], z) \in Nat
    BY <2>1 DEF Mine, One
  <2>3. Mine(y, proc[t], z) + Waiting(x.puts, z) = Mine(x, proc[t], z) + Waiting(y.puts, z)
    BY <1>3
  <2> QED
    BY ONLY <2>1, <2>2, <2>3
<1> QED
  BY <1>2, <1>3, <1>4, MarkStep

\* iput(), to its next sleep.
LEMMA IputKeeps == ASSUME IInv, NEW t \in Tasks, UNCHANGED nvars, Iput(t) PROVE IInv'
<1> DEFINE x == k[t]
           s == Head(x.puts)
<1>1. /\ TasksInv /\ DoingInv(x) /\ x.puts \in Seq(Slots) /\ Len(x.puts) <= 3
      /\ DOMAIN k = Tasks /\ DOMAIN x = Fields /\ x.puts # <<>> /\ x.io = "none"
      /\ ~ table[s].lock
  BY DEF IInv, TasksInv, DoingInv, Iput
<1>2. s \in Slots
  BY <1>1, TailIs
<1>3. /\ table[s].num \in Inums /\ table[s].count >= 1 /\ RecInv(table[s])
      /\ table[s].num # 0 /\ DOMAIN table = Slots
  <2>1. table[s].num \in Inums /\ table[s].count >= 1
    BY <1>1, <1>2, HadIsNumbered DEF Has
  <2> QED
    BY <1>2, <2>1, TableAssumption DEF IInv, TableInv, Inums
<1> HIDE DEF s
<1>4. CASE panic("iput: trying to free free inode")
  BY <1>4, StayKeeps DEF panic
<1>5. CASE /\ table[s].count > 1 \/ (table[s].count = 1 /\ ~ table[s].dirt)
           /\ table' = [table EXCEPT ![s].count = @ - 1]
           /\ Go(t, [puts |-> Tail(x.puts)])
           /\ UNCHANGED <<disk, imap, zmap, blks, last_inode, halt>>
  <2> DEFINE r == [table[s] EXCEPT !.count = @ - 1]
  <2>1. RecInv(r) /\ r.count = table[s].count - 1 /\ r.num = table[s].num
    BY <1>1, <1>3, <1>5 DEF RecInv
  <2>2. table' = [table EXCEPT ![s] = r]
    BY <1>5
  <2> HIDE DEF r
  <2>3. Go(t, [io |-> "none", puts |-> Tail(x.puts)])
    <3> DEFINE a == Tail(x.puts)
    <3>1. Go(t, [puts |-> a])
      BY <1>5
    <3> HIDE DEF a
    <3>2. Changed(x, [io |-> "none", puts |-> a]) = Changed(x, [puts |-> a])
      BY <1>1 DEF Changed, Fields
    <3>3. Go(t, [io |-> "none", puts |-> a])
      BY <3>1, <3>2 DEF Go
    <3> QED
      BY <3>3 DEF a
  <2> QED
    BY <1>1, <1>5, <2>1, <2>2, <2>3, PutOne DEF s
<1>6. CASE /\ Go(t, [io |-> "trunc"])
           /\ UNCHANGED <<table, disk, imap, zmap, blks, last_inode, halt>>
  <2>1. Marks
    BY <1>6, Unmarked
  <2> QED
    BY <1>1, <1>6, <2>1, IoStep DEF Go
<1>7. CASE WriteInode(t, s, [io |-> "write"])
  <2>1. Marks /\ Sleep(t, [io |-> "write"])
    BY <1>3, <1>7, LockedMarks
  <2> QED
    BY <1>1, <2>1, IoStep DEF Sleep
<1> QED
  BY <1>3, <1>4, <1>5, <1>6, <1>7 DEF Iput, s

\* The first inode that a task puts is in use.
LEMMA FirstIs ==
    ASSUME IInv, NEW t \in Tasks, k[t].puts # <<>>
    PROVE  /\ Head(k[t].puts) \in Slots /\ table[Head(k[t].puts)].num \in Inums
           /\ table[Head(k[t].puts)].count >= 1 /\ RecInv(table[Head(k[t].puts)])
<1>1. k[t].puts \in Seq(Slots) /\ Len(k[t].puts) <= 3
  BY DEF IInv, TasksInv, DoingInv
<1>2. Head(k[t].puts) \in Slots
  BY <1>1, TailIs
<1> QED
  BY <1>2, HadIsNumbered DEF Has, IInv, TableInv

\* iput() has written the inode, ...
LEMMA IputWrittenKeeps ==
    ASSUME IInv, NEW t \in Tasks, UNCHANGED nvars, IputWritten(t)
    PROVE  IInv'
<1>1. Marks /\ Go(t, [io |-> "none"])
  BY WrittenMarks DEF IputWritten
<1>2. k[t].puts # <<>>
  BY DEF IInv, TasksInv, DoingInv, IputWritten
<1> QED
  BY <1>1, <1>2, IoStep DEF Go

\* ... truncates the file, ...
LEMMA IputTruncatesKeeps ==
    ASSUME IInv, NEW t \in Tasks, UNCHANGED nvars, IputTruncates(t)
    PROVE  IInv'
<1>1. k[t].puts # <<>> /\ TruncateStep(t, Head(k[t].puts), [io |-> "free"])
  BY DEF IputTruncates
<1>2. Marks /\ (UNCHANGED k \/ Go(t, [io |-> "free"]))
  BY <1>1, FirstIs, TruncateMarks
<1>3. CASE UNCHANGED k
  BY <1>2, <1>3, MarksKeep
<1>4. CASE Go(t, [io |-> "free"])
  BY <1>1, <1>2, <1>4, IoStep DEF Go
<1> QED
  BY <1>2, <1>3, <1>4

\* ... and frees the inode.
LEMMA IputFreesKeeps ==
    ASSUME IInv, NEW t \in Tasks, UNCHANGED nvars, IputFrees(t)
    PROVE  IInv'
<1> DEFINE s == Head(k[t].puts)
<1>1. k[t].puts # <<>>
  BY DEF IInv, TasksInv, DoingInv, IputFrees
<1>2. table[s].count >= 1 /\ table[s].count \in Nat
  BY <1>1, FirstIs DEF RecInv
<1>3. ASSUME NEW m, panic(m) PROVE IInv'
  BY <1>3, StayKeeps DEF panic
<1>4. CASE /\ ~ (table[s].count > 1)
           /\ table' = [table EXCEPT ![s] = NoInode]
           /\ Go(t, [io |-> "none", puts |-> Tail(k[t].puts)])
           /\ UNCHANGED <<disk, zmap, blks, last_inode, halt>>
  <2>1. RecInv(NoInode) /\ NoInode.count = 0
    BY TableAssumption DEF RecInv, NoInode
  <2>2. NoInode.count = table[s].count - 1
    BY <1>2, <1>4, <2>1
  <2> HIDE DEF s
  <2> QED
    BY <1>1, <1>4, <2>1, <2>2, PutOne DEF s
<1> QED
  BY <1>3, <1>4 DEF IputFrees, free_inode

-----------------------------------------------------------------------------
\* iget() takes the slot that it may need.
LEMMA IgetKeeps == ASSUME IInv, NEW t \in Tasks, UNCHANGED nvars, Iget(t) PROVE IInv'
<1> DEFINE x == k[t]
           y == k'[t]
           s == NewSlot
           r == [NoInode EXCEPT !.count = 1]
<1> USE DEF Suits, Place0, Mapping, Searching, NoCall, WalkPlaces, OpenPlaces, AddPlaces,
            HasDir, HasIno, HasOld, Second, If
<1>1. /\ TasksInv /\ DoingInv(x) /\ DOMAIN k = Tasks /\ DOMAIN x = Fields /\ At(t, "iget")
      /\ x.pc = "iget" /\ x.io = "none" /\ x.puts = <<>>
  BY AtIs DEF Iget
<1>2. /\ x.ino = 0 /\ x.empty = 0 /\ x.ret \in {"walked", "named", "opened", "victim"}
      /\ x.nr \in Inums /\ x.n \in Nat
  BY <1>1 DEF DoingInv
<1>3. CASE panic("No free inodes in mem")
  BY <1>3, StayKeeps DEF panic
<1>4. CASE /\ Unused # {}
           /\ table' = [table EXCEPT ![s] = r]
           /\ last_inode' = s
           /\ Go(t, [empty |-> s, pc |-> "search"])
           /\ UNCHANGED <<disk, imap, zmap, blks, halt>>
  <2>1. s \in Slots /\ table[s].count = 0
    BY <1>4, NewSlotIs
  <2>2. RecInv(r) /\ r.count = 1 /\ r.num = 0
    BY TableAssumption DEF NoInode, RecInv
  <2> HIDE DEF s, r
  <2>3. /\ Only(t) /\ DOMAIN y = Fields
        /\ y.pc = "search" /\ y.ret = x.ret /\ y.dir = x.dir /\ y.ino = x.ino
        /\ y.old = x.old /\ y.puts = <<>> /\ y.op = x.op /\ y.more = x.more
        /\ y.empty = s /\ y.io = x.io /\ y.n = x.n /\ y.fd = x.fd /\ y.nr = x.nr
    BY <1>1, <1>4 DEF Go, Changed, Only, Fields
  <2>4. DoingInv(y)
    BY <1>1, <1>2, <2>1, <2>3 DEF DoingInv
  <2>5. SameCall(x, y)
    BY <1>1, <1>2, <2>3 DEF SameCall, Gone
  <2>6. \A z \in Slots : One(y.dir, z) + One(y.ino, z) + One(y.old, z) + One(y.empty, z)
                           = One(x.dir, z) + One(x.ino, z) + One(x.old, z) + One(s, z)
    BY <2>3 DEF One
  <2> QED
    BY <1>1, <1>2, <1>4, <2>1, <2>2, <2>3, <2>4, <2>5, <2>6, TakeStep
<1> QED
  BY <1>3, <1>4 DEF Iget

\* iget() has found the inode in another slot, and gives back the empty one.
LEMMA FoundKeeps == ASSUME IInv, NEW t \in Tasks, UNCHANGED nvars, Found(t) PROVE IInv'
<1> DEFINE x == k[t]
           y == k'[t]
           s == Min(Hits(t))
           e == k[t].empty
<1> USE DEF Suits, Place0, Mapping, Searching, NoCall, WalkPlaces, OpenPlaces, AddPlaces,
            HasDir, HasIno, HasOld, Second, If
<1>1. /\ TasksInv /\ DoingInv(x) /\ DOMAIN k = Tasks /\ DOMAIN x = Fields /\ At(t, "search")
      /\ x.pc = "search" /\ x.io = "none" /\ x.puts = <<>>
      /\ \A z \in Slots : /\ Mine(x, proc[t], z) = One(x.dir, z) + One(x.ino, z)
                                + One(x.old, z) + One(x.empty, z) + Lasting(proc[t], z)
                          /\ Lasting(proc[t], z) \in Nat /\ One(0, z) = 0
  BY AtIs DEF Found
<1>2. /\ x.ino = 0 /\ e \in Slots /\ x.ret \in {"walked", "named", "opened", "victim"}
      /\ x.nr \in Inums /\ x.n \in Nat
  BY <1>1 DEF DoingInv
<1>3. s \in Slots /\ table[s].num = x.nr /\ ~ table[s].lock
  <2>1. Hits(t) \subseteq Nat /\ Hits(t) # {}
    BY DEF Hits, Slots, Found
  <2>2. s \in Hits(t)
    BY <2>1, LeastElement
  <2> QED
    BY <2>2 DEF Hits, Found
<1>4. /\ table' = [table EXCEPT ![s].count = @ + 1, ![e] = NoInode]
      /\ Go(t, [ino |-> s, empty |-> 0, pc |-> x.ret])
      /\ UNCHANGED <<disk, imap, zmap, blks, last_inode, halt>>
  BY DEF Found
<1> HIDE DEF s
<1>5. /\ table[s].num # 0 /\ table[e].num = 0 /\ table[e].count = 1 /\ s # e
      /\ DOMAIN table = Slots /\ \A z \in Slots : RecInv(table[z])
  BY <1>2, <1>3, TableAssumption DEF Inums, IInv, EmptyHeld, Slots, TableInv
<1>6. /\ Only(t) /\ DOMAIN y = Fields
      /\ y.pc = x.ret /\ y.ret = x.ret /\ y.dir = x.dir /\ y.ino = s
      /\ y.old = x.old /\ y.puts = <<>> /\ y.op = x.op /\ y.more = x.more
      /\ y.empty = 0 /\ y.io = x.io /\ y.n = x.n /\ y.fd = x.fd
  BY <1>1, <1>4 DEF Go, Changed, Only, Fields
<1>7. DoingInv(y)
  <2>1. CASE x.ret = "walked"
    BY <1>1, <1>2, <1>3, <1>6, <2>1 DEF DoingInv
  <2>2. CASE x.ret = "named"
    BY <1>1, <1>2, <1>3, <1>6, <2>2 DEF DoingInv
  <2>3. CASE x.ret = "opened"
    BY <1>1, <1>2, <1>3, <1>6, <2>3 DEF DoingInv
  <2>4. CASE x.ret = "victim"
    BY <1>1, <1>2, <1>3, <1>6, <2>4 DEF DoingInv
  <2> QED
    BY <1>2, <2>1, <2>2, <2>3, <2>4
<1>8. SameCall(x, y)
  BY <1>1, <1>2, <1>6 DEF SameCall, Gone
<1>9. /\ (DOMAIN table)' = Slots
      /\ \A z \in Slots \ {s, e} : table'[z] = table[z]
      /\ table'[e] = NoInode /\ table'[s] = [table[s] EXCEPT !.count = @ + 1]
  BY <1>2, <1>3, <1>4, <1>5
<1>10. RecInv(table'[s]) /\ RecInv(table'[e])
  <2>1. RecInv(table[s])
    BY <1>3, <1>5
  <2>2. RecInv(table'[s])
    BY <1>5, <1>9, <2>1 DEF RecInv
  <2>3. RecInv(NoInode)
    BY TableAssumption DEF RecInv, NoInode
  <2> QED
    BY <1>9, <2>2, <2>3
<1>11. TableInv' /\ DataInv'
  BY <1>4, <1>5, <1>9, <1>10 DEF TableInv, IInv, DataInv
<1>12. /\ table'[s].num = table[s].num /\ table'[s].count = table[s].count + 1
       /\ table'[e].num = 0 /\ table'[e].count = 0
  BY <1>3, <1>5, <1>9 DEF RecInv, NoInode
<1> HIDE DEF e
<1>13. ASSUME NEW z \in Slots
       PROVE  SlotStep(table[z], table'[z], Mine(x, proc[t], z), z, x.empty, y.empty)
  <2>1. CASE z = s
    BY <1>2, <1>5, <1>6, <1>12, <2>1 DEF SlotStep, Slots
  <2>2. CASE z = e
    <3>1. Mine(x, proc[t], z) >= 1
      BY <1>1, <2>2 DEF One, e
    <3> QED
      BY <1>2, <1>6, <1>12, <2>2, <3>1 DEF SlotStep, Slots
  <2>3. CASE z \notin {s, e}
    BY <1>6, <1>9, <2>3 DEF SlotStep, Slots, e
  <2> QED
    BY <2>1, <2>2, <2>3
<1>14. ASSUME NEW z \in Slots
       PROVE  table'[z].count + Mine(x, proc[t], z) = table[z].count + Mine(y, proc[t], z)
  <2>1. Mine(y, proc[t], z) = One(y.dir, z) + One(y.ino, z) + One(y.old, z)
                              + One(y.empty, z) + Lasting(proc[t], z)
    BY <1>6, MineIs
  <2>2. Mine(y, proc[t], z) + One(e, z) = Mine(x, proc[t], z) + One(s, z)
    BY <1>1, <1>2, <1>6, <2>1 DEF One, e
  <2>3. table'[z].count + One(e, z) = table[z].count + One(s, z) /\ table[z].count \in Nat
        /\ table'[z].count \in Nat
    BY <1>5, <1>9, <1>10, <1>12 DEF One, RecInv
  <2>4. Mine(x, proc[t], z) \in Nat /\ Mine(y, proc[t], z) \in Nat
    BY <1>1, <2>1 DEF One
  <2> QED
    BY ONLY <2>2, <2>3, <2>4 DEF One
<1> QED
  BY <1>6, <1>7, <1>8, <1>11, <1>13, <1>14, LocalStep

\* read_inode() takes the empty slot and locks it.
LEMMA ReadInodeKeeps == ASSUME IInv, NEW t \in Tasks, UNCHANGED nvars, ReadInode(t) PROVE IInv'
<1> DEFINE x == k[t]
           y == k'[t]
           e == k[t].empty
<1> USE DEF Suits, Place0, Mapping, Searching, NoCall, WalkPlaces, OpenPlaces, AddPlaces,
            HasDir, HasIno, HasOld, Second, If
<1>1. /\ TasksInv /\ DoingInv(x) /\ DOMAIN k = Tasks /\ DOMAIN x = Fields /\ At(t, "search")
      /\ x.pc = "search" /\ x.io = "none" /\ x.puts = <<>>
      /\ \A z \in Slots : /\ Mine(x, proc[t], z) = One(x.dir, z) + One(x.ino, z)
                                + One(x.old, z) + One(x.empty, z) + Lasting(proc[t], z)
                          /\ Lasting(proc[t], z) \in Nat /\ One(0, z) = 0
  BY AtIs DEF ReadInode
<1>2. /\ x.ino = 0 /\ e \in Slots /\ x.ret \in {"walked", "named", "opened", "victim"}
      /\ x.nr \in Inums /\ x.n \in Nat
  BY <1>1 DEF DoingInv
<1>3. /\ table' = [table EXCEPT ![e].num = x.nr, ![e].lock = TRUE]
      /\ Sleep(t, [ino |-> e, empty |-> 0, pc |-> "read"])
      /\ UNCHANGED <<disk, imap, zmap, blks, last_inode, halt>>
  BY DEF ReadInode
<1>4. /\ table[e].num = 0 /\ table[e].count = 1 /\ x.nr # 0
      /\ DOMAIN table = Slots /\ \A z \in Slots : RecInv(table[z])
  BY <1>2, TableAssumption DEF Inums, IInv, EmptyHeld, Slots, TableInv
<1>5. /\ Only(t) /\ DOMAIN y = Fields
      /\ y.pc = "read" /\ y.ret = x.ret /\ y.dir = x.dir /\ y.ino = e
      /\ y.old = x.old /\ y.puts = <<>> /\ y.op = x.op /\ y.more = x.more
      /\ y.empty = 0 /\ y.io = x.io /\ y.n = x.n /\ y.fd = x.fd /\ y.nr = x.nr
  BY <1>1, <1>3 DEF Sleep, Changed, Only, Fields
<1>6. DoingInv(y)
  BY <1>1, <1>2, <1>5 DEF DoingInv
<1>7. SameCall(x, y)
  BY <1>1, <1>2, <1>5 DEF SameCall, Gone
<1> HIDE DEF e
<1>8. (DOMAIN table)' = Slots /\ \A z \in Slots \ {e} : table'[z] = table[z]
  BY <1>3, <1>4
<1>9. /\ DOMAIN table'[e] = DOMAIN table[e] /\ table'[e].num = x.nr
      /\ table'[e].count = 1 /\ table'[e].dirt = table[e].dirt /\ table'[e].lock = TRUE
  BY <1>2, <1>3, <1>4 DEF RecInv
<1>10. RecInv(table'[e])
  <2>1. table'[e].lock \in BOOLEAN /\ table'[e].dirt \in BOOLEAN
    BY <1>2, <1>4, <1>9 DEF RecInv
  <2>2. x.nr \in 0 .. NInodes
    BY <1>2, TableAssumption DEF Inums
  <2> QED
    BY <1>2, <1>4, <1>9, <2>1, <2>2 DEF RecInv
<1>11. TableInv' /\ DataInv'
  BY <1>3, <1>4, <1>8, <1>10 DEF TableInv, IInv, DataInv
<1>12. ASSUME NEW z \in Slots
       PROVE  SlotStep(table[z], table'[z], Mine(x, proc[t], z), z, x.empty, y.empty)
  <2>1. CASE z = e
    <3>1. Mine(x, proc[t], z) >= 1
      BY <1>1, <2>1 DEF One, e
    <3> QED
      BY <1>2, <1>4, <1>5, <1>9, <2>1, <3>1 DEF SlotStep, Slots
  <2>2. CASE z # e
    BY <1>5, <1>8, <2>2 DEF SlotStep, Slots, e
  <2> QED
    BY <2>1, <2>2
<1>13. ASSUME NEW z \in Slots
       PROVE  table'[z].count + Mine(x, proc[t], z) = table[z].count + Mine(y, proc[t], z)
  <2>1. Mine(y, proc[t], z) = One(y.dir, z) + One(y.ino, z) + One(y.old, z)
                              + One(y.empty, z) + Lasting(proc[t], z)
    BY <1>5, MineIs
  <2>2. Mine(y, proc[t], z) = Mine(x, proc[t], z)
    BY <1>1, <1>2, <1>5, <2>1 DEF One, e
  <2>3. table'[z].count = table[z].count
    BY <1>4, <1>8, <1>9
  <2> QED
    BY <2>2, <2>3
<1> QED
  BY <1>5, <1>6, <1>7, <1>11, <1>12, <1>13, LocalStep

\* read_inode() has the inode of the disk.
LEMMA InodeReadKeeps == ASSUME IInv, NEW t \in Tasks, UNCHANGED nvars, InodeRead(t) PROVE IInv'
<1> DEFINE x == k[t]
           y == k'[t]
           s == k[t].ino
<1> USE DEF Suits, Place0, Mapping, Searching, NoCall, WalkPlaces, OpenPlaces, AddPlaces,
            HasDir, HasIno, HasOld, Second, If
<1>1. /\ TasksInv /\ DoingInv(x) /\ DOMAIN k = Tasks /\ DOMAIN x = Fields /\ At(t, "read")
      /\ x.pc = "read" /\ x.io = "none" /\ x.puts = <<>>
  BY AtIs DEF InodeRead
<1>2. /\ s \in Slots /\ x.empty = 0 /\ x.ret \in {"walked", "named", "opened", "victim"}
      /\ x.nr \in Inums /\ x.n \in Nat
  BY <1>1 DEF DoingInv
<1>3. /\ table' = [table EXCEPT ![s] = Changed([@ EXCEPT !.lock = FALSE], disk[x.nr])]
      /\ Go(t, [pc |-> x.ret])
      /\ UNCHANGED <<disk, imap, zmap, blks, last_inode, halt>>
  BY DEF InodeRead
<1>4. /\ DOMAIN table = Slots /\ RecInv(table[s]) /\ DataInv
      /\ DOMAIN disk[x.nr] = {"nlinks", "kind", "size", "zone"}
  BY <1>2 DEF IInv, TableInv, DataInv
<1>5. Only(t) /\ DOMAIN y = Fields
      /\ y.pc = x.ret /\ y.ret = x.ret /\ y.dir = x.dir /\ y.ino = x.ino
      /\ y.old = x.old /\ y.puts = <<>> /\ y.op = x.op /\ y.more = x.more
      /\ y.empty = x.empty /\ y.io = x.io /\ y.n = x.n /\ y.fd = x.fd
  BY <1>1, <1>3 DEF Go, Changed, Only, Fields
<1>6. DoingInv(y)
  <2>1. CASE x.ret = "walked"
    BY <1>1, <1>2, <1>5, <2>1 DEF DoingInv
  <2>2. CASE x.ret = "named"
    BY <1>1, <1>2, <1>5, <2>2 DEF DoingInv
  <2>3. CASE x.ret = "opened"
    BY <1>1, <1>2, <1>5, <2>3 DEF DoingInv
  <2>4. CASE x.ret = "victim"
    BY <1>1, <1>2, <1>5, <2>4 DEF DoingInv
  <2> QED
    BY <1>2, <2>1, <2>2, <2>3, <2>4
<1>7. SameCall(x, y)
  BY <1>1, <1>2, <1>5 DEF SameCall, Gone
<1>8. Marks
  <2> DEFINE r == [table[s] EXCEPT !.lock = FALSE]
             d == disk[x.nr]
  <2>1. table' = [table EXCEPT ![s] = Changed(r, d)]
    BY <1>3
  <2>2. /\ DOMAIN r = DOMAIN table[s] /\ r.num = table[s].num /\ r.count = table[s].count
        /\ r.dirt = table[s].dirt /\ r.lock = FALSE
    BY <1>4 DEF RecInv
  <2>3. DOMAIN d = {"nlinks", "kind", "size", "zone"}
    BY <1>4
  <2> HIDE DEF r, d, s
  <2>4. (DOMAIN table)' = Slots /\ \A z \in Slots \ {s} : table'[z] = table[z]
    BY <1>4, <2>1
  <2>5. table'[s] = Changed(r, d)
    BY <1>2, <1>4, <2>1
  <2>6. /\ DOMAIN table'[s] = DOMAIN table[s] /\ table'[s].num = table[s].num
        /\ table'[s].count = table[s].count /\ table'[s].dirt = table[s].dirt
        /\ table'[s].lock = FALSE
    BY <1>4, <2>2, <2>3, <2>5 DEF Changed, RecInv
  <2>7. table'[s].dirt \in BOOLEAN /\ table'[s].lock \in BOOLEAN
    BY <1>4, <2>6 DEF RecInv
  <2>8. Marked(table[s], table'[s])
    BY <2>6, <2>7 DEF Marked
  <2>9. DataInv'
    BY <1>3, <1>4 DEF DataInv
  <2> QED
    BY <2>4, <2>8, <2>9, MarkOne
<1> QED
  BY <1>1, <1>5, <1>6, <1>7, <1>8, MoveStep

-----------------------------------------------------------------------------
\* _bmap() goes on with a block, or comes back with it to where it was called.
LEMMA FollowKeeps ==
    ASSUME IInv, NEW t \in Tasks, NEW p \in Mapping, At(t, p), UNCHANGED nvars, Marks,
           NEW b, Follow(t, b)
    PROVE  IInv'
<1> DEFINE x == k[t]
           y == k'[t]
<1> USE DEF Suits, Place0, Mapping, Searching, NoCall, WalkPlaces, OpenPlaces, AddPlaces,
            HasDir, HasIno, HasOld, Second, If
<1>1. /\ TasksInv /\ DoingInv(x) /\ DOMAIN k = Tasks /\ DOMAIN x = Fields
      /\ x.pc = p /\ x.io = "none" /\ x.puts = <<>>
  BY AtIs
<1>2. x.mret \in {"scan", "add", "dots", "empty", "wrote"} /\ x.n \in Nat /\ x.empty = 0
  BY <1>1 DEF DoingInv
<1>3. /\ Only(t) /\ DOMAIN y = Fields
      /\ y.pc \in {x.mret, "bmap"} /\ y.mret = x.mret /\ y.obj = x.obj
      /\ y.dir = x.dir /\ y.ino = x.ino /\ y.old = x.old /\ y.puts = <<>>
      /\ y.op = x.op /\ y.more = x.more /\ y.empty = x.empty /\ y.io = x.io
      /\ y.n = x.n /\ y.fd = x.fd /\ y.path = x.path
  <2>1. CASE Go(t, [blk |-> 0, cells |-> <<>>, at |-> 0, got |-> 0, pc |-> x.mret])
    BY <1>1, <2>1 DEF Go, Changed, Only, Fields
  <2>2. CASE Sleep(t, [blk |-> b, cells |-> <<>>, at |-> 0, got |-> 0, pc |-> x.mret])
    BY <1>1, <2>2 DEF Sleep, Changed, Only, Fields
  <2>3. CASE Sleep(t, [at |-> b, cells |-> Tail(x.cells), got |-> 0, pc |-> "bmap"])
    BY <1>1, <2>3 DEF Sleep, Changed, Only, Fields
  <2> QED
    BY <2>1, <2>2, <2>3 DEF Follow
<1>4. DoingInv(y)
  <2>1. CASE x.mret = "scan"
    BY <1>1, <1>2, <1>3, <2>1 DEF DoingInv
  <2>2. CASE x.mret = "add"
    BY <1>1, <1>2, <1>3, <2>2 DEF DoingInv
  <2>3. CASE x.mret = "dots"
    BY <1>1, <1>2, <1>3, <2>3 DEF DoingInv
  <2>4. CASE x.mret = "empty"
    BY <1>1, <1>2, <1>3, <2>4 DEF DoingInv
  <2>5. CASE x.mret = "wrote"
    BY <1>1, <1>2, <1>3, <2>5 DEF DoingInv
  <2> QED
    BY <1>2, <2>1, <2>2, <2>3, <2>4, <2>5
<1>5. SameCall(x, y)
  BY <1>1, <1>2, <1>3 DEF SameCall, Gone
<1> QED
  BY <1>1, <1>3, <1>4, <1>5, MoveStep

\* A pointer that is there, or is not to be made.
LEMMA BmapKeeps == ASSUME IInv, NEW t \in Tasks, UNCHANGED nvars, Bmap(t) PROVE IInv'
<1>1. Marks
  BY Unmarked DEF Bmap
<1> QED
  BY <1>1, FollowKeeps DEF Bmap, Mapping

\* new_block() takes a free bit.
LEMMA NewBlockKeeps == ASSUME IInv, NEW t \in Tasks, UNCHANGED nvars, NewBlock(t) PROVE IInv'
<1> DEFINE x == k[t]
           y == k'[t]
<1> USE DEF Suits, Place0, Mapping, Searching, NoCall, WalkPlaces, OpenPlaces, AddPlaces,
            HasDir, HasIno, HasOld, Second, If
<1>1. /\ TasksInv /\ DoingInv(x) /\ DOMAIN k = Tasks /\ DOMAIN x = Fields /\ At(t, "bmap")
      /\ x.pc = "bmap" /\ x.io = "none" /\ x.puts = <<>>
  BY AtIs DEF NewBlock
<1>2. x.mret \in {"add", "dots", "wrote"} /\ x.n \in Nat /\ x.empty = 0
  BY <1>1 DEF DoingInv, NewBlock, Creates
<1>3. Marks
  BY Unmarked DEF NewBlock
<1>4. /\ Only(t) /\ DOMAIN y = Fields
      /\ y.pc = "newblk" /\ y.mret = x.mret /\ y.obj = x.obj
      /\ y.dir = x.dir /\ y.ino = x.ino /\ y.old = x.old /\ y.puts = <<>>
      /\ y.op = x.op /\ y.more = x.more /\ y.empty = x.empty /\ y.io = x.io
      /\ y.n = x.n /\ y.fd = x.fd /\ y.path = x.path
  BY <1>1 DEF NewBlock, Sleep, Changed, Only, Fields
<1>5. DoingInv(y)
  <2>1. CASE x.mret = "add"
    BY <1>1, <1>2, <1>4, <2>1 DEF DoingInv
  <2>2. CASE x.mret = "dots"
    BY <1>1, <1>2, <1>4, <2>2 DEF DoingInv
  <2>3. CASE x.mret = "wrote"
    BY <1>1, <1>2, <1>4, <2>3 DEF DoingInv
  <2> QED
    BY <1>2, <2>1, <2>2, <2>3
<1>6. SameCall(x, y)
  BY <1>1, <1>2, <1>4 DEF SameCall, Gone
<1> QED
  BY <1>1, <1>3, <1>4, <1>5, <1>6, MoveStep

\* The block is cleared and goes where the pointer was missing: in the inode,
\* which the task has or has open, or in an indirect block.
LEMMA BlockMadeKeeps == ASSUME IInv, NEW t \in Tasks, UNCHANGED nvars, BlockMade(t) PROVE IInv'
<1> DEFINE x == k[t]
           s == k[t].obj
           c == Head(k[t].cells)
           b == k[t].got
<1>1. /\ TasksInv /\ DoingInv(x) /\ DOMAIN k = Tasks /\ DOMAIN x = Fields /\ At(t, "newblk")
      /\ x.pc = "newblk"
  BY AtIs DEF BlockMade
<1>2. Follow(t, b) /\ UNCHANGED <<disk, last_inode>>
  BY DEF BlockMade
<1>3. s \in Slots /\ table[s].num \in Inums /\ table[s].count >= 1
  <2>1. CASE x.mret = "add"
    <3>1. s = x.dir /\ x.dir \in Slots
      BY <1>1, <2>1 DEF DoingInv, If, HasDir, Place0, Mapping
    <3> QED
      BY <3>1, HadIsNumbered DEF Has
  <2>2. CASE x.mret = "dots"
    <3>1. s = x.ino /\ x.ino \in Slots
      BY <1>1, <2>2 DEF DoingInv, If, HasIno, Place0, Mapping, Searching, OpenPlaces, AddPlaces
    <3> QED
      BY <3>1, HadIsNumbered DEF Has
  <2>3. CASE x.mret = "wrote"
    BY <1>1, <2>3, WritesOpen DEF Place0, Mapping
  <2> QED
    BY <1>1, <2>1, <2>2, <2>3 DEF DoingInv, Suits
<1>4. DOMAIN table = Slots /\ RecInv(table[s]) /\ DataInv
  BY <1>3 DEF IInv, TableInv
<1>5. CASE /\ table' = [table EXCEPT ![s].zone[c] = b, ![s].dirt = TRUE]
           /\ blks' = [blks EXCEPT ![b] = EmptyBlock]
  <2>1. DataInv'
    BY <1>2, <1>4, <1>5 DEF DataInv, EmptyBlock, FreeEntry, NameOf
  <2>2. (DOMAIN table)' = Slots /\ \A z \in Slots \ {s} : table'[z] = table[z]
    BY <1>4, <1>5
  <2>3. /\ DOMAIN table'[s] = DOMAIN table[s]
        /\ table'[s].num = table[s].num /\ table'[s].count = table[s].count
        /\ table'[s].dirt = TRUE /\ table'[s].lock = table[s].lock
    BY <1>3, <1>4, <1>5 DEF RecInv
  <2>4. table'[s].dirt \in BOOLEAN /\ table'[s].lock \in BOOLEAN
    BY <1>4, <2>3 DEF RecInv
  <2>5. Marks
    BY <1>3, <2>1, <2>2, <2>3, <2>4, MarkUsed
  <2> QED
    BY <1>1, <1>2, <2>5, FollowKeeps DEF Mapping
<1>6. CASE /\ blks' = [blks EXCEPT ![b] = EmptyBlock, ![x.at][c] = <<NoName, b>>]
           /\ UNCHANGED table
  <2> DEFINE e == <<NoName, b>>
  <2>1. NameOf(e) = NoName
    BY DEF NameOf
  <2> HIDE DEF e
  <2>2. blks' = [blks EXCEPT ![b] = EmptyBlock, ![x.at][c] = e]
    BY <1>6 DEF e
  <2> HIDE DEF x, b, c
  <2>3. (DOMAIN blks)' = Blocks
    BY <1>4, <2>2 DEF DataInv
  <2>4. ASSUME NEW d \in Blocks
        PROVE  /\ DOMAIN blks'[d] = 1 .. Width
               /\ \A j \in 1 .. Width : blks'[d][j] \in {e, FreeEntry, blks[d][j]}
    <3>1. /\ DOMAIN blks = Blocks /\ DOMAIN blks[d] = 1 .. Width
          /\ DOMAIN EmptyBlock = 1 .. Width /\ \A j \in 1 .. Width : EmptyBlock[j] = FreeEntry
      BY <1>4 DEF DataInv, EmptyBlock
    <3> QED
      BY <2>2, <3>1
  <2>5. ASSUME NEW d \in Blocks, NEW j \in 1 .. Width, NameOf(blks'[d][j]) # NoName
        PROVE  NumberOf(blks'[d][j]) \in 0 .. NInodes
    <3>1. blks'[d][j] \in {e, FreeEntry, blks[d][j]}
      BY <2>4
    <3>2. NameOf(FreeEntry) = NoName
      BY DEF NameOf, FreeEntry
    <3> QED
      BY <1>4, <2>1, <2>5, <3>1, <3>2 DEF DataInv
  <2>6. DataInv'
    BY <1>2, <1>4, <2>3, <2>4, <2>5 DEF DataInv
  <2>7. Marks
    BY <1>6, <2>6 DEF Marks, Marked, IInv, TableInv, RecInv
  <2> QED
    BY <1>1, <1>2, <2>7, FollowKeeps DEF Mapping, b
<1> QED
  BY <1>5, <1>6 DEF BlockMade

\* The steps of the inode table and of files keep the invariant.
LEMMA InodeStepKeeps ==
    ASSUME IInv, NEW t \in Tasks, UNCHANGED nvars, InodeStep(t)
    PROVE  IInv'
<1>1. CASE Iput(t)
  BY <1>1, IputKeeps
<1>2. CASE IputWritten(t)
  BY <1>2, IputWrittenKeeps
<1>3. CASE IputTruncates(t)
  BY <1>3, IputTruncatesKeeps
<1>4. CASE IputFrees(t)
  BY <1>4, IputFreesKeeps
<1>5. CASE Iget(t)
  BY <1>5, IgetKeeps
<1>6. CASE Found(t)
  BY <1>6, FoundKeeps
<1>7. CASE ReadInode(t)
  BY <1>7, ReadInodeKeeps
<1>8. CASE InodeRead(t)
  BY <1>8, InodeReadKeeps
<1>9. CASE Bmap(t)
  BY <1>9, BmapKeeps
<1>10. CASE NewBlock(t)
  BY <1>10, NewBlockKeeps
<1>11. CASE BlockMade(t)
  BY <1>11, BlockMadeKeeps
<1>12. CASE WaitForLock(t)
  BY <1>12, StayKeeps DEF WaitForLock
<1> QED
  BY <1>1, <1>2, <1>3, <1>4, <1>5, <1>6, <1>7, <1>8, <1>9, <1>10, <1>11, <1>12 DEF InodeStep

-----------------------------------------------------------------------------
\* A task that makes a call has nothing in hand.
LEMMA CallIs ==
    ASSUME IInv, NEW t \in Tasks, NEW c, Calls(t, c)
    PROVE  /\ At(t, "user") /\ TasksInv /\ DoingInv(k[t]) /\ HavingInv(k[t], proc[t])
           /\ DOMAIN k = Tasks /\ DOMAIN k[t] = Fields /\ DOMAIN proc = Tasks
           /\ k[t].pc = "user" /\ k[t].io = "none" /\ k[t].puts = <<>> /\ k[t].op = "none"
           /\ k[t].dir = 0 /\ k[t].ino = 0 /\ k[t].old = 0 /\ k[t].empty = 0
           /\ k[t].n \in Nat /\ ~ Gone(k[t]) /\ UseInv' /\ Known(c)
           /\ \A s \in Slots : /\ Mine(k[t], proc[t], s) = Lasting(proc[t], s)
                               /\ Lasting(proc[t], s) \in Nat /\ One(0, s) = 0
<1> DEFINE x == k[t]
<1>1. At(t, "user") /\ c \in use[t].calls /\ use' = [use EXCEPT ![t].left = @ - 1]
  BY DEF Calls
<1>2. /\ TasksInv /\ DoingInv(x) /\ HavingInv(x, proc[t]) /\ DOMAIN k = Tasks
      /\ DOMAIN x = Fields
      /\ x.pc = "user" /\ x.io = "none" /\ x.puts = <<>>
      /\ \A s \in Slots : /\ Mine(x, proc[t], s) = One(x.dir, s) + One(x.ino, s)
                                + One(x.old, s) + One(x.empty, s) + Lasting(proc[t], s)
                          /\ Lasting(proc[t], s) \in Nat /\ One(0, s) = 0
  BY <1>1, AtIs
<1>3. x.op = "none" /\ x.n \in Nat
  BY <1>2 DEF DoingInv, Suits, Place0, Mapping, Searching, NoCall
<1>4. x.dir = 0 /\ x.ino = 0 /\ x.old = 0 /\ x.empty = 0
  BY <1>2, <1>3 DEF DoingInv, Place0, Mapping, Searching, OpenPlaces, AddPlaces, HasDir, HasIno,
                    HasOld, Second, If
<1>5. ~ Gone(x)
  BY <1>2 DEF Gone
<1>6. UseInv' /\ Known(c)
  <2>1. UseInv
    BY DEF IInv
  <2>2. DOMAIN use' = Tasks /\ \A u \in Tasks : /\ DOMAIN use'[u] = DOMAIN use[u]
                                                /\ use'[u].calls = use[u].calls
    BY <1>1, <2>1 DEF UseInv
  <2> QED
    BY <1>1, <2>1, <2>2 DEF UseInv
<1>7. DOMAIN proc = Tasks
  BY <1>2 DEF TasksInv
<1>8. ASSUME NEW s \in Slots
      PROVE  /\ Mine(x, proc[t], s) = Lasting(proc[t], s)
             /\ Lasting(proc[t], s) \in Nat /\ One(0, s) = 0
  BY <1>2, <1>4
<1> QED
  BY <1>1, <1>2, <1>3, <1>4, <1>5, <1>6, <1>7, <1>8

\* A call that takes no inode and no file at first.
LEMMA CallStep ==
    ASSUME IInv, NEW t \in Tasks, NEW c, Calls(t, c), UNCHANGED <<file_table, proc>>,
           DiskStays, Only(t), DoingInv(k'[t]),
           k'[t].dir = 0, k'[t].ino = 0, k'[t].old = 0, k'[t].empty = 0, k'[t].puts = <<>>,
           ~ Gone(k'[t]), k'[t].op # "open",
           Place0(k'[t]) = "wrote" =>
             \E fd \in Fds : /\ proc[t].filp[fd] # 0
                             /\ file_table[proc[t].filp[fd]].inode = k'[t].obj
    PROVE  IInv'
<1> DEFINE x == k[t]
           y == k'[t]
<1>1. /\ DoingInv(x) /\ HavingInv(x, proc[t]) /\ DOMAIN k = Tasks /\ DOMAIN proc = Tasks
      /\ x.op = "none" /\ x.empty = 0 /\ ~ Gone(x) /\ UseInv'
      /\ \A s \in Slots : /\ Mine(x, proc[t], s) = Lasting(proc[t], s)
                          /\ Lasting(proc[t], s) \in Nat /\ One(0, s) = 0
  BY CallIs
<1>2. Marks
  BY Unmarked DEF DiskStays
<1>3. /\ TableInv' /\ DataInv' /\ \A s \in Slots : table'[s].count = table[s].count
      /\ \A s \in Slots : SlotStep(table[s], table'[s], Mine(x, proc[t], s), s, x.empty, y.empty)
  BY <1>1, <1>2, MarksSlots
<1>4. HavingInv(y, proc'[t])
  BY <1>1 DEF HavingInv
<1>5. FilesInv' /\ DescriptorsCounted'
  BY DEF IInv, FilesInv, DescriptorsCounted, CountIsReferences
<1>6. OpenInv'
  <2> SUFFICES ASSUME NEW u \in Tasks PROVE OpensInv(k'[u], proc'[u], file_table')
    BY DEF OpenInv
  <2>1. OpensInv(k[u], proc[u], file_table)
    BY DEF IInv, OpenInv
  <2>2. CASE u # t
    BY <2>1, <2>2 DEF Only
  <2>3. CASE u = t
    BY <1>1, <2>1, <2>3 DEF OpensInv, Reserved
  <2> QED
    BY <2>2, <2>3
<1>7. ASSUME NEW s \in Slots
      PROVE  table'[s].count + Mine(x, proc[t], s) + FilesOn(file_table, s)
               = table[s].count + Mine(y, proc'[t], s) + FilesOn(file_table', s)
  <2>1. Mine(y, proc[t], s) = One(y.dir, s) + One(y.ino, s) + One(y.old, s) + One(y.empty, s)
                              + Lasting(proc[t], s)
    BY MineIs
  <2>2. Mine(y, proc[t], s) = Lasting(proc[t], s)
    BY <1>1, <2>1
  <2> QED
    BY <1>1, <1>3, <2>2
<1>8. /\ (DOMAIN k)' = Tasks /\ (DOMAIN proc)' = Tasks
      /\ \A u \in Tasks \ {t} : k'[u] = k[u] /\ proc'[u] = proc[u]
  BY <1>1 DEF Only
<1> QED
  BY <1>1, <1>3, <1>4, <1>5, <1>6, <1>7, <1>8, StepKeeps

\* exit() begins.
LEMMA ExitKeeps == ASSUME IInv, NEW t \in Tasks, NEW c, Exit(t, c) PROVE IInv'
<1> DEFINE x == k[t]
           y == k'[t]
<1> USE DEF Suits, Place0, Mapping, Searching, NoCall, WalkPlaces, OpenPlaces, AddPlaces,
            HasDir, HasIno, HasOld, Second, If
<1>1. /\ Calls(t, c) /\ TasksInv /\ DoingInv(x) /\ DOMAIN k = Tasks /\ DOMAIN x = Fields
      /\ x.io = "none" /\ x.puts = <<>> /\ x.dir = 0 /\ x.ino = 0 /\ x.old = 0
      /\ x.empty = 0 /\ x.n \in Nat
  BY CallIs DEF Exit
<1>2. /\ Only(t) /\ DOMAIN y = Fields
      /\ y.pc = "exit" /\ y.op = "exit" /\ y.dir = 0 /\ y.ino = 0 /\ y.old = 0
      /\ y.empty = 0 /\ y.puts = <<>> /\ y.io = "none" /\ y.n = x.n
  BY <1>1 DEF Exit, Go, Changed, Only, Fields
<1>3. DoingInv(y)
  BY <1>1, <1>2 DEF DoingInv
<1>4. ~ Gone(y)
  BY <1>2 DEF Gone
<1> QED
  BY <1>1, <1>2, <1>3, <1>4, CallStep DEF Exit

\* sync() begins.
LEMMA SyncKeeps == ASSUME IInv, NEW t \in Tasks, NEW c, Sync(t, c) PROVE IInv'
<1> DEFINE x == k[t]
           y == k'[t]
<1> USE DEF Suits, Place0, Mapping, Searching, NoCall, WalkPlaces, OpenPlaces, AddPlaces,
            HasDir, HasIno, HasOld, Second, If
<1>1. /\ Calls(t, c) /\ TasksInv /\ DoingInv(x) /\ DOMAIN k = Tasks /\ DOMAIN x = Fields
      /\ x.io = "none" /\ x.puts = <<>> /\ x.dir = 0 /\ x.ino = 0 /\ x.old = 0
      /\ x.empty = 0 /\ x.op = "none"
  BY CallIs DEF Sync
<1>2. /\ Only(t) /\ DOMAIN y = Fields
      /\ y.pc = "sync" /\ y.op = "none" /\ y.dir = 0 /\ y.ino = 0 /\ y.old = 0
      /\ y.empty = 0 /\ y.puts = <<>> /\ y.io = "none" /\ y.n = 1
  BY <1>1 DEF Sync, Go, Changed, Only, Fields
<1>3. DoingInv(y)
  BY <1>1, <1>2 DEF DoingInv
<1>4. ~ Gone(y)
  BY <1>2 DEF Gone
<1> QED
  BY <1>1, <1>2, <1>3, <1>4, CallStep DEF Sync

\* write() looks for the block of an open file.
LEMMA WriteKeeps == ASSUME IInv, NEW t \in Tasks, NEW c, Write(t, c) PROVE IInv'
<1> DEFINE x == k[t]
           y == k'[t]
<1> USE DEF Suits, Place0, Mapping, Searching, NoCall, WalkPlaces, OpenPlaces, AddPlaces,
            HasDir, HasIno, HasOld, Second, If
<1>1. /\ Calls(t, c) /\ TasksInv /\ DoingInv(x) /\ DOMAIN k = Tasks /\ DOMAIN x = Fields
      /\ x.io = "none" /\ x.puts = <<>> /\ x.dir = 0 /\ x.ino = 0 /\ x.old = 0
      /\ x.empty = 0 /\ Known(c)
  BY CallIs DEF Write
<1>2. c.path \in Nat
  BY <1>1 DEF Known, Write
<1>3. PICK fd \in Fds :
        /\ proc[t].filp[fd] # 0
        /\ Go(t, [op |-> "write", pc |-> "bmap", mret |-> "wrote", n |-> c.path,
                  cells |-> Cells(c.path), at |-> 0,
                  obj |-> file_table[proc[t].filp[fd]].inode])
  BY DEF Write
<1>4. /\ Only(t) /\ DOMAIN y = Fields
      /\ y.pc = "bmap" /\ y.mret = "wrote" /\ y.op = "write"
      /\ y.dir = 0 /\ y.ino = 0 /\ y.old = 0
      /\ y.empty = 0 /\ y.puts = <<>> /\ y.io = "none" /\ y.n = c.path
      /\ y.obj = file_table[proc[t].filp[fd]].inode
  BY <1>1, <1>3 DEF Go, Changed, Only, Fields
<1>5. DoingInv(y)
  BY <1>1, <1>2, <1>4 DEF DoingInv
<1>6. ~ Gone(y)
  BY <1>4 DEF Gone
<1> QED
  BY <1>1, <1>3, <1>4, <1>5, <1>6, CallStep DEF Write

\* close().
LEMMA CloseKeeps == ASSUME IInv, NEW t \in Tasks, NEW c, Close(t, c) PROVE IInv'
<1>1. At(t, "user") /\ UseInv'
  BY CallIs DEF Close
<1>2. PICK fd \in OpenFds(t) : CloseFile(t, fd, "done")
  BY DEF Close
<1> QED
  BY <1>1, <1>2, CloseFileKeeps DEF Close

\* dup() takes a free descriptor for a file that is open.
LEMMA DupKeeps == ASSUME IInv, NEW t \in Tasks, NEW c, Dup(t, c) PROVE IInv'
<1> DEFINE free == {i \in Fds : proc[t].filp[i] = 0}
           i == Min(free)
           x == k[t]
<1>1. /\ Calls(t, c) /\ TasksInv /\ DoingInv(x) /\ HavingInv(x, proc[t])
      /\ DOMAIN k = Tasks /\ DOMAIN proc = Tasks /\ x.pc = "user" /\ x.op = "none"
      /\ x.empty = 0 /\ ~ Gone(x) /\ UseInv'
      /\ \A s \in Slots : Mine(x, proc[t], s) = Lasting(proc[t], s) /\ Lasting(proc[t], s) \in Nat
  BY CallIs DEF Dup
<1>2. i \in Fds /\ proc[t].filp[i] = 0
  <2>1. free # {} /\ free \subseteq Nat
    BY DEF Dup, Fds
  <2> HIDE DEF free
  <2>2. i \in free
    BY <2>1, LeastElement
  <2> QED
    BY <2>2 DEF free
<1>3. PICK fd \in OpenFds(t) :
        /\ proc' = [proc EXCEPT ![t].filp[i] = proc[t].filp[fd]]
        /\ file_table' = [file_table EXCEPT ![proc[t].filp[fd]].count = @ + 1]
  BY DEF Dup
<1> DEFINE f == proc[t].filp[fd]
<1> HIDE DEF i
<1>4. k' = k /\ DiskStays
  BY DEF Dup
<1>5. fd \in Fds /\ f \in Files /\ f # 0
  BY <1>1 DEF OpenFds, HavingInv
<1>6. file_table[f].count >= 1 /\ file_table[f].count \in Nat
  BY <1>5, Sole
<1>7. OpensInv(x, proc[t], file_table) /\ FilesInv
  BY DEF IInv, OpenInv
<1>8. \A j \in Fds : proc[t].filp[j] # 0 => file_table[proc[t].filp[j]].inode # 0
  BY <1>1, <1>7 DEF OpensInv, Reserved
<1> HIDE DEF x
<1>9. DOMAIN proc' = Tasks /\ \A u \in Tasks \ {t} : k'[u] = k[u] /\ proc'[u] = proc[u]
  BY <1>1, <1>3, <1>4
<1>10. /\ DOMAIN proc'[t] = DOMAIN proc[t] /\ proc'[t].pwd = proc[t].pwd
       /\ proc'[t].root = proc[t].root /\ proc'[t].executable = proc[t].executable
       /\ proc'[t].filp = [proc[t].filp EXCEPT ![i] = f]
  BY <1>1, <1>3 DEF HavingInv
<1> HIDE DEF f
<1>11. /\ proc'[t].filp \in [Fds -> {0} \cup Files] /\ proc'[t].filp[i] = f
       /\ \A j \in Fds \ {i} : proc'[t].filp[j] = proc[t].filp[j]
  BY <1>1, <1>2, <1>5, <1>10 DEF HavingInv
<1>12. HavingInv(k'[t], proc'[t])
  BY <1>1, <1>4, <1>10, <1>11 DEF HavingInv, x
<1>13. DoingInv(k'[t]) /\ DOMAIN k' = Tasks
  BY <1>1, <1>4 DEF x
<1>14. /\ DOMAIN file_table' = Files /\ \A e \in Files \ {f} : file_table'[e] = file_table[e]
       /\ DOMAIN file_table'[f] = {"count", "inode", "write"}
       /\ file_table'[f].count = file_table[f].count + 1
       /\ file_table'[f].inode = file_table[f].inode
  BY <1>3, <1>5, <1>7 DEF FilesInv, f
<1>15. file_table'[f].inode \in {0} \cup Slots /\ file_table'[f].count \in Nat
       /\ (file_table'[f].count = 0 => file_table'[f].inode = 0)
  BY <1>5, <1>6, <1>7, <1>14 DEF FilesInv
<1>16. file_table'[f].count + One(proc[t].filp[i], f)
         = file_table[f].count + One(proc'[t].filp[i], f)
  BY <1>2, <1>5, <1>6, <1>11, <1>14 DEF One
<1>17. proc[t].filp[i] \in {0, f} /\ proc'[t].filp[i] \in {0, f}
  BY <1>2, <1>11
<1>18. file_table'[f].inode = file_table[f].inode \/ file_table[f].count \in {0, 1}
  BY <1>14
<1>19. file_table[f].count = 1 => \E j \in Fds : proc[t].filp[j] = f
  BY <1>5 DEF f
<1>20. OpensInv(k'[t], proc'[t], file_table')
  <2>1. k'[t].op = "none" /\ Place0(k'[t]) = "user"
    BY <1>1, <1>4 DEF x, Place0, Mapping, Searching
  <2>2. ASSUME NEW j \in Fds, proc'[t].filp[j] # 0 PROVE file_table'[proc'[t].filp[j]].inode # 0
    <3>1. PICK l \in Fds : proc'[t].filp[j] = proc[t].filp[l]
      BY <1>5, <1>11 DEF f
    <3>2. proc[t].filp[l] \in Files /\ file_table[proc[t].filp[l]].inode # 0
      BY <1>1, <1>8, <2>2, <3>1 DEF HavingInv
    <3> QED
      BY <1>14, <3>1, <3>2
  <2> QED
    BY <2>1, <2>2 DEF OpensInv
<1>21. Marks
  BY <1>4, Unmarked DEF DiskStays
<1>22. k'[t].empty = k[t].empty
  BY <1>4
<1>23. /\ TableInv' /\ DataInv' /\ \A s \in Slots : table'[s].count = table[s].count
       /\ \A s \in Slots : SlotStep(table[s], table'[s], Mine(k[t], proc[t], s), s,
                                   k[t].empty, k'[t].empty)
  BY <1>21, <1>22, MarksSlots
<1>24. ASSUME NEW s \in Slots
       PROVE  table'[s].count + Mine(k[t], proc[t], s) + One(file_table[f].inode, s)
                = table[s].count + Mine(k'[t], proc'[t], s) + One(file_table'[f].inode, s)
  <2>1. Mine(k'[t], proc'[t], s) = Mine(k[t], proc[t], s)
    BY <1>4, <1>10 DEF Mine
  <2> QED
    BY <1>14, <1>23, <2>1
<1>25. UseInv' /\ IInv /\ t \in Tasks /\ i \in Fds /\ f \in Files
  BY <1>1, <1>2, <1>5
<1> QED
  BY ONLY <1>9, <1>11, <1>12, <1>13, <1>14, <1>15, <1>16, <1>17, <1>18, <1>19, <1>20,
          <1>23, <1>24, <1>25, FileStep

\* What a task does when it has made a call with a path.
LEMMA PathIs ==
    ASSUME IInv, NEW t \in Tasks, NEW c, WithPath(t, c), NEW fd,
           Go(t, [op |-> c.op, flag |-> c.flag, path |-> Rest(c.path), more |-> c.more,
                  dir |-> Start(t, c.path), pc |-> "walk", fd |-> fd])
    PROVE  /\ Only(t) /\ DoingInv(k'[t]) /\ ~ Gone(k'[t]) /\ Place0(k'[t]) = "walk"
           /\ k'[t].op = c.op /\ k'[t].fd = fd /\ k'[t].empty = 0
           /\ \A s \in Slots : Mine(k'[t], proc[t], s) = One(Start(t, c.path), s) + Lasting(proc[t], s)
<1> DEFINE x == k[t]
           y == k'[t]
<1> USE DEF Suits, Place0, Mapping, Searching, NoCall, WalkPlaces, OpenPlaces, AddPlaces,
            HasDir, HasIno, HasOld, Second, If
<1>1. /\ Calls(t, c) /\ TasksInv /\ DoingInv(x) /\ DOMAIN k = Tasks /\ DOMAIN x = Fields
      /\ x.io = "none" /\ x.puts = <<>> /\ x.dir = 0 /\ x.ino = 0 /\ x.old = 0
      /\ x.empty = 0 /\ x.n \in Nat /\ Known(c) /\ ~ Gone(x)
      /\ \A s \in Slots : Lasting(proc[t], s) \in Nat /\ One(0, s) = 0
  BY CallIs DEF WithPath
<1>2. /\ c.op \in {"open", "mknod", "mkdir", "link", "unlink", "rmdir", "touch", "chdir",
                   "chroot", "exec"}
      /\ c.op = "link" => c.more # <<>>
  BY <1>1 DEF WithPath, Known
<1>3. Start(t, c.path) \in Slots
  BY <1>1, StartIs
<1>4. /\ Only(t) /\ DOMAIN y = Fields
      /\ y.pc = "walk" /\ y.op = c.op /\ y.fd = fd /\ y.more = c.more
      /\ y.dir = Start(t, c.path) /\ y.ino = 0 /\ y.old = 0
      /\ y.empty = 0 /\ y.puts = <<>> /\ y.io = "none" /\ y.n = x.n
  BY <1>1 DEF Go, Changed, Only, Fields
<1>5. DoingInv(y)
  BY <1>1, <1>2, <1>3, <1>4 DEF DoingInv
<1>6. ~ Gone(y) /\ Place0(y) = "walk"
  BY <1>4 DEF Gone
<1>7. ASSUME NEW s \in Slots
      PROVE  Mine(y, proc[t], s) = One(Start(t, c.path), s) + Lasting(proc[t], s)
  <2>1. Mine(y, proc[t], s) = One(y.dir, s) + One(y.ino, s) + One(y.old, s) + One(y.empty, s)
                              + Lasting(proc[t], s)
    BY <1>4, MineIs
  <2>2. One(0, s) = 0 /\ Lasting(proc[t], s) \in Nat /\ One(y.dir, s) \in Nat
    BY <1>1 DEF One
  <2> QED
    BY <1>4, <2>1, <2>2
<1> QED
  BY <1>4, <1>5, <1>6, <1>7

\* Where the path starts has one more reference.
LEMMA PathTable ==
    ASSUME IInv, NEW t \in Tasks, NEW c, WithPath(t, c)
    PROVE  /\ TableInv' /\ DataInv'
           /\ \A s \in Slots : /\ SlotStep(table[s], table'[s], Mine(k[t], proc[t], s), s,
                                           k[t].empty, 0)
                               /\ table'[s].count = table[s].count + One(Start(t, c.path), s)
                               /\ table[s].count \in Nat
<1> DEFINE a == Start(t, c.path)
<1>1. Calls(t, c) /\ ~ Gone(k[t]) /\ k[t].empty = 0
  BY CallIs DEF WithPath
<1>2. a \in Slots /\ table[a].num \in Inums /\ table[a].count >= 1
  BY <1>1, StartIs
<1>3. /\ table' = [table EXCEPT ![a].count = @ + 1]
      /\ UNCHANGED <<disk, blks, last_inode>>
  BY DEF WithPath
<1> HIDE DEF a
<1>4. DOMAIN table = Slots /\ \A s \in Slots : RecInv(table[s])
  BY DEF IInv, TableInv
<1>5. (DOMAIN table)' = Slots /\ \A s \in Slots : Joined(a, table[s], table'[s], s)
  <2>1. (DOMAIN table)' = Slots /\ \A s \in Slots \ {a} : table'[s] = table[s]
    BY <1>3, <1>4
  <2>2. /\ DOMAIN table'[a] = DOMAIN table[a] /\ table'[a].num = table[a].num
        /\ table'[a].count = table[a].count + 1
        /\ table'[a].dirt = table[a].dirt /\ table'[a].lock = table[a].lock
    BY <1>2, <1>3, <1>4 DEF RecInv
  <2>3. Joined(a, table[a], table'[a], a)
    BY <1>2, <1>4, <2>2 DEF Joined, One, RecInv
  <2>4. \A s \in Slots \ {a} : Joined(a, table[s], table'[s], s)
    BY <1>4, <2>1 DEF Joined, One, RecInv
  <2> QED
    BY <2>1, <2>3, <2>4
<1>6. /\ TableInv'
      /\ \A s \in Slots : SlotStep(table[s], table'[s], Mine(k[t], proc[t], s), s, k[t].empty, 0)
  BY <1>1, <1>2, <1>5, JoinedSlots
<1>7. DataInv'
  BY <1>3 DEF IInv, DataInv
<1>8. \A s \in Slots : /\ table'[s].count = table[s].count + One(a, s)
                       /\ table[s].count \in Nat
  BY <1>4, <1>5 DEF Joined, RecInv
<1> QED
  BY <1>6, <1>7, <1>8 DEF a

\* A call with a path: open() takes a descriptor and a file.
LEMMA WithPathKeeps == ASSUME IInv, NEW t \in Tasks, NEW c, WithPath(t, c) PROVE IInv'
<1> DEFINE a == Start(t, c.path)
<1>1. /\ Calls(t, c) /\ DoingInv(k[t]) /\ HavingInv(k[t], proc[t])
      /\ DOMAIN k = Tasks /\ DOMAIN proc = Tasks /\ k[t].op = "none" /\ k[t].empty = 0
      /\ ~ Gone(k[t]) /\ UseInv'
      /\ \A s \in Slots : Mine(k[t], proc[t], s) = Lasting(proc[t], s) /\ Lasting(proc[t], s) \in Nat
  BY CallIs DEF WithPath
<1>2. /\ TableInv' /\ DataInv'
      /\ \A s \in Slots : /\ SlotStep(table[s], table'[s], Mine(k[t], proc[t], s), s,
                                      k[t].empty, 0)
                          /\ table'[s].count = table[s].count + One(a, s)
                          /\ table[s].count \in Nat
  BY PathTable
<1> HIDE DEF a
<1>3. OpensInv(k[t], proc[t], file_table) /\ FilesInv
  BY DEF IInv, OpenInv
<1>4. \A j \in Fds : proc[t].filp[j] # 0 => file_table[proc[t].filp[j]].inode # 0
  BY <1>1, <1>3 DEF OpensInv, Reserved
<1>5. CASE c.op # "open"
  <2>1. UNCHANGED <<proc, file_table>>
    BY <1>5 DEF WithPath
  <2>2. Go(t, [op |-> c.op, flag |-> c.flag, path |-> Rest(c.path), more |-> c.more,
               dir |-> Start(t, c.path), pc |-> "walk", fd |-> 0])
    BY <1>5 DEF WithPath
  <2>3. /\ Only(t) /\ DoingInv(k'[t]) /\ ~ Gone(k'[t]) /\ Place0(k'[t]) = "walk"
        /\ k'[t].op = c.op /\ k'[t].empty = 0
        /\ \A s \in Slots : Mine(k'[t], proc[t], s) = One(a, s) + Lasting(proc[t], s)
    BY <2>2, PathIs DEF a
  <2>4. HavingInv(k'[t], proc'[t])
    BY <1>1, <2>1, <2>3 DEF HavingInv
  <2>5. FilesInv' /\ DescriptorsCounted'
    BY <2>1 DEF IInv, FilesInv, DescriptorsCounted, CountIsReferences
  <2>6. OpenInv'
    <3> SUFFICES ASSUME NEW u \in Tasks PROVE OpensInv(k'[u], proc'[u], file_table')
      BY DEF OpenInv
    <3>1. CASE u = t
      BY <1>4, <1>5, <2>1, <2>3, <3>1 DEF OpensInv
    <3>2. CASE u # t
      BY <2>1, <2>3, <3>2 DEF Only, IInv, OpenInv
    <3> QED
      BY <3>1, <3>2
  <2>7. ASSUME NEW s \in Slots
        PROVE  table'[s].count + Mine(k[t], proc[t], s) + FilesOn(file_table, s)
                 = table[s].count + Mine(k'[t], proc'[t], s) + FilesOn(file_table', s)
    <3>1. FilesOn(file_table, s) \in Nat
      BY FilesFinite
    <3>2. One(a, s) \in Nat
      BY DEF One
    <3>3. proc' = proc /\ file_table' = file_table
      BY <2>1
    <3> QED
      BY <1>1, <1>2, <2>3, <3>1, <3>2, <3>3
  <2>8. /\ (DOMAIN k)' = Tasks /\ (DOMAIN proc)' = Tasks
        /\ \A u \in Tasks \ {t} : k'[u] = k[u] /\ proc'[u] = proc[u]
    BY <1>1, <2>1, <2>3 DEF Only
  <2>9. \A s \in Slots : SlotStep(table[s], table'[s], Mine(k[t], proc[t], s), s,
                                 k[t].empty, k'[t].empty)
    BY <1>2, <2>3
  <2> QED
    BY ONLY IInv, t \in Tasks, <1>1, <1>2, <2>3, <2>4, <2>5, <2>6, <2>7, <2>8, <2>9, StepKeeps
<1>6. CASE c.op = "open"
  <2> DEFINE free == {j \in Fds : proc[t].filp[j] = 0}
             none == {e \in Files : file_table[e].count = 0}
             i == Min(free)
             f == Min(none)
  <2>1. /\ free # {} /\ none # {}
        /\ proc' = [proc EXCEPT ![t].filp[i] = f]
        /\ file_table' = [file_table EXCEPT ![f].count = 1]
        /\ Go(t, [op |-> c.op, flag |-> c.flag, path |-> Rest(c.path), more |-> c.more,
                  dir |-> Start(t, c.path), pc |-> "walk", fd |-> i])
    BY <1>6 DEF WithPath
  <2>2. i \in Fds /\ proc[t].filp[i] = 0
    <3>1. free \subseteq Nat
      BY DEF Fds
    <3> HIDE DEF free
    <3>2. i \in free
      BY <2>1, <3>1, LeastElement
    <3> QED
      BY <3>2 DEF free
  <2>3. f \in Files /\ file_table[f].count = 0 /\ f # 0
    <3>1. none \subseteq Nat
      BY DEF Files
    <3> HIDE DEF none
    <3>2. f \in none
      BY <2>1, <3>1, LeastElement
    <3> QED
      BY <3>2 DEF none, Files
  <2> HIDE DEF i, f
  <2>4. /\ Only(t) /\ DoingInv(k'[t]) /\ ~ Gone(k'[t]) /\ Place0(k'[t]) = "walk"
        /\ k'[t].op = "open" /\ k'[t].fd = i /\ k'[t].empty = 0
        /\ \A s \in Slots : Mine(k'[t], proc[t], s) = One(a, s) + Lasting(proc[t], s)
    BY <1>6, <2>1, PathIs DEF a
  <2>5. DOMAIN proc' = Tasks /\ \A u \in Tasks \ {t} : k'[u] = k[u] /\ proc'[u] = proc[u]
    BY <1>1, <2>1, <2>4 DEF Only
  <2>6. /\ DOMAIN proc'[t] = DOMAIN proc[t] /\ proc'[t].pwd = proc[t].pwd
        /\ proc'[t].root = proc[t].root /\ proc'[t].executable = proc[t].executable
        /\ proc'[t].filp = [proc[t].filp EXCEPT ![i] = f]
    BY <1>1, <2>1 DEF HavingInv
  <2>7. /\ proc'[t].filp \in [Fds -> {0} \cup Files] /\ proc'[t].filp[i] = f
        /\ \A j \in Fds \ {i} : proc'[t].filp[j] = proc[t].filp[j]
    BY <1>1, <2>2, <2>3, <2>6 DEF HavingInv
  <2>8. HavingInv(k'[t], proc'[t])
    BY <1>1, <2>4, <2>6, <2>7 DEF HavingInv
  <2>9. DOMAIN k' = Tasks /\ DoingInv(k'[t])
    BY <2>4 DEF Only
  <2>10. file_table[f].inode = 0
    BY <1>3, <2>3 DEF FilesInv
  <2>11. /\ DOMAIN file_table' = Files
         /\ \A e \in Files \ {f} : file_table'[e] = file_table[e]
         /\ DOMAIN file_table'[f] = {"count", "inode", "write"}
         /\ file_table'[f].count = 1 /\ file_table'[f].inode = 0
    BY <1>3, <2>1, <2>3, <2>10 DEF FilesInv
  <2>12. /\ file_table'[f].count \in Nat /\ file_table'[f].inode \in {0} \cup Slots
         /\ file_table'[f].count = 0 => file_table'[f].inode = 0
    BY <2>11
  <2>13. file_table'[f].count + One(proc[t].filp[i], f)
           = file_table[f].count + One(proc'[t].filp[i], f)
    BY <2>2, <2>3, <2>7, <2>11 DEF One
  <2>14. proc[t].filp[i] \in {0, f} /\ proc'[t].filp[i] \in {0, f}
    BY <2>2, <2>7
  <2>15. file_table'[f].inode = file_table[f].inode \/ file_table[f].count \in {0, 1}
    BY <2>3
  <2>16. file_table[f].count = 1 => \E j \in Fds : proc[t].filp[j] = f
    BY <2>3
  <2>17. OpensInv(k'[t], proc'[t], file_table')
    <3>1. ASSUME NEW j \in Fds \ {i}, proc'[t].filp[j] # 0
          PROVE  file_table'[proc'[t].filp[j]].inode # 0
      <4>1. proc'[t].filp[j] = proc[t].filp[j] /\ proc[t].filp[j] \in Files
        BY <1>1, <2>7, <3>1 DEF HavingInv
      <4>2. proc[t].filp[j] # f
        BY <2>3, NoneOf
      <4> QED
        BY <1>4, <2>11, <3>1, <4>1, <4>2
    <3> QED
      BY <2>2, <2>3, <2>4, <2>7, <2>11, <3>1 DEF OpensInv, Reserved
  <2>18. \A s \in Slots : SlotStep(table[s], table'[s], Mine(k[t], proc[t], s), s,
                                  k[t].empty, k'[t].empty)
    BY <1>2, <2>4
  <2>19. ASSUME NEW s \in Slots
         PROVE  table'[s].count + Mine(k[t], proc[t], s) + One(file_table[f].inode, s)
                  = table[s].count + Mine(k'[t], proc'[t], s) + One(file_table'[f].inode, s)
    <3>1. Mine(k'[t], proc'[t], s) = Mine(k'[t], proc[t], s)
      BY <2>6 DEF Mine
    <3>2. One(a, s) \in Nat /\ One(file_table[f].inode, s) = 0 /\ One(file_table'[f].inode, s) = 0
      BY <2>10, <2>11 DEF One, Slots
    <3> QED
      BY <1>1, <1>2, <2>4, <3>1, <3>2
  <2>20. TableInv' /\ DataInv' /\ UseInv' /\ IInv /\ t \in Tasks /\ i \in Fds /\ f \in Files
    BY <1>1, <1>2, <2>2, <2>3
  <2> QED
    BY ONLY <2>5, <2>7, <2>8, <2>9, <2>11, <2>12, <2>13, <2>14, <2>15, <2>16, <2>17, <2>18,
            <2>19, <2>20, FileStep
<1> QED
  BY <1>5, <1>6

\* The inodes that a task has for good, counted.
LEMMA DirsIs ==
    ASSUME NEW p, NEW s
    PROVE  Cardinality({x \in {"pwd", "root", "executable"} : p[x] = s}) = Lasting(p, s)
<1> DEFINE A == IF p.pwd = s THEN {"pwd"} ELSE {}
           B == IF p.root = s THEN A \cup {"root"} ELSE A
           C == IF p.executable = s THEN B \cup {"executable"} ELSE B
<1>1. IsFiniteSet({}) /\ Cardinality({}) = 0
  BY FS_EmptySet
<1>2. IsFiniteSet({"pwd"}) /\ Cardinality({"pwd"}) = 1
  BY FS_Singleton
<1>3. IsFiniteSet(A) /\ Cardinality(A) = One(p.pwd, s)
  BY <1>1, <1>2 DEF One
<1>4. "root" \notin A
  OBVIOUS
<1>5. "executable" \notin B
  OBVIOUS
<1> HIDE DEF A
<1>6. IsFiniteSet(B) /\ Cardinality(B) = One(p.pwd, s) + One(p.root, s)
  <2>1. CASE p.root = s
    <3>1. IsFiniteSet(A \cup {"root"}) /\ Cardinality(A \cup {"root"}) = Cardinality(A) + 1
      BY <1>3, <1>4, FS_AddElement
    <3> QED
      BY <1>3, <2>1, <3>1 DEF One
  <2>2. CASE p.root # s
    BY <1>3, <2>2 DEF One
  <2> QED
    BY <2>1, <2>2
<1> HIDE DEF B
<1>7. Cardinality(C) = One(p.pwd, s) + One(p.root, s) + One(p.executable, s)
  <2>1. CASE p.executable = s
    <3>1. Cardinality(B \cup {"executable"}) = Cardinality(B) + 1
      BY <1>5, <1>6, FS_AddElement
    <3> QED
      BY <1>6, <2>1, <3>1 DEF One
  <2>2. CASE p.executable # s
    BY <1>6, <2>2 DEF One
  <2> QED
    BY <2>1, <2>2
<1>8. {x \in {"pwd", "root", "executable"} : p[x] = s} = C
  BY DEF A, B
<1> QED
  BY <1>7, <1>8 DEF Lasting

\* The descriptors of a file that a task has.
Copies(p, f) == Cardinality({fd \in Fds : p.filp[fd] = f})
ButForTask(u, pp, pq) == \A v \in Tasks \ {u} : pq[v] = pp[v]

\* The child has as many of them as the parent.
LEMMA ChildPairs ==
    ASSUME NEW pp, NEW pq, NEW u \in Tasks, ButForTask(u, pp, pq),
           NEW f, \A j \in Fds : pp[u].filp[j] # f
    PROVE  Cardinality(Pairs(pq, f)) = Cardinality(Pairs(pp, f)) + Copies(pq[u], f)
<1> DEFINE p == pq[u]
           A == Pairs(pp, f)
           I == {fd \in Fds : p.filp[fd] = f}
           B == {u} \X I
<1>1. IsFiniteSet(A) /\ Cardinality(A) \in Nat
  BY PairsFinite
<1>2. IsFiniteSet(I) /\ Cardinality(I) \in Nat
  <2>1. IsFiniteSet(Fds)
    BY FilesAssumption, FS_Interval DEF Fds
  <2> QED
    BY <2>1, FS_Subset, FS_CardinalityType
<1>3. IsFiniteSet(B) /\ Cardinality(B) = Cardinality(I)
  <2>1. IsFiniteSet({u}) /\ Cardinality({u}) = 1
    BY FS_Singleton
  <2>2. IsFiniteSet(B) /\ Cardinality(B) = Cardinality({u}) * Cardinality(I)
    BY <1>2, <2>1, FS_Product
  <2> QED
    BY <1>2, <2>1, <2>2
<1>4. Pairs(pq, f) = A \cup B /\ A \cap B = {}
  <2>1. /\ pq[u] = p
        /\ \A v \in Tasks \ {u} : pq[v] = pp[v]
    BY DEF ButForTask
  <2>2. ASSUME NEW h \in Tasks \X Fds PROVE h \in Pairs(pq, f) <=> h \in A \cup B
    BY <2>1 DEF Pairs
  <2>3. Pairs(pq, f) \subseteq Tasks \X Fds /\ A \cup B \subseteq Tasks \X Fds
    BY DEF Pairs
  <2>4. A \cap B = {}
    BY DEF Pairs
  <2> QED
    BY <2>2, <2>3, <2>4
<1> HIDE DEF A, B, I
<1>5. Cardinality(A \cap B) = 0
  BY <1>4, FS_EmptySet
<1>6. Cardinality(A \cup B) = Cardinality(A) + Cardinality(B) - Cardinality(A \cap B)
  BY <1>1, <1>3, FS_Union
<1>7. Cardinality(A \cup B) = Cardinality(A) + Cardinality(I)
  BY <1>1, <1>2, <1>3, <1>5, <1>6
<1> QED
  BY <1>4, <1>7 DEF A, I, Copies

\* The task of a child has nothing before.
LEMMA DeadIs ==
    ASSUME IInv, NEW u \in Tasks, k[u].pc = "dead"
    PROVE  /\ k[u].empty = 0 /\ \A s \in Slots : Mine(k[u], proc[u], s) = 0
           /\ \A j \in Fds : proc[u].filp[j] = 0
<1>1. DoingInv(k[u]) /\ HavingInv(k[u], proc[u]) /\ Gone(k[u])
  BY DEF IInv, TasksInv, Gone
<1>2. /\ k[u].dir = 0 /\ k[u].ino = 0 /\ k[u].old = 0 /\ k[u].empty = 0 /\ k[u].puts = <<>>
  BY <1>1 DEF DoingInv, Suits, Place0, Mapping, Searching, NoCall, OpenPlaces, AddPlaces,
              HasDir, HasIno, HasOld, Second, If
<1>3. /\ proc[u].pwd = 0 /\ proc[u].root = 0 /\ proc[u].executable = 0
      /\ \A j \in Fds : proc[u].filp[j] = 0
  BY <1>1 DEF HavingInv, If
<1>4. ASSUME NEW s \in Slots PROVE Mine(k[u], proc[u], s) = 0
  <2>1. Waiting(k[u].puts, s) = 0
    BY <1>2 DEF Waiting
  <2> QED
    BY <1>2, <1>3, <2>1 DEF Mine, One, Slots
<1> QED
  BY <1>2, <1>3, <1>4

\* fork(): every inode and every file of the parent has one more user for
\* every time it has it.
LEMMA ForkKeeps == ASSUME IInv, NEW t \in Tasks, NEW c, Fork(t, c) PROVE IInv'
<1> DEFINE p == proc[t]
           copies(f) == Cardinality({fd \in Fds : p.filp[fd] = f})
           dirs(s) == Cardinality({x \in {"pwd", "root", "executable"} : p[x] = s})
<1>1. /\ DoingInv(k[t]) /\ HavingInv(k[t], p) /\ DOMAIN k = Tasks /\ DOMAIN proc = Tasks
      /\ k[t].op = "none" /\ k[t].pc = "user" /\ ~ Gone(k[t]) /\ UseInv'
  BY CallIs DEF Fork
<1>2. PICK u \in Tasks : /\ k[u].pc = "dead"
                         /\ proc' = [proc EXCEPT ![u] = p]
                         /\ k' = [k EXCEPT ![u] = Idle]
  BY DEF Fork
<1>3. /\ file_table' = [f \in Files |-> [file_table[f] EXCEPT !.count = @ + copies(f)]]
      /\ table' = [s \in Slots |-> [table[s] EXCEPT !.count = @ + dirs(s)]]
      /\ UNCHANGED <<disk, blks, last_inode>>
  BY DEF Fork
<1>4. \A f \in Files : copies(f) \in Nat
  <2> TAKE f \in Files
  <2>1. IsFiniteSet(Fds)
    BY FilesAssumption, FS_Interval DEF Fds
  <2>2. IsFiniteSet({fd \in Fds : p.filp[fd] = f})
    BY <2>1, FS_Subset
  <2> QED
    BY <2>2, FS_CardinalityType
<1>5. \A s \in Slots : dirs(s) = Lasting(p, s) /\ Lasting(p, s) \in Nat
  <2> TAKE s \in Slots
  <2>1. dirs(s) = Lasting(p, s)
    BY DirsIs
  <2> HIDE DEF dirs, p
  <2> QED
    BY <2>1 DEF Lasting, One
<1>6. /\ k[u].empty = 0 /\ \A s \in Slots : Mine(k[u], proc[u], s) = 0
      /\ \A j \in Fds : proc[u].filp[j] = 0
  BY <1>2, DeadIs
<1>7. u # t
  BY <1>1, <1>2
<1>8. \A f \in Files : copies(f) # 0 => \E fd \in Fds : p.filp[fd] = f
  <2> SUFFICES ASSUME NEW f \in Files, {fd \in Fds : p.filp[fd] = f} = {} PROVE copies(f) = 0
    OBVIOUS
  <2> QED
    BY FS_EmptySet
<1>9. DOMAIN table = Slots /\ \A s \in Slots : RecInv(table[s])
  BY DEF IInv, TableInv
<1>10. FilesInv /\ \A v \in Tasks : OpensInv(k[v], proc[v], file_table) /\ HavingInv(k[v], proc[v])
  BY DEF IInv, OpenInv, TasksInv
<1>11. \A f \in Files : Cardinality(Pairs(proc', f)) = Cardinality(Pairs(proc, f)) + copies(f)
  <2> TAKE f \in Files
  <2>1. \A j \in Fds : proc[u].filp[j] # f
    BY <1>6 DEF Files
  <2>2. ButForTask(u, proc, proc') /\ proc'[u] = p
    BY <1>1, <1>2 DEF ButForTask
  <2>3. Copies(p, f) = copies(f)
    BY DEF Copies
  <2> HIDE DEF p, copies
  <2> QED
    BY <2>1, <2>2, <2>3, ChildPairs
<1> HIDE DEF copies, dirs
<1>12. /\ (DOMAIN k)' = Tasks /\ (DOMAIN proc)' = Tasks
       /\ \A v \in Tasks \ {u} : k'[v] = k[v] /\ proc'[v] = proc[v]
       /\ k'[u] = Idle /\ proc'[u] = p
  BY <1>1, <1>2
<1>13. DoingInv(Idle) /\ ~ Gone(Idle) /\ Idle.empty = 0 /\ Idle.op = "none"
       /\ Place0(Idle) = "user" /\ Idle.puts = <<>>
       /\ Idle.dir = 0 /\ Idle.ino = 0 /\ Idle.old = 0
  BY DEF DoingInv, Idle, Fields, Gone, Suits, Place0, Mapping, Searching, NoCall, WalkPlaces,
         OpenPlaces, AddPlaces, HasDir, HasIno, HasOld, Second, If
<1>14. HavingInv(Idle, p)
  BY <1>1, <1>13 DEF HavingInv
<1>15. \A s \in Slots : /\ DOMAIN table'[s] = DOMAIN table[s] /\ table'[s].num = table[s].num
                        /\ table'[s].count = table[s].count + Lasting(p, s)
                        /\ table'[s].dirt = table[s].dirt /\ table'[s].lock = table[s].lock
  BY <1>3, <1>5, <1>9 DEF RecInv
<1>16. TableInv'
  <2>1. (DOMAIN table)' = Slots
    BY <1>3
  <2>2. ASSUME NEW s \in Slots PROVE RecInv(table'[s])
    BY <1>5, <1>9, <1>15 DEF RecInv
  <2> QED
    BY <2>1, <2>2 DEF TableInv
<1>17. /\ DOMAIN file_table' = Files
       /\ \A f \in Files : /\ DOMAIN file_table'[f] = {"count", "inode", "write"}
                           /\ file_table'[f].count = file_table[f].count + copies(f)
                           /\ file_table'[f].inode = file_table[f].inode
  BY <1>3, <1>10 DEF FilesInv
<1>18. FilesInv'
  BY <1>4, <1>10, <1>17 DEF FilesInv
<1>19. OpenInv'
  <2> SUFFICES ASSUME NEW v \in Tasks PROVE OpensInv(k'[v], proc'[v], file_table')
    BY DEF OpenInv
  <2>1. \A j \in Fds : proc[v].filp[j] # 0 => proc[v].filp[j] \in Files
    BY <1>10 DEF HavingInv
  <2>2. \A j \in Fds : p.filp[j] # 0 => p.filp[j] \in Files /\ file_table[p.filp[j]].inode # 0
    BY <1>1, <1>10 DEF HavingInv, OpensInv, Reserved
  <2>3. CASE v = u
    BY <1>12, <1>13, <1>17, <2>2, <2>3 DEF OpensInv
  <2>4. CASE v # u
    <3> DEFINE f == proc[v].filp[k[v].fd]
    <3>1. ASSUME k[v].op = "open" PROVE file_table'[f].count = 1
      <4>1. v # t
        BY <1>1, <3>1
      <4>2. k[v].fd \in Fds /\ f \in Files /\ file_table[f].count = 1
        BY <3>1, ReservedIs
      <4>3. \A j \in Fds : p.filp[j] # f
        BY <4>1, <4>2, Sole
      <4>4. copies(f) = 0
        BY <1>8, <4>2, <4>3
      <4> HIDE DEF f
      <4> QED
        BY <1>17, <4>2, <4>4
    <3>2. OpensInv(k[v], proc[v], file_table)
      BY <1>10
    <3>3. OpensInv(k[v], proc[v], file_table')
      <4>1. \A j \in Fds : proc[v].filp[j] # 0 =>
              file_table'[proc[v].filp[j]].inode = file_table[proc[v].filp[j]].inode
        BY <1>17, <2>1
      <4> QED
        BY <3>1, <3>2, <4>1 DEF OpensInv
    <3> QED
      BY <1>12, <2>4, <3>3
  <2> QED
    BY <2>3, <2>4
<1>20. DataInv'
  BY <1>3 DEF IInv, DataInv
<1>21. DescriptorsCounted'
  <2> SUFFICES ASSUME NEW f \in Files
               PROVE  file_table'[f].count = Cardinality(Pairs(proc', f))
    BY DEF DescriptorsCounted, Pairs
  <2>1. file_table[f].count = Cardinality(Pairs(proc, f))
    BY CountIsPairs
  <2> QED
    BY <1>11, <1>17, <2>1
<1>22. ASSUME NEW s \in Slots
       PROVE  SlotStep(table[s], table'[s], Mine(k[u], proc[u], s), s, k[u].empty, k'[u].empty)
  <2>1. Lasting(p, s) # 0 => table[s].num # 0
    <3>1. ASSUME Lasting(p, s) # 0 PROVE Has(k[t], proc[t], s)
      BY <3>1 DEF Lasting, One, Has
    <3>2. 0 \notin Inums
      BY DEF Inums
    <3> QED
      BY <3>1, <3>2, HadIsNumbered
  <2>2. Lasting(p, s) = 0 => table'[s].count = table[s].count
    BY <1>9, <1>15 DEF RecInv
  <2>3. s # 0 /\ k[u].empty = 0 /\ k'[u].empty = 0
    BY <1>6, <1>12, <1>13 DEF Slots
  <2> QED
    BY <1>15, <2>1, <2>2, <2>3 DEF SlotStep
<1>23. ASSUME NEW s \in Slots
       PROVE  table'[s].count + Mine(k[u], proc[u], s) + FilesOn(file_table, s)
                = table[s].count + Mine(k'[u], proc'[u], s) + FilesOn(file_table', s)
  <2>1. Mine(k[u], proc[u], s) = 0
    BY <1>6
  <2>2. FilesOn(file_table', s) = FilesOn(file_table, s) /\ FilesOn(file_table, s) \in Nat
    <3>1. {f \in Files : file_table'[f].inode = s} = {f \in Files : file_table[f].inode = s}
      BY <1>17
    <3> QED
      BY <3>1, FilesFinite DEF FilesOn
  <2>3. Mine(k'[u], proc'[u], s) = Lasting(p, s)
    <3>1. Mine(Idle, p, s) = One(Idle.dir, s) + One(Idle.ino, s) + One(Idle.old, s)
                             + One(Idle.empty, s) + Lasting(p, s)
      BY <1>13, MineIs
    <3>2. One(0, s) = 0 /\ Lasting(p, s) \in Nat
      BY <1>5 DEF One, Slots
    <3> QED
      BY <1>12, <1>13, <3>1, <3>2
  <2>4. table'[s].count = table[s].count + Lasting(p, s) /\ table[s].count \in Nat
        /\ Lasting(p, s) \in Nat
    BY <1>5, <1>9, <1>15 DEF RecInv
  <2> QED
    BY ONLY <2>1, <2>2, <2>3, <2>4
<1>24. DoingInv(k'[u]) /\ HavingInv(k'[u], proc'[u])
  BY <1>12, <1>13, <1>14
<1> QED
  BY ONLY IInv, u \in Tasks, <1>1, <1>12, <1>16, <1>18, <1>19, <1>20, <1>21, <1>22, <1>23,
          <1>24, StepKeeps

-----------------------------------------------------------------------------
\* The hands of the first tasks: pwd and root, both on slot 1.
Fresh(kk, pp, alive) ==
    \A t \in Tasks : /\ kk[t].dir = 0 /\ kk[t].ino = 0 /\ kk[t].old = 0
                     /\ kk[t].empty = 0 /\ kk[t].puts = <<>>
                     /\ pp[t].pwd = (IF t \in alive THEN 1 ELSE 0)
                     /\ pp[t].root = (IF t \in alive THEN 1 ELSE 0)
                     /\ pp[t].executable = 0

LEMMA FirstHands ==
    ASSUME NEW kk, NEW pp, NEW alive, alive \subseteq Tasks, Fresh(kk, pp, alive),
           NEW s \in Slots
    PROVE  /\ Cardinality(HandsOn(kk, pp, s)) = (IF s = 1 THEN 2 * Cardinality(alive) ELSE 0)
           /\ Cardinality(alive) \in Nat
<1> DEFINE B == alive \X {5, 6}
<1>1. IsFiniteSet(alive) /\ Cardinality(alive) \in Nat
  BY TableAssumption, FS_Subset, FS_CardinalityType
<1>2. IsFiniteSet({5, 6}) /\ Cardinality({5, 6}) = 2
  <2>1. IsFiniteSet({5}) /\ Cardinality({5}) = 1
    BY FS_Singleton
  <2>2. IsFiniteSet({5} \cup {6}) /\ Cardinality({5} \cup {6}) = Cardinality({5}) + 1
    BY <2>1, FS_AddElement
  <2>3. {5} \cup {6} = {5, 6}
    OBVIOUS
  <2> QED
    BY <2>1, <2>2, <2>3
<1>3. Cardinality(B) = Cardinality(alive) * 2
  BY <1>1, <1>2, FS_Product
<1>4. ASSUME NEW t \in Tasks, NEW i \in 1 .. 10
      PROVE  i \in DOMAIN Held(kk[t], pp[t]) /\ Held(kk[t], pp[t])[i] = s
               <=> s = 1 /\ t \in alive /\ i \in {5, 6}
  <2> USE DEF Fresh
  <2> DEFINE h == Held(kk[t], pp[t])
  <2>1. DOMAIN h = 1 .. 7
    <3>1. Len(kk[t].puts) = 0 /\ kk[t].puts \in Seq(Slots)
      <4>1. <<>> \in Seq(Slots) /\ Len(<<>>) = 0
        OBVIOUS
      <4> QED
        BY <4>1
    <3> QED
      BY <3>1 DEF Held
  <2>2. /\ h[1] = 0 /\ h[2] = 0 /\ h[3] = 0 /\ h[4] = 0 /\ h[7] = 0
        /\ h[5] = (IF t \in alive THEN 1 ELSE 0) /\ h[6] = (IF t \in alive THEN 1 ELSE 0)
    BY DEF Held
  <2>3. s # 0
    BY DEF Slots
  <2> HIDE DEF h
  <2>4. i \in 1 .. 7 => i = 1 \/ i = 2 \/ i = 3 \/ i = 4 \/ i = 5 \/ i = 6 \/ i = 7
    OBVIOUS
  <2>5. i \in DOMAIN h /\ h[i] = s <=> s = 1 /\ t \in alive /\ i \in {5, 6}
    BY <2>1, <2>2, <2>3, <2>4
  <2> QED
    BY <2>5 DEF h
<1>5. HandsOn(kk, pp, s) = IF s = 1 THEN B ELSE {}
  <2>1. ASSUME NEW h \in Tasks \X (1 .. 10)
        PROVE  h \in HandsOn(kk, pp, s) <=> s = 1 /\ h \in B
    BY <1>4 DEF HandsOn
  <2>2. HandsOn(kk, pp, s) \subseteq Tasks \X (1 .. 10) /\ B \subseteq Tasks \X (1 .. 10)
    BY DEF HandsOn
  <2> HIDE DEF B
  <2>3. CASE s = 1
    BY <2>1, <2>2, <2>3
  <2>4. CASE s # 1
    BY <2>1, <2>2, <2>4
  <2> QED
    BY <2>3, <2>4
<1> HIDE DEF B
<1> QED
  BY <1>1, <1>3, <1>5, FS_EmptySet

\* The invariant holds at first.
LEMMA InitKeeps == ASSUME Init PROVE IInv
<1> DEFINE root == [NoInode EXCEPT !.num = ROOT_INO, !.nlinks = 2, !.kind = "dir", !.size = 2,
                                   !.zone = <<1, 0, 0>>]
<1>1. PICK u \in Uses :
        /\ use = [t \in Tasks |-> [calls |-> u[t].calls, left |-> u[t].left]]
        /\ table = [s \in Slots |->
                      IF s = 1
                      THEN [root EXCEPT !.count = 2 + 2 * Cardinality({t \in Tasks : u[t].alive})]
                      ELSE NoInode]
        /\ proc = [t \in Tasks |->
                     [filp |-> [fd \in Fds |-> 0], executable |-> 0,
                      pwd |-> IF t \in {v \in Tasks : u[v].alive} THEN 1 ELSE 0,
                      root |-> IF t \in {v \in Tasks : u[v].alive} THEN 1 ELSE 0]]
        /\ k = [t \in Tasks |->
                  [Idle EXCEPT !.pc = IF t \in {v \in Tasks : u[v].alive} THEN "user" ELSE "dead"]]
  BY DEF Init
<1> DEFINE alive == {t \in Tasks : u[t].alive}
<1>2. /\ disk = [n \in Inums |-> OnDisk(IF n = ROOT_INO THEN root ELSE NoInode)]
      /\ blks = [b \in Blocks |->
                   IF b = 1 THEN [EmptyBlock EXCEPT ![1] = <<".", 1>>, ![2] = <<"..", 1>>]
                   ELSE EmptyBlock]
      /\ last_inode = 1 /\ file_table = [f \in Files |-> NoFile]
  BY DEF Init
<1>3. /\ use = [t \in Tasks |-> [calls |-> u[t].calls, left |-> u[t].left]]
      /\ table = [s \in Slots |-> IF s = 1 THEN [root EXCEPT !.count = 2 + 2 * Cardinality(alive)]
                                  ELSE NoInode]
      /\ proc = [t \in Tasks |-> [filp |-> [fd \in Fds |-> 0], executable |-> 0,
                                  pwd |-> IF t \in alive THEN 1 ELSE 0,
                                  root |-> IF t \in alive THEN 1 ELSE 0]]
      /\ k = [t \in Tasks |-> [Idle EXCEPT !.pc = IF t \in alive THEN "user" ELSE "dead"]]
  BY <1>1
<1>4. alive \subseteq Tasks
  OBVIOUS
<1>5. Cardinality(alive) \in Nat
  BY <1>4, TableAssumption, FS_Subset, FS_CardinalityType
<1> HIDE DEF alive, root
<1>6. \A t \in Tasks :
        /\ DOMAIN k[t] = Fields /\ k[t].pc = (IF t \in alive THEN "user" ELSE "dead")
        /\ k[t].op = "none" /\ k[t].dir = 0 /\ k[t].ino = 0 /\ k[t].old = 0 /\ k[t].empty = 0
        /\ k[t].puts = <<>> /\ k[t].io = "none" /\ k[t].n = 0
  BY <1>3 DEF Idle, Fields
<1>7. \A t \in Tasks :
        /\ DOMAIN proc[t] = {"filp", "pwd", "root", "executable"}
        /\ proc[t].filp = [fd \in Fds |-> 0] /\ proc[t].executable = 0
        /\ proc[t].pwd = (IF t \in alive THEN 1 ELSE 0)
        /\ proc[t].root = (IF t \in alive THEN 1 ELSE 0)
  BY <1>3
<1>8. 1 \in Slots /\ 1 \in Inums /\ 1 \in 0 .. NInodes /\ 0 \in 0 .. NInodes
  BY TableAssumption DEF Slots, Inums
<1>9. TasksInv
  <2>1. DOMAIN k = Tasks /\ DOMAIN proc = Tasks
    BY <1>3
  <2>2. ASSUME NEW t \in Tasks PROVE DoingInv(k[t])
    <3>1. <<>> \in Seq(Slots) /\ Len(<<>>) <= 3
      OBVIOUS
    <3>2. k[t].pc \in NoCall /\ Place0(k[t]) = k[t].pc
      BY <1>6 DEF Place0, Mapping, Searching, NoCall
    <3>3. Suits(k[t])
      BY <1>6, <3>2 DEF Suits, NoCall, Mapping, Searching, WalkPlaces, OpenPlaces, AddPlaces
    <3>4. ~ HasDir(k[t]) /\ ~ HasIno(k[t]) /\ ~ HasOld(k[t])
      BY <1>6, <3>2 DEF NoCall, Searching, OpenPlaces, AddPlaces, HasDir, HasIno, HasOld, Second
    <3>5. /\ DOMAIN k[t] = Fields /\ k[t].pc \in {"user", "dead"} /\ k[t].io = "none"
          /\ k[t].dir = 0 /\ k[t].ino = 0 /\ k[t].old = 0 /\ k[t].empty = 0
          /\ k[t].puts \in Seq(Slots) /\ Len(k[t].puts) <= 3 /\ k[t].puts = <<>>
      BY <1>6, <3>1
    <3>6. k[t].n \in Nat
      BY <1>6
    <3> QED
      BY <3>2, <3>3, <3>4, <3>5, <3>6 DEF DoingInv, Mapping, Searching, If
  <2>3. ASSUME NEW t \in Tasks PROVE HavingInv(k[t], proc[t])
    <3>1. Gone(k[t]) <=> t \notin alive
      BY <1>6 DEF Gone
    <3> QED
      BY <1>7, <1>8, <3>1 DEF HavingInv, If
  <2> QED
    BY <2>1, <2>2, <2>3 DEF TasksInv
<1>10. /\ DOMAIN table = Slots
       /\ \A s \in Slots :
            /\ DOMAIN table[s] = {"num", "count", "dirt", "lock", "nlinks", "kind", "size", "zone"}
            /\ table[s].num = (IF s = 1 THEN 1 ELSE 0)
            /\ table[s].count = (IF s = 1 THEN 2 + 2 * Cardinality(alive) ELSE 0)
            /\ table[s].dirt = FALSE /\ table[s].lock = FALSE
  BY <1>3 DEF root, NoInode, ROOT_INO
<1>11. TableInv
  <2>1. \A s \in Slots : table[s].dirt \in BOOLEAN /\ table[s].lock \in BOOLEAN
    BY <1>10
  <2> QED
    BY <1>5, <1>8, <1>10, <2>1 DEF TableInv, RecInv
<1>12. EmptyHeld /\ Numbered
  BY <1>6, <1>10 DEF EmptyHeld, Numbered
<1>13. FilesInv
  BY <1>2 DEF FilesInv, NoFile
<1>14. OpenInv
  <2> SUFFICES ASSUME NEW t \in Tasks PROVE OpensInv(k[t], proc[t], file_table)
    BY DEF OpenInv
  <2>1. k[t].op = "none" /\ Place0(k[t]) # "wrote"
    BY <1>6 DEF Place0, Mapping, Searching
  <2>2. \A fd \in Fds : proc[t].filp[fd] = 0
    BY <1>7
  <2> QED
    BY <2>1, <2>2 DEF OpensInv
<1>15. DataInv
  <2>1. DOMAIN disk = Inums /\ DOMAIN blks = Blocks
    BY <1>2
  <2>2. \A n \in Inums : DOMAIN disk[n] = {"nlinks", "kind", "size", "zone"}
    BY <1>2 DEF OnDisk
  <2>3. ASSUME NEW b \in Blocks
        PROVE  /\ DOMAIN blks[b] = 1 .. Width
               /\ \A i \in 1 .. Width : NameOf(blks[b][i]) # NoName =>
                                          NumberOf(blks[b][i]) \in 0 .. NInodes
    <3> DEFINE d == <<".", 1>>
               e == <<"..", 1>>
    <3>1. NumberOf(d) = 1 /\ NumberOf(e) = 1 /\ NameOf(FreeEntry) = NoName
      BY DEF NumberOf, NameOf, FreeEntry
    <3>2. /\ DOMAIN EmptyBlock = 1 .. Width
          /\ \A i \in 1 .. Width : EmptyBlock[i] = FreeEntry
      BY DEF EmptyBlock
    <3> HIDE DEF d, e
    <3>3. blks[b] = IF b = 1 THEN [EmptyBlock EXCEPT ![1] = d, ![2] = e] ELSE EmptyBlock
      BY <1>2 DEF d, e
    <3>4. DOMAIN blks[b] = 1 .. Width /\ \A i \in 1 .. Width : blks[b][i] \in {d, e, FreeEntry}
      BY <3>2, <3>3
    <3> QED
      BY <1>8, <3>1, <3>4
  <2>4. last_inode \in Slots
    BY <1>2, <1>8
  <2> QED
    BY <2>1, <2>2, <2>3, <2>4 DEF DataInv
<1>16. UseInv
  <2>1. \A t \in Tasks : \A c \in u[t].calls : Known(c)
    BY FilesAssumption
  <2> QED
    BY <1>3, <2>1 DEF UseInv
<1>17. CountIsReferences
  <2>1. Fresh(k, proc, alive)
    BY <1>6, <1>7 DEF Fresh
  <2>2. ASSUME NEW s \in Slots
        PROVE  table[s].count = (IF s = 1 THEN 2 ELSE 0) + FilesOn(file_table, s)
                                + Cardinality(HandsOn(k, proc, s))
    <3>1. Cardinality(HandsOn(k, proc, s)) = (IF s = 1 THEN 2 * Cardinality(alive) ELSE 0)
      BY <1>4, <2>1, FirstHands
    <3>2. FilesOn(file_table, s) = 0
      <4>1. {f \in Files : file_table[f].inode = s} = {}
        BY <1>2 DEF NoFile, Slots
      <4> QED
        BY <4>1, FS_EmptySet DEF FilesOn
    <3> QED
      BY <1>5, <1>10, <3>1, <3>2
  <2>3. \A s \in Slots : table[s].count = References(s)
    BY <2>2, ReferencesCounted DEF Counted
  <2>4. ASSUME NEW f \in Files
        PROVE  file_table[f].count = Cardinality({h \in Tasks \X Fds : proc[h[1]].filp[h[2]] = f})
    <3>1. {h \in Tasks \X Fds : proc[h[1]].filp[h[2]] = f} = {}
      BY <1>7 DEF Files
    <3> QED
      BY <1>2, <3>1, FS_EmptySet DEF NoFile
  <2> QED
    BY <2>3, <2>4 DEF CountIsReferences
<1> QED
  BY <1>9, <1>11, <1>12, <1>13, <1>14, <1>15, <1>16, <1>17 DEF IInv

\* The next step of a task inside a call keeps the invariant.
LEMMA TaskStepKeeps == ASSUME IInv, NEW t \in Tasks, Step(t) PROVE IInv'
<1>1. CASE InodeStep(t) /\ FilesStay
  BY <1>1, InodeStepKeeps DEF FilesStay
<1>2. CASE Walk(t) \/ Scan(t) \/ FoundEntry(t) \/ Walked(t)
  BY <1>2, WalkKeeps, ScanKeeps, FoundEntryKeeps, WalkedKeeps
<1>3. CASE Missed(t) \/ Dots(t) \/ AddEntry(t) \/ EntryAdded(t) \/ AddNext(t) \/ AddFails(t)
  BY <1>3, MissedKeeps, DotsKeeps, AddEntryKeeps, EntryAddedKeeps, AddNextKeeps, AddFailsKeeps
<1>4. CASE \/ Failed(t) \/ Linked(t) \/ Named(t) \/ Opened(t) \/ OpenTruncates(t)
           \/ Install(t)
  BY <1>4, FailedKeeps, LinkedKeeps, NamedKeeps, OpenedKeeps, OpenTruncatesKeeps, InstallKeeps
<1>5. CASE Victim(t) \/ EmptyDir(t) \/ Wrote(t)
  BY <1>5, VictimKeeps, EmptyDirKeeps, WroteKeeps
<1>6. CASE Exiting(t) \/ Syncing(t) \/ Synced(t) \/ Return(t)
  BY <1>6, ExitingKeeps, SyncingKeeps, SyncedKeeps, ReturnKeeps
<1> QED
  BY <1>1, <1>2, <1>3, <1>4, <1>5, <1>6 DEF Step

\* So does a system call.
LEMMA SystemCallKeeps == ASSUME IInv, NEW t \in Tasks, NEW c, SystemCall(t, c) PROVE IInv'
BY WithPathKeeps, WriteKeeps, CloseKeeps, DupKeeps, ForkKeeps, ExitKeeps, SyncKeeps DEF SystemCall

-----------------------------------------------------------------------------
\* What every task has in hand, the empty slots, the files and the counts are
\* as the invariant says, at every moment of every call.
THEOREM Invariant == Spec => []IInv
<1>1. Init => IInv
  BY InitKeeps
<1>2. IInv /\ [Next]_vars => IInv'
  <2> SUFFICES ASSUME IInv, [Next]_vars PROVE IInv'
    OBVIOUS
  <2>1. ASSUME NEW t \in Tasks, Step(t) PROVE IInv'
    BY <2>1, TaskStepKeeps
  <2>2. ASSUME NEW t \in Tasks, NEW c \in use[t].calls, SystemCall(t, c) PROVE IInv'
    BY <2>2, SystemCallKeeps
  <2>3. CASE UNCHANGED vars
    BY <2>3, StayKeeps DEF vars, ivars
  <2> QED
    BY <2>1, <2>2, <2>3 DEF Next, Over
<1> QED
  BY <1>1, <1>2, PTL DEF Spec

\* i_count is the number of references to the inode and f_count that of
\* descriptors of the file, at every moment of every call and through every
\* error path: of sys_open(), open_namei(), sys_link() and the rest, with the
\* tasks in any order at every sleep.
THEOREM CountsAreReferences == Spec => []CountIsReferences
<1>1. IInv => CountIsReferences
  BY DEF IInv
<1> QED
  BY <1>1, Invariant, PTL

\* A slot that get_empty_inode() takes has nothing to be written, and nobody
\* has locked it.
THEOREM UnusedSlotsAreClean == Spec => []UnusedIsClean
<1>1. IInv => UnusedIsClean
  BY DEF IInv, TableInv, RecInv, UnusedIsClean
<1> QED
  BY <1>1, Invariant, PTL

-----------------------------------------------------------------------------
\* Every number in the table is that of an allocated inode, and is there once.
NumInv ==
    \A s \in Slots : table[s].num # 0 =>
        table[s].num \in imap /\ \A r \in Slots : table[r].num = table[s].num => r = s
OnceInv == ~ Disturbed => NumInv

\* A step that changes no number and no bit of imap.
NumsStay == imap' = imap /\ \A s \in Slots : table'[s].num = table[s].num

\* Such a step keeps NumInv.
LEMMA NumsStayKeeps == ASSUME NumInv, NumsStay PROVE NumInv'
BY DEF NumInv, NumsStay

\* What the invariant says of the records of the table.
LEMMA HasNum ==
    ASSUME IInv
    PROVE  DOMAIN table = Slots /\ \A s \in Slots : "num" \in DOMAIN table[s]
BY DEF IInv, TableInv, RecInv

\* A step that changes one slot, and keeps the number in it.
LEMMA SlotNums ==
    ASSUME IInv, NEW x, NEW r, table' = [table EXCEPT ![x] = r], r.num = table[x].num,
           imap' = imap
    PROVE  NumsStay
BY HasNum DEF NumsStay

\* truncate() changes the zones, the size and the mark of a slot.
LEMMA TruncateNums ==
    ASSUME IInv, NEW t \in Tasks, NEW x \in Slots, NEW then, TruncateStep(t, x, then)
    PROVE  NumsStay
<1>1. "num" \in DOMAIN table[x]
  BY HasNum
<1>2. CASE UNCHANGED <<table, imap>>
  BY <1>2 DEF NumsStay
<1>3. CASE imap' = imap /\ table' = [table EXCEPT ![x].zone[1] = 0]
  <2> DEFINE r == [table[x] EXCEPT !.zone[1] = 0]
  <2>1. r.num = table[x].num
    BY <1>1
  <2>2. table' = [table EXCEPT ![x] = r]
    BY <1>3
  <2> QED
    BY <1>3, <2>1, <2>2, SlotNums
<1>4. CASE /\ imap' = imap
           /\ table' = [table EXCEPT ![x].zone = NoZones, ![x].size = 0, ![x].dirt = TRUE]
  BY <1>4, HasNum DEF NumsStay
<1> QED
  BY <1>2, <1>3, <1>4 DEF TruncateStep, panic

\* iput() up to free_inode() and write_inode() change no number.
LEMMA PutNums ==
    ASSUME IInv, NEW t \in Tasks,
           Iput(t) \/ IputWritten(t) \/ IputTruncates(t) \/ WaitForLock(t)
    PROVE  NumsStay
<1>1. CASE Iput(t)
  <2> DEFINE s == Head(k[t].puts)
  <2>1. /\ imap' = imap
        /\ \/ UNCHANGED table
           \/ table' = [table EXCEPT ![s].count = @ - 1]
           \/ table' = [table EXCEPT ![s].lock = TRUE]
    BY <1>1 DEF Iput, WriteInode, panic
  <2> HIDE DEF s
  <2> QED
    BY <2>1, HasNum DEF NumsStay
<1>2. CASE IputWritten(t)
  BY <1>2, HasNum DEF IputWritten, InodeWritten, NumsStay
<1>3. CASE IputTruncates(t)
  <2>1. k[t].puts # <<>> /\ TruncateStep(t, Head(k[t].puts), [io |-> "free"])
    BY <1>3 DEF IputTruncates
  <2>2. Head(k[t].puts) \in Slots
    BY <2>1, FirstIs
  <2> QED
    BY <2>1, <2>2, TruncateNums
<1>4. CASE WaitForLock(t)
  BY <1>4 DEF WaitForLock, NumsStay
<1> QED
  BY <1>1, <1>2, <1>3, <1>4

\* Nor do read_inode() when the block is there, bmap() and create_block().
LEMMA MapNums ==
    ASSUME IInv, NEW t \in Tasks, InodeRead(t) \/ Bmap(t) \/ NewBlock(t) \/ BlockMade(t)
    PROVE  NumsStay
<1>1. CASE InodeRead(t)
  <2>1. k[t].nr \in Inums
    BY <1>1 DEF InodeRead, At, IInv, TasksInv, DoingInv, Searching
  <2>2. "num" \notin DOMAIN disk[k[t].nr]
    BY <2>1 DEF IInv, DataInv
  <2> QED
    BY <1>1, <2>2, HasNum DEF InodeRead, Changed, NumsStay
<1>2. CASE Bmap(t) \/ NewBlock(t)
  BY <1>2 DEF Bmap, NewBlock, NumsStay
<1>3. CASE BlockMade(t)
  BY <1>3, HasNum DEF BlockMade, NumsStay
<1> QED
  BY <1>1, <1>2, <1>3

\* Nor do the walk along a path and the calls that end with what they found.
LEMMA PathNums ==
    ASSUME IInv, NEW t \in Tasks,
           \/ Walk(t) \/ Scan(t) \/ FoundEntry(t) \/ Walked(t) \/ AddEntry(t) \/ AddNext(t)
           \/ Linked(t) \/ Named(t) \/ Opened(t) \/ OpenTruncates(t) \/ Install(t) \/ Exiting(t)
           \/ Return(t)
    PROVE  NumsStay
<1>1. CASE Walk(t) \/ Scan(t) \/ FoundEntry(t) \/ Walked(t) \/ AddEntry(t) \/ AddNext(t)
  BY <1>1 DEF Walk, Scan, FoundEntry, Walked, AddEntry, AddNext, DiskStays, NumsStay
<1>2. CASE Opened(t) \/ Install(t) \/ Exiting(t) \/ Return(t)
  BY <1>2 DEF Opened, Install, Exiting, Return, DiskStays, NumsStay
<1>3. CASE Linked(t)
  BY <1>3, HasNum DEF Linked, NumsStay
<1>4. CASE Named(t)
  <2> DEFINE x == k[t].ino
             y == Start(t, k[t].more)
  <2>1. /\ imap' = imap
        /\ \/ \E b : table' = [table EXCEPT ![x].dirt = b]
           \/ \E n : table' = [table EXCEPT ![x].dirt = TRUE, ![y].count = n]
    BY <1>4 DEF Named
  <2> HIDE DEF x, y
  <2> QED
    BY <2>1, HasNum DEF NumsStay
<1>5. CASE OpenTruncates(t)
  <2>1. k[t].ino \in Slots
    <3>1. DoingInv(k[t]) /\ k[t].pc = "truncate"
      BY <1>5, AtIs DEF OpenTruncates
    <3> QED
      BY <3>1 DEF DoingInv, HasIno, Place0, Searching, Mapping, OpenPlaces, If
  <2> QED
    BY <1>5, <2>1, TruncateNums DEF OpenTruncates
<1> QED
  BY <1>1, <1>2, <1>3, <1>4, <1>5

\* Nor do the calls that change a directory, write a file or save the table.
LEMMA EntryNums ==
    ASSUME IInv, NEW t \in Tasks,
           \/ Dots(t) \/ EntryAdded(t) \/ AddFails(t) \/ Failed(t) \/ Victim(t) \/ EmptyDir(t)
           \/ Wrote(t) \/ Syncing(t) \/ Synced(t)
    PROVE  NumsStay
<1>1. CASE Dots(t)
  <2> DEFINE x == k[t].ino
  <2>1. CASE imap' = imap /\ table' = [table EXCEPT ![x].size = 2]
    <3> HIDE DEF x
    <3> QED
      BY <2>1, HasNum DEF NumsStay
  <2>2. CASE /\ imap' = imap
             /\ table' = [table EXCEPT ![x] =
                            [@ EXCEPT !.nlinks = 2, !.kind = "dir", !.size = 2, !.dirt = TRUE]]
    <3> HIDE DEF x
    <3> QED
      BY <2>2, HasNum DEF NumsStay
  <2> QED
    BY <1>1, <2>1, <2>2 DEF Dots
<1>2. CASE EntryAdded(t)
  BY <1>2, HasNum DEF EntryAdded, Grown, NumsStay
<1>3. CASE AddFails(t) \/ Failed(t)
  BY <1>3, HasNum DEF AddFails, Failed, NumsStay
<1>4. CASE Victim(t)
  <2> DEFINE x == k[t].ino
  <2>1. /\ imap' = imap
        /\ \/ UNCHANGED table
           \/ \E n : table' = [table EXCEPT ![x].nlinks = n, ![x].dirt = TRUE]
    BY <1>4 DEF Victim, Unlinked
  <2> HIDE DEF x
  <2>2. ASSUME NEW n, imap' = imap,
               table' = [table EXCEPT ![x].nlinks = n, ![x].dirt = TRUE]
        PROVE  NumsStay
    BY <2>2, HasNum DEF NumsStay
  <2>3. CASE imap' = imap /\ UNCHANGED table
    BY <2>3 DEF NumsStay
  <2> QED
    BY <2>1, <2>2, <2>3
<1>5. CASE EmptyDir(t)
  <2> DEFINE x == k[t].ino
             d == k[t].dir
  <2>1. CASE UNCHANGED <<table, imap>>
    BY <2>1 DEF NumsStay
  <2>2. CASE /\ imap' = imap
             /\ table' = [table EXCEPT ![x].nlinks = 0, ![x].dirt = TRUE,
                                       ![d].nlinks = @ - 1, ![d].dirt = TRUE]
    <3> HIDE DEF x, d
    <3> QED
      BY <2>2, HasNum DEF NumsStay
  <2> QED
    BY <1>5, <2>1, <2>2 DEF EmptyDir
<1>6. CASE Wrote(t)
  BY <1>6, HasNum DEF Wrote, NumsStay
<1>7. CASE Syncing(t) \/ Synced(t)
  BY <1>7, HasNum DEF Syncing, Synced, WriteInode, InodeWritten, DiskStays, NumsStay
<1> QED
  BY <1>1, <1>2, <1>3, <1>4, <1>5, <1>6, <1>7

\* Nor does the beginning of a call.
LEMMA CallNums ==
    ASSUME IInv, NEW t \in Tasks, NEW c, SystemCall(t, c)
    PROVE  NumsStay
<1>1. CASE WithPath(t, c)
  BY <1>1, HasNum DEF WithPath, NumsStay
<1>2. CASE Write(t, c) \/ Close(t, c) \/ Dup(t, c) \/ Exit(t, c) \/ Sync(t, c)
  BY <1>2 DEF Write, Close, Dup, Exit, Sync, DiskStays, NumsStay
<1>3. CASE Fork(t, c)
  BY <1>3, HasNum DEF Fork, NumsStay
<1> QED
  BY <1>1, <1>2, <1>3 DEF SystemCall

\* free_inode() clears the bit of the only slot that had the number.
LEMMA FreeNums == ASSUME IInv, NumInv, NEW t \in Tasks, IputFrees(t) PROVE NumInv'
<1> DEFINE s == Head(k[t].puts)
<1>1. CASE NumsStay
  BY <1>1, NumsStayKeeps
<1>2. CASE imap' = imap \ {table[s].num} /\ table' = [table EXCEPT ![s] = NoInode]
  <2>1. s \in Slots
    BY FirstIs DEF IputFrees, IInv, TasksInv, DoingInv
  <2> HIDE DEF s
  <2>2. table'[s].num = 0 /\ \A r \in Slots \ {s} : table'[r] = table[r]
    BY <1>2, <2>1, HasNum DEF NoInode
  <2>3. ASSUME NEW r \in Slots, table'[r].num # 0
        PROVE  /\ table'[r].num \in imap'
               /\ \A z \in Slots : table'[z].num = table'[r].num => z = r
    <3>1. r # s /\ table'[r] = table[r]
      BY <2>2, <2>3
    <3>2. table[r].num # table[s].num
      BY <2>1, <2>3, <3>1 DEF NumInv
    <3> QED
      BY <1>2, <2>2, <2>3, <3>1, <3>2 DEF NumInv
  <2> QED
    BY <2>3 DEF NumInv
<1> QED
  BY <1>1, <1>2 DEF IputFrees, free_inode, panic, NumsStay

\* iget() clears an unused slot, and adds a reference to the slot it finds.
LEMMA GetNums == ASSUME IInv, NumInv, NEW t \in Tasks, Iget(t) \/ Found(t) PROVE NumInv'
<1>1. CASE NumsStay
  BY <1>1, NumsStayKeeps
<1>2. CASE /\ imap' = imap
           /\ \A s \in Slots : table'[s].num = 0 \/ table'[s].num = table[s].num
  BY <1>2 DEF NumInv
<1>3. CASE Iget(t)
  <2>1. [NoInode EXCEPT !.count = 1].num = 0
    BY DEF NoInode
  <2> QED
    BY <1>1, <1>2, <1>3, <2>1, HasNum DEF Iget, panic, NumsStay
<1>4. CASE Found(t)
  <2>1. NoInode.num = 0
    BY DEF NoInode
  <2> DEFINE s == Min(Hits(t))
             e == k[t].empty
  <2>2. imap' = imap /\ table' = [table EXCEPT ![s].count = @ + 1, ![e] = NoInode]
    BY <1>4 DEF Found
  <2> HIDE DEF s, e
  <2> QED
    BY <1>2, <2>1, <2>2, HasNum
<1> QED
  BY <1>3, <1>4

\* read_inode() fills a slot with a number that is allocated, and that no slot had.
LEMMA ReadNums ==
    ASSUME IInv, NumInv, NEW t \in Tasks, ReadInode(t),
           k[t].pc = "search" /\ Hits(t) = {} => k[t].nr \in imap
    PROVE  NumInv'
<1> DEFINE e == k[t].empty
           n == k[t].nr
<1>1. e \in Slots
  BY DEF ReadInode, At, IInv, TasksInv, DoingInv, If
<1>2. n \in imap /\ \A s \in Slots : table[s].num # n
  BY DEF ReadInode, At, Hits
<1>3. imap' = imap /\ table' = [table EXCEPT ![e].num = n, ![e].lock = TRUE]
  BY DEF ReadInode
<1> HIDE DEF e, n
<1>4. /\ imap' = imap /\ table'[e].num = n
      /\ \A s \in Slots \ {e} : table'[s].num = table[s].num
  BY <1>1, <1>3, HasNum
<1>5. ASSUME NEW s \in Slots, table'[s].num # 0
      PROVE  table'[s].num \in imap' /\ \A r \in Slots : table'[r].num = table'[s].num => r = s
  <2>1. CASE s = e
    BY <1>2, <1>4, <2>1
  <2>2. CASE s # e
    BY <1>2, <1>4, <1>5, <2>2 DEF NumInv
  <2> QED
    BY <2>1, <2>2
<1> QED
  BY <1>5 DEF NumInv

\* new_inode() fills a slot with a number that was free, and allocates it.
LEMMA NewNums == ASSUME IInv, NumInv, NEW t \in Tasks, Missed(t) PROVE NumInv'
<1> DEFINE x == NewSlot
           n == Min(FreeInums)
<1>1. CASE NumsStay
  BY <1>1, NumsStayKeeps
<1>2. CASE /\ FreeInums # {} /\ Unused # {}
           /\ imap' = imap \cup {n} /\ table' = [table EXCEPT ![x] = NewInode(Kind(t))]
  <2>1. x \in Slots
    BY <1>2, NewSlotIs DEF IInv, TableInv
  <2>2. n \in FreeInums
    <3>1. FreeInums \subseteq Nat
      BY DEF FreeInums, Inums
    <3> QED
      BY <1>2, <3>1, LeastElement
  <2>3. n \notin imap
    BY <2>2 DEF FreeInums
  <2>4. NewInode(Kind(t)).num = n
    BY DEF NewInode, NoInode
  <2> HIDE DEF x, n
  <2>5. table'[x].num = n /\ \A s \in Slots \ {x} : table'[s].num = table[s].num
    BY <1>2, <2>1, <2>4, HasNum
  <2> QED
    BY <1>2, <2>1, <2>3, <2>5 DEF NumInv
<1> QED
  BY <1>1, <1>2 DEF Missed, new_inode, panic, DiskStays, NumsStay

\* What a task may ask for stays the same, and so does who removes files.
LEMMA DisturbedStays ==
    ASSUME IInv, Next
    PROVE  Disturbed' <=> Disturbed
<1>1. \A t \in Tasks : use'[t].calls = use[t].calls
  <2>1. DOMAIN use = Tasks /\ \A t \in Tasks : "calls" \in DOMAIN use[t]
    BY DEF IInv, UseInv
  <2>2. CASE UNCHANGED use
    BY <2>2
  <2>3. ASSUME NEW t \in Tasks, Step(t) PROVE UNCHANGED use
    BY <2>3 DEF Step, FilesStay, nvars, Walk, Scan, FoundEntry, Walked, Missed, Dots, AddEntry,
                EntryAdded, AddNext, AddFails, Failed, GiveUp, Linked, Named, Opened, OpenTruncates, Install,
                Victim, EmptyDir, Wrote, Exiting, Syncing, Synced, Return
  <2>4. ASSUME NEW t \in Tasks, NEW c, SystemCall(t, c)
        PROVE  \E n : use' = [use EXCEPT ![t].left = n]
    BY <2>4 DEF SystemCall, Calls, WithPath, Write, Close, Dup, Fork, Exit, Sync
  <2>5. ASSUME NEW t \in Tasks, NEW n, use' = [use EXCEPT ![t].left = n]
        PROVE  \A u \in Tasks : use'[u].calls = use[u].calls
    BY <2>1, <2>5
  <2> QED
    BY <2>2, <2>3, <2>4, <2>5 DEF Next, Over, vars, nvars
<1> QED
  BY <1>1 DEF Disturbed

\* Every step keeps NumInv, if iget() reads no inode that is not allocated.
LEMMA NumbersKept ==
    ASSUME IInv, NumInv, Next,
           \A t \in Tasks : k[t].pc = "search" /\ Hits(t) = {} => k[t].nr \in imap
    PROVE  NumInv'
<1>1. ASSUME NEW t \in Tasks, Step(t) PROVE NumInv'
  <2>1. CASE InodeStep(t)
    BY <2>1, PutNums, MapNums, NumsStayKeeps, FreeNums, GetNums, ReadNums DEF InodeStep
  <2>2. CASE Missed(t)
    BY <2>2, NewNums
  <2> QED
    BY <1>1, <2>1, <2>2, PathNums, EntryNums, NumsStayKeeps DEF Step
<1>2. ASSUME NEW t \in Tasks, NEW c, SystemCall(t, c) PROVE NumInv'
  BY <1>2, CallNums, NumsStayKeeps
<1>3. CASE UNCHANGED vars
  BY <1>3 DEF vars, ivars, NumInv
<1> QED
  BY <1>1, <1>2, <1>3 DEF Next, Over

\* While no task removes files behind the back of another, no inode is in two
\* slots of inode_table, so long as iget() looks only for allocated inodes: not
\* by two calls of iget() for one number that sleep for an inode that is locked,
\* nor by new_inode(), which takes a number that is free.
THEOREM InodesAreInOneSlot == Spec /\ []ReadsAllocated => []OneSlotPerInode
<1>1. Init => OnceInv
  <2> SUFFICES ASSUME Init PROVE NumInv
    BY DEF OnceInv
  <2>1. imap = {1} /\ \A s \in Slots : table[s].num = (IF s = 1 THEN 1 ELSE 0)
    <3> DEFINE root(n) == [[NoInode EXCEPT !.num = ROOT_INO, !.nlinks = 2, !.kind = "dir",
                                           !.size = 2, !.zone = <<1, 0, 0>>] EXCEPT !.count = n]
    <3>1. imap = {1} /\ \E n : table = [s \in Slots |-> IF s = 1 THEN root(n) ELSE NoInode]
      BY DEF Init, ROOT_INO
    <3>2. NoInode.num = 0 /\ \A n : root(n).num = 1
      BY DEF NoInode, ROOT_INO
    <3> HIDE DEF root
    <3> QED
      BY <3>1, <3>2
  <2> QED
    BY <2>1 DEF NumInv
<1>2. IInv /\ OnceInv /\ ReadsAllocated /\ [Next]_vars => OnceInv'
  <2>1. ASSUME IInv, OnceInv, ReadsAllocated, Next PROVE OnceInv'
    BY <2>1, DisturbedStays, NumbersKept DEF OnceInv, ReadsAllocated
  <2>2. ASSUME OnceInv, UNCHANGED vars PROVE OnceInv'
    BY <2>2 DEF OnceInv, vars, ivars, nvars, NumInv, Disturbed
  <2> QED
    BY <2>1, <2>2
<1>3. OnceInv => OneSlotPerInode
  <2> SUFFICES ASSUME NumInv, NEW n \in Inums PROVE Cardinality(InCore(n)) <= 1
    BY DEF OnceInv, OneSlotPerInode
  <2>1. \A s, r \in InCore(n) : s = r
    BY DEF InCore, Inums, NumInv
  <2>2. CASE InCore(n) = {}
    BY <2>2, FS_EmptySet
  <2>3. ASSUME NEW s \in InCore(n) PROVE Cardinality(InCore(n)) <= 1
    <3>1. InCore(n) = {s}
      BY <2>1
    <3> QED
      BY <3>1, FS_Singleton
  <2> QED
    BY <2>2, <2>3
<1> QED
  BY <1>1, <1>2, <1>3, Invariant, PTL DEF Spec

=============================================================================
