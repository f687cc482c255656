------------------------ MODULE BlockRequestsProofs ------------------------
(***************************************************************************)
(* Proofs about BlockRequests, for every number of tasks, buffers, slots   *)
(* and sectors: buffers, requests and the queue agree, and what counts as  *)
(* written is on the disk.                                                 *)
(***************************************************************************)
EXTENDS BlockRequests, FiniteSetTheorems, WellFoundedInduction, TLAPS

InQueue(q) == {q[i] : i \in DOMAIN q}

Types ==
    /\ b_lock \in [Buffers -> BOOLEAN] /\ b_dirt \in [Buffers -> BOOLEAN]
    /\ b_uptodate \in [Buffers -> BOOLEAN]
    /\ synced \in [Buffers -> BOOLEAN] /\ sent \in [Buffers -> BOOLEAN]
    /\ request \in [Slots -> Requests \cup {None}]
    /\ queue \in Seq(Slots)
    /\ drv \in {"idle", "start", "read", "write", "recal"}
    /\ reset \in BOOLEAN /\ recalibrate \in BOOLEAN
    /\ pc \in [Tasks -> Places] /\ op \in [Tasks -> Op \cup {None}]
    /\ reqWait \subseteq Tasks

\* Where a task waits for a slot, with its buffer locked.
Waiting == {"noslot", "entering", "slotsleep", "slotretry"}

\* A task that waits knows for what; who waits for a lock has a buffer in mind;
\* the sleepers for a slot are asleep, or about to be.
WaitsFor ==
    /\ \A t \in Tasks : pc[t] \in Waiting => op[t] \in Op
    /\ \A t \in Tasks :
          pc[t] \in {"lockwait", "lockretry"} => op[t] \in Op /\ op[t].what # Page
    /\ \A t \in reqWait : pc[t] \in {"entering", "slotsleep"}

\* The queue has every request once, and the driver works on its head.
QueueInv ==
    /\ IsInjective(queue) /\ QueueIsSlots
    /\ drv = "idle" <=> queue = <<>> /\ drv # "start"
    /\ drv = "read" => request[Head(queue)].cmd = READ
    /\ drv = "write" => request[Head(queue)].cmd = WRITE

\* A request is for a buffer or for a page, and not for more than there is.
WellFormed ==
    \A s \in Slots : request[s] # None =>
        /\ request[s].bh = None <=> request[s].waiting # None
        /\ request[s].bh # None => request[s].left <= BlockSectors

Transfers(s, b) == request[s] # None /\ request[s].bh = b
Locker(t, b) == pc[t] \in Waiting /\ op[t].what = b

\* LockedByOne without counting.
LockInv ==
    \A b \in Buffers :
        /\ b_lock[b] <=> \/ \E s \in Slots : Transfers(s, b)
                         \/ \E t \in Tasks : Locker(t, b)
        /\ \A s, r \in Slots : Transfers(s, b) /\ Transfers(r, b) => s = r
        /\ \A t, u \in Tasks : Locker(t, b) /\ Locker(u, b) => t = u
        /\ \A s \in Slots, t \in Tasks : ~(Transfers(s, b) /\ Locker(t, b))

\* PageHasRequest without counting.
WakesPage(s, t) == request[s] # None /\ request[s].waiting = t
PageInv ==
    \A t \in Tasks :
        /\ pc[t] = "pagewait" <=> \E s \in Slots : WakesPage(s, t)
        /\ \A s, r \in Slots : WakesPage(s, t) /\ WakesPage(r, t) => s = r

\* The data of the request in s are on their way: the driver has given some
\* sectors, or all of them, to the controller.
UnderWay(s) == \/ request[s].left < BlockSectors
               \/ drv = "write" /\ s = Head(queue)

\* A clean buffer without a request is on the disk; who waits with a locked
\* buffer still has something to do; and a write under way will bring the
\* buffer to the disk, unless it was changed since.
DataInv ==
    /\ \A b \in Buffers :
          (\A s \in Slots : ~Transfers(s, b)) =>
              (~b_dirt[b] /\ b_uptodate[b] => synced[b])
    /\ \A t \in Tasks, b \in Buffers : Locker(t, b) =>
          IF op[t].rw = READ THEN ~b_uptodate[b] ELSE b_dirt[b]
    /\ \A s \in Slots, b \in Buffers : Transfers(s, b) =>
          IF request[s].cmd = READ THEN ~b_uptodate[b]
          ELSE UnderWay(s) => b_dirt[b] \/ sent[b]

IInv == Types /\ WaitsFor /\ QueueInv /\ WellFormed /\ LockInv /\ PageInv /\ DataInv

-----------------------------------------------------------------------------
\* A set of natural numbers has a least element.
LEMMA LeastElement ==
    ASSUME NEW S, S \subseteq Nat, S # {}
    PROVE  \E i \in S : \A j \in S : i <= j
<1> DEFINE Less == OpToRel(<, Nat)
<1>1. \A i, j \in Nat : i < j => <<i, j>> \in Less
  BY DEF OpToRel
<1>2. IsWellFoundedOn(Less, Nat)
  BY NatLessThanWellFounded
<1> HIDE DEF Less
<1>3. PICK i \in S : \A j \in S : ~ (<<j, i>> \in Less)
  BY <1>2, WFMin
<1>4. ASSUME NEW j \in S PROVE i <= j
  <2>1. i \in Nat /\ j \in Nat /\ ~ (j < i)
    BY <1>1, <1>3
  <2> QED
    BY <2>1
<1> QED
  BY <1>4

\* A set of slots has a last element.
LEMMA LastSlot ==
    ASSUME NEW S \in SUBSET Slots, S # {}
    PROVE  (CHOOSE s \in S : \A u \in S : u <= s) \in S
<1> DEFINE Back == {NR_REQUEST - s : s \in S}
<1>1. NR_REQUEST \in Nat /\ \A s \in S : s \in Nat /\ s <= NR_REQUEST
  BY RequestAssumption DEF Slots
<1>2. Back \subseteq Nat /\ Back # {}
  BY <1>1
<1>3. PICK i \in Back : \A j \in Back : i <= j
  BY <1>2, LeastElement
<1>4. PICK s \in S : i = NR_REQUEST - s
  BY <1>3
<1>5. \A u \in S : u <= s
  <2> TAKE u \in S
  <2>1. NR_REQUEST - u \in Back
    OBVIOUS
  <2> HIDE DEF Back
  <2>2. NR_REQUEST - s <= NR_REQUEST - u
    BY <1>3, <1>4, <2>1
  <2> QED
    BY <1>1, <2>2
<1> QED
  BY <1>5

\* The head of a queue leaves it.
LEMMA QueueWithoutHead ==
    ASSUME NEW q \in Seq(Slots), q # <<>>, IsInjective(q)
    PROVE  /\ Head(q) \in Slots
           /\ Tail(q) \in Seq(Slots) /\ IsInjective(Tail(q))
           /\ InQueue(Tail(q)) = InQueue(q) \ {Head(q)}
<1>1. /\ Len(q) \in Nat \ {0} /\ DOMAIN q = 1..Len(q)
      /\ \A i \in 1..Len(q) : q[i] \in Slots
      /\ \A i, j \in 1..Len(q) : q[i] = q[j] => i = j
      /\ Head(q) = q[1]
  BY DEF IsInjective
<1>2. /\ Tail(q) \in Seq(Slots) /\ DOMAIN Tail(q) = 1..(Len(q) - 1)
      /\ \A i \in 1..(Len(q) - 1) : Tail(q)[i] = q[i + 1]
  BY <1>1
<1>3. IsInjective(Tail(q))
  BY <1>1, <1>2 DEF IsInjective
<1>4. ASSUME NEW s \in InQueue(Tail(q)) PROVE s \in InQueue(q) \ {Head(q)}
  <2>1. PICK i \in 1..(Len(q) - 1) : s = q[i + 1]
    BY <1>2 DEF InQueue
  <2>2. i + 1 \in 1..Len(q) /\ 1 \in 1..Len(q) /\ i + 1 # 1
    BY <1>1
  <2> QED
    BY <1>1, <2>1, <2>2 DEF InQueue
<1>5. ASSUME NEW s \in InQueue(q) \ {Head(q)} PROVE s \in InQueue(Tail(q))
  <2>1. PICK i \in 1..Len(q) : s = q[i]
    BY <1>1 DEF InQueue
  <2>2. i - 1 \in 1..(Len(q) - 1) /\ (i - 1) + 1 = i
    BY <1>1, <2>1
  <2>3. s = Tail(q)[i - 1]
    BY <1>2, <2>1, <2>2
  <2> QED
    BY <1>2, <2>2, <2>3 DEF InQueue
<1> QED
  BY <1>1, <1>2, <1>3, <1>4, <1>5

\* A slot that is linked in behind the first k elements: q with s at k + 1.
LinkedIn(q, e, k, s) ==
    /\ e \in Seq(Slots) /\ Len(e) = Len(q) + 1
    /\ \A i \in 1..k : e[i] = q[i]
    /\ e[k + 1] = s
    /\ \A i \in (k + 1)..Len(q) : e[i + 1] = q[i]

\* Such a queue has the slots it had, and the new one, and the same head.
LEMMA LinkedInKeeps ==
    ASSUME NEW q \in Seq(Slots), IsInjective(q), NEW s \in Slots, s \notin InQueue(q),
           NEW k \in 1..Len(q), NEW e, LinkedIn(q, e, k, s)
    PROVE  /\ e # <<>> /\ e \in Seq(Slots) /\ IsInjective(e)
           /\ InQueue(e) = InQueue(q) \cup {s} /\ Head(e) = Head(q)
<1>1. /\ Len(q) \in Nat /\ DOMAIN q = 1..Len(q)
      /\ \A i, j \in 1..Len(q) : q[i] = q[j] => i = j
      /\ \A i \in 1..Len(q) : q[i] # s
  BY DEF IsInjective, InQueue
<1>2. /\ e \in Seq(Slots) /\ DOMAIN e = 1..(Len(q) + 1)
      /\ \A i \in 1..k : e[i] = q[i]
      /\ e[k + 1] = s
      /\ \A i \in (k + 1)..Len(q) : e[i + 1] = q[i]
  BY <1>1 DEF LinkedIn
<1> DEFINE From(i) == IF i <= k THEN i ELSE i - 1
<1>3. ASSUME NEW i \in 1..(Len(q) + 1), i # k + 1
      PROVE  From(i) \in 1..Len(q) /\ e[i] = q[From(i)]
  <2>1. CASE i <= k
    BY <1>1, <1>2, <2>1
  <2>2. CASE i > k
    <3>1. i - 1 \in (k + 1)..Len(q) /\ (i - 1) + 1 = i
      BY <1>1, <1>3, <2>2
    <3> QED
      BY <1>1, <1>2, <2>2, <3>1
  <2> QED
    BY <2>1, <2>2
<1>4. IsInjective(e)
  <2> SUFFICES ASSUME NEW i \in 1..(Len(q) + 1), NEW j \in 1..(Len(q) + 1), e[i] = e[j]
               PROVE  i = j
    BY <1>2 DEF IsInjective
  <2>1. CASE i = k + 1 \/ j = k + 1
    BY <1>1, <1>2, <1>3, <2>1
  <2>2. CASE i # k + 1 /\ j # k + 1
    <3>1. From(i) = From(j)
      BY <1>1, <1>3, <2>2
    <3> QED
      BY <2>2, <3>1
  <2> QED
    BY <2>1, <2>2
<1>5. ASSUME NEW u \in InQueue(e) PROVE u \in InQueue(q) \cup {s}
  <2>1. PICK i \in 1..(Len(q) + 1) : u = e[i]
    BY <1>2 DEF InQueue
  <2>2. CASE i = k + 1
    BY <1>2, <2>1, <2>2
  <2>3. CASE i # k + 1
    BY <1>1, <1>3, <2>1, <2>3, SMTT(30) DEF InQueue
  <2> QED
    BY <2>2, <2>3
<1>6. ASSUME NEW u \in InQueue(q) PROVE u \in InQueue(e)
  <2>1. PICK i \in 1..Len(q) : u = q[i]
    BY <1>1 DEF InQueue
  <2>2. CASE i <= k
    BY <1>1, <1>2, <2>1, <2>2 DEF InQueue
  <2>3. CASE i > k
    <3>1. i \in (k + 1)..Len(q) /\ i + 1 \in 1..(Len(q) + 1)
      BY <1>1, <2>3
    <3> QED
      BY <1>2, <2>1, <3>1 DEF InQueue
  <2> QED
    BY <2>2, <2>3
<1>7. s \in InQueue(e)
  <2>1. k + 1 \in 1..(Len(q) + 1)
    BY <1>1
  <2> QED
    BY <1>2, <2>1 DEF InQueue
<1>8. e # <<>> /\ Head(e) = e[1] /\ Head(q) = q[1] /\ e[1] = q[1]
  BY <1>1, <1>2
<1> QED
  BY <1>2, <1>4, <1>5, <1>6, <1>7, <1>8

\* The elevator links a request in somewhere behind the head.
LEMMA ElevatorLinksIn ==
    ASSUME NEW q \in Seq(Slots), q # <<>>, NEW s \in Slots, NEW r
    PROVE  \E k \in 1..Len(q) : LinkedIn(q, Elevator(q, s, r), k, s)
<1> DEFINE fits == {i \in 1..(Len(q) - 1) : FitsBehind(q, i, r)}
           i == CHOOSE i \in fits : \A j \in fits : i <= j
<1>1. Len(q) \in Nat \ {0}
  OBVIOUS
<1>2. CASE fits = {}
  <2>1. Elevator(q, s, r) = Append(q, s)
    BY <1>2 DEF Elevator
  <2>2. LinkedIn(q, Append(q, s), Len(q), s)
    BY <1>1 DEF LinkedIn
  <2> QED
    BY <1>1, <2>1, <2>2
<1>3. CASE fits # {}
  <2>1. i \in fits
    <3>1. fits \subseteq Nat
      BY <1>1
    <3> QED
      BY <1>3, <3>1, LeastElement
  <2>2. Elevator(q, s, r) = InsertAt(q, 1 + i, s)
    BY <1>3 DEF Elevator
  <2>3. i \in 1..(Len(q) - 1)
    BY <2>1
  <2> HIDE DEF i
  <2> DEFINE a == SubSeq(q, 1, i)
             c == SubSeq(q, i + 1, Len(q))
             d == a \o <<s>>
             e == d \o c
  <2>4. /\ a \in Seq(Slots) /\ Len(a) = i
        /\ \A j \in 1..i : a[j] = q[j]
    BY <1>1, <2>3
  <2>5. /\ c \in Seq(Slots) /\ Len(c) = Len(q) - i
        /\ \A j \in 1..(Len(q) - i) : c[j] = q[i + j]
    BY <1>1, <2>3
  <2>6. InsertAt(q, 1 + i, s) = e
    <3>1. (1 + i) - 1 = i /\ 1 + i = i + 1
      BY <2>3
    <3> QED
      BY <3>1 DEF InsertAt
  <2> HIDE DEF a, c
  <2>7. /\ d \in Seq(Slots) /\ Len(d) = i + 1
        /\ \A j \in 1..i : d[j] = q[j]
        /\ d[i + 1] = s
    BY <2>3, <2>4
  <2> HIDE DEF d
  <2>8. /\ e \in Seq(Slots) /\ Len(e) = Len(q) + 1
        /\ \A j \in 1..(i + 1) : e[j] = d[j]
        /\ \A j \in (i + 2)..(Len(q) + 1) : e[j] = c[j - (i + 1)]
    <3>1. e \in Seq(Slots) /\ Len(e) = Len(d) + Len(c)
      BY <2>5, <2>7, Z3
    <3>2. \A j \in 1..Len(d) : e[j] = d[j]
      BY <2>5, <2>7, Z3
    <3>3. \A j \in (Len(d) + 1)..(Len(d) + Len(c)) : e[j] = c[j - Len(d)]
      BY <2>5, <2>7, Z3
    <3>4. Len(d) = i + 1 /\ Len(d) + Len(c) = Len(q) + 1 /\ Len(d) + 1 = i + 2
      BY <1>1, <2>3, <2>5, <2>7
    <3> QED
      BY <3>1, <3>2, <3>3, <3>4
  <2> HIDE DEF e
  <2>9. ASSUME NEW j \in (i + 1)..Len(q) PROVE e[j + 1] = q[j]
    <3>1. /\ j + 1 \in (i + 2)..(Len(q) + 1) /\ j - i \in 1..(Len(q) - i)
          /\ (j + 1) - (i + 1) = j - i /\ i + (j - i) = j
      BY <1>1, <2>3
    <3>2. e[j + 1] = c[j - i]
      BY <2>8, <3>1
    <3> QED
      BY <2>5, <3>1, <3>2
  <2>10. LinkedIn(q, e, i, s)
    BY <1>1, <2>3, <2>7, <2>8, <2>9 DEF LinkedIn
  <2>11. i \in 1..Len(q)
    BY <1>1, <2>3
  <2> QED
    BY <2>2, <2>6, <2>10, <2>11
<1> QED
  BY <1>2, <1>3

-----------------------------------------------------------------------------
\* The initial state.
LEMMA InvInit == Init => IInv
<1> SUFFICES ASSUME Init PROVE IInv
  OBVIOUS
<1> USE RequestAssumption DEF Init
<1>1. Types
  <2>1. queue \in Seq(Slots) /\ pc \in [Tasks -> Places]
    BY DEF Places
  <2> QED
    BY <2>1 DEF Types
<1>2. WaitsFor /\ WellFormed /\ PageInv
  BY DEF WaitsFor, Waiting, WellFormed, PageInv, WakesPage
<1>3. QueueInv
  <2>1. DOMAIN queue = {}
    OBVIOUS
  <2>2. {queue[i] : i \in DOMAIN queue} = {}
    BY <2>1
  <2>3. {s \in Slots : request[s] # None} = {}
    OBVIOUS
  <2> QED
    BY <2>1, <2>2, <2>3 DEF QueueInv, IsInjective, QueueIsSlots
<1>4. LockInv /\ DataInv
  BY DEF LockInv, DataInv, Transfers, Locker, Waiting
<1> QED
  BY <1>1, <1>2, <1>3, <1>4 DEF IInv

-----------------------------------------------------------------------------
\* A task may lock what it wants to transfer, or has it locked: nobody else
\* has, and there is something to do.
Ready(t, o) ==
    /\ t \notin reqWait
    /\ \A s \in Slots : ~WakesPage(s, t)
    /\ \A b \in Buffers : Locker(t, b) => b = o.what
    /\ o.what # Page =>
          /\ \A s \in Slots : ~Transfers(s, o.what)
          /\ \A u \in Tasks \ {t} : ~Locker(u, o.what)
          /\ IF o.rw = READ THEN ~b_uptodate[o.what] ELSE b_dirt[o.what]
    /\ b_lock' = IF o.what = Page THEN b_lock ELSE [b_lock EXCEPT ![o.what] = TRUE]

\* ll_rw_block() finds the buffer unlocked.
LEMMA ReadyToLock ==
    ASSUME IInv, NEW t \in Tasks, pc[t] \in {"user", "lockretry"},
           NEW o \in Op, o.what # Page, ~b_lock[o.what], ~NothingToDo(o),
           b_lock' = [b_lock EXCEPT ![o.what] = TRUE]
    PROVE  Ready(t, o)
<1> USE RequestAssumption DEF IInv
<1>1. o.what \in Buffers /\ o.rw \in {READ, WRITE}
  BY DEF Op, Objects
<1>2. t \notin reqWait
  BY DEF WaitsFor
<1>3. \A s \in Slots : ~WakesPage(s, t)
  BY DEF PageInv
<1>4. \A b \in Buffers : ~Locker(t, b)
  BY DEF Locker, Waiting
<1>5. /\ \A s \in Slots : ~Transfers(s, o.what)
      /\ \A u \in Tasks : ~Locker(u, o.what)
  BY <1>1 DEF LockInv
<1>6. IF o.rw = READ THEN ~b_uptodate[o.what] ELSE b_dirt[o.what]
  BY <1>1 DEF NothingToDo
<1> QED
  BY <1>2, <1>3, <1>4, <1>5, <1>6 DEF Ready

\* A page needs no lock.
LEMMA ReadyForPage ==
    ASSUME IInv, NEW t \in Tasks, pc[t] = "user", NEW o \in Op, o.what = Page,
           b_lock' = b_lock
    PROVE  Ready(t, o)
<1>1. t \notin reqWait
  BY DEF IInv, WaitsFor
<1>2. \A s \in Slots : ~WakesPage(s, t)
  BY DEF IInv, PageInv
<1>3. \A b \in Buffers : ~Locker(t, b)
  BY DEF Locker, Waiting
<1> QED
  BY <1>1, <1>2, <1>3 DEF Ready

\* A task that waited for a slot still has the buffer locked.
LEMMA ReadyAgain ==
    ASSUME IInv, NEW t \in Tasks, pc[t] = "slotretry", b_lock' = b_lock
    PROVE  op[t] \in Op /\ Ready(t, op[t])
<1> USE RequestAssumption DEF IInv
<1>1. op[t] \in Op /\ op[t].what \in Objects
  BY DEF WaitsFor, Waiting, Op
<1>2. t \notin reqWait
  BY DEF WaitsFor
<1>3. \A s \in Slots : ~WakesPage(s, t)
  BY DEF PageInv
<1>4. \A b \in Buffers : Locker(t, b) <=> b = op[t].what
  BY DEF Locker, Waiting
<1>5. ASSUME op[t].what # Page
      PROVE  /\ \A s \in Slots : ~Transfers(s, op[t].what)
             /\ \A u \in Tasks \ {t} : ~Locker(u, op[t].what)
             /\ IF op[t].rw = READ THEN ~b_uptodate[op[t].what] ELSE b_dirt[op[t].what]
             /\ b_lock = [b_lock EXCEPT ![op[t].what] = TRUE]
  <2>1. op[t].what \in Buffers /\ Locker(t, op[t].what)
    BY <1>1, <1>4, <1>5 DEF Objects
  <2>2. b_lock[op[t].what] = TRUE
    BY <2>1 DEF LockInv, Types
  <2> QED
    BY <2>1, <2>2 DEF LockInv, DataInv, Types
<1> QED
  BY <1>1, <1>2, <1>3, <1>4, <1>5 DEF Ready

\* What a submitted request has.
LEMMA NewRequest ==
    ASSUME NEW t \in Tasks, NEW o \in Op, NEW r, r = Request(o.rw, o.what, t)
    PROVE  /\ r \in Requests /\ r # None
           /\ r.cmd = o.rw
           /\ r.bh = IF o.what = Page THEN None ELSE o.what
           /\ r.waiting = IF o.what = Page THEN t ELSE None
           /\ r.bh # None => r.left = BlockSectors
<1> USE RequestAssumption
<1>1. o.what \in Objects /\ o.rw \in {READ, WRITE}
  BY DEF Op
<1>2. /\ SectorOf[o.what] \in Nat /\ 0 \in 0..(MAX_ERRORS - 1)
      /\ PageSectors \in 1..(BlockSectors + PageSectors)
      /\ BlockSectors \in 1..(BlockSectors + PageSectors)
  BY <1>1
<1>3. r \in Requests
  BY <1>1, <1>2 DEF Request, Requests, Objects
<1> QED
  BY <1>3 DEF Request

\* The request of t for o is in slot s, and in the queue.
Queued(t, o, s) ==
    /\ s \in Slots /\ request[s] = None
    /\ request' = [request EXCEPT ![s] = Request(o.rw, o.what, t)]
    /\ queue' \in Seq(Slots) /\ queue' # <<>> /\ IsInjective(queue')
    /\ InQueue(queue') = InQueue(queue) \cup {s}
    /\ queue = <<>> => drv' = "start"
    /\ queue # <<>> => drv' = drv /\ Head(queue') = Head(queue)

\* TakeSlot() puts a request into a free slot and into the queue.
LEMMA SlotTaken ==
    ASSUME IInv, NEW t \in Tasks, NEW o \in Op, TakeSlot(t, o)
    PROVE  \E s \in Slots : Queued(t, o, s)
<1> USE RequestAssumption DEF IInv, Types, QueueInv
<1> DEFINE s == CHOOSE s \in FreeSlots(o) : \A u \in FreeSlots(o) : u <= s
<1>1. FreeSlots(o) # {} /\ Submit(t, o, s)
  BY DEF TakeSlot
<1>2. FreeSlots(o) \in SUBSET Slots
  <2>1. ScanFrom(o) \in Int /\ ScanFrom(o) <= NR_REQUEST
    BY DEF ScanFrom
  <2> QED
    BY <2>1 DEF FreeSlots, Slots
<1>3. s \in Slots /\ request[s] = None
  BY <1>1, <1>2, LastSlot DEF FreeSlots
<1> HIDE DEF s
<1>4. s \notin InQueue(queue)
  BY <1>3 DEF QueueIsSlots, InQueue
<1>5. CASE queue = <<>>
  <2>1. queue' = <<s>> /\ drv' = "start"
    BY <1>1, <1>5 DEF Submit
  <2>2. InQueue(<<s>>) = {s} /\ IsInjective(<<s>>) /\ InQueue(<<>>) = {}
    BY DEF InQueue, IsInjective
  <2>3. <<s>> \in Seq(Slots) /\ <<s>> # <<>>
    BY <1>3
  <2> QED
    BY <1>1, <1>3, <1>5, <2>1, <2>2, <2>3 DEF Queued, Submit
<1>6. CASE queue # <<>>
  <2> DEFINE r == Request(o.rw, o.what, t)
  <2>1. queue' = Elevator(queue, s, r) /\ drv' = drv
    BY <1>1, <1>6 DEF Submit
  <2> HIDE DEF r
  <2>2. PICK k \in 1..Len(queue) : LinkedIn(queue, queue', k, s)
    BY <1>3, <1>6, <2>1, ElevatorLinksIn
  <2>3. /\ queue' # <<>> /\ queue' \in Seq(Slots) /\ IsInjective(queue')
        /\ InQueue(queue') = InQueue(queue) \cup {s} /\ Head(queue') = Head(queue)
    BY <1>3, <1>4, <2>2, LinkedInKeeps
  <2> QED
    BY <1>1, <1>3, <1>6, <2>1, <2>3 DEF Queued, Submit
<1> QED
  BY <1>5, <1>6

\* What a submitted request leaves as it was.
LEMMA QueuedRequest ==
    ASSUME Types, NEW t \in Tasks, NEW o \in Op, NEW s \in Slots, Queued(t, o, s)
    PROVE  /\ \A u \in Slots : request'[u] = IF u = s THEN Request(o.rw, o.what, t)
                                             ELSE request[u]
           /\ request' \in [Slots -> Requests \cup {None}]
           /\ \A u \in Slots, b \in Buffers :
                 Transfers(u, b)' <=> Transfers(u, b) \/ (u = s /\ b = o.what)
           /\ \A u \in Slots, v \in Tasks :
                 WakesPage(u, v)' <=> WakesPage(u, v) \/ (u = s /\ v = t /\ o.what = Page)
<1> USE RequestAssumption DEF Types
<1>1. \A u \in Slots : request'[u] = IF u = s THEN Request(o.rw, o.what, t) ELSE request[u]
  BY DEF Queued
<1>2. Request(o.rw, o.what, t) \in Requests /\ Request(o.rw, o.what, t) # None
  BY NewRequest
<1>3. request' \in [Slots -> Requests \cup {None}]
  BY <1>2 DEF Queued
<1>4. request[s] = None
  BY DEF Queued
<1>5. ASSUME NEW u \in Slots, NEW b \in Buffers
      PROVE  Transfers(u, b)' <=> Transfers(u, b) \/ (u = s /\ b = o.what)
  <2>1. CASE u = s
    BY <1>1, <1>4, <2>1, NewRequest DEF Transfers, Op, Objects
  <2>2. CASE u # s
    BY <1>1, <2>2 DEF Transfers
  <2> QED
    BY <2>1, <2>2
<1>6. ASSUME NEW u \in Slots, NEW v \in Tasks
      PROVE  WakesPage(u, v)' <=> WakesPage(u, v) \/ (u = s /\ v = t /\ o.what = Page)
  <2>1. CASE u = s
    BY <1>1, <1>4, <2>1, NewRequest DEF WakesPage
  <2>2. CASE u # s
    BY <1>1, <2>2 DEF WakesPage
  <2> QED
    BY <2>1, <2>2
<1> QED
  BY <1>1, <1>3, <1>5, <1>6

\* The rest of a step that submits a request: what the callers of TakeSlot() do
\* not change.
OthersSame == UNCHANGED <<b_uptodate, synced, sent, reset, recalibrate, reqWait>>

\* A task that is ready and finds a slot keeps the invariant.
LEMMA SubmitKeeps ==
    ASSUME IInv, NEW t \in Tasks, NEW o \in Op, Ready(t, o), TakeSlot(t, o),
           op' = [op EXCEPT ![t] = None], OthersSame
    PROVE  IInv'
<1> USE RequestAssumption DEF IInv, Types, OthersSame
<1>1. PICK s \in Slots : Queued(t, o, s)
  BY SlotTaken
<1>2. /\ \A u \in Slots : request'[u] = IF u = s THEN Request(o.rw, o.what, t)
                                        ELSE request[u]
      /\ request' \in [Slots -> Requests \cup {None}]
      /\ \A u \in Slots, b \in Buffers :
            Transfers(u, b)' <=> Transfers(u, b) \/ (u = s /\ b = o.what)
      /\ \A u \in Slots, v \in Tasks :
            WakesPage(u, v)' <=> WakesPage(u, v) \/ (u = s /\ v = t /\ o.what = Page)
  BY <1>1, QueuedRequest
<1>3. /\ pc' = [pc EXCEPT ![t] = IF o.what = Page THEN "pagewait" ELSE "user"]
      /\ b_dirt' = IF o.what = Page THEN b_dirt ELSE [b_dirt EXCEPT ![o.what] = FALSE]
      /\ o.what = Page \/ o.what \in Buffers
  BY DEF TakeSlot, Op, Objects
<1>4. \A u \in Tasks, b \in Buffers : Locker(u, b)' <=> u # t /\ Locker(u, b)
  BY <1>3 DEF Locker, Waiting
<1>5. Types'
  <2>1. b_lock' \in [Buffers -> BOOLEAN] /\ b_dirt' \in [Buffers -> BOOLEAN]
    BY <1>3 DEF Ready
  <2>2. drv' \in {"idle", "start", "read", "write", "recal"} /\ queue' \in Seq(Slots)
    BY <1>1 DEF Queued
  <2>3. pc' \in [Tasks -> Places] /\ op' \in [Tasks -> Op \cup {None}]
    BY <1>3 DEF Places
  <2> QED
    BY <1>2, <2>1, <2>2, <2>3
<1>6. WaitsFor'
  BY <1>3 DEF WaitsFor, Waiting, Ready
<1>7. QueueInv'
  <2>1. InQueue(queue') = {u \in Slots : request'[u] # None}
    <3>1. InQueue(queue) = {u \in Slots : request[u] # None}
      BY DEF QueueInv, QueueIsSlots, InQueue
    <3>2. request'[s] # None
      BY <1>2, NewRequest
    <3> QED
      BY <1>1, <1>2, <3>1, <3>2 DEF Queued
  <2>2. queue # <<>> => Head(queue) # s /\ Head(queue) \in Slots
    <3>1. ASSUME queue # <<>> PROVE Head(queue) \in InQueue(queue)
      BY <3>1 DEF InQueue
    <3> QED
      BY <1>1, <3>1 DEF QueueInv, QueueIsSlots, InQueue, Queued
  <2> QED
    BY <1>1, <1>2, <2>1, <2>2 DEF QueueInv, QueueIsSlots, InQueue, Queued
<1>8. WellFormed'
  <2> SUFFICES ASSUME NEW u \in Slots, request'[u] # None
               PROVE  /\ request'[u].bh = None <=> request'[u].waiting # None
                      /\ request'[u].bh # None => request'[u].left <= BlockSectors
    BY DEF WellFormed
  <2>1. CASE u = s
    <3>1. request'[u] = Request(o.rw, o.what, t)
      BY <1>2, <2>1
    <3>2. o.what \in Objects /\ None \notin Objects /\ None \notin Tasks
      BY DEF Op
    <3> QED
      BY <3>1, <3>2, NewRequest
  <2>2. CASE u # s
    BY <1>2, <2>2 DEF WellFormed
  <2> QED
    BY <2>1, <2>2
<1>9. LockInv'
  <2> SUFFICES ASSUME NEW b \in Buffers
               PROVE  /\ b_lock'[b] <=> \/ \E u \in Slots : Transfers(u, b)'
                                        \/ \E u \in Tasks : Locker(u, b)'
                      /\ \A u, r \in Slots : Transfers(u, b)' /\ Transfers(r, b)' => u = r
                      /\ \A u, r \in Tasks : Locker(u, b)' /\ Locker(r, b)' => u = r
                      /\ \A r \in Slots, u \in Tasks : ~(Transfers(r, b)' /\ Locker(u, b)')
    BY DEF LockInv
  <2>1. CASE b = o.what
    BY <1>2, <1>3, <1>4, <2>1 DEF Ready
  <2>2. CASE b # o.what
    BY <1>2, <1>4, <2>2 DEF Ready, LockInv
  <2> QED
    BY <2>1, <2>2
<1>10. PageInv'
  BY <1>2, <1>3 DEF Ready, PageInv
<1>11. DataInv'
  <2>1. \A b \in Buffers :
          (\A u \in Slots : ~Transfers(u, b)') =>
              (~b_dirt'[b] /\ b_uptodate'[b] => synced'[b])
    BY <1>2, <1>3 DEF DataInv
  <2>2. \A u \in Tasks, b \in Buffers : Locker(u, b)' =>
          IF op'[u].rw = READ THEN ~b_uptodate'[b] ELSE b_dirt'[b]
    <3> SUFFICES ASSUME NEW u \in Tasks, NEW b \in Buffers, Locker(u, b)'
                 PROVE  IF op'[u].rw = READ THEN ~b_uptodate'[b] ELSE b_dirt'[b]
      OBVIOUS
    <3>1. u # t /\ Locker(u, b) /\ op'[u] = op[u]
      BY <1>4
    <3>2. b # o.what
      BY <1>3, <3>1 DEF Ready
    <3> QED
      BY <1>3, <3>1, <3>2 DEF DataInv
  <2>3. ASSUME NEW u \in Slots, NEW b \in Buffers, Transfers(u, b)'
        PROVE  IF request'[u].cmd = READ THEN ~b_uptodate'[b]
               ELSE UnderWay(u)' => b_dirt'[b] \/ sent'[b]
    <3>1. CASE u = s
      <4>1. request'[s] = Request(o.rw, o.what, t)
        BY <1>2
      <4>2. b = o.what
        <5>1. ~Transfers(s, b)
          BY <1>1 DEF Transfers, Queued
        <5> QED
          BY <1>2, <2>3, <3>1, <5>1
      <4>3. b # None /\ b # Page
        BY DEF Objects
      <4>4. request'[s].cmd = o.rw /\ request'[s].left = BlockSectors
        BY ONLY t \in Tasks, o \in Op, <4>1, <4>2, <4>3, NewRequest
      <4>5. CASE o.rw = READ
        BY <3>1, <4>2, <4>3, <4>4, <4>5 DEF Ready
      <4>6. CASE o.rw # READ
        <5>1. ~(drv' = "write" /\ s = Head(queue'))
          <6>1. CASE queue = <<>>
            BY <1>1, <6>1 DEF Queued
          <6>2. CASE queue # <<>>
            <7>1. Head(queue) \in InQueue(queue)
              BY <6>2 DEF InQueue
            <7> QED
              BY <1>1, <6>2, <7>1 DEF QueueInv, QueueIsSlots, InQueue, Queued
          <6> QED
            BY <6>1, <6>2
        <5> QED
          BY <3>1, <4>4, <4>6, <5>1 DEF UnderWay
      <4> QED
        BY <4>5, <4>6
    <3>2. CASE u # s
      <4>1. Transfers(u, b) /\ request'[u] = request[u]
        BY <1>2, <2>3, <3>2
      <4>2. b # o.what
        BY <1>3, <4>1 DEF Ready
      <4>3. queue # <<>>
        <5>1. u \in InQueue(queue)
          BY <4>1 DEF QueueInv, QueueIsSlots, InQueue, Transfers
        <5> QED
          BY <5>1 DEF InQueue
      <4>4. UnderWay(u)' => UnderWay(u)
        BY <1>1, <4>1, <4>3 DEF UnderWay, Queued
      <4> QED
        BY <1>3, <4>1, <4>2, <4>4 DEF DataInv
    <3> QED
      BY <3>1, <3>2
  <2> QED
    BY <2>1, <2>2, <2>3 DEF DataInv
<1> QED
  BY <1>5, <1>6, <1>7, <1>8, <1>9, <1>10, <1>11

\* A task that is ready and finds no slot keeps the invariant.
LEMMA NoSlotKeeps ==
    ASSUME IInv, NEW t \in Tasks, NEW o \in Op, Ready(t, o), FindsNoSlot(t, o),
           op' = [op EXCEPT ![t] = o], OthersSame
    PROVE  IInv'
<1> USE RequestAssumption DEF IInv, Types, OthersSame
<1>1. /\ pc' = [pc EXCEPT ![t] = "noslot"]
      /\ UNCHANGED <<b_dirt, request, queue, drv>>
      /\ o.what = Page \/ o.what \in Buffers
  BY DEF FindsNoSlot, Op, Objects
<1>2. \A u \in Tasks, b \in Buffers :
         Locker(u, b)' <=> IF u = t THEN b = o.what ELSE Locker(u, b)
  BY <1>1 DEF Locker, Waiting
<1>3. /\ \A s \in Slots, b \in Buffers : Transfers(s, b)' <=> Transfers(s, b)
      /\ \A s \in Slots, u \in Tasks : WakesPage(s, u)' <=> WakesPage(s, u)
      /\ \A s \in Slots : UnderWay(s)' <=> UnderWay(s)
  BY <1>1 DEF Transfers, WakesPage, UnderWay
<1>4. Types'
  BY <1>1 DEF Ready, Places
<1>5. WaitsFor'
  BY <1>1 DEF WaitsFor, Waiting, Ready
<1>6. QueueInv' /\ WellFormed'
  BY <1>1 DEF QueueInv, QueueIsSlots, WellFormed
<1>7. LockInv'
  <2> SUFFICES ASSUME NEW b \in Buffers
               PROVE  /\ b_lock'[b] <=> \/ \E u \in Slots : Transfers(u, b)'
                                        \/ \E u \in Tasks : Locker(u, b)'
                      /\ \A u, r \in Slots : Transfers(u, b)' /\ Transfers(r, b)' => u = r
                      /\ \A u, r \in Tasks : Locker(u, b)' /\ Locker(r, b)' => u = r
                      /\ \A r \in Slots, u \in Tasks : ~(Transfers(r, b)' /\ Locker(u, b)')
    BY DEF LockInv
  <2>1. CASE b = o.what
    BY <1>2, <1>3, <2>1 DEF Ready
  <2>2. CASE b # o.what
    <3>1. \A u \in Tasks : Locker(u, b)' <=> Locker(u, b)
      BY <1>2, <2>2 DEF Ready
    <3>2. b_lock'[b] = b_lock[b]
      BY <2>2 DEF Ready
    <3> QED
      BY <1>3, <3>1, <3>2 DEF LockInv
  <2> QED
    BY <2>1, <2>2
<1>8. PageInv'
  BY <1>1, <1>3 DEF Ready, PageInv
<1>9. DataInv'
  <2>1. \A u \in Tasks, b \in Buffers : Locker(u, b)' =>
          IF op'[u].rw = READ THEN ~b_uptodate'[b] ELSE b_dirt'[b]
    BY <1>1, <1>2 DEF DataInv, Ready
  <2> QED
    BY <1>1, <1>3, <2>1 DEF DataInv
<1> QED
  BY <1>4, <1>5, <1>6, <1>7, <1>8, <1>9

\* So does a task that is ready, whatever it finds.
LEMMA ReadyKeeps ==
    ASSUME IInv, NEW t \in Tasks, NEW o \in Op, Ready(t, o),
           TakeSlot(t, o) \/ FindsNoSlot(t, o),
           op' = [op EXCEPT ![t] = IF FreeSlots(o) = {} THEN o ELSE None], OthersSame
    PROVE  IInv'
<1>1. CASE TakeSlot(t, o)
  <2>1. op' = [op EXCEPT ![t] = None]
    BY <1>1 DEF TakeSlot
  <2> QED
    BY <1>1, <2>1, SubmitKeeps
<1>2. CASE FindsNoSlot(t, o)
  <2>1. op' = [op EXCEPT ![t] = o]
    BY <1>2 DEF FindsNoSlot
  <2> QED
    BY <1>2, <2>1, NoSlotKeeps
<1> QED
  BY <1>1, <1>2

-----------------------------------------------------------------------------
\* A step of a task that neither takes nor gives up a slot or a locked buffer.
LEMMA TaskKeeps ==
    ASSUME IInv, UNCHANGED <<bufVars, request, queue, drvVars>>,
           pc' \in [Tasks -> Places], op' \in [Tasks -> Op \cup {None}],
           reqWait' \subseteq Tasks, WaitsFor',
           \A t \in Tasks : /\ pc'[t] \in Waiting <=> pc[t] \in Waiting
                            /\ pc[t] \in Waiting => op'[t] = op[t]
                            /\ pc'[t] = "pagewait" <=> pc[t] = "pagewait"
    PROVE  IInv'
<1> USE DEF IInv, Types, bufVars, drvVars
<1>1. /\ \A t \in Tasks, b \in Buffers : Locker(t, b)' <=> Locker(t, b)
      /\ \A s \in Slots, b \in Buffers : Transfers(s, b)' <=> Transfers(s, b)
      /\ \A s \in Slots, t \in Tasks : WakesPage(s, t)' <=> WakesPage(s, t)
      /\ \A s \in Slots : UnderWay(s)' <=> UnderWay(s)
  BY DEF Locker, Transfers, WakesPage, UnderWay
<1>2. Types'
  OBVIOUS
<1>3. QueueInv' /\ WellFormed'
  BY DEF QueueInv, QueueIsSlots, WellFormed
<1>4. LockInv' /\ PageInv'
  BY <1>1 DEF LockInv, PageInv
<1>5. DataInv'
  <2>1. \A t \in Tasks, b \in Buffers : Locker(t, b)' =>
          IF op'[t].rw = READ THEN ~b_uptodate'[b] ELSE b_dirt'[b]
    BY <1>1 DEF DataInv, Locker
  <2> QED
    BY <1>1, <2>1 DEF DataInv
<1> QED
  BY <1>2, <1>3, <1>4, <1>5

\* Sleeping, giving up and falling asleep are such steps.
LEMMA WaitKeeps ==
    ASSUME IInv, NEW t \in Tasks,
           \/ EnterSleep(t) \/ FallAsleep(t)
           \/ \E o \in Op : /\ pc[t] \in {"user", "lockretry"} /\ o.what # Page
                            /\ WaitForLock(t, o) \/ GiveUp(t, o)
    PROVE  IInv'
<1> USE DEF IInv, Types, bufVars, drvVars
<1>1. CASE EnterSleep(t)
  <2>1. WaitsFor'
    BY <1>1 DEF EnterSleep, WaitsFor, Waiting
  <2> QED
    BY <1>1, <2>1, TaskKeeps DEF EnterSleep, Places, Waiting
<1>2. CASE FallAsleep(t)
  <2>1. WaitsFor'
    BY <1>2 DEF FallAsleep, WaitsFor, Waiting
  <2> QED
    BY <1>2, <2>1, TaskKeeps DEF FallAsleep, Places, Waiting
<1>3. ASSUME NEW o \in Op, pc[t] \in {"user", "lockretry"}, o.what # Page, WaitForLock(t, o)
      PROVE  IInv'
  <2>1. WaitsFor'
    BY <1>3 DEF WaitForLock, WaitsFor, Waiting
  <2> QED
    BY <1>3, <2>1, TaskKeeps DEF WaitForLock, Places, Waiting
<1>4. ASSUME NEW o \in Op, pc[t] \in {"user", "lockretry"}, GiveUp(t, o) PROVE IInv'
  <2>1. WaitsFor'
    BY <1>4 DEF GiveUp, WaitsFor, Waiting
  <2> QED
    BY <1>4, <2>1, TaskKeeps DEF GiveUp, Places, Waiting
<1> QED
  BY <1>1, <1>2, <1>3, <1>4

\* A change of a buffer's data.
LEMMA ModifyKeeps == ASSUME IInv, NEW b \in Buffers, Modify(b) PROVE IInv'
<1> USE DEF IInv, Types, Modify, drvVars, taskVars
<1>1. /\ \A t \in Tasks, c \in Buffers : Locker(t, c)' <=> Locker(t, c)
      /\ \A s \in Slots, c \in Buffers : Transfers(s, c)' <=> Transfers(s, c)
      /\ \A s \in Slots, t \in Tasks : WakesPage(s, t)' <=> WakesPage(s, t)
      /\ \A s \in Slots : UnderWay(s)' <=> UnderWay(s)
  BY DEF Locker, Transfers, WakesPage, UnderWay
<1>2. Types'
  OBVIOUS
<1>3. WaitsFor' /\ QueueInv' /\ WellFormed'
  BY DEF WaitsFor, QueueInv, QueueIsSlots, WellFormed
<1>4. LockInv' /\ PageInv'
  BY <1>1 DEF LockInv, PageInv
<1>5. DataInv'
  <2>1. \A c \in Buffers : /\ c # b => UNCHANGED <<b_dirt[c], synced[c], sent[c]>>
                           /\ b_dirt'[b] /\ b_uptodate'[c] = b_uptodate[c]
    OBVIOUS
  <2> QED
    BY <1>1, <2>1 DEF DataInv
<1> QED
  BY <1>2, <1>3, <1>4, <1>5

-----------------------------------------------------------------------------
\* The driver works on a request that there is.
LEMMA HeadServed ==
    ASSUME IInv, queue # <<>>
    PROVE  /\ Head(queue) \in Slots /\ Head(queue) \in InQueue(queue)
           /\ request[Head(queue)] \in Requests /\ request[Head(queue)] # None
<1>1. Head(queue) \in Slots /\ Head(queue) \in InQueue(queue)
  BY DEF IInv, Types, InQueue
<1> QED
  BY <1>1 DEF IInv, Types, QueueInv, QueueIsSlots, InQueue

\* The driver gives the head's command to the controller, or goes idle.
LEMMA CommandKeeps ==
    ASSUME IInv, UNCHANGED <<b_lock, b_dirt, b_uptodate, synced, request, queue, taskVars>>,
           drv' \in {"idle", "start", "read", "write", "recal"},
           reset' \in BOOLEAN, recalibrate' \in BOOLEAN,
           drv' = "idle" <=> queue = <<>>,
           drv' = "read" => request[Head(queue)].cmd = READ,
           drv' # "write" => sent' = sent,
           drv' = "write" =>
              LET r == request[Head(queue)]
              IN  /\ r.cmd = WRITE
                  /\ sent' = IF r.bh = None THEN sent
                             ELSE [sent EXCEPT ![r.bh] = (@ \/ r.left = BlockSectors)]
    PROVE  IInv'
<1> USE RequestAssumption DEF IInv, Types, taskVars
<1>1. /\ \A t \in Tasks, b \in Buffers : Locker(t, b)' <=> Locker(t, b)
      /\ \A s \in Slots, b \in Buffers : Transfers(s, b)' <=> Transfers(s, b)
      /\ \A s \in Slots, t \in Tasks : WakesPage(s, t)' <=> WakesPage(s, t)
  BY DEF Locker, Transfers, WakesPage
<1>2. queue # <<>> => Head(queue) \in Slots /\ request[Head(queue)] \in Requests
                      /\ request[Head(queue)] # None
  BY HeadServed
<1>3. Types'
  <2>1. sent' \in [Buffers -> BOOLEAN]
    OBVIOUS
  <2> QED
    BY <2>1
<1>4. WaitsFor' /\ QueueInv' /\ WellFormed'
  BY DEF WaitsFor, QueueInv, QueueIsSlots, WellFormed
<1>5. LockInv' /\ PageInv'
  <2>1. b_lock' = b_lock /\ pc' = pc
    OBVIOUS
  <2>2. LockInv'
    BY <1>1, <2>1 DEF LockInv
  <2>3. PageInv'
    BY <1>1, <2>1 DEF PageInv
  <2> QED
    BY <2>2, <2>3
<1>6. DataInv'
  <2>1. ASSUME NEW s \in Slots, NEW b \in Buffers, Transfers(s, b), request[s].cmd # READ,
               UnderWay(s)'
        PROVE  b_dirt[b] \/ sent'[b]
    <3>1. UnderWay(s) => b_dirt[b] \/ sent[b]
      BY <2>1 DEF DataInv
    <3>2. sent[b] => sent'[b]
      OBVIOUS
    <3>3. CASE request[s].left < BlockSectors
      BY <3>1, <3>2, <3>3 DEF UnderWay
    <3>4. CASE ~(request[s].left < BlockSectors)
      <4>1. drv' = "write" /\ s = Head(queue)
        BY <2>1, <3>4 DEF UnderWay
      <4>2. request[s].bh = b /\ b # None /\ request[s] # None
        BY <2>1 DEF Transfers, Objects
      <4>3. request[s].left = BlockSectors
        <5>1. request[s] \in Requests
          BY <4>2
        <5>2. request[s].left \in Nat /\ request[s].left <= BlockSectors
          BY <4>2, <5>1 DEF WellFormed, Requests
        <5> QED
          BY <3>4, <5>2
      <4>4. sent' = [sent EXCEPT ![b] = (@ \/ request[s].left = BlockSectors)]
        BY <4>1, <4>2
      <4> QED
        BY <4>3, <4>4
    <3> QED
      BY <3>3, <3>4
  <2> QED
    BY <1>1, <2>1 DEF DataInv
<1> QED
  BY <1>3, <1>4, <1>5, <1>6

\* The head's request goes on or starts again: it is for the same transfer, and
\* has less left only if its data are under way.
LEMMA RequestKeeps ==
    ASSUME IInv, queue # <<>>, NEW r \in Requests,
           UNCHANGED <<bufVars, queue, recalibrate, taskVars>>, reset' \in BOOLEAN,
           request' = [request EXCEPT ![Head(queue)] = r],
           r.cmd = request[Head(queue)].cmd, r.bh = request[Head(queue)].bh,
           r.waiting = request[Head(queue)].waiting,
           \/ r.left = request[Head(queue)].left
           \/ r.left < request[Head(queue)].left /\ drv \in {"read", "write"},
           drv' \in {drv, "start"}, drv' # "idle"
    PROVE  IInv'
<1> USE RequestAssumption DEF IInv, Types, bufVars, taskVars
<1> DEFINE h == Head(queue)
<1>1. h \in Slots /\ request[h] \in Requests /\ request[h] # None /\ r # None
  BY HeadServed
<1> HIDE DEF h
<1>2. /\ request'[h] = r /\ request' \in [Slots -> Requests \cup {None}]
      /\ \A s \in Slots : s # h => request'[s] = request[s]
  BY <1>1 DEF h
<1>3. /\ r.cmd = request[h].cmd /\ r.bh = request[h].bh /\ r.waiting = request[h].waiting
      /\ r.left \in Nat /\ request[h].left \in Nat /\ r.left <= request[h].left
  BY <1>1, SMTT(30) DEF h, Requests
<1>4. /\ \A t \in Tasks, b \in Buffers : Locker(t, b)' <=> Locker(t, b)
      /\ \A s \in Slots, b \in Buffers : Transfers(s, b)' <=> Transfers(s, b)
      /\ \A s \in Slots, t \in Tasks : WakesPage(s, t)' <=> WakesPage(s, t)
  BY <1>1, <1>2, <1>3 DEF Locker, Transfers, WakesPage
<1>5. Types'
  BY <1>2
<1>6. WaitsFor'
  BY DEF WaitsFor
<1>7. QueueInv'
  <2>1. {s \in Slots : request'[s] # None} = {s \in Slots : request[s] # None}
    BY <1>1, <1>2
  <2> QED
    BY <1>2, <1>3, <2>1 DEF QueueInv, QueueIsSlots, h
<1>8. WellFormed'
  <2> SUFFICES ASSUME NEW s \in Slots, request'[s] # None
               PROVE  /\ request'[s].bh = None <=> request'[s].waiting # None
                      /\ request'[s].bh # None => request'[s].left <= BlockSectors
    BY DEF WellFormed
  <2>1. CASE s = h
    <3>1. /\ request[h].bh = None <=> request[h].waiting # None
          /\ request[h].bh # None => request[h].left <= BlockSectors
      BY <1>1 DEF WellFormed
    <3> QED
      BY <1>2, <1>3, <2>1, <3>1
  <2>2. CASE s # h
    BY <1>2, <2>2 DEF WellFormed
  <2> QED
    BY <2>1, <2>2
<1>9. LockInv' /\ PageInv'
  BY <1>4 DEF LockInv, PageInv
<1>10. DataInv'
  <2>1. ASSUME NEW s \in Slots, NEW b \in Buffers, Transfers(s, b)
        PROVE  IF request'[s].cmd = READ THEN ~b_uptodate[b]
               ELSE UnderWay(s)' => b_dirt[b] \/ sent[b]
    <3>1. IF request[s].cmd = READ THEN ~b_uptodate[b]
          ELSE UnderWay(s) => b_dirt[b] \/ sent[b]
      BY <2>1 DEF DataInv
    <3>2. CASE s # h
      <4>1. request'[s] = request[s] /\ (UnderWay(s)' => UnderWay(s))
        BY <1>2, <3>2 DEF UnderWay, h
      <4> QED
        BY <3>1, <4>1
    <3>3. CASE s = h
      <4>1. request'[s].cmd = READ <=> request[s].cmd = READ
        BY <1>2, <1>3, <3>3
      <4>2. ASSUME request[s].cmd # READ, UnderWay(s)' PROVE UnderWay(s)
        <5>1. CASE r.left = request[h].left
          BY <1>2, <3>3, <4>2, <5>1 DEF UnderWay, h
        <5>2. CASE drv \in {"read", "write"}
          BY <3>3, <4>2, <5>2 DEF UnderWay, QueueInv, h
        <5> QED
          BY <5>1, <5>2 DEF h
      <4> QED
        BY <3>1, <4>1, <4>2
    <3> QED
      BY <3>2, <3>3
  <2> QED
    BY <1>4, <2>1 DEF DataInv
<1> QED
  BY <1>5, <1>6, <1>7, <1>8, <1>9, <1>10

\* Whom end_request() wakes: it touches nobody who waits for a slot with a locked
\* buffer, but for calling him back.
LEMMA WokenKeeps ==
    ASSUME IInv, NEW r \in Requests, pc' = [t \in Tasks |-> WokenBy(r, t)], op' = op,
           reqWait' = {}
    PROVE  /\ pc' \in [Tasks -> Places] /\ WaitsFor'
           /\ \A t \in Tasks, b \in Buffers : Locker(t, b)' <=> Locker(t, b)
           /\ \A t \in Tasks : pc'[t] = "pagewait" <=> pc[t] = "pagewait" /\ r.waiting # t
<1> USE DEF IInv, Types
<1>1. ASSUME NEW t \in WokenForSlot PROVE t \in Tasks /\ pc[t] = "slotsleep"
  BY <1>1 DEF WokenForSlot, WaitsFor
<1>2. ASSUME NEW t \in Tasks
      PROVE  /\ pc'[t] \in Places
             /\ pc'[t] \in Waiting <=> pc[t] \in Waiting
             /\ pc'[t] \in {"lockwait", "lockretry"} <=> pc[t] \in {"lockwait", "lockretry"}
             /\ pc'[t] = "pagewait" <=> pc[t] = "pagewait" /\ r.waiting # t
  <2>1. pc'[t] = WokenBy(r, t) /\ pc[t] \in Places
    OBVIOUS
  <2>2. CASE pc[t] = "lockwait"
    BY <1>1, <2>1, <2>2 DEF WokenBy, Places, Waiting
  <2>3. CASE pc[t] = "pagewait"
    BY <1>1, <2>1, <2>3 DEF WokenBy, Places, Waiting
  <2>4. CASE pc[t] \notin {"lockwait", "pagewait"}
    BY <1>1, <2>1, <2>4 DEF WokenBy, Places, Waiting
  <2> QED
    BY <2>2, <2>3, <2>4
<1>3. pc' \in [Tasks -> Places]
  BY <1>2
<1>4. WaitsFor'
  BY <1>2 DEF WaitsFor
<1>5. \A t \in Tasks, b \in Buffers : Locker(t, b)' <=> Locker(t, b)
  BY <1>2 DEF Locker
<1> QED
  BY <1>2, <1>3, <1>4, <1>5

\* The head's request ends, well only if its data have been transferred.
LEMMA EndKeeps ==
    ASSUME IInv, queue # <<>>, NEW ok \in BOOLEAN, end_request(ok),
           ok => request[Head(queue)].cmd = READ \/ UnderWay(Head(queue)),
           drv' = "start", reset' \in BOOLEAN, UNCHANGED <<recalibrate, op>>
    PROVE  IInv'
<1> USE RequestAssumption DEF IInv, Types
<1> DEFINE h == Head(queue)
           r == request[h]
<1>1. /\ h \in Slots /\ r \in Requests /\ r # None
      /\ None \notin Buffers /\ None \notin Tasks
  BY HeadServed DEF Objects
<1>2. /\ pc' = [t \in Tasks |-> WokenBy(r, t)] /\ reqWait' = {}
      /\ request' = [request EXCEPT ![h] = None] /\ queue' = Tail(queue)
      /\ r.bh = None => UNCHANGED bufVars
      /\ r.bh # None =>
            /\ b_uptodate' = [b_uptodate EXCEPT ![r.bh] = ok]
            /\ b_lock' = [b_lock EXCEPT ![r.bh] = FALSE]
            /\ synced' = [synced EXCEPT ![r.bh] =
                            IF ok THEN r.cmd = READ \/ sent[r.bh] ELSE FALSE]
            /\ UNCHANGED <<b_dirt, sent>>
  BY DEF end_request
<1>3. ok => r.cmd = READ \/ UnderWay(h)
  OBVIOUS
<1> HIDE DEF h
<1>4. /\ pc' \in [Tasks -> Places] /\ WaitsFor'
      /\ \A t \in Tasks, b \in Buffers : Locker(t, b)' <=> Locker(t, b)
      /\ \A t \in Tasks : pc'[t] = "pagewait" <=> pc[t] = "pagewait" /\ r.waiting # t
  BY <1>1, <1>2, WokenKeeps
<1>5. /\ \A s \in Slots, b \in Buffers : Transfers(s, b)' <=> s # h /\ Transfers(s, b)
      /\ \A s \in Slots, t \in Tasks : WakesPage(s, t)' <=> s # h /\ WakesPage(s, t)
      /\ \A s \in Slots : s # h => request'[s] = request[s]
      /\ request' \in [Slots -> Requests \cup {None}]
  BY <1>1, <1>2 DEF Transfers, WakesPage
<1>6. /\ \A b \in Buffers : Transfers(h, b) <=> b = r.bh
      /\ \A t \in Tasks : WakesPage(h, t) <=> t = r.waiting
      /\ r.bh \in Buffers \cup {None}
  BY <1>1 DEF Transfers, WakesPage, Requests
<1>7. /\ b_dirt' = b_dirt
      /\ \A b \in Buffers : b # r.bh =>
            UNCHANGED <<b_uptodate[b], b_lock[b], synced[b], sent[b]>>
  <2>1. CASE r.bh = None
    BY <1>2, <2>1 DEF bufVars
  <2>2. CASE r.bh # None
    BY <1>2, <1>6, <2>2, ZenonT(60)
  <2> QED
    BY <2>1, <2>2
<1>8. Types'
  <2>1. Tail(queue) \in Seq(Slots)
    BY DEF IsInjective
  <2>2. UNCHANGED bufVars => /\ b_uptodate' = b_uptodate /\ b_lock' = b_lock
                             /\ synced' = synced /\ b_dirt' = b_dirt /\ sent' = sent
    BY DEF bufVars
  <2>3. /\ b_uptodate' \in [Buffers -> BOOLEAN] /\ b_lock' \in [Buffers -> BOOLEAN]
        /\ synced' \in [Buffers -> BOOLEAN] /\ b_dirt' \in [Buffers -> BOOLEAN]
        /\ sent' \in [Buffers -> BOOLEAN]
    <3>1. CASE r.bh = None
      BY <1>2, <2>2, <3>1
    <3>2. CASE r.bh # None
      <4>1. (IF ok THEN r.cmd = READ \/ sent[r.bh] ELSE FALSE) \in BOOLEAN
        BY <1>6, <3>2
      <4>2. /\ b_uptodate' = [b_uptodate EXCEPT ![r.bh] = ok]
            /\ b_lock' = [b_lock EXCEPT ![r.bh] = FALSE]
            /\ synced' = [synced EXCEPT ![r.bh] =
                            IF ok THEN r.cmd = READ \/ sent[r.bh] ELSE FALSE]
            /\ UNCHANGED <<b_dirt, sent>>
        BY <1>2, <3>2
      <4>3. synced' \in [Buffers -> BOOLEAN]
        BY <4>1, <4>2
      <4> QED
        BY <4>2, <4>3
    <3> QED
      BY <3>1, <3>2
  <2> QED
    BY <1>2, <1>4, <1>5, <2>1, <2>3
<1>9. QueueInv'
  <2>1. /\ IsInjective(Tail(queue))
        /\ InQueue(Tail(queue)) = InQueue(queue) \ {h}
    BY QueueWithoutHead DEF QueueInv, h
  <2>2. {s \in Slots : request'[s] # None} = {s \in Slots : request[s] # None} \ {h}
    BY <1>1, <1>2
  <2>3. InQueue(queue') = {s \in Slots : request'[s] # None}
    <3>1. InQueue(queue) = {s \in Slots : request[s] # None}
      BY DEF QueueInv, QueueIsSlots, InQueue
    <3> QED
      BY <1>2, <2>1, <2>2, <3>1
  <2> QED
    BY <1>2, <2>1, <2>3 DEF QueueInv, QueueIsSlots, InQueue
<1>10. WellFormed'
  BY <1>1, <1>2 DEF WellFormed
<1>11. LockInv'
  <2> SUFFICES ASSUME NEW b \in Buffers
               PROVE  /\ b_lock'[b] <=> \/ \E u \in Slots : Transfers(u, b)'
                                        \/ \E u \in Tasks : Locker(u, b)'
                      /\ \A u, s \in Slots : Transfers(u, b)' /\ Transfers(s, b)' => u = s
                      /\ \A u, s \in Tasks : Locker(u, b)' /\ Locker(s, b)' => u = s
                      /\ \A s \in Slots, u \in Tasks : ~(Transfers(s, b)' /\ Locker(u, b)')
    BY DEF LockInv
  <2>1. CASE b = r.bh
    <3>1. b_lock'[b] = FALSE
      BY <1>1, <1>2, <2>1
    <3>2. Transfers(h, b)
      BY <1>6, <2>1
    <3> QED
      BY <1>1, <1>4, <1>5, <3>1, <3>2 DEF LockInv
  <2>2. CASE b # r.bh
    <3>1. /\ b_lock'[b] = b_lock[b]
          /\ \A s \in Slots : Transfers(s, b)' <=> Transfers(s, b)
          /\ \A u \in Tasks : Locker(u, b)' <=> Locker(u, b)
      BY <1>4, <1>5, <1>6, <1>7, <2>2
    <3> QED
      BY <3>1 DEF LockInv
  <2> QED
    BY <2>1, <2>2
<1>12. PageInv'
  <2> SUFFICES ASSUME NEW t \in Tasks
               PROVE  /\ pc'[t] = "pagewait" <=> \E s \in Slots : WakesPage(s, t)'
                      /\ \A s, u \in Slots : WakesPage(s, t)' /\ WakesPage(u, t)' => s = u
    BY DEF PageInv
  <2>1. /\ pc[t] = "pagewait" <=> \E s \in Slots : WakesPage(s, t)
        /\ \A s, u \in Slots : WakesPage(s, t) /\ WakesPage(u, t) => s = u
    BY DEF PageInv
  <2>2. CASE r.waiting = t
    BY <1>1, <1>4, <1>5, <1>6, <2>1, <2>2
  <2>3. CASE r.waiting # t
    BY <1>4, <1>5, <1>6, <2>1, <2>3
  <2> QED
    BY <2>2, <2>3
<1>13. DataInv'
  <2>1. ASSUME NEW b \in Buffers, \A s \in Slots : ~Transfers(s, b)',
               ~b_dirt'[b], b_uptodate'[b]
        PROVE  synced'[b]
    <3>1. CASE b = r.bh
      <4>1. Transfers(h, b) /\ b # None /\ b_dirt' = b_dirt
        BY <1>1, <1>6, <1>7, <3>1
      <4>2. ok /\ synced'[b] = (r.cmd = READ \/ sent[b])
        BY <1>2, <2>1, <3>1, <4>1
      <4>3. r.cmd # READ /\ UnderWay(h) => b_dirt[b] \/ sent[b]
        BY <1>1, <4>1 DEF DataInv
      <4> QED
        BY <1>3, <2>1, <4>1, <4>2, <4>3
    <3>2. CASE b # r.bh
      <4>1. \A s \in Slots : ~Transfers(s, b)
        BY <1>5, <1>6, <2>1, <3>2
      <4> QED
        BY <1>7, <2>1, <3>2, <4>1 DEF DataInv
    <3> QED
      BY <3>1, <3>2
  <2>2. ASSUME NEW t \in Tasks, NEW b \in Buffers, Locker(t, b)'
        PROVE  IF op'[t].rw = READ THEN ~b_uptodate'[b] ELSE b_dirt'[b]
    <3>1. Locker(t, b) /\ b # r.bh
      BY <1>1, <1>4, <1>6, <2>2 DEF LockInv
    <3> QED
      BY <1>7, <3>1 DEF DataInv
  <2>3. ASSUME NEW s \in Slots, NEW b \in Buffers, Transfers(s, b)'
        PROVE  IF request'[s].cmd = READ THEN ~b_uptodate'[b]
               ELSE UnderWay(s)' => b_dirt'[b] \/ sent'[b]
    <3>1. s # h /\ Transfers(s, b) /\ request'[s] = request[s]
      BY <1>5, <2>3
    <3>2. b # r.bh
      BY <1>1, <1>6, <3>1 DEF LockInv
    <3>3. UnderWay(s)' => UnderWay(s)
      BY <3>1 DEF UnderWay
    <3> QED
      BY <1>7, <3>1, <3>2, <3>3 DEF DataInv
  <2> QED
    BY <2>1, <2>2, <2>3 DEF DataInv
<1> QED
  BY <1>4, <1>8, <1>9, <1>10, <1>11, <1>12, <1>13

\* A request that is tried again, or that goes on to the next sector, is for the
\* same transfer.
LEMMA SameTransfer ==
    ASSUME NEW r \in Requests, NEW e \in 0..(MAX_ERRORS - 1)
    PROVE  /\ LET n == [r EXCEPT !.errors = e]
              IN  /\ n \in Requests /\ n.cmd = r.cmd /\ n.bh = r.bh
                  /\ n.waiting = r.waiting /\ n.left = r.left
           /\ r.left # 1 =>
              LET n == [r EXCEPT !.left = @ - 1, !.sector = @ + 1, !.errors = e]
              IN  /\ n \in Requests /\ n.cmd = r.cmd /\ n.bh = r.bh
                  /\ n.waiting = r.waiting /\ n.left < r.left
<1> USE RequestAssumption
<1>1. /\ r.left \in 1..(BlockSectors + PageSectors) /\ r.sector \in Nat
      /\ r.left # 1 => r.left - 1 \in 1..(BlockSectors + PageSectors)
      /\ r.left - 1 < r.left
      /\ r.sector + 1 \in Nat
  BY DEF Requests
<1> QED
  BY <1>1 DEF Requests

\* An error: the request ends, or it is tried again.
LEMMA BadKeeps ==
    ASSUME IInv, queue # <<>>, bad_rw_intr, drv' = "start", UNCHANGED <<recalibrate, op>>
    PROVE  IInv'
<1> USE RequestAssumption
<1> DEFINE h == Head(queue)
           r == request[h]
<1>1. h \in Slots /\ r \in Requests
  BY HeadServed
<1>2. reset' \in BOOLEAN
  BY DEF IInv, Types, bad_rw_intr
<1>3. CASE r.errors + 1 >= MAX_ERRORS
  <2>1. end_request(FALSE)
    BY <1>3 DEF bad_rw_intr
  <2> QED
    BY <1>2, <2>1, EndKeeps
<1>4. CASE ~(r.errors + 1 >= MAX_ERRORS)
  <2> DEFINE n == [r EXCEPT !.errors = @ + 1]
  <2>1. request' = [request EXCEPT ![h] = n] /\ UNCHANGED <<bufVars, queue, pc, reqWait>>
    <3>1. request' = [request EXCEPT ![h].errors = @ + 1]
      BY <1>4 DEF bad_rw_intr
    <3>2. [request EXCEPT ![h].errors = @ + 1] = [request EXCEPT ![h] = n]
      BY <1>1 DEF IInv, Types
    <3> QED
      BY <1>4, <3>1, <3>2 DEF bad_rw_intr
  <2>2. /\ n \in Requests /\ n.cmd = r.cmd /\ n.bh = r.bh /\ n.waiting = r.waiting
        /\ n.left = r.left
    <3>1. r.errors + 1 \in 0..(MAX_ERRORS - 1)
      <4>1. r.errors \in 0..(MAX_ERRORS - 1)
        BY <1>1 DEF Requests
      <4> QED
        BY <1>4, <4>1
    <3> QED
      BY <1>1, <3>1, SameTransfer
  <2> HIDE DEF n
  <2> QED
    BY <1>2, <2>1, <2>2, RequestKeeps DEF taskVars
<1> QED
  BY <1>3, <1>4

\* A step of the driver.
LEMMA DriverKeeps == ASSUME IInv, do_hd_request \/ hd_interrupt PROVE IInv'
<1> USE RequestAssumption
<1>1. /\ drv \in {"idle", "start", "read", "write", "recal"}
      /\ reset \in BOOLEAN /\ recalibrate \in BOOLEAN
      /\ drv = "idle" <=> queue = <<>> /\ drv # "start"
      /\ drv = "read" => request[Head(queue)].cmd = READ
      /\ drv = "write" => request[Head(queue)].cmd = WRITE
  BY DEF IInv, Types, QueueInv
<1>2. CASE Idle \/ ResetController \/ StartRead \/ Recalibrated
  <2>1. UNCHANGED <<b_lock, b_dirt, b_uptodate, synced, sent, request, queue, taskVars>>
    BY <1>2 DEF Idle, ResetController, StartRead, Recalibrated, bufVars
  <2>2. /\ drv' \in {"idle", "start", "read", "recal"}
        /\ reset' \in BOOLEAN /\ recalibrate' \in BOOLEAN
        /\ drv' = "idle" <=> queue = <<>>
        /\ drv' = "read" => request[Head(queue)].cmd = READ
    BY <1>1, <1>2 DEF Idle, ResetController, StartRead, Recalibrated
  <2> QED
    BY <2>1, <2>2, CommandKeeps
<1>3. CASE RefuseRequest
  BY <1>1, <1>3, EndKeeps DEF RefuseRequest, drvVars
<1>4. CASE StartWrite
  <2>1. queue # <<>> /\ drv = "start" /\ request[Head(queue)].cmd = WRITE
    BY <1>4 DEF StartWrite
  <2>2. CASE bad_rw_intr /\ UNCHANGED drv
    BY <1>4, <2>1, <2>2, BadKeeps DEF StartWrite
  <2>3. CASE drv' = "write"
    <3>1. /\ UNCHANGED <<b_lock, b_dirt, b_uptodate, synced, request, queue, taskVars>>
          /\ reset' \in BOOLEAN /\ recalibrate' \in BOOLEAN
          /\ sent' = IF request[Head(queue)].bh = None THEN sent
                     ELSE [sent EXCEPT ![request[Head(queue)].bh] =
                             (@ \/ request[Head(queue)].left = BlockSectors)]
      BY <1>1, <1>4, <2>1, <2>3 DEF StartWrite, taskVars
    <3> QED
      BY <2>1, <2>3, <3>1, CommandKeeps
  <2> QED
    BY <1>4, <2>2, <2>3 DEF StartWrite
<1>5. CASE SectorDone
  <2> DEFINE h == Head(queue)
             r == request[h]
  <2>1. /\ drv \in {"read", "write"} /\ queue # <<>>
        /\ UNCHANGED <<reset, recalibrate, op>> /\ reset' \in BOOLEAN
    BY <1>1, <1>5 DEF SectorDone
  <2>2. h \in Slots /\ r \in Requests
    BY <2>1, HeadServed
  <2>3. CASE r.left = 1
    <3>1. end_request(TRUE) /\ drv' = "start"
      BY <1>5, <2>3 DEF SectorDone
    <3>2. r.cmd = READ \/ UnderWay(h)
      BY <1>1, <2>1 DEF UnderWay
    <3> QED
      BY <2>1, <3>1, <3>2, EndKeeps
  <2>4. CASE r.left # 1
    <3> DEFINE n == [r EXCEPT !.left = @ - 1, !.sector = @ + 1,
                              !.errors = IF drv = "read" THEN 0 ELSE @]
    <3>1. request' = [request EXCEPT ![h] = n] /\ UNCHANGED <<bufVars, queue, drv, pc, reqWait>>
      BY <1>5, <2>4 DEF SectorDone
    <3>2. /\ n \in Requests /\ n.cmd = r.cmd /\ n.bh = r.bh /\ n.waiting = r.waiting
          /\ n.left < r.left
      <4>1. (IF drv = "read" THEN 0 ELSE r.errors) \in 0..(MAX_ERRORS - 1)
        BY <2>2 DEF Requests
      <4> QED
        BY <2>2, <2>4, <4>1, SameTransfer, ZenonT(60)
    <3> HIDE DEF n
    <3> QED
      BY <2>1, <3>1, <3>2, RequestKeeps DEF taskVars
  <2> QED
    BY <2>3, <2>4
<1>6. CASE CommandFailed
  BY <1>1, <1>6, BadKeeps DEF CommandFailed
<1> QED
  BY <1>2, <1>3, <1>4, <1>5, <1>6 DEF do_hd_request, hd_interrupt

\* Every step keeps the invariant.
LEMMA InvStep == IInv /\ [Next]_vars => IInv'
<1> SUFFICES ASSUME IInv, [Next]_vars PROVE IInv'
  OBVIOUS
<1>1. ASSUME NEW t \in Tasks, NEW o \in Op, o.what # Page,
             pc[t] \in {"user", "lockretry"}, LockAndSubmit(t, o)
      PROVE  IInv'
  <2>1. Ready(t, o)
    BY <1>1, ReadyToLock DEF LockAndSubmit
  <2> QED
    BY <1>1, <2>1, ReadyKeeps DEF LockAndSubmit, OthersSame
<1>2. ASSUME NEW t \in Tasks, NEW o \in Op, RwBlock(t, o) PROVE IInv'
  <2>1. pc[t] = "user" /\ o.what # Page
    BY <1>2 DEF RwBlock
  <2>2. WaitForLock(t, o) \/ LockAndSubmit(t, o)
    BY <1>2 DEF RwBlock
  <2> QED
    BY <1>1, <2>1, <2>2, WaitKeeps
<1>3. ASSUME NEW t \in Tasks, NEW o \in Op, RwPage(t, o) PROVE IInv'
  <2>1. Ready(t, o)
    BY <1>3, ReadyForPage DEF RwPage
  <2> QED
    BY <1>3, <2>1, ReadyKeeps DEF RwPage, OthersSame
<1>4. ASSUME NEW t \in Tasks, RetryLock(t) PROVE IInv'
  <2>1. pc[t] = "lockretry" /\ op[t] \in Op /\ op[t].what # Page
    BY <1>4 DEF RetryLock, IInv, WaitsFor
  <2>2. WaitForLock(t, op[t]) \/ GiveUp(t, op[t]) \/ LockAndSubmit(t, op[t])
    BY <1>4 DEF RetryLock
  <2> QED
    BY <1>1, <2>1, <2>2, WaitKeeps
<1>5. ASSUME NEW t \in Tasks, RetrySlot(t) PROVE IInv'
  <2>1. op[t] \in Op /\ Ready(t, op[t])
    BY <1>5, ReadyAgain DEF RetrySlot
  <2> QED
    BY <1>5, <2>1, ReadyKeeps DEF RetrySlot, OthersSame
<1>6. ASSUME UNCHANGED vars PROVE IInv'
  <2>1. /\ UNCHANGED <<bufVars, request, queue, drvVars>> /\ UNCHANGED <<pc, op, reqWait>>
    BY <1>6 DEF vars, taskVars
  <2>2. WaitsFor'
    BY <2>1 DEF IInv, WaitsFor
  <2> QED
    BY <2>1, <2>2, TaskKeeps DEF IInv, Types
<1> QED
  BY <1>2, <1>3, <1>4, <1>5, <1>6, WaitKeeps, ModifyKeeps, DriverKeeps DEF Next

-----------------------------------------------------------------------------
\* The inductive invariant holds in every reachable state: buffers, requests,
\* queue and sleeping tasks agree about who transfers what.
THEOREM Invariance == Spec => []IInv
<1> QED
  BY InvInit, InvStep, PTL DEF Spec

\* The variables keep their types; the driver is idle only while the queue is
\* empty, and a request is tried less than MAX_ERRORS times.
THEOREM TypeCorrect == Spec => []TypeOK
<1>1. IInv => TypeOK
  BY DEF IInv, Types, QueueInv, TypeOK
<1> QED
  BY <1>1, Invariance, PTL

\* A set of which all elements are equal has one element or none.
LEMMA OneAtMost ==
    ASSUME NEW S, \A x, y \in S : x = y
    PROVE  Cardinality(S) = IF S = {} THEN 0 ELSE 1
<1>1. CASE S = {}
  BY <1>1, FS_EmptySet
<1>2. CASE S # {}
  <2>1. PICK x \in S : S = {x}
    BY <1>2
  <2> QED
    BY <1>2, <2>1, FS_Singleton
<1> QED
  BY <1>1, <1>2

\* A buffer is locked by exactly one party: a task that waits for a slot, or
\* one request in the queue (lock_buffer() and end_request()).
THEOREM OneLocker == Spec => []LockedByOne
<1>1. ASSUME IInv PROVE LockedByOne
  <2> SUFFICES ASSUME NEW b \in Buffers
               PROVE  Cardinality(RequestsOf(b)) + Cardinality(LockersOf(b))
                        = IF b_lock[b] THEN 1 ELSE 0
    BY DEF LockedByOne
  <2>1. /\ b_lock[b] <=> \/ \E s \in Slots : Transfers(s, b)
                         \/ \E t \in Tasks : Locker(t, b)
        /\ \A s, r \in Slots : Transfers(s, b) /\ Transfers(r, b) => s = r
        /\ \A t, u \in Tasks : Locker(t, b) /\ Locker(u, b) => t = u
        /\ \A s \in Slots, t \in Tasks : ~(Transfers(s, b) /\ Locker(t, b))
    BY <1>1 DEF IInv, LockInv
  <2>2. /\ RequestsOf(b) = {s \in Slots : Transfers(s, b)}
        /\ LockersOf(b) = {t \in Tasks : Locker(t, b)}
    BY DEF RequestsOf, LockersOf, Transfers, Locker, Waiting
  <2>3. Cardinality(RequestsOf(b)) = IF RequestsOf(b) = {} THEN 0 ELSE 1
    <3>1. \A s, r \in RequestsOf(b) : s = r
      BY <2>1, <2>2
    <3> QED
      BY <3>1, OneAtMost
  <2>4. Cardinality(LockersOf(b)) = IF LockersOf(b) = {} THEN 0 ELSE 1
    <3>1. \A t, u \in LockersOf(b) : t = u
      BY <2>1, <2>2
    <3> QED
      BY <3>1, OneAtMost
  <2>5. b_lock[b] <=> RequestsOf(b) # {} \/ LockersOf(b) # {}
    BY <2>1, <2>2
  <2>6. RequestsOf(b) = {} \/ LockersOf(b) = {}
    BY <2>1, <2>2
  <2> QED
    BY <2>3, <2>4, <2>5, <2>6
<1> QED
  BY <1>1, Invariance, PTL

\* The queue links exactly the slots in use (end_request() and the elevator).
THEOREM NothingIsLost == Spec => []QueueIsSlots
<1>1. IInv => QueueIsSlots
  BY DEF IInv, QueueInv
<1> QED
  BY <1>1, Invariance, PTL

\* A clean, unlocked, up-to-date buffer is what the disk holds, although it may
\* be changed while a write of it is in progress.
THEOREM WrittenIfClean == Spec => []CleanMeansWritten
<1>1. IInv => CleanMeansWritten
  BY DEF IInv, LockInv, DataInv, CleanMeansWritten
<1> QED
  BY <1>1, Invariance, PTL

\* A task asleep in ll_rw_page() has exactly one request that will wake it.
THEOREM PageIsAwaited == Spec => []PageHasRequest
<1>1. ASSUME IInv PROVE PageHasRequest
  <2> SUFFICES ASSUME NEW t \in Tasks
               PROVE  Cardinality({s \in Slots : request[s] # None /\ request[s].waiting = t})
                        = IF pc[t] = "pagewait" THEN 1 ELSE 0
    BY DEF PageHasRequest
  <2> DEFINE S == {s \in Slots : WakesPage(s, t)}
  <2>1. \A s, r \in S : s = r
    BY <1>1 DEF IInv, PageInv
  <2>2. pc[t] = "pagewait" <=> S # {}
    BY <1>1 DEF IInv, PageInv
  <2>3. Cardinality(S) = IF S = {} THEN 0 ELSE 1
    <3> HIDE DEF S
    <3> QED
      BY <2>1, OneAtMost
  <2>4. S = {s \in Slots : request[s] # None /\ request[s].waiting = t}
    BY DEF WakesPage
  <2> QED
    BY <2>2, <2>3, <2>4
<1> QED
  BY <1>1, Invariance, PTL

=============================================================================
