---------------------------- MODULE MemoryProofs -----------------------------
(***************************************************************************)
(* Proofs about Memory, for every number of tasks, pages and frames: who   *)
(* has a frame is counted, who can write a page has it alone, and the      *)
(* panics of free_page(), copy_page_tables() and try_to_share() are not    *)
(* reached, as long as no count of mem_map has wrapped.                    *)
(***************************************************************************)
EXTENDS Memory, FiniteSetTheorems, FunctionTheorems, WellFoundedInduction, TLAPS

\* How often f is among the values of g.
Count(g, f) == Cardinality({d \in DOMAIN g : g[d] = f})

\* The same among the values for X.
Among(X, g, f) == Cardinality({d \in X : g[d] = f})

\* The frames of the entries, as a function.
FrameOf(m) == [e \in Tasks \X Pages |-> m.pte[e[1]][e[2]].frame]

\* The references to f apart from those of entries, and all of them: h counts the
\* pages in hand, which no table knows.
Kernel(m, h, f) == Count(m.dir, f) + Count(m.task, f) + h[f]
Held(m, h, f) == Count(FrameOf(m), f) + Kernel(m, h, f)

\* No reference is missing from mem_map; who is no entry has its frame alone; so
\* has a writable entry; and a page is in a table.
Fits(m, h) == \A f \in Frames : Held(m, h, f) <= m.map[f]
Apart(m, h) == \A f \in Frames : Kernel(m, h, f) >= 1 => Held(m, h, f) = 1
Alone(m) ==
    \A t, u \in Tasks, p, q \in Pages :
        m.pte[t][p].rw /\ Present(m, t, p) /\ m.pte[u][q].frame = m.pte[t][p].frame
          => u = t /\ q = p
Tabled(m) ==
    \A t \in Tasks, p \in Pages : Present(m, t, p) => m.dir[<<t, TableOf[p]>>] # NoFrame

Hold == [Frames -> Nat]
Sound(m, h) == /\ m \in Memories /\ h \in Hold
               /\ Fits(m, h) /\ Apart(m, h) /\ Alone(m) /\ Tabled(m)

\* A page table entry.
PteType == [frame : Frames \cup {NoFrame}, rw : BOOLEAN, dirty : BOOLEAN]

-----------------------------------------------------------------------------
\* The count of a value in a finite function, and when it is zero.
LEMMA CountNat ==
    ASSUME NEW D, IsFiniteSet(D), NEW g, DOMAIN g = D, NEW f
    PROVE  /\ Count(g, f) \in Nat
           /\ Count(g, f) = 0 <=> \A d \in D : g[d] # f
<1> DEFINE S == {d \in D : g[d] = f}
<1>1. S \in SUBSET D
  OBVIOUS
<1>2. Count(g, f) = Cardinality(S)
  BY DEF Count
<1>3. IsFiniteSet(S) /\ Cardinality(S) \in Nat
  BY <1>1, FS_Subset, FS_CardinalityType
<1>4. Cardinality(S) = 0 <=> S = {}
  BY <1>3, FS_EmptySet
<1> QED
  BY <1>2, <1>3, <1>4

\* One value of a function changes.
LEMMA CountChange ==
    ASSUME NEW D, IsFiniteSet(D), NEW g, DOMAIN g = D, NEW k, DOMAIN k = D,
           NEW x \in D, \A d \in D : d # x => k[d] = g[d], NEW f
    PROVE  Count(k, f) + (IF g[x] = f THEN 1 ELSE 0)
             = Count(g, f) + (IF k[x] = f THEN 1 ELSE 0)
<1> DEFINE G == {d \in D : g[d] = f}
           K == {d \in D : k[d] = f}
           Rest == {d \in D : d # x /\ g[d] = f}
<1>1. Count(g, f) = Cardinality(G) /\ Count(k, f) = Cardinality(K)
  BY DEF Count
<1>2. IsFiniteSet(Rest) /\ Cardinality(Rest) \in Nat
  <2>1. Rest \in SUBSET D
    OBVIOUS
  <2> QED
    BY <2>1, FS_Subset, FS_CardinalityType
<1>3. Cardinality(Rest \cup {x}) = Cardinality(Rest) + 1
  BY <1>2, FS_AddElement
<1>4. G = IF g[x] = f THEN Rest \cup {x} ELSE Rest
  OBVIOUS
<1>5. K = IF k[x] = f THEN Rest \cup {x} ELSE Rest
  OBVIOUS
<1> HIDE DEF G, K, Rest
<1> QED
  BY <1>1, <1>2, <1>3, <1>4, <1>5

\* Some of the values that were f change to others.
LEMMA CountLess ==
    ASSUME NEW D, IsFiniteSet(D), NEW g, DOMAIN g = D, NEW k, DOMAIN k = D,
           NEW X \in SUBSET D, \A d \in D \ X : k[d] = g[d],
           NEW f, \A d \in X : k[d] # f
    PROVE  Count(k, f) + Among(X, g, f) = Count(g, f) /\ Among(X, g, f) \in Nat
<1> DEFINE G == {d \in D : g[d] = f}
           K == {d \in D : k[d] = f}
           Y == {d \in X : g[d] = f}
<1>1. Count(g, f) = Cardinality(G) /\ Count(k, f) = Cardinality(K)
  BY DEF Count
<1>2. G \in SUBSET D /\ Y \in SUBSET D
  OBVIOUS
<1>3. IsFiniteSet(G) /\ Cardinality(G) \in Nat /\ Cardinality(Y) \in Nat
  BY <1>2, FS_Subset, FS_CardinalityType
<1>4. K = G \ Y /\ G \cap Y = Y
  OBVIOUS
<1> HIDE DEF G, K, Y
<1>5. Cardinality(K) = Cardinality(G) - Cardinality(Y)
  BY <1>3, <1>4, FS_Difference
<1>6. Count(k, f) + Cardinality(Y) = Count(g, f)
  BY <1>1, <1>3, <1>5
<1> QED
  BY <1>3, <1>6 DEF Y, Among

\* A row of a table has as many entries with a property as there are columns.
LEMMA RowCount ==
    ASSUME NEW t, NEW P, IsFiniteSet(P)
    PROVE  Cardinality({t} \X P) = Cardinality(P)
<1>1. Cardinality({t} \X P) = Cardinality({t}) * Cardinality(P)
  BY FS_Product, FS_Singleton
<1>2. Cardinality({t}) = 1 /\ Cardinality(P) \in Nat
  BY FS_Singleton, FS_CardinalityType
<1> QED
  BY <1>1, <1>2

\* A set of natural numbers with a bound has a greatest element.
LEMMA GreatestElement ==
    ASSUME NEW n \in Nat, NEW S \in SUBSET (1..n), S # {}
    PROVE  (CHOOSE f \in S : \A g \in S : g <= f) \in S
<1> DEFINE Less == OpToRel(<, Nat)
           Back == {n - f : f \in S}
<1>1. \A i, j \in Nat : i < j => <<i, j>> \in Less
  BY DEF OpToRel
<1>2. IsWellFoundedOn(Less, Nat)
  BY NatLessThanWellFounded
<1>3. Back \subseteq Nat /\ Back # {}
  <2>1. \A f \in S : n - f \in Nat
    OBVIOUS
  <2>2. PICK f \in S : TRUE
    OBVIOUS
  <2>3. n - f \in Back
    OBVIOUS
  <2> QED
    BY <2>1, <2>3
<1> HIDE DEF Less, Back
<1>4. PICK i \in Back : \A j \in Back : ~ (<<j, i>> \in Less)
  BY <1>2, <1>3, WFMin
<1>5. PICK f \in S : i = n - f
  BY <1>4 DEF Back
<1>6. \A g \in S : g <= f
  <2> TAKE g \in S
  <2>1. n - g \in Back
    BY DEF Back
  <2>2. ~ (n - g < n - f)
    BY <1>1, <1>3, <1>4, <1>5, <2>1
  <2> QED
    BY <2>2
<1> QED
  BY <1>6

-----------------------------------------------------------------------------
\* The page tables of a task are finitely many.
LEMMA TablesFinite == IsFiniteSet(Tables)
BY FS_Interval, MemoryAssumption DEF Tables

\* What memory is made of.
LEMMA MemoryParts ==
    ASSUME NEW m \in Memories
    PROVE  /\ m.map \in [Frames -> 0 .. COUNTS - 1] /\ m.data \in [Frames -> Contents]
           /\ \A f \in Frames : m.map[f] \in Nat /\ m.map[f] < COUNTS
           /\ m.task \in [Tasks -> Frames \cup {NoFrame}]
           /\ m.dir \in [Tasks \X Tables -> Frames \cup {NoFrame}]
           /\ m.pte \in [Tasks -> [Pages -> [frame : Frames \cup {NoFrame},
                                             rw : BOOLEAN, dirty : BOOLEAN]]]
           /\ m.halt \in {"none", "free", "exists", "block", "wild"}
           /\ \A t \in Tasks, p \in Pages :
                 /\ m.pte[t][p] \in [frame : Frames \cup {NoFrame},
                                     rw : BOOLEAN, dirty : BOOLEAN]
                 /\ FrameOf(m)[<<t, p>>] = m.pte[t][p].frame
           /\ \A t \in Tasks, d \in Tables : m.dir[<<t, d>>] \in Frames \cup {NoFrame}
           /\ DOMAIN FrameOf(m) = Tasks \X Pages
<1>1. COUNTS \in Nat /\ m.map \in [Frames -> 0 .. COUNTS - 1]
  BY MemoryAssumption DEF Memories
<1>2. \A f \in Frames : m.map[f] \in Nat /\ m.map[f] < COUNTS
  BY <1>1
<1> QED
  BY <1>1, <1>2 DEF Memories, FrameOf

\* The counts are numbers, and what it means that one of them is zero.
LEMMA CountsAre ==
    ASSUME NEW m \in Memories, NEW f
    PROVE  /\ Count(FrameOf(m), f) \in Nat
           /\ Count(m.dir, f) \in Nat /\ Count(m.task, f) \in Nat
           /\ Count(FrameOf(m), f) = 0 <=> \A t \in Tasks, p \in Pages : m.pte[t][p].frame # f
           /\ Count(m.dir, f) = 0 <=> \A e \in Tasks \X Tables : m.dir[e] # f
           /\ Count(m.task, f) = 0 <=> \A t \in Tasks : m.task[t] # f
<1> USE MemoryAssumption
<1>1. IsFiniteSet(Tasks \X Pages) /\ IsFiniteSet(Tasks \X Tables)
  BY FS_Product, TablesFinite
<1>2. /\ DOMAIN FrameOf(m) = Tasks \X Pages
      /\ DOMAIN m.dir = Tasks \X Tables /\ DOMAIN m.task = Tasks
  BY DEF Memories, FrameOf
<1>3. /\ Count(FrameOf(m), f) \in Nat
      /\ Count(FrameOf(m), f) = 0 <=> \A e \in Tasks \X Pages : FrameOf(m)[e] # f
  BY <1>1, <1>2, CountNat
<1>4. (\A e \in Tasks \X Pages : FrameOf(m)[e] # f)
         <=> \A t \in Tasks, p \in Pages : m.pte[t][p].frame # f
  <2>1. \A e \in Tasks \X Pages : FrameOf(m)[e] = m.pte[e[1]][e[2]].frame
    BY DEF FrameOf
  <2>2. ASSUME \A e \in Tasks \X Pages : FrameOf(m)[e] # f, NEW t \in Tasks, NEW p \in Pages
        PROVE  m.pte[t][p].frame # f
    <3> DEFINE e == <<t, p>>
    <3>1. e \in Tasks \X Pages /\ e[1] = t /\ e[2] = p
      OBVIOUS
    <3> HIDE DEF e
    <3> QED
      BY <2>1, <2>2, <3>1
  <2>3. ASSUME \A t \in Tasks, p \in Pages : m.pte[t][p].frame # f, NEW e \in Tasks \X Pages
        PROVE  FrameOf(m)[e] # f
    <3>1. e[1] \in Tasks /\ e[2] \in Pages
      OBVIOUS
    <3> QED
      BY <2>1, <2>3, <3>1
  <2> QED
    BY <2>2, <2>3
<1>5. /\ Count(m.dir, f) \in Nat
      /\ Count(m.dir, f) = 0 <=> \A e \in Tasks \X Tables : m.dir[e] # f
  <2> DEFINE E == Tasks \X Tables
             g == m.dir
  <2>1. IsFiniteSet(E) /\ DOMAIN g = E
    BY <1>1, <1>2
  <2> HIDE DEF E, g
  <2>2. Count(g, f) \in Nat /\ (Count(g, f) = 0 <=> \A e \in E : g[e] # f)
    BY ONLY <2>1, CountNat
  <2> QED
    BY <2>2 DEF E, g
<1>6. /\ Count(m.task, f) \in Nat
      /\ Count(m.task, f) = 0 <=> \A t \in Tasks : m.task[t] # f
  BY <1>2, CountNat
<1> QED
  BY <1>3, <1>4, <1>5, <1>6

\* The numbers of one frame, and what soundness says of them.
LEMMA Numbers ==
    ASSUME NEW m, NEW h, Sound(m, h), NEW f \in Frames
    PROVE  /\ Count(FrameOf(m), f) \in Nat /\ Count(m.dir, f) \in Nat
           /\ Count(m.task, f) \in Nat /\ h[f] \in Nat
           /\ m.map[f] \in Nat /\ m.map[f] < COUNTS
           /\ Held(m, h, f) <= m.map[f]
           /\ Kernel(m, h, f) >= 1 => Held(m, h, f) = 1
<1>1. m \in Memories
  BY DEF Sound
<1>2. /\ Count(FrameOf(m), f) \in Nat /\ Count(m.dir, f) \in Nat /\ Count(m.task, f) \in Nat
  BY <1>1, CountsAre
<1>3. h[f] \in Nat
  BY DEF Sound, Hold
<1>4. m.map[f] \in Nat /\ m.map[f] < COUNTS
  BY <1>1, MemoryParts
<1> QED
  BY <1>2, <1>3, <1>4 DEF Sound, Fits, Apart

\* More in mem_map and less in hand, other contents or a panic: memory is as
\* sound as before.
LEMMA SameTables ==
    ASSUME NEW m, NEW h, Sound(m, h), NEW n \in Memories, NEW k \in Hold,
           n.pte = m.pte, n.dir = m.dir, n.task = m.task,
           \A f \in Frames : n.map[f] >= m.map[f] /\ k[f] <= h[f]
    PROVE  Sound(n, k)
<1>1. FrameOf(n) = FrameOf(m)
  BY DEF FrameOf
<1>2. ASSUME NEW f \in Frames
      PROVE  /\ Held(n, k, f) <= n.map[f]
             /\ Kernel(n, k, f) >= 1 => Held(n, k, f) = 1
  <2>1. k[f] \in Nat /\ k[f] <= h[f] /\ n.map[f] \in Nat /\ n.map[f] >= m.map[f]
    BY MemoryParts DEF Hold
  <2> QED
    BY <1>1, <2>1, Numbers DEF Held, Kernel
<1> QED
  BY <1>2 DEF Sound, Fits, Apart, Alone, Tabled, Present

\* A frame in hand is nowhere else.
LEMMA InHand ==
    ASSUME NEW m, NEW h, Sound(m, h), NEW f \in Frames, h[f] >= 1
    PROVE  /\ h[f] = 1 /\ m.map[f] >= 1
           /\ Count(FrameOf(m), f) = 0 /\ Count(m.dir, f) = 0 /\ Count(m.task, f) = 0
           /\ \A t \in Tasks, p \in Pages : m.pte[t][p].frame # f
<1>1. /\ h[f] = 1 /\ m.map[f] >= 1
      /\ Count(FrameOf(m), f) = 0 /\ Count(m.dir, f) = 0 /\ Count(m.task, f) = 0
  BY Numbers DEF Held, Kernel
<1> QED
  BY <1>1, CountsAre DEF Sound

\* The frame of an entry is in no other table and in no hand.
LEMMA InEntry ==
    ASSUME NEW m, NEW h, Sound(m, h), NEW t \in Tasks, NEW p \in Pages, Present(m, t, p)
    PROVE  LET f == m.pte[t][p].frame
           IN  /\ f \in Frames /\ h[f] = 0 /\ Count(m.dir, f) = 0 /\ Count(m.task, f) = 0
               /\ Count(FrameOf(m), f) >= 1
<1> DEFINE f == m.pte[t][p].frame
<1>1. f \in Frames
  BY MemoryParts DEF Present, Sound
<1> HIDE DEF f
<1>2. Count(FrameOf(m), f) # 0
  BY CountsAre DEF Sound, f
<1>3. /\ h[f] = 0 /\ Count(m.dir, f) = 0 /\ Count(m.task, f) = 0
      /\ Count(FrameOf(m), f) >= 1
  BY <1>1, <1>2, Numbers DEF Held, Kernel
<1> QED
  BY <1>1, <1>3 DEF f

-----------------------------------------------------------------------------
\* h with one more page in hand.
More(h, f) == [h EXCEPT ![f] = @ + 1]

\* free_page() of a page in hand: no panic, and it is not in hand any more.
LEMMA PageFreed ==
    ASSUME NEW m, NEW h \in Hold, NEW f \in Frames, Sound(m, More(h, f)),
           NEW n, n = free_page(m, f)
    PROVE  /\ Sound(n, h) /\ n.pte = m.pte /\ n.dir = m.dir /\ n.task = m.task
           /\ n.halt = m.halt
<1> DEFINE c == Once(f)
<1>0. \A g \in Frames : c[g] = IF g = f THEN 1 ELSE 0
  BY DEF Once
<1>1. m \in Memories /\ More(h, f)[f] = h[f] + 1 /\ h[f] \in Nat
  BY DEF Sound, More, Hold
<1>2. /\ m.map[f] >= 1 /\ \A g \in Frames : m.map[g] \in Nat /\ m.map[g] < COUNTS
      /\ h[f] = 0 /\ Count(FrameOf(m), f) = 0 /\ Count(m.dir, f) = 0 /\ Count(m.task, f) = 0
  <2>1. /\ More(h, f)[f] = 1 /\ m.map[f] >= 1
        /\ Count(FrameOf(m), f) = 0 /\ Count(m.dir, f) = 0 /\ Count(m.task, f) = 0
    BY <1>1, InHand
  <2>2. \A g \in Frames : m.map[g] \in Nat /\ m.map[g] < COUNTS
    BY <1>1, MemoryParts
  <2> QED
    BY <1>1, <2>1, <2>2
<1>3. n = [m EXCEPT !.map = [g \in Frames |-> m.map[g] - c[g]]]
  <2> HIDE DEF c
  <2> QED
    BY <1>0, <1>2 DEF free_page, Release, c
<1> HIDE DEF c
<1>4. [g \in Frames |-> m.map[g] - c[g]] \in [Frames -> 0 .. COUNTS - 1]
  BY <1>0, <1>2, MemoryAssumption
<1>5. n \in Memories
  BY <1>1, <1>3, <1>4 DEF Memories
<1>6. /\ n.pte = m.pte /\ n.dir = m.dir /\ n.task = m.task /\ n.halt = m.halt
      /\ \A g \in Frames : n.map[g] = m.map[g] - c[g]
  BY <1>1, <1>3 DEF Memories
<1>7. FrameOf(n) = FrameOf(m)
  BY <1>6 DEF FrameOf
<1>8. ASSUME NEW g \in Frames
      PROVE  /\ Held(n, h, g) <= n.map[g]
             /\ Kernel(n, h, g) >= 1 => Held(n, h, g) = 1
  <2>1. CASE g = f
    <3>1. Held(n, h, g) = 0 /\ Kernel(n, h, g) = 0 /\ n.map[g] >= 0
      BY <1>0, <1>2, <1>6, <1>7, <2>1 DEF Held, Kernel
    <3> QED
      BY <3>1
  <2>2. CASE g # f
    <3>1. More(h, f)[g] = h[g] /\ n.map[g] = m.map[g]
      BY <1>0, <1>2, <1>6, <2>2 DEF More, Hold
    <3> QED
      BY <1>6, <1>7, <3>1, Numbers DEF Held, Kernel
  <2> QED
    BY <2>1, <2>2
<1> QED
  BY <1>5, <1>6, <1>8 DEF Sound, Fits, Apart, Alone, Tabled, Present

\* A frame in hand becomes a page table.
LEMMA DirPut ==
    ASSUME NEW m, NEW h \in Hold, NEW f \in Frames, Sound(m, More(h, f)),
           NEW t \in Tasks, NEW d \in Tables, m.dir[<<t, d>>] = NoFrame,
           NEW n, n = [m EXCEPT !.dir[<<t, d>>] = f]
    PROVE  Sound(n, h)
<1>1. /\ n \in Memories /\ n.pte = m.pte /\ n.task = m.task /\ n.map = m.map
      /\ DOMAIN m.dir = Tasks \X Tables /\ n.dir = [m.dir EXCEPT ![<<t, d>>] = f]
  BY DEF Sound, Memories
<1>2. FrameOf(n) = FrameOf(m)
  BY <1>1 DEF FrameOf
<1>3. ASSUME NEW g \in Frames
      PROVE  Held(n, h, g) = Held(m, More(h, f), g) /\ Kernel(n, h, g) = Kernel(m, More(h, f), g)
  <2>1. Count(n.dir, g) + (IF m.dir[<<t, d>>] = g THEN 1 ELSE 0)
          = Count(m.dir, g) + (IF n.dir[<<t, d>>] = g THEN 1 ELSE 0)
    <3> DEFINE E == Tasks \X Tables
    <3>1. /\ IsFiniteSet(E) /\ DOMAIN n.dir = E /\ DOMAIN m.dir = E /\ <<t, d>> \in E
          /\ \A e \in E : e # <<t, d>> => n.dir[e] = m.dir[e]
      BY <1>1, MemoryAssumption, TablesFinite, FS_Product
    <3> HIDE DEF E
    <3> QED
      BY ONLY <3>1, CountChange
  <2>2. n.dir[<<t, d>>] = f /\ m.dir[<<t, d>>] # g
    BY <1>1 DEF NoFrame, Frames
  <2>3. More(h, f)[g] = IF g = f THEN h[g] + 1 ELSE h[g]
    BY DEF More, Hold
  <2>4. /\ Count(FrameOf(m), g) \in Nat /\ Count(m.dir, g) \in Nat /\ Count(m.task, g) \in Nat
        /\ Count(n.dir, g) \in Nat /\ h[g] \in Nat
    BY <1>1, CountsAre DEF Sound, Hold
  <2> QED
    BY <1>1, <1>2, <2>1, <2>2, <2>3, <2>4 DEF Held, Kernel
<1>4. Fits(n, h) /\ Apart(n, h)
  BY <1>1, <1>3 DEF Sound, Fits, Apart
<1>5. \A e \in Tasks \X Tables : m.dir[e] # NoFrame => n.dir[e] # NoFrame
  BY <1>1 DEF NoFrame, Frames
<1>6. \A u \in Tasks, p \in Pages : <<u, TableOf[p]>> \in Tasks \X Tables
  BY MemoryAssumption DEF Tables
<1>7. Tabled(n)
  BY <1>1, <1>5, <1>6 DEF Sound, Tabled, Present
<1> QED
  BY <1>1, <1>4, <1>7 DEF Sound, Alone, Present

\* A frame in hand becomes a task structure.
LEMMA TaskPut ==
    ASSUME NEW m, NEW h \in Hold, NEW f \in Frames, Sound(m, More(h, f)),
           NEW t \in Tasks, m.task[t] = NoFrame, NEW n, n = [m EXCEPT !.task[t] = f]
    PROVE  Sound(n, h)
<1>1. /\ n \in Memories /\ n.pte = m.pte /\ n.dir = m.dir /\ n.map = m.map
      /\ DOMAIN m.task = Tasks /\ n.task = [m.task EXCEPT ![t] = f]
  BY DEF Sound, Memories
<1>2. FrameOf(n) = FrameOf(m)
  BY <1>1 DEF FrameOf
<1>3. ASSUME NEW g \in Frames
      PROVE  Held(n, h, g) = Held(m, More(h, f), g) /\ Kernel(n, h, g) = Kernel(m, More(h, f), g)
  <2>1. Count(n.task, g) + (IF m.task[t] = g THEN 1 ELSE 0)
          = Count(m.task, g) + (IF n.task[t] = g THEN 1 ELSE 0)
    <3>1. /\ IsFiniteSet(Tasks) /\ DOMAIN n.task = Tasks /\ DOMAIN m.task = Tasks
          /\ \A d \in Tasks : d # t => n.task[d] = m.task[d]
      BY <1>1, MemoryAssumption
    <3> QED
      BY ONLY <3>1, t \in Tasks, CountChange
  <2>2. n.task[t] = f /\ m.task[t] # g
    BY <1>1 DEF NoFrame, Frames
  <2>3. More(h, f)[g] = IF g = f THEN h[g] + 1 ELSE h[g]
    BY DEF More, Hold
  <2>4. /\ Count(FrameOf(m), g) \in Nat /\ Count(m.dir, g) \in Nat /\ Count(m.task, g) \in Nat
        /\ Count(n.task, g) \in Nat /\ h[g] \in Nat
    BY <1>1, CountsAre DEF Sound, Hold
  <2> QED
    BY <1>1, <1>2, <2>1, <2>2, <2>3, <2>4 DEF Held, Kernel
<1>4. Fits(n, h) /\ Apart(n, h)
  BY <1>1, <1>3 DEF Sound, Fits, Apart
<1> QED
  BY <1>1, <1>4 DEF Sound, Alone, Tabled, Present

\* A task structure leaves task[]: its frame is in hand.
LEMMA TaskTaken ==
    ASSUME NEW m, NEW h \in Hold, Sound(m, h), NEW t \in Tasks, NEW f \in Frames,
           m.task[t] = f, NEW n, n = [m EXCEPT !.task[t] = NoFrame]
    PROVE  Sound(n, More(h, f))
<1>1. /\ n \in Memories /\ n.pte = m.pte /\ n.dir = m.dir /\ n.map = m.map
      /\ DOMAIN m.task = Tasks /\ n.task = [m.task EXCEPT ![t] = NoFrame]
  BY DEF Sound, Memories
<1>2. FrameOf(n) = FrameOf(m)
  BY <1>1 DEF FrameOf
<1>3. ASSUME NEW g \in Frames
      PROVE  Held(n, More(h, f), g) = Held(m, h, g) /\ Kernel(n, More(h, f), g) = Kernel(m, h, g)
  <2>1. Count(n.task, g) + (IF m.task[t] = g THEN 1 ELSE 0)
          = Count(m.task, g) + (IF n.task[t] = g THEN 1 ELSE 0)
    <3>1. /\ IsFiniteSet(Tasks) /\ DOMAIN n.task = Tasks /\ DOMAIN m.task = Tasks
          /\ \A d \in Tasks : d # t => n.task[d] = m.task[d]
      BY <1>1, MemoryAssumption
    <3> QED
      BY ONLY <3>1, t \in Tasks, CountChange
  <2>2. n.task[t] # g
    BY <1>1 DEF NoFrame, Frames
  <2>3. More(h, f)[g] = IF g = f THEN h[g] + 1 ELSE h[g]
    BY DEF More, Hold
  <2>4. /\ Count(FrameOf(m), g) \in Nat /\ Count(m.dir, g) \in Nat /\ Count(m.task, g) \in Nat
        /\ Count(n.task, g) \in Nat /\ h[g] \in Nat
    BY <1>1, CountsAre DEF Sound, Hold
  <2> QED
    BY <1>1, <1>2, <2>1, <2>2, <2>3, <2>4 DEF Held, Kernel
<1>4. Fits(n, More(h, f)) /\ Apart(n, More(h, f))
  BY <1>1, <1>3 DEF Sound, Fits, Apart
<1>5. More(h, f) \in Hold
  BY DEF More, Hold
<1> QED
  BY <1>1, <1>4, <1>5 DEF Sound, Alone, Tabled, Present

-----------------------------------------------------------------------------
\* In n the entry of t for p is e, and all the rest is as in m.
EntryIs(n, m, t, p, e) ==
    /\ n \in Memories /\ n.dir = m.dir /\ n.task = m.task /\ n.map = m.map
    /\ n.data = m.data /\ n.halt = m.halt
    /\ \A u \in Tasks, q \in Pages :
          n.pte[u][q] = IF u = t /\ q = p THEN e ELSE m.pte[u][q]
    /\ \A f \in Frames :
          Count(FrameOf(n), f) + (IF m.pte[t][p].frame = f THEN 1 ELSE 0)
            = Count(FrameOf(m), f) + (IF e.frame = f THEN 1 ELSE 0)

\* One entry of a page table changes.
LEMMA EntryChange ==
    ASSUME NEW m \in Memories, NEW t \in Tasks, NEW p \in Pages, NEW e \in PteType,
           NEW n, n = [m EXCEPT !.pte[t][p] = e]
    PROVE  EntryIs(n, m, t, p, e)
<1>1. /\ n.dir = m.dir /\ n.task = m.task /\ n.map = m.map
      /\ n.data = m.data /\ n.halt = m.halt
      /\ n.pte = [m.pte EXCEPT ![t] = [@ EXCEPT ![p] = e]]
  BY DEF Memories
<1>2. n.pte \in [Tasks -> [Pages -> PteType]]
  BY <1>1 DEF Memories, PteType
<1>3. n \in Memories
  BY <1>1, <1>2 DEF Memories, PteType
<1>4. \A u \in Tasks, q \in Pages : n.pte[u][q] = IF u = t /\ q = p THEN e ELSE m.pte[u][q]
  BY <1>1 DEF Memories
<1>5. ASSUME NEW f \in Frames
      PROVE  Count(FrameOf(n), f) + (IF m.pte[t][p].frame = f THEN 1 ELSE 0)
                = Count(FrameOf(m), f) + (IF e.frame = f THEN 1 ELSE 0)
  <2> DEFINE D == Tasks \X Pages
             x == <<t, p>>
  <2>1. IsFiniteSet(D) /\ x \in D
    BY MemoryAssumption, FS_Product
  <2>2. DOMAIN FrameOf(n) = D /\ DOMAIN FrameOf(m) = D
    BY DEF FrameOf
  <2>3. FrameOf(m)[x] = m.pte[t][p].frame /\ FrameOf(n)[x] = e.frame
    BY <1>4 DEF FrameOf
  <2>4. ASSUME NEW d \in D, d # x PROVE FrameOf(n)[d] = FrameOf(m)[d]
    <3>1. d[1] \in Tasks /\ d[2] \in Pages /\ ~(d[1] = t /\ d[2] = p)
      BY <2>4
    <3>2. n.pte[d[1]][d[2]] = m.pte[d[1]][d[2]]
      BY <1>4, <3>1
    <3> QED
      BY <3>2 DEF FrameOf
  <2> HIDE DEF D, x
  <2>5. Count(FrameOf(n), f) + (IF FrameOf(m)[x] = f THEN 1 ELSE 0)
          = Count(FrameOf(m), f) + (IF FrameOf(n)[x] = f THEN 1 ELSE 0)
    BY <2>1, <2>2, <2>4, CountChange
  <2> QED
    BY <2>3, <2>5
<1> QED
  BY <1>1, <1>3, <1>4, <1>5 DEF EntryIs

\* A page in hand is put in a table, whatever was in its place.
LEMMA EntryPut ==
    ASSUME NEW m, NEW h \in Hold, NEW f \in Frames, Sound(m, More(h, f)),
           NEW t \in Tasks, NEW p \in Pages, m.dir[<<t, TableOf[p]>>] # NoFrame,
           NEW n, n = [m EXCEPT !.pte[t][p] = [frame |-> f, rw |-> TRUE, dirty |-> FALSE]]
    PROVE  Sound(n, h)
<1> DEFINE e == [frame |-> f, rw |-> TRUE, dirty |-> FALSE]
<1>1. /\ m \in Memories /\ e \in PteType /\ n = [m EXCEPT !.pte[t][p] = e]
      /\ e.frame = f /\ e.frame # NoFrame
  BY DEF Sound, PteType, NoFrame, Frames
<1> HIDE DEF e
<1>2. EntryIs(n, m, t, p, e)
  BY <1>1, EntryChange
<1>3. /\ n \in Memories /\ n.dir = m.dir /\ n.task = m.task /\ n.map = m.map
      /\ \A u \in Tasks, q \in Pages :
            n.pte[u][q] = IF u = t /\ q = p THEN e ELSE m.pte[u][q]
      /\ \A g \in Frames :
            Count(FrameOf(n), g) + (IF m.pte[t][p].frame = g THEN 1 ELSE 0)
               = Count(FrameOf(m), g) + (IF e.frame = g THEN 1 ELSE 0)
  BY <1>2 DEF EntryIs
<1>4. \A u \in Tasks, q \in Pages : m.pte[u][q].frame # f
  <2>1. More(h, f)[f] >= 1
    BY DEF More, Hold
  <2> QED
    BY <2>1, InHand
<1>5. ASSUME NEW g \in Frames
      PROVE  /\ Held(n, h, g) <= n.map[g]
             /\ Kernel(n, h, g) >= 1 => Held(n, h, g) = 1
  <2>1. More(h, f)[g] = IF g = f THEN h[g] + 1 ELSE h[g]
    BY DEF More, Hold
  <2>2. Count(FrameOf(n), g) \in Nat /\ h[g] \in Nat
    BY <1>3, CountsAre DEF Hold
  <2>3. /\ Count(FrameOf(n), g) + (IF m.pte[t][p].frame = g THEN 1 ELSE 0)
             = Count(FrameOf(m), g) + (IF g = f THEN 1 ELSE 0)
        /\ n.dir = m.dir /\ n.task = m.task /\ n.map = m.map
    BY <1>1, <1>3
  <2>4. g = f => m.pte[t][p].frame # g
    BY <1>4
  <2> QED
    BY <2>1, <2>2, <2>3, <2>4, Numbers DEF Held, Kernel
<1>6. Alone(n)
  <2> SUFFICES ASSUME NEW u \in Tasks, NEW q \in Pages, NEW v \in Tasks, NEW r \in Pages,
                      n.pte[u][q].rw, Present(n, u, q),
                      n.pte[v][r].frame = n.pte[u][q].frame
               PROVE  v = u /\ r = q
    BY DEF Alone
  <2>1. CASE (u = t /\ q = p) \/ (v = t /\ r = p)
    BY <1>1, <1>3, <1>4, <2>1
  <2>2. CASE ~(u = t /\ q = p) /\ ~(v = t /\ r = p)
    BY <1>3, <2>2 DEF Sound, Alone, Present
  <2> QED
    BY <2>1, <2>2
<1>7. Tabled(n)
  BY <1>3 DEF Sound, Tabled, Present
<1> QED
  BY <1>3, <1>5, <1>6, <1>7 DEF Sound, Fits, Apart

-----------------------------------------------------------------------------
\* What get_free_page() may do to the tables of m: it drops pages.
Reclaimed(n, m) ==
    /\ n.dir = m.dir /\ n.task = m.task /\ n.halt = m.halt
    /\ \A t \in Tasks, p \in Pages : n.pte[t][p] = m.pte[t][p] \/ n.pte[t][p] = Absent

\* Entries of a table become empty, and the frames they had are counted down:
\* free_page() does not panic, and memory stays sound.
LEMMA EntriesGone ==
    ASSUME NEW m, NEW h, Sound(m, h), NEW D \in SUBSET (Tasks \X Pages),
           NEW n \in Memories, n.dir = m.dir, n.task = m.task,
           \A t \in Tasks, p \in Pages :
              n.pte[t][p] = IF <<t, p>> \in D THEN Absent ELSE m.pte[t][p],
           \A f \in Frames : n.map[f] = m.map[f] - Among(D, FrameOf(m), f)
    PROVE  Sound(n, h)
<1>1. ASSUME NEW f \in Frames
      PROVE  /\ Held(n, h, f) <= n.map[f]
             /\ Kernel(n, h, f) >= 1 => Held(n, h, f) = 1
  <2> DEFINE E == Tasks \X Pages
             c == Among(D, FrameOf(m), f)
  <2>1. IsFiniteSet(E) /\ D \in SUBSET E
    BY MemoryAssumption, FS_Product
  <2>2. DOMAIN FrameOf(n) = E /\ DOMAIN FrameOf(m) = E
    BY DEF FrameOf
  <2>3. ASSUME NEW d \in E
        PROVE  FrameOf(n)[d] = IF d \in D THEN NoFrame ELSE FrameOf(m)[d]
    <3>1. d[1] \in Tasks /\ d[2] \in Pages /\ d = <<d[1], d[2]>>
      OBVIOUS
    <3>2. FrameOf(n)[d] = n.pte[d[1]][d[2]].frame /\ FrameOf(m)[d] = m.pte[d[1]][d[2]].frame
      BY DEF FrameOf
    <3> QED
      BY <3>1, <3>2 DEF Absent
  <2>4. n.map[f] = m.map[f] - c
    OBVIOUS
  <2>5. f # NoFrame
    BY DEF NoFrame, Frames
  <2> HIDE DEF E
  <2>6. Count(FrameOf(n), f) + c = Count(FrameOf(m), f) /\ c \in Nat
    <3> DEFINE g == FrameOf(m)
               k == FrameOf(n)
    <3>1. /\ \A d \in E \ D : k[d] = g[d]
          /\ \A d \in D : k[d] # f
      BY <2>1, <2>3, <2>5
    <3>2. DOMAIN g = E /\ DOMAIN k = E
      BY <2>2
    <3> HIDE DEF g, k
    <3>3. Count(k, f) + Among(D, g, f) = Count(g, f) /\ Among(D, g, f) \in Nat
      BY <2>1, <3>1, <3>2, CountLess
    <3> QED
      BY <3>3 DEF g, k
  <2> HIDE DEF c
  <2>7. Count(FrameOf(n), f) \in Nat
    BY CountsAre
  <2>8. /\ Count(m.dir, f) \in Nat /\ Count(m.task, f) \in Nat /\ h[f] \in Nat
        /\ Held(m, h, f) <= m.map[f] /\ m.map[f] \in Nat
        /\ Kernel(m, h, f) >= 1 => Held(m, h, f) = 1
    BY Numbers
  <2>9. Kernel(n, h, f) = Kernel(m, h, f)
    BY DEF Kernel
  <2> QED
    BY <2>4, <2>6, <2>7, <2>8, <2>9 DEF Held, Kernel
<1>2. \A t \in Tasks, p \in Pages :
         Present(n, t, p) => Present(m, t, p) /\ n.pte[t][p] = m.pte[t][p]
  <2> TAKE t \in Tasks, p \in Pages
  <2>1. n.pte[t][p] = Absent \/ n.pte[t][p] = m.pte[t][p]
    OBVIOUS
  <2>2. Absent.frame = NoFrame
    BY DEF Absent
  <2> QED
    BY <2>1, <2>2 DEF Present
<1>3. Alone(n) /\ Tabled(n)
  <2>1. Alone(n)
    BY <1>2, SMTT(30) DEF Sound, Alone, Present
  <2>2. Tabled(n)
    BY <1>2 DEF Sound, Tabled
  <2> QED
    BY <2>1, <2>2
<1> QED
  BY <1>1, <1>3 DEF Sound, Fits, Apart

\* A count of entries never exceeds mem_map.
LEMMA EntriesFit ==
    ASSUME NEW m, NEW h, Sound(m, h), NEW D \in SUBSET (Tasks \X Pages), NEW f \in Frames
    PROVE  /\ Among(D, FrameOf(m), f) \in Nat /\ Kernel(m, h, f) \in Nat
           /\ Among(D, FrameOf(m), f) + Kernel(m, h, f) <= m.map[f]
<1> DEFINE E == Tasks \X Pages
           C == {d \in D : FrameOf(m)[d] = f}
           G == {d \in E : FrameOf(m)[d] = f}
<1>1. IsFiniteSet(E)
  BY MemoryAssumption, FS_Product
<1>2. G \in SUBSET E /\ C \in SUBSET G
  OBVIOUS
<1>3. Count(FrameOf(m), f) = Cardinality(G) /\ Among(D, FrameOf(m), f) = Cardinality(C)
  BY DEF Count, Among, FrameOf
<1> HIDE DEF C, G, E
<1>4. /\ IsFiniteSet(G) /\ IsFiniteSet(C)
      /\ Cardinality(C) \in Nat /\ Cardinality(C) <= Cardinality(G)
  BY <1>1, <1>2, FS_Subset, FS_CardinalityType
<1>5. Cardinality(C) + Kernel(m, h, f) <= m.map[f] /\ Kernel(m, h, f) \in Nat
  BY <1>3, <1>4, Numbers DEF Held, Kernel
<1> QED
  BY <1>3, <1>4, <1>5

\* try_to_swap_out() of any entries.
LEMMA Dropped ==
    ASSUME NEW m, NEW h, Sound(m, h), NEW D \in SUBSET Droppable(m), NEW n, n = Drop(m, D)
    PROVE  Sound(n, h) /\ Reclaimed(n, m)
<1> DEFINE c(f) == Among(D, FrameOf(m), f)
           P == [t \in Tasks |-> [p \in Pages |-> IF <<t, p>> \in D THEN Absent
                                                  ELSE m.pte[t][p]]]
           M == [f \in Frames |-> m.map[f] - c(f)]
<1>1. D \in SUBSET (Tasks \X Pages) /\ m \in Memories
  BY DEF Droppable, Sound
<1>2. \A f \in Frames : /\ c(f) \in Nat /\ c(f) <= m.map[f]
                        /\ m.map[f] \in Nat /\ m.map[f] < COUNTS
  <2> TAKE f \in Frames
  <2> HIDE DEF c
  <2>1. /\ c(f) \in Nat /\ c(f) + Kernel(m, h, f) <= m.map[f] /\ Kernel(m, h, f) \in Nat
    BY <1>1, EntriesFit DEF c
  <2> QED
    BY <2>1, Numbers
<1>3. n = [[m EXCEPT !.map = M] EXCEPT !.pte = P]
  <2>1. [f \in Frames |-> Drops(m, D, f)] = [f \in Frames |-> c(f)]
    BY <1>1 DEF Drops, Among, FrameOf
  <2> HIDE DEF c
  <2>2. Release(m, [f \in Frames |-> c(f)]) = [m EXCEPT !.map = M]
    BY <1>2 DEF Release
  <2> QED
    BY <2>1, <2>2 DEF Drop
<1> HIDE DEF c
<1>4. P \in [Tasks -> [Pages -> PteType]] /\ M \in [Frames -> 0 .. COUNTS - 1]
  <2>1. Absent \in PteType
    BY DEF Absent, PteType
  <2>2. \A t \in Tasks, p \in Pages : m.pte[t][p] \in PteType
    BY <1>1 DEF Memories, PteType
  <2>3. M \in [Frames -> 0 .. COUNTS - 1]
    BY <1>2, MemoryAssumption
  <2> QED
    BY <2>1, <2>2, <2>3
<1>5. /\ n \in Memories /\ n.dir = m.dir /\ n.task = m.task /\ n.halt = m.halt
      /\ n.pte = P /\ n.map = M
  <2> HIDE DEF P, M
  <2> QED
    BY <1>1, <1>3, <1>4 DEF Memories, PteType
<1>6. Sound(n, h)
  <2>1. \A f \in Frames : n.map[f] = m.map[f] - Among(D, FrameOf(m), f)
    BY <1>5 DEF c
  <2>2. \A t \in Tasks, p \in Pages :
           n.pte[t][p] = IF <<t, p>> \in D THEN Absent ELSE m.pte[t][p]
    BY <1>5
  <2>3. n \in Memories /\ n.dir = m.dir /\ n.task = m.task
    BY <1>5
  <2> QED
    BY <1>1, <2>1, <2>2, <2>3, EntriesGone
<1>7. Reclaimed(n, m)
  BY <1>5 DEF Reclaimed
<1> QED
  BY <1>6, <1>7

\* A free frame is taken in hand.
LEMMA Taken ==
    ASSUME NEW m, NEW h, Sound(m, h), FreeFrames(m) # {}, NEW r, r = Take(m)
    PROVE  /\ r.page \in Frames /\ r.page # NoFrame /\ Reclaimed(r.mem, m)
           /\ Sound(r.mem, More(h, r.page)) /\ h[r.page] = 0
<1> DEFINE f == CHOOSE f \in FreeFrames(m) : \A g \in FreeFrames(m) : g <= f
           n == [m EXCEPT !.map[f] = 1, !.data[f] = "zero"]
<1>1. f \in FreeFrames(m)
  <2>1. FreeFrames(m) \in SUBSET (1..NFRAMES) /\ NFRAMES \in Nat
    BY MemoryAssumption DEF FreeFrames, Frames
  <2> QED
    BY <2>1, GreatestElement
<1>2. r.page = f /\ r.mem = n
  BY DEF Take
<1> HIDE DEF f
<1>3. m \in Memories /\ f \in Frames /\ m.map[f] = 0
  BY <1>1 DEF Sound, FreeFrames
<1>4. /\ n.dir = m.dir /\ n.task = m.task /\ n.halt = m.halt /\ n.pte = m.pte
      /\ n.map = [m.map EXCEPT ![f] = 1] /\ n.data = [m.data EXCEPT ![f] = "zero"]
  BY <1>3 DEF Memories
<1>5. n.map \in [Frames -> 0 .. COUNTS - 1] /\ n.data \in [Frames -> Contents]
  <2>1. /\ m.map \in [Frames -> 0 .. COUNTS - 1] /\ m.data \in [Frames -> Contents]
        /\ "zero" \in Contents /\ 1 \in 0 .. COUNTS - 1
    BY <1>3, MemoryAssumption DEF Memories, Contents
  <2>2. f \in Frames
    BY <1>3
  <2> HIDE DEF n
  <2>3. n.map \in [Frames -> 0 .. COUNTS - 1]
    BY <1>4, <2>1, <2>2
  <2>4. n.data \in [Frames -> Contents]
    BY <1>4, <2>1, <2>2
  <2> QED
    BY <2>3, <2>4
<1>6. n \in Memories
  BY <1>3, <1>5 DEF Memories
<1> HIDE DEF n
<1>7. Held(m, h, f) = 0 /\ Kernel(m, h, f) = 0 /\ h[f] = 0
  BY <1>3, Numbers DEF Held, Kernel
<1>8. ASSUME NEW g \in Frames
      PROVE  /\ Held(n, More(h, f), g) <= n.map[g]
             /\ Kernel(n, More(h, f), g) >= 1 => Held(n, More(h, f), g) = 1
  <2>1. More(h, f)[g] = IF g = f THEN h[g] + 1 ELSE h[g]
    BY DEF More, Hold, Sound
  <2>2. FrameOf(n) = FrameOf(m)
    BY <1>4 DEF FrameOf
  <2>3. n.map[g] = IF g = f THEN 1 ELSE m.map[g]
    BY <1>3, <1>4 DEF Memories
  <2>4. CASE g = f
    BY <1>4, <1>7, <2>1, <2>2, <2>3, <2>4, Numbers DEF Held, Kernel
  <2>5. CASE g # f
    BY <1>4, <2>1, <2>2, <2>3, <2>5, Numbers DEF Held, Kernel
  <2> QED
    BY <2>4, <2>5
<1>9. Alone(n) /\ Tabled(n)
  BY <1>4 DEF Sound, Alone, Tabled, Present
<1>10. More(h, f) \in Hold
  <2>1. h \in [Frames -> Nat]
    BY DEF Sound, Hold
  <2> QED
    BY <1>3, <2>1 DEF More, Hold
<1>11. Sound(n, More(h, f))
  BY <1>6, <1>8, <1>9, <1>10 DEF Sound, Fits, Apart
<1>12. Reclaimed(n, m)
  BY <1>4 DEF Reclaimed
<1> QED
  BY <1>2, <1>3, <1>7, <1>11, <1>12 DEF NoFrame, Frames

\* get_free_page() keeps memory sound: it hands out a frame that nobody has.
LEMMA GotPage ==
    ASSUME NEW m, NEW h, Sound(m, h), NEW r \in get_free_page(m)
    PROVE  /\ Reclaimed(r.mem, m)
           /\ r.page = NoFrame => Sound(r.mem, h)
           /\ r.page # NoFrame =>
                 r.page \in Frames /\ Sound(r.mem, More(h, r.page)) /\ h[r.page] = 0
<1>1. CASE FreeFrames(m) # {}
  <2>1. r = Take(m)
    BY <1>1 DEF get_free_page
  <2> QED
    BY <1>1, <2>1, Taken
<1>2. CASE FreeFrames(m) = {}
  <2>1. PICK D \in SUBSET Droppable(m) :
           \/ r = Take(Drop(m, D)) /\ Cardinality(FreeFrames(Drop(m, D))) = 1
           \/ r = [mem |-> Drop(m, D), page |-> NoFrame]
    BY <1>2 DEF get_free_page
  <2> DEFINE n == Drop(m, D)
  <2>2. Sound(n, h) /\ Reclaimed(n, m)
    BY Dropped
  <2>3. CASE r = Take(n) /\ Cardinality(FreeFrames(n)) = 1
    <3>1. FreeFrames(n) # {}
      BY <2>3, FS_EmptySet
    <3> HIDE DEF n
    <3>2. /\ r.page \in Frames /\ r.page # NoFrame /\ Reclaimed(r.mem, n)
          /\ Sound(r.mem, More(h, r.page)) /\ h[r.page] = 0
      BY <2>2, <2>3, <3>1, Taken
    <3>3. Reclaimed(r.mem, m)
      BY <2>2, <3>2 DEF Reclaimed
    <3> QED
      BY <3>2, <3>3
  <2>4. CASE r = [mem |-> n, page |-> NoFrame]
    BY <2>2, <2>4
  <2> QED
    BY <2>1, <2>3, <2>4
<1> QED
  BY <1>1, <1>2

-----------------------------------------------------------------------------
\* The entries of t in the pages P that have the frame f; the page tables that are f.
Row(m, t, P, f) == Cardinality({p \in P : m.pte[t][p].frame = f})
DirRow(m, t, f) == Cardinality({d \in Tables : m.dir[<<t, d>>] = f})

\* The values in a part of a row, counted as places or as columns, are as many.
Columns(t, P, g, f) == {p \in P : g[<<t, p>>] = f}
LEMMA RowAmong ==
    ASSUME NEW t, NEW P, IsFiniteSet(P), NEW g, NEW f
    PROVE  Among({t} \X P, g, f) = Cardinality(Columns(t, P, g, f))
<1> DEFINE R == Columns(t, P, g, f)
<1>1. {d \in {t} \X P : g[d] = f} = {t} \X R
  BY DEF Columns
<1>2. IsFiniteSet(R)
  BY FS_Subset DEF Columns
<1> HIDE DEF R
<1>3. Cardinality({t} \X R) = Cardinality(R)
  BY <1>2, RowCount
<1> QED
  BY <1>1, <1>3 DEF Among, R

\* Entries with a frame, counted as places or as pages, are as many.
LEMMA RowIs ==
    ASSUME NEW m, NEW t \in Tasks, NEW P \in SUBSET Pages, NEW f
    PROVE  Among({t} \X P, FrameOf(m), f) = Row(m, t, P, f)
<1>1. IsFiniteSet(P)
  BY MemoryAssumption, FS_Subset
<1>2. \A p \in P : FrameOf(m)[<<t, p>>] = m.pte[t][p].frame
  BY DEF FrameOf
<1>3. Columns(t, P, FrameOf(m), f) = {p \in P : m.pte[t][p].frame = f}
  BY <1>2 DEF Columns
<1>4. Among({t} \X P, FrameOf(m), f) = Cardinality(Columns(t, P, FrameOf(m), f))
  BY <1>1, RowAmong
<1> QED
  BY <1>3, <1>4 DEF Row

\* Such a count never exceeds mem_map, and it is zero if no entry has the frame.
LEMMA RowFits ==
    ASSUME NEW m, NEW h, Sound(m, h), NEW t \in Tasks, NEW P \in SUBSET Pages, NEW f \in Frames
    PROVE  /\ Row(m, t, P, f) \in Nat /\ Row(m, t, P, f) + Kernel(m, h, f) <= m.map[f]
           /\ Kernel(m, h, f) \in Nat
           /\ Count(FrameOf(m), f) = 0 => Row(m, t, P, f) = 0
<1> DEFINE X == {t} \X P
<1>1. X \in SUBSET (Tasks \X Pages)
  OBVIOUS
<1> HIDE DEF X
<1>2. /\ Among(X, FrameOf(m), f) \in Nat /\ Kernel(m, h, f) \in Nat
      /\ Among(X, FrameOf(m), f) + Kernel(m, h, f) <= m.map[f]
  BY <1>1, EntriesFit
<1>3. Among(X, FrameOf(m), f) = Row(m, t, P, f)
  BY RowIs DEF X
<1>4. ASSUME Count(FrameOf(m), f) = 0 PROVE Row(m, t, P, f) = 0
  <2>1. \A p \in Pages : m.pte[t][p].frame # f
    BY <1>4, CountsAre DEF Sound
  <2>2. {p \in P : m.pte[t][p].frame = f} = {}
    BY <2>1
  <2> QED
    BY <2>2, FS_EmptySet DEF Row
<1> QED
  BY <1>2, <1>3, <1>4

\* The page directory of t without its page tables.
NoTables(m, t) == [e \in Tasks \X Tables |-> IF e[1] = t THEN NoFrame ELSE m.dir[e]]

\* The page tables of t that are f are among all that are.
LEMMA DirRowFits ==
    ASSUME NEW m \in Memories, NEW t \in Tasks, NEW f \in Frames
    PROVE  /\ Count(NoTables(m, t), f) + DirRow(m, t, f) = Count(m.dir, f)
           /\ DirRow(m, t, f) \in Nat /\ Count(NoTables(m, t), f) \in Nat
<1> DEFINE E == Tasks \X Tables
           X == {t} \X Tables
           g == m.dir
           k == NoTables(m, t)
<1>1. IsFiniteSet(E) /\ X \in SUBSET E /\ DOMAIN g = E /\ DOMAIN k = E
  BY MemoryAssumption, TablesFinite, FS_Product DEF Memories, NoTables
<1>2. /\ \A e \in E \ X : k[e] = g[e]
      /\ \A e \in X : k[e] # f
  <2>1. \A e \in E : k[e] = IF e[1] = t THEN NoFrame ELSE g[e]
    BY DEF NoTables
  <2>2. \A e \in E : e \in X <=> e[1] = t
    OBVIOUS
  <2>3. f # NoFrame
    BY DEF NoFrame, Frames
  <2> HIDE DEF E, X, g, k
  <2> QED
    BY <1>1, <2>1, <2>2, <2>3
<1>3. Among(X, g, f) = DirRow(m, t, f)
  <2>1. IsFiniteSet(Tables)
    BY TablesFinite
  <2> HIDE DEF g
  <2>2. Among(X, g, f) = Cardinality(Columns(t, Tables, g, f))
    BY <2>1, RowAmong
  <2> QED
    BY <2>2 DEF DirRow, Columns, g
<1>4. Count(k, f) \in Nat
  <2> HIDE DEF E, X, g, k
  <2> QED
    BY <1>1, CountNat
<1> HIDE DEF E, X, g, k
<1>5. Count(k, f) + Among(X, g, f) = Count(g, f) /\ Among(X, g, f) \in Nat
  BY <1>1, <1>2, CountLess
<1> QED
  BY <1>3, <1>4, <1>5 DEF g, k

\* Empty page tables are given up.
LEMMA DirGone ==
    ASSUME NEW m, NEW h, Sound(m, h), NEW t \in Tasks, \A p \in Pages : ~Present(m, t, p),
           NEW n \in Memories, n.pte = m.pte, n.task = m.task, n.dir = NoTables(m, t),
           \A f \in Frames : n.map[f] = m.map[f] - DirRow(m, t, f)
    PROVE  Sound(n, h)
<1>1. m \in Memories
  BY DEF Sound
<1>2. FrameOf(n) = FrameOf(m)
  BY DEF FrameOf
<1>3. ASSUME NEW f \in Frames
      PROVE  /\ Held(n, h, f) <= n.map[f]
             /\ Kernel(n, h, f) >= 1 => Held(n, h, f) = 1
  <2>1. /\ Count(n.dir, f) + DirRow(m, t, f) = Count(m.dir, f)
        /\ DirRow(m, t, f) \in Nat /\ Count(n.dir, f) \in Nat
    BY <1>1, DirRowFits
  <2> QED
    BY <1>2, <2>1, Numbers DEF Held, Kernel
<1>4. Tabled(n)
  <2> SUFFICES ASSUME NEW u \in Tasks, NEW p \in Pages, Present(n, u, p)
               PROVE  n.dir[<<u, TableOf[p]>>] # NoFrame
    BY DEF Tabled
  <2>1. Present(m, u, p) /\ u # t /\ TableOf[p] \in Tables
    BY MemoryAssumption DEF Present, Tables
  <2>2. n.dir[<<u, TableOf[p]>>] = m.dir[<<u, TableOf[p]>>]
    BY <2>1 DEF NoTables
  <2> QED
    BY <2>1, <2>2 DEF Sound, Tabled
<1> QED
  BY <1>3, <1>4 DEF Sound, Fits, Apart, Alone, Present

\* free_page_tables(): no panic, and the task has no page left.
LEMMA TablesFreed ==
    ASSUME NEW m, NEW h, Sound(m, h), NEW t \in Tasks, NEW n, n = free_page_tables(m, t)
    PROVE  /\ Sound(n, h) /\ n.halt = m.halt /\ n.task = m.task
           /\ n.dir = NoTables(m, t)
           /\ \A u \in Tasks, p \in Pages :
                 n.pte[u][p] = IF u = t THEN Absent ELSE m.pte[u][p]
<1> DEFINE c == OfTables(m, t)
           M == [f \in Frames |-> m.map[f] - c[f]]
           K == [f \in Frames |-> m.map[f] - Row(m, t, Pages, f)]
           P == [m.pte EXCEPT ![t] = [p \in Pages |-> Absent]]
           d == NoTables(m, t)
           k == [m EXCEPT !.map = K, !.pte = P]
<1>1. m \in Memories
  BY DEF Sound
<1>2. \A f \in Frames : /\ c[f] = Row(m, t, Pages, f) + DirRow(m, t, f)
                        /\ c[f] <= m.map[f] /\ c[f] \in Nat /\ Row(m, t, Pages, f) \in Nat
                        /\ DirRow(m, t, f) \in Nat
                        /\ m.map[f] \in Nat /\ m.map[f] < COUNTS
                        /\ Row(m, t, Pages, f) <= m.map[f]
  <2> TAKE f \in Frames
  <2>0. c[f] = Row(m, t, Pages, f) + DirRow(m, t, f)
    BY DEF OfTables, InEntries, Row, DirRow
  <2>1. /\ Count(NoTables(m, t), f) + DirRow(m, t, f) = Count(m.dir, f)
        /\ DirRow(m, t, f) \in Nat /\ Count(NoTables(m, t), f) \in Nat
    BY <1>1, DirRowFits
  <2>2. /\ Row(m, t, Pages, f) \in Nat /\ Row(m, t, Pages, f) + Kernel(m, h, f) <= m.map[f]
        /\ Kernel(m, h, f) \in Nat
    BY RowFits
  <2>3. DirRow(m, t, f) <= Kernel(m, h, f)
    BY <2>1, Numbers DEF Kernel
  <2> HIDE DEF c
  <2> QED
    BY <2>0, <2>1, <2>2, <2>3, Numbers
<1>3. n = [[m EXCEPT !.map = M] EXCEPT !.dir = d, !.pte[t] = [p \in Pages |-> Absent]]
  <2>1. Release(m, c) = [m EXCEPT !.map = M]
    <3> HIDE DEF c
    <3> QED
      BY <1>2 DEF Release
  <2> HIDE DEF M
  <2> QED
    BY <2>1 DEF free_page_tables, NoTables
<1>4. M \in [Frames -> 0 .. COUNTS - 1] /\ K \in [Frames -> 0 .. COUNTS - 1]
  <2> HIDE DEF c
  <2> QED
    BY <1>2, MemoryAssumption
<1>5. /\ P \in [Tasks -> [Pages -> PteType]]
      /\ \A u \in Tasks, p \in Pages : P[u][p] = IF u = t THEN Absent ELSE m.pte[u][p]
  <2>1. Absent \in PteType
    BY DEF Absent, PteType
  <2>2. m.pte \in [Tasks -> [Pages -> PteType]]
    BY <1>1 DEF Memories, PteType
  <2> QED
    BY <2>1, <2>2
<1>6. d \in [Tasks \X Tables -> Frames \cup {NoFrame}]
  BY <1>1 DEF Memories, NoTables
<1>7. /\ n \in Memories /\ n.map = M /\ n.pte = P /\ n.dir = d
      /\ n.task = m.task /\ n.halt = m.halt
  <2>1. /\ n.map = M /\ n.pte = P /\ n.dir = d /\ n.task = m.task /\ n.halt = m.halt
        /\ n = [m EXCEPT !.map = M, !.pte = P, !.dir = d]
    <3> HIDE DEF M, d
    <3> QED
      BY <1>1, <1>3 DEF Memories
  <2> HIDE DEF M, P, d
  <2>2. n \in Memories
    BY <1>1, <1>4, <1>5, <1>6, <2>1 DEF Memories, PteType
  <2> QED
    BY <2>1, <2>2
<1>8. /\ k \in Memories /\ k.map = K /\ k.pte = P /\ k.dir = m.dir /\ k.task = m.task
  <2> HIDE DEF K, P
  <2> QED
    BY <1>1, <1>4, <1>5 DEF Memories, PteType
<1> HIDE DEF k
<1>9. Sound(k, h)
  <2> DEFINE D == {t} \X Pages
  <2>1. D \in SUBSET (Tasks \X Pages)
    OBVIOUS
  <2>2. ASSUME NEW u \in Tasks, NEW p \in Pages
        PROVE  k.pte[u][p] = IF <<u, p>> \in D THEN Absent ELSE m.pte[u][p]
    BY <1>5, <1>8
  <2>3. \A f \in Frames : k.map[f] = m.map[f] - Among(D, FrameOf(m), f)
    <3> TAKE f \in Frames
    <3>1. Among(D, FrameOf(m), f) = Row(m, t, Pages, f)
      BY RowIs
    <3> QED
      BY <1>8, <3>1
  <2> HIDE DEF D
  <2> QED
    BY <1>8, <2>1, <2>2, <2>3, EntriesGone
<1>10. Sound(n, h)
  <2>1. \A p \in Pages : ~Present(k, t, p)
    BY <1>5, <1>8 DEF Present, Absent
  <2>2. \A f \in Frames : n.map[f] = k.map[f] - DirRow(k, t, f)
    <3> TAKE f \in Frames
    <3>1. n.map[f] = m.map[f] - c[f] /\ k.map[f] = m.map[f] - Row(m, t, Pages, f)
      BY <1>7, <1>8
    <3>2. DirRow(k, t, f) = DirRow(m, t, f)
      BY <1>8 DEF DirRow
    <3>3. /\ c[f] = Row(m, t, Pages, f) + DirRow(m, t, f) /\ DirRow(m, t, f) \in Nat
          /\ c[f] \in Nat /\ Row(m, t, Pages, f) \in Nat /\ m.map[f] \in Nat
      BY <1>2
    <3> HIDE DEF c
    <3> QED
      BY <3>1, <3>2, <3>3
  <2>3. n.dir = NoTables(k, t) /\ n.pte = k.pte /\ n.task = k.task
    BY <1>7, <1>8 DEF NoTables
  <2> QED
    BY <1>7, <1>9, <2>1, <2>2, <2>3, DirGone
<1> QED
  BY <1>5, <1>7, <1>10

-----------------------------------------------------------------------------
\* One more reference in a byte that does not wrap is one more.
LEMMA Referred ==
    ASSUME NEW m \in Memories, NEW n, \A f \in Frames : n[f] \in Nat, ~Wraps(m, n)
    PROVE  LET M == [f \in Frames |-> (m.map[f] + n[f]) % COUNTS]
           IN  /\ M \in [Frames -> 0 .. COUNTS - 1]
               /\ \A f \in Frames : M[f] = m.map[f] + n[f]
<1>1. ASSUME NEW f \in Frames
      PROVE  /\ (m.map[f] + n[f]) % COUNTS = m.map[f] + n[f]
             /\ m.map[f] + n[f] \in 0 .. COUNTS - 1
  <2>1. m.map[f] \in Nat /\ n[f] \in Nat /\ COUNTS \in Nat /\ COUNTS >= 2
    BY MemoryParts, MemoryAssumption
  <2>2. m.map[f] + n[f] < COUNTS
    BY <2>1 DEF Wraps
  <2> QED
    BY <2>1, <2>2
<1> QED
  BY <1>1

\* The loop of copy_page_tables() over one page table: its pages are counted once
\* more, and nobody can write them.
LEMMA TableShared ==
    ASSUME NEW m, NEW h, Sound(m, h), NEW t \in Tasks, NEW u \in Tasks, t # u,
           NEW d \in Tables, m.dir[<<u, d>>] # NoFrame,
           \A p \in InTable(d) : ~Present(m, u, p),
           ~Wraps(m, InEntries(m, t, InTable(d))),
           NEW n, n = ShareTable(m, t, u, d)
    PROVE  Sound(n, h) /\ n.dir = m.dir /\ n.task = m.task /\ n.halt = m.halt
<1> DEFINE R == InTable(d)
           e(p) == [m.pte[t][p] EXCEPT !.rw = FALSE]
           P == [v \in Tasks |-> [p \in Pages |->
                    IF v \in {t, u} /\ TableOf[p] = d THEN e(p) ELSE m.pte[v][p]]]
           M == [f \in Frames |-> (m.map[f] + InEntries(m, t, R)[f]) % COUNTS]
<1>1. m \in Memories /\ R \in SUBSET Pages /\ \A p \in Pages : p \in R <=> TableOf[p] = d
  BY DEF Sound, InTable
<1>2. n = [m EXCEPT !.map = M, !.pte = P]
  <2> HIDE DEF P
  <2>1. n = [[m EXCEPT !.map = M] EXCEPT !.pte = P]
    BY DEF ShareTable, Refer, P
  <2> HIDE DEF M
  <2> QED
    BY <1>1, <2>1 DEF Memories
<1>3. \A p \in Pages : e(p) \in PteType /\ e(p).frame = m.pte[t][p].frame /\ ~e(p).rw
  <2>1. ASSUME NEW x \in PteType
        PROVE  /\ [x EXCEPT !.rw = FALSE] \in PteType
               /\ [x EXCEPT !.rw = FALSE].frame = x.frame /\ ~[x EXCEPT !.rw = FALSE].rw
    BY DEF PteType
  <2>2. \A p \in Pages : m.pte[t][p] \in PteType
    BY <1>1 DEF Memories, PteType
  <2> QED
    BY <2>1, <2>2
<1> HIDE DEF e, R
<1>4. /\ P \in [Tasks -> [Pages -> PteType]]
      /\ \A v \in Tasks, p \in Pages :
            P[v][p] = IF v \in {t, u} /\ p \in R THEN e(p) ELSE m.pte[v][p]
  <2>1. \A v \in Tasks, p \in Pages : m.pte[v][p] \in PteType
    BY <1>1 DEF Memories, PteType
  <2> QED
    BY <1>1, <1>3, <2>1
<1>5. /\ \A f \in Frames : M[f] = m.map[f] + Row(m, t, R, f)
      /\ M \in [Frames -> 0 .. COUNTS - 1]
  <2>1. \A f \in Frames : InEntries(m, t, R)[f] = Row(m, t, R, f) /\ Row(m, t, R, f) \in Nat
    <3>1. \A f \in Frames : InEntries(m, t, R)[f] = Row(m, t, R, f)
      BY DEF InEntries, Row
    <3>2. \A f \in Frames : Row(m, t, R, f) \in Nat
      BY <1>1, RowFits
    <3> QED
      BY <3>1, <3>2
  <2>2. ~Wraps(m, InEntries(m, t, R))
    BY DEF R
  <2> DEFINE c == InEntries(m, t, R)
  <2> HIDE DEF c
  <2>3. /\ [f \in Frames |-> (m.map[f] + c[f]) % COUNTS] \in [Frames -> 0 .. COUNTS - 1]
        /\ \A f \in Frames : (m.map[f] + c[f]) % COUNTS = m.map[f] + c[f]
    BY <1>1, <2>1, <2>2, Referred DEF c
  <2> QED
    BY <2>1, <2>3 DEF c
<1> HIDE DEF P, M
<1>7. /\ n \in Memories /\ n.map = M /\ n.pte = P /\ n.dir = m.dir /\ n.task = m.task
      /\ n.halt = m.halt
  BY <1>1, <1>2, <1>4, <1>5 DEF Memories, PteType
<1>8. ASSUME NEW f \in Frames
      PROVE  Count(FrameOf(n), f) = Count(FrameOf(m), f) + Row(m, t, R, f)
  <2> DEFINE E == Tasks \X Pages
             X == {u} \X R
             g == FrameOf(n)
             k == FrameOf(m)
  <2>1. IsFiniteSet(E) /\ X \in SUBSET E
    BY <1>1, MemoryAssumption, FS_Product
  <2>2. DOMAIN g = E /\ DOMAIN k = E
    BY DEF FrameOf
  <2>3. \A x \in E : x[1] \in Tasks /\ x[2] \in Pages /\ g[x] = n.pte[x[1]][x[2]].frame
                     /\ k[x] = m.pte[x[1]][x[2]].frame /\ (x \in X <=> x[1] = u /\ x[2] \in R)
    BY DEF FrameOf
  <2>4. \A x \in E \ X : k[x] = g[x]
    BY <1>3, <1>4, <1>7, <2>3
  <2>5. \A x \in X : k[x] # f
    BY <2>1, <2>3 DEF Present, NoFrame, Frames, R
  <2>6. Among(X, g, f) = Row(n, u, R, f)
    BY <1>1, RowIs
  <2>7. Row(n, u, R, f) = Row(m, t, R, f)
    <3>1. {p \in R : n.pte[u][p].frame = f} = {p \in R : m.pte[t][p].frame = f}
      BY <1>1, <1>3, <1>4, <1>7
    <3> QED
      BY <3>1 DEF Row
  <2> HIDE DEF E, X, g, k
  <2>8. Count(k, f) + Among(X, g, f) = Count(g, f)
    BY <2>1, <2>2, <2>4, <2>5, CountLess
  <2> QED
    BY <2>6, <2>7, <2>8 DEF g, k
<1>9. ASSUME NEW f \in Frames
      PROVE  /\ Held(n, h, f) <= n.map[f]
             /\ Kernel(n, h, f) >= 1 => Held(n, h, f) = 1
  <2>1. Row(m, t, R, f) \in Nat
    BY <1>1, RowFits
  <2>2. Count(FrameOf(m), f) = 0 => Row(m, t, R, f) = 0
    BY <1>1, RowFits
  <2>3. n.map[f] = m.map[f] + Row(m, t, R, f) /\ n.dir = m.dir /\ n.task = m.task
    BY <1>5, <1>7
  <2> QED
    BY <1>8, <2>1, <2>2, <2>3, Numbers DEF Held, Kernel
<1>10. Alone(n)
  <2> SUFFICES ASSUME NEW v \in Tasks, NEW q \in Pages, NEW w \in Tasks, NEW r \in Pages,
                      n.pte[v][q].rw, Present(n, v, q),
                      n.pte[w][r].frame = n.pte[v][q].frame
               PROVE  w = v /\ r = q
    BY DEF Alone
  <2>1. ~(v \in {t, u} /\ q \in R) /\ n.pte[v][q] = m.pte[v][q]
    BY <1>3, <1>4, <1>7
  <2>2. CASE w \in {t, u} /\ r \in R
    <3>1. m.pte[t][r].frame = m.pte[v][q].frame
      BY <1>3, <1>4, <1>7, <2>1, <2>2
    <3> QED
      BY <2>1, <2>2, <3>1 DEF Sound, Alone, Present
  <2>3. CASE ~(w \in {t, u} /\ r \in R)
    <3>1. n.pte[w][r] = m.pte[w][r]
      BY <1>4, <1>7, <2>3
    <3>2. m.pte[v][q].rw /\ Present(m, v, q) /\ m.pte[w][r].frame = m.pte[v][q].frame
      BY <2>1, <3>1 DEF Present
    <3>3. Alone(m)
      BY DEF Sound
    <3> QED
      BY <3>2, <3>3 DEF Alone
  <2> QED
    BY <2>2, <2>3
<1>11. Tabled(n)
  <2> SUFFICES ASSUME NEW v \in Tasks, NEW p \in Pages, Present(n, v, p)
               PROVE  n.dir[<<v, TableOf[p]>>] # NoFrame
    BY DEF Tabled
  <2>1. ~(v = u /\ p \in R) => Present(m, v, p)
    BY <1>3, <1>4, <1>7 DEF Present
  <2> QED
    BY <1>1, <1>7, <2>1 DEF Sound, Tabled
<1> QED
  BY <1>7, <1>9, <1>10, <1>11 DEF Sound, Fits, Apart

\* Two arguments for which a function has a value that it has once are the same.
LEMMA CountOnce ==
    ASSUME NEW D, IsFiniteSet(D), NEW g, DOMAIN g = D, NEW f, Count(g, f) <= 1,
           NEW x \in D, NEW y \in D, g[x] = f, g[y] = f
    PROVE  x = y
<1> DEFINE S == {d \in D : g[d] = f}
<1>1. IsFiniteSet(S) /\ Count(g, f) = Cardinality(S) /\ x \in S /\ y \in S
  BY FS_Subset DEF Count
<1> HIDE DEF S
<1>2. Cardinality(S) \in Nat /\ Cardinality(S) # 0
  BY <1>1, FS_CardinalityType, FS_EmptySet
<1>3. Cardinality(S) = 1
  BY <1>1, <1>2
<1>4. \E z : S = {z}
  BY <1>1, <1>3, FS_Singleton
<1> QED
  BY <1>1, <1>4

\* An entry keeps its frame; who may now write it is alone in it.
LEMMA EntryKeeps ==
    ASSUME NEW m, NEW h, Sound(m, h), NEW t \in Tasks, NEW p \in Pages, NEW e \in PteType,
           e.frame = m.pte[t][p].frame,
           e.rw => m.pte[t][p].rw \/ (Present(m, t, p) /\ m.map[e.frame] = 1),
           NEW n, n = [m EXCEPT !.pte[t][p] = e]
    PROVE  Sound(n, h)
<1>1. EntryIs(n, m, t, p, e)
  BY EntryChange DEF Sound
<1>2. /\ n \in Memories /\ n.dir = m.dir /\ n.task = m.task /\ n.map = m.map
      /\ \A u \in Tasks, q \in Pages :
            n.pte[u][q] = IF u = t /\ q = p THEN e ELSE m.pte[u][q]
      /\ \A u \in Tasks, q \in Pages : n.pte[u][q].frame = m.pte[u][q].frame
  BY <1>1 DEF EntryIs
<1>3. ASSUME NEW f \in Frames PROVE Count(FrameOf(n), f) = Count(FrameOf(m), f)
  <2>1. Count(FrameOf(n), f) + (IF m.pte[t][p].frame = f THEN 1 ELSE 0)
          = Count(FrameOf(m), f) + (IF e.frame = f THEN 1 ELSE 0)
    BY <1>1 DEF EntryIs
  <2>2. Count(FrameOf(n), f) \in Nat /\ Count(FrameOf(m), f) \in Nat
    BY <1>2, CountsAre DEF Sound
  <2> QED
    BY <2>1, <2>2
<1>4. Fits(n, h) /\ Apart(n, h)
  BY <1>2, <1>3 DEF Sound, Fits, Apart, Held, Kernel
<1>5. Alone(n)
  <2> SUFFICES ASSUME NEW u \in Tasks, NEW q \in Pages, NEW v \in Tasks, NEW r \in Pages,
                      n.pte[u][q].rw, Present(n, u, q),
                      n.pte[v][r].frame = n.pte[u][q].frame
               PROVE  v = u /\ r = q
    BY DEF Alone
  <2>1. m.pte[v][r].frame = m.pte[u][q].frame /\ Present(m, u, q)
    BY <1>2 DEF Present
  <2>2. CASE m.pte[u][q].rw
    BY <2>1, <2>2 DEF Sound, Alone
  <2>3. CASE ~m.pte[u][q].rw
    <3> DEFINE f == m.pte[t][p].frame
               E == Tasks \X Pages
    <3>1. u = t /\ q = p /\ m.map[f] = 1 /\ f \in Frames
      <4>1. u = t /\ q = p
        BY <1>2, <2>3
      <4>2. n.pte[t][p] = e /\ e.rw
        BY <1>2, <4>1
      <4>3. Present(m, t, p) /\ m.map[f] = 1
        BY <2>3, <4>1, <4>2
      <4> QED
        BY <4>1, <4>3, InEntry
    <3>2. /\ <<u, q>> \in E /\ <<v, r>> \in E /\ FrameOf(m)[<<u, q>>] = f
          /\ FrameOf(m)[<<v, r>>] = f /\ DOMAIN FrameOf(m) = E /\ IsFiniteSet(E)
      BY <2>1, <3>1, MemoryAssumption, FS_Product DEF FrameOf
    <3>3. Count(FrameOf(m), f) <= 1
      <4> HIDE DEF f
      <4> QED
        BY <3>1, Numbers DEF Held, Kernel
    <3>4. <<u, q>> = <<v, r>>
      <4> HIDE DEF E, f
      <4> QED
        BY <3>2, <3>3, CountOnce
    <3> QED
      BY <3>4
  <2> QED
    BY <2>2, <2>3
<1>6. Tabled(n)
  BY <1>2 DEF Sound, Tabled, Present
<1> QED
  BY <1>2, <1>4, <1>5, <1>6 DEF Sound

\* try_to_share(): the page of u, or what is left of it, becomes the page of t.
LEMMA PageShared ==
    ASSUME NEW m, NEW h, Sound(m, h), NEW t \in Tasks, NEW u \in Tasks, t # u,
           NEW p \in Pages, m.dir[<<t, TableOf[p]>>] # NoFrame, ~Present(m, t, p),
           NEW phys \in Frames, m.pte[u][p].frame \in {phys, NoFrame},
           ~Wraps(m, Once(phys)),
           NEW n, n = Share(m, t, u, p, phys)
    PROVE  Sound(n, h) /\ n.dir = m.dir /\ n.task = m.task /\ n.halt = m.halt
<1> DEFINE e == [m.pte[u][p] EXCEPT !.rw = FALSE]
           k == [m EXCEPT !.pte[u][p] = e]
           l == [k EXCEPT !.pte[t][p] = e]
           M == [f \in Frames |-> (m.map[f] + Once(phys)[f]) % COUNTS]
<1>1. m \in Memories /\ m.pte[u][p] \in PteType
  BY DEF Sound, Memories, PteType
<1>2. e \in PteType /\ e.frame = m.pte[u][p].frame /\ ~e.rw
  BY <1>1 DEF PteType
<1>3. n = [l EXCEPT !.map = M]
  <2>1. /\ k.pte = [m.pte EXCEPT ![u][p] = e]
        /\ l.pte = [m.pte EXCEPT ![u][p] = e, ![t][p] = e]
        /\ l = [m EXCEPT !.pte = [m.pte EXCEPT ![u][p] = e, ![t][p] = e]]
    <3> HIDE DEF e
    <3> QED
      BY <1>1 DEF Memories
  <2> HIDE DEF k, l, e
  <2>2. n = [[m EXCEPT !.map = M] EXCEPT !.pte = [m.pte EXCEPT ![u][p] = e, ![t][p] = e]]
    BY DEF Share, Refer, e
  <2> HIDE DEF M
  <2> QED
    BY <1>1, <2>1, <2>2 DEF Memories
<1>30. /\ M \in [Frames -> 0 .. COUNTS - 1]
       /\ \A f \in Frames : M[f] = IF f = phys THEN m.map[f] + 1 ELSE m.map[f]
  <2>1. \A f \in Frames : Once(phys)[f] = IF f = phys THEN 1 ELSE 0
    BY DEF Once
  <2> DEFINE c == Once(phys)
  <2> HIDE DEF c
  <2>2. /\ [f \in Frames |-> (m.map[f] + c[f]) % COUNTS] \in [Frames -> 0 .. COUNTS - 1]
        /\ \A f \in Frames : (m.map[f] + c[f]) % COUNTS = m.map[f] + c[f]
    BY <1>1, <2>1, Referred DEF c
  <2>3. \A f \in Frames : m.map[f] \in Nat
    BY <1>1, MemoryParts
  <2> QED
    BY <2>1, <2>2, <2>3 DEF c
<1> HIDE DEF M
<1> HIDE DEF e
<1>4. EntryIs(k, m, u, p, e)
  BY <1>1, <1>2, EntryChange
<1>5. Sound(k, h)
  BY <1>2, EntryKeeps
<1>6. EntryIs(l, k, t, p, e)
  BY <1>2, <1>5, EntryChange DEF Sound
<1> HIDE DEF k, l
<1>7. /\ n \in Memories /\ n.dir = k.dir /\ n.task = k.task /\ n.halt = k.halt
      /\ n.pte = l.pte /\ n.map = M
  <2>1. /\ l \in Memories /\ l.dir = k.dir /\ l.task = k.task /\ l.halt = k.halt
    BY <1>6 DEF EntryIs
  <2>2. /\ n.dir = l.dir /\ n.task = l.task /\ n.halt = l.halt /\ n.pte = l.pte
        /\ n.map = M
    BY <1>3, <2>1 DEF Memories
  <2>3. n \in Memories
    BY <1>3, <1>30, <2>1 DEF Memories
  <2> QED
    BY <2>1, <2>2, <2>3
<1>8. /\ \A v \in Tasks, q \in Pages :
            n.pte[v][q] = IF v = t /\ q = p THEN e ELSE k.pte[v][q]
      /\ \A f \in Frames :
            Count(FrameOf(l), f) + (IF k.pte[t][p].frame = f THEN 1 ELSE 0)
              = Count(FrameOf(k), f) + (IF e.frame = f THEN 1 ELSE 0)
  BY <1>6, <1>7 DEF EntryIs
<1>9. /\ k.pte[u][p] = e /\ k.pte[t][p] = m.pte[t][p] /\ k.dir = m.dir
      /\ k.map = m.map
      /\ k.task = m.task /\ k.halt = m.halt
  BY <1>4 DEF EntryIs
<1>10. FrameOf(n) = FrameOf(l)
  BY <1>7 DEF FrameOf
<1>11. ASSUME NEW f \in Frames
       PROVE  /\ Held(n, h, f) <= n.map[f]
              /\ Kernel(n, h, f) >= 1 => Held(n, h, f) = 1
  <2>1. Count(FrameOf(n), f) = Count(FrameOf(k), f) + (IF e.frame = f THEN 1 ELSE 0)
    <3>1. k.pte[t][p].frame # f
      BY <1>9 DEF Present, NoFrame, Frames
    <3>2. Count(FrameOf(n), f) \in Nat
      BY <1>7, CountsAre
    <3> QED
      BY <1>8, <1>10, <3>1, <3>2
  <2>2. n.map[f] = IF f = phys THEN k.map[f] + 1 ELSE k.map[f]
    BY <1>7, <1>9, <1>30
  <2>3. e.frame = f => f = phys /\ Kernel(k, h, f) = 0
    <3>1. ASSUME e.frame = f
          PROVE  f = phys /\ h[f] = 0 /\ Count(k.dir, f) = 0 /\ Count(k.task, f) = 0
      <4>1. Present(k, u, p) /\ k.pte[u][p].frame = f
        BY <1>9, <3>1 DEF Present, NoFrame, Frames
      <4>2. f = phys
        BY <1>2, <3>1 DEF NoFrame, Frames
      <4> QED
        BY <1>5, <4>1, <4>2, InEntry
    <3> QED
      BY <3>1 DEF Kernel
  <2>4. Kernel(n, h, f) = Kernel(k, h, f)
    BY <1>7 DEF Kernel
  <2>5. Kernel(k, h, f) \in Nat
    BY <1>5, Numbers DEF Kernel
  <2> QED
    BY <1>5, <2>1, <2>2, <2>3, <2>4, <2>5, Numbers DEF Held
<1>12. Alone(n)
  <2> SUFFICES ASSUME NEW v \in Tasks, NEW q \in Pages, NEW w \in Tasks, NEW r \in Pages,
                      n.pte[v][q].rw, Present(n, v, q),
                      n.pte[w][r].frame = n.pte[v][q].frame
               PROVE  w = v /\ r = q
    BY DEF Alone
  <2>1. ~(v = t /\ q = p) /\ k.pte[v][q].rw /\ Present(k, v, q)
        /\ n.pte[v][q] = k.pte[v][q]
    BY <1>2, <1>8 DEF Present
  <2>2. ~(w = t /\ r = p)
    <3>1. ASSUME w = t, r = p PROVE FALSE
      <4>1. k.pte[u][p].frame = k.pte[v][q].frame
        BY <1>8, <1>9, <2>1, <3>1
      <4>2. u = v /\ p = q
        BY <1>5, <2>1, <4>1 DEF Sound, Alone
      <4> QED
        BY <1>2, <1>9, <2>1, <4>2
    <3> QED
      BY <3>1
  <2> QED
    BY <1>5, <1>8, <2>1, <2>2 DEF Sound, Alone
<1>13. Tabled(n)
  BY <1>5, <1>7, <1>8, <1>9 DEF Sound, Tabled, Present
<1> QED
  BY <1>5, <1>7, <1>9, <1>11, <1>12, <1>13 DEF Sound, Fits, Apart

\* A panic, or the write to the page directory that ends the model's behaviours.
LEMMA Halted ==
    ASSUME NEW m, NEW h, Sound(m, h),
           NEW why \in {"none", "free", "exists", "block", "wild"}, NEW n, n = Halt(m, why)
    PROVE  /\ Sound(n, h) /\ n.halt = why /\ n.dir = m.dir /\ n.task = m.task
           /\ n.pte = m.pte
<1>1. m \in Memories /\ h \in Hold
  BY DEF Sound
<1>2. /\ n \in Memories /\ n.halt = why /\ n.dir = m.dir /\ n.task = m.task
      /\ n.pte = m.pte /\ n.map = m.map
  BY <1>1 DEF Halt, Memories
<1>3. \A f \in Frames : n.map[f] >= m.map[f] /\ h[f] <= h[f]
  BY <1>1, <1>2 DEF Memories, Hold
<1> QED
  BY <1>1, <1>2, <1>3, SameTables

\* The contents of a frame change.
LEMMA Filled ==
    ASSUME NEW m, NEW h, Sound(m, h), NEW f \in Frames, NEW what \in Contents,
           NEW n, n = [m EXCEPT !.data[f] = what]
    PROVE  /\ Sound(n, h) /\ n.halt = m.halt /\ n.dir = m.dir /\ n.task = m.task
           /\ n.pte = m.pte
<1>1. m \in Memories /\ h \in Hold
  BY DEF Sound
<1>2. /\ n \in Memories /\ n.halt = m.halt /\ n.dir = m.dir /\ n.task = m.task
      /\ n.pte = m.pte /\ n.map = m.map
  BY <1>1 DEF Memories
<1>3. \A g \in Frames : n.map[g] >= m.map[g] /\ h[g] <= h[g]
  BY <1>1, <1>2 DEF Memories, Hold
<1> QED
  BY <1>1, <1>2, <1>3, SameTables

\* A page in hand may be forgotten: mem_map then counts one more than there is.
LEMMA Forgotten ==
    ASSUME NEW m, NEW h \in Hold, NEW f \in Frames, Sound(m, More(h, f))
    PROVE  Sound(m, h)
<1>1. m \in Memories
  BY DEF Sound
<1>2. \A g \in Frames : m.map[g] >= m.map[g] /\ h[g] <= More(h, f)[g]
  BY <1>1 DEF Memories, Hold, More
<1> QED
  BY <1>1, <1>2, SameTables

-----------------------------------------------------------------------------
\* What a page fault of t, fork() or execve() leaves alone in memory.
Others(n, m, t) ==
    /\ n.task = m.task
    /\ \A v \in Tasks, d \in Tables : v # t => n.dir[<<v, d>>] = m.dir[<<v, d>>]

\* One more frame in hand is still a count of frames in hand.
LEMMA MoreHolds == ASSUME NEW h \in Hold, NEW f \in Frames PROVE More(h, f) \in Hold
BY DEF More, Hold

\* un_wp_page() gives the task a page of its own, or none.
LEMMA Unprotected ==
    ASSUME NEW m, NEW h, Sound(m, h), NEW t \in Tasks, NEW p \in Pages, Present(m, t, p),
           NEW n \in un_wp_page(m, t, p)
    PROVE  Sound(n, h) /\ Others(n, m, t) /\ n.dir = m.dir /\ n.halt \in {m.halt, "wild"}
<1> DEFINE old == m.pte[t][p].frame
<1>1. m \in Memories /\ h \in Hold /\ old \in Frames /\ m.dir[<<t, TableOf[p]>>] # NoFrame
  <2>1. old \in Frames
    BY InEntry
  <2> QED
    BY <2>1 DEF Sound, Tabled
<1>2. CASE m.map[old] = 1
  <2> DEFINE e == [m.pte[t][p] EXCEPT !.rw = TRUE]
  <2>1. m.pte[t][p] \in PteType
    BY <1>1 DEF Memories, PteType
  <2>2. e \in PteType /\ e.frame = old
    BY <2>1 DEF PteType
  <2>3. n = [m EXCEPT !.pte[t][p] = e]
    <3>1. n = [m EXCEPT !.pte[t][p].rw = TRUE]
      BY <1>2 DEF un_wp_page
    <3> QED
      BY <1>1, <3>1 DEF Memories
  <2> HIDE DEF e
  <2>4. Sound(n, h)
    BY <1>2, <2>2, <2>3, EntryKeeps
  <2>5. EntryIs(n, m, t, p, e)
    BY <1>1, <2>2, <2>3, EntryChange
  <2> QED
    BY <2>4, <2>5 DEF EntryIs, Others
<1>3. CASE m.map[old] # 1
  <2>1. PICK r \in get_free_page(m) :
           n = IF r.page = NoFrame THEN Halt(r.mem, "wild")
               ELSE [r.mem EXCEPT
                       !.pte[t][p] = [frame |-> r.page, rw |-> TRUE, dirty |-> FALSE],
                       !.data[r.page] = r.mem.data[old]]
    BY <1>3 DEF un_wp_page
  <2>2. /\ Reclaimed(r.mem, m)
        /\ r.page = NoFrame => Sound(r.mem, h)
        /\ r.page # NoFrame => r.page \in Frames /\ Sound(r.mem, More(h, r.page))
    BY GotPage
  <2>3. CASE r.page = NoFrame
    BY <2>1, <2>2, <2>3, Halted DEF Reclaimed, Others
  <2>4. CASE r.page # NoFrame
    <3> DEFINE e == [frame |-> r.page, rw |-> TRUE, dirty |-> FALSE]
               k == [r.mem EXCEPT !.pte[t][p] = e]
    <3>1. r.mem \in Memories /\ e \in PteType
      BY <2>2, <2>4 DEF Sound, PteType
    <3>2. Sound(k, h)
      BY <1>1, <2>2, <2>4, EntryPut DEF Reclaimed
    <3> HIDE DEF e
    <3>3. EntryIs(k, r.mem, t, p, e)
      BY <3>1, EntryChange
    <3>4. n = [k EXCEPT !.data[r.page] = r.mem.data[old]] /\ r.mem.data[old] \in Contents
      <4>1. n = [r.mem EXCEPT !.pte[t][p] = e, !.data[r.page] = r.mem.data[old]]
        BY <2>1, <2>4 DEF e
      <4>2. r.mem.data[old] \in Contents
        BY <1>1, <3>1 DEF Memories
      <4> QED
        BY <3>1, <4>1, <4>2 DEF Memories
    <3> HIDE DEF k
    <3>5. /\ Sound(n, h) /\ n.halt = k.halt /\ n.dir = k.dir /\ n.task = k.task
      BY <2>2, <2>4, <3>2, <3>4, Filled, SMTT(30)
    <3> QED
      BY <2>2, <3>3, <3>5 DEF EntryIs, Reclaimed, Others
  <2> QED
    BY <2>3, <2>4
<1> QED
  BY <1>2, <1>3

\* put_page(): the page in hand is in the table, or still in hand.
LEMMA PagePut ==
    ASSUME NEW m, NEW h \in Hold, NEW f \in Frames, Sound(m, More(h, f)),
           NEW t \in Tasks, NEW p \in Pages, NEW q \in put_page(m, f, t, p)
    PROVE  /\ Others(q.mem, m, t) /\ q.mem.halt = m.halt
           /\ q.page = NoFrame => Sound(q.mem, More(h, f))
           /\ q.page # NoFrame => Sound(q.mem, h) /\ Present(q.mem, t, p)
<1> DEFINE e == [frame |-> f, rw |-> TRUE, dirty |-> FALSE]
           Entered(n) == [n EXCEPT !.pte[t][p] = e]
           d == TableOf[p]
<1>0. d \in Tables
  BY MemoryAssumption DEF Tables
<1>1. e \in PteType /\ e.frame # NoFrame
  BY DEF PteType, NoFrame, Frames
<1>2. ASSUME NEW n, Sound(n, More(h, f)), n.dir[<<t, d>>] # NoFrame
      PROVE  /\ Sound(Entered(n), h) /\ Entered(n).dir = n.dir /\ Entered(n).task = n.task
             /\ Entered(n).halt = n.halt /\ Present(Entered(n), t, p)
  <2>1. Sound(Entered(n), h)
    BY <1>2, EntryPut
  <2> HIDE DEF e
  <2>2. EntryIs(Entered(n), n, t, p, e)
    BY <1>1, <1>2, EntryChange DEF Sound
  <2> QED
    BY <1>1, <2>1, <2>2 DEF EntryIs, Present
<1>3. CASE m.dir[<<t, d>>] # NoFrame
  <2>1. q = [mem |-> Entered(m), page |-> f]
    BY <1>3 DEF put_page
  <2> HIDE DEF Entered
  <2> QED
    BY <1>2, <1>3, <2>1 DEF Others, NoFrame, Frames
<1>4. CASE m.dir[<<t, d>>] = NoFrame
  <2>1. PICK r \in get_free_page(m) :
           q = IF r.page = NoFrame THEN r
               ELSE [mem |-> Entered([r.mem EXCEPT !.dir[<<t, d>>] = r.page]), page |-> f]
    BY <1>4 DEF put_page
  <2>2. /\ Reclaimed(r.mem, m)
        /\ r.page = NoFrame => Sound(r.mem, More(h, f))
        /\ r.page # NoFrame => r.page \in Frames /\ Sound(r.mem, More(More(h, f), r.page))
    BY GotPage
  <2>3. CASE r.page = NoFrame
    BY <2>1, <2>2, <2>3 DEF Reclaimed, Others
  <2>4. CASE r.page # NoFrame
    <3> DEFINE k == [r.mem EXCEPT !.dir[<<t, d>>] = r.page]
    <3>1. r.mem.dir[<<t, d>>] = NoFrame /\ r.mem \in Memories
      BY <1>4, <2>2, <2>4 DEF Reclaimed, Sound
    <3>2. Sound(k, More(h, f))
      BY <1>0, <2>2, <2>4, <3>1, DirPut, MoreHolds
    <3>3. /\ k.dir = [r.mem.dir EXCEPT ![<<t, d>>] = r.page] /\ k.task = r.mem.task
          /\ k.halt = r.mem.halt /\ k.dir[<<t, d>>] # NoFrame
      BY <1>0, <2>4, <3>1 DEF Memories
    <3>4. q = [mem |-> Entered(k), page |-> f]
      BY <2>1, <2>4
    <3> HIDE DEF k, Entered
    <3>5. /\ Sound(Entered(k), h) /\ Entered(k).dir = k.dir /\ Entered(k).task = k.task
          /\ Entered(k).halt = k.halt /\ Present(Entered(k), t, p)
      BY <1>2, <3>2, <3>3
    <3> QED
      BY <1>0, <2>2, <3>1, <3>3, <3>4, <3>5 DEF Reclaimed, Others, NoFrame, Frames, Memories
  <2> QED
    BY <2>3, <2>4
<1> QED
  BY <1>3, <1>4

\* get_empty_page().
LEMMA EmptyPageGot ==
    ASSUME NEW m, NEW h, Sound(m, h), NEW t \in Tasks, NEW p \in Pages,
           NEW n \in get_empty_page(m, t, p)
    PROVE  Sound(n, h) /\ Others(n, m, t) /\ n.halt = m.halt
<1>1. h \in Hold
  BY DEF Sound
<1>2. PICK r \in get_free_page(m) :
         n \in IF r.page = NoFrame THEN {r.mem}
               ELSE {IF q.page = NoFrame THEN free_page(q.mem, r.page) ELSE q.mem :
                        q \in put_page(r.mem, r.page, t, p)}
  BY DEF get_empty_page
<1>3. /\ Reclaimed(r.mem, m)
      /\ r.page = NoFrame => Sound(r.mem, h)
      /\ r.page # NoFrame => r.page \in Frames /\ Sound(r.mem, More(h, r.page))
  BY GotPage
<1>4. CASE r.page = NoFrame
  BY <1>2, <1>3, <1>4 DEF Reclaimed, Others
<1>5. CASE r.page # NoFrame
  <2>1. PICK q \in put_page(r.mem, r.page, t, p) :
           n = IF q.page = NoFrame THEN free_page(q.mem, r.page) ELSE q.mem
    BY <1>2, <1>5
  <2>2. /\ Others(q.mem, r.mem, t) /\ q.mem.halt = r.mem.halt
        /\ q.page = NoFrame => Sound(q.mem, More(h, r.page))
        /\ q.page # NoFrame => Sound(q.mem, h)
    BY <1>1, <1>3, <1>5, PagePut
  <2>3. CASE q.page = NoFrame
    <3>1. Sound(n, h) /\ n.dir = q.mem.dir /\ n.task = q.mem.task /\ n.halt = q.mem.halt
      BY <1>1, <1>3, <1>5, <2>1, <2>2, <2>3, PageFreed
    <3> QED
      BY <1>3, <2>2, <3>1 DEF Reclaimed, Others
  <2>4. CASE q.page # NoFrame
    BY <1>3, <2>1, <2>2, <2>4 DEF Reclaimed, Others
  <2> QED
    BY <2>3, <2>4
<1> QED
  BY <1>4, <1>5

\* copy_page_tables() of one page table: it is the only new one.
LEMMA TableCopied ==
    ASSUME NEW m, NEW h, Sound(m, h), NEW t \in Tasks, NEW u \in Tasks, t # u,
           NEW d \in Tables, m.dir[<<u, d>>] = NoFrame, NEW r \in copy_table(m, t, u, d), ~r.wraps
    PROVE  /\ Sound(r.mem, h) /\ r.mem.halt = m.halt /\ r.mem.task = m.task
           /\ \A e \in Tasks \X Tables : e # <<u, d>> => r.mem.dir[e] = m.dir[e]
<1>1. h \in Hold
  BY DEF Sound
<1>2. PICK q \in get_free_page(m) :
         r = IF q.page = NoFrame THEN [mem |-> q.mem, page |-> NoFrame, wraps |-> FALSE]
             ELSE [mem |-> ShareTable([q.mem EXCEPT !.dir[<<u, d>>] = q.page], t, u, d),
                   page |-> q.page,
                   wraps |-> Wraps(q.mem, InEntries(q.mem, t, InTable(d)))]
  BY DEF copy_table
<1>3. /\ Reclaimed(q.mem, m)
      /\ q.page = NoFrame => Sound(q.mem, h)
      /\ q.page # NoFrame => q.page \in Frames /\ Sound(q.mem, More(h, q.page))
  BY GotPage
<1>4. CASE q.page = NoFrame
  BY <1>2, <1>3, <1>4 DEF Reclaimed
<1>5. CASE q.page # NoFrame
  <2> DEFINE k == [q.mem EXCEPT !.dir[<<u, d>>] = q.page]
             c == InEntries(q.mem, t, InTable(d))
  <2>1. q.mem.dir[<<u, d>>] = NoFrame /\ q.mem \in Memories
    BY <1>3, <1>5 DEF Reclaimed, Sound
  <2>2. Sound(k, h)
    BY <1>1, <1>3, <1>5, <2>1, DirPut
  <2>3. /\ k.dir = [q.mem.dir EXCEPT ![<<u, d>>] = q.page] /\ k.task = q.mem.task
        /\ k.halt = q.mem.halt /\ k.dir[<<u, d>>] # NoFrame /\ k.pte = q.mem.pte
        /\ k.map = q.mem.map
    BY <1>5, <2>1 DEF Memories
  <2>4. \A p \in InTable(d) : ~Present(k, u, p)
    BY <1>3, <1>5, <2>1, <2>3 DEF Sound, Tabled, Present, InTable
  <2>5. r.mem = ShareTable(k, t, u, d) /\ ~Wraps(q.mem, c)
    BY <1>2, <1>5
  <2>6. InEntries(k, t, InTable(d)) = c
    BY <2>3 DEF InEntries
  <2> HIDE DEF k, c
  <2>7. ~Wraps(k, InEntries(k, t, InTable(d)))
    BY <2>3, <2>5, <2>6 DEF Wraps
  <2>8. Sound(r.mem, h) /\ r.mem.dir = k.dir /\ r.mem.task = k.task /\ r.mem.halt = k.halt
    <3>1. k.dir[<<u, d>>] # NoFrame
      BY <2>3
    <3> QED
      BY <2>2, <2>4, <2>5, <2>7, <3>1, TableShared
  <2> QED
    BY <1>3, <2>1, <2>3, <2>8 DEF Reclaimed, Memories
<1> QED
  BY <1>4, <1>5

\* try_to_share() for a task that does not have the page does not panic.
LEMMA SharingTried ==
    ASSUME NEW m, NEW h, Sound(m, h), NEW t \in Tasks, NEW u \in Tasks, t # u,
           NEW p \in Pages, ~Present(m, t, p), Present(m, u, p),
           NEW q \in try_to_share(m, t, u, p), ~q.wraps
    PROVE  Sound(q.mem, h) /\ Others(q.mem, m, t) /\ q.mem.halt \in {m.halt, "wild"}
<1> DEFINE phys == m.pte[u][p].frame
           n == q.mem
           d == TableOf[p]
<1>0. d \in Tables
  BY MemoryAssumption DEF Tables
<1>1. h \in Hold /\ phys \in Frames
  <2>1. phys \in Frames
    BY InEntry
  <2> QED
    BY <2>1 DEF Sound
<1>2. CASE m.dir[<<t, d>>] # NoFrame
  <2>1. n = Share(m, t, u, p, phys) /\ ~Wraps(m, Once(phys))
    BY <1>2 DEF try_to_share
  <2>2. Sound(n, h) /\ n.dir = m.dir /\ n.task = m.task /\ n.halt = m.halt
    BY <1>1, <1>2, <2>1, PageShared
  <2> QED
    BY <2>2 DEF Others
<1>3. CASE m.dir[<<t, d>>] = NoFrame
  <2>1. PICK r \in get_free_page(m) :
           q = IF r.page = NoFrame THEN [mem |-> Halt(r.mem, "wild"), wraps |-> FALSE]
               ELSE [mem |-> Share([r.mem EXCEPT !.dir[<<t, d>>] = r.page], t, u, p, phys),
                     wraps |-> Wraps([r.mem EXCEPT !.dir[<<t, d>>] = r.page], Once(phys))]
    BY <1>3 DEF try_to_share
  <2>2. /\ Reclaimed(r.mem, m)
        /\ r.page = NoFrame => Sound(r.mem, h)
        /\ r.page # NoFrame => r.page \in Frames /\ Sound(r.mem, More(h, r.page))
    BY GotPage
  <2>3. CASE r.page = NoFrame
    BY <2>1, <2>2, <2>3, Halted DEF Reclaimed, Others
  <2>4. CASE r.page # NoFrame
    <3> DEFINE k == [r.mem EXCEPT !.dir[<<t, d>>] = r.page]
    <3>1. r.mem.dir[<<t, d>>] = NoFrame /\ r.mem \in Memories
      BY <1>3, <2>2, <2>4 DEF Reclaimed, Sound
    <3>2. Sound(k, h)
      BY <1>0, <1>1, <2>2, <2>4, <3>1, DirPut
    <3>3. /\ k.dir = [r.mem.dir EXCEPT ![<<t, d>>] = r.page] /\ k.task = r.mem.task
          /\ k.halt = r.mem.halt /\ k.dir[<<t, d>>] # NoFrame /\ k.pte = r.mem.pte
      BY <1>0, <2>4, <3>1 DEF Memories
    <3>4. ~Present(k, t, p) /\ k.pte[u][p].frame \in {phys, NoFrame}
      <4>1. Absent.frame = NoFrame
        BY DEF Absent
      <4> QED
        BY <2>2, <3>3, <4>1 DEF Reclaimed, Present
    <3>5. n = Share(k, t, u, p, phys) /\ ~Wraps(k, Once(phys))
      BY <2>1, <2>4
    <3> HIDE DEF k, phys
    <3>6. Sound(n, h) /\ n.dir = k.dir /\ n.task = k.task /\ n.halt = k.halt
      <4>1. k.dir[<<t, d>>] # NoFrame
        BY <3>3
      <4> QED
        BY <1>1, <3>2, <3>4, <3>5, <4>1, PageShared
    <3> QED
      BY <1>0, <2>2, <3>1, <3>3, <3>6 DEF Reclaimed, Others, Memories
  <2> QED
    BY <2>3, <2>4
<1> QED
  BY <1>2, <1>3

\* A write to a page that is there.
LEMMA WriteKeeps ==
    ASSUME NEW m, NEW h, Sound(m, h), NEW t \in Tasks, NEW p \in Pages, Present(m, t, p),
           NEW n, n = Written(m, t, p)
    PROVE  Sound(n, h) /\ n.dir = m.dir /\ n.task = m.task /\ n.halt = m.halt
<1> DEFINE f == m.pte[t][p].frame
           e == [m.pte[t][p] EXCEPT !.dirty = TRUE]
           k == [m EXCEPT !.pte[t][p] = e]
<1>1. m \in Memories /\ m.pte[t][p] \in PteType /\ f \in Frames
  <2>1. f \in Frames
    BY InEntry
  <2> QED
    BY <2>1 DEF Sound, Memories, PteType
<1>2. e \in PteType /\ e.frame = f /\ (e.rw => m.pte[t][p].rw)
  BY <1>1 DEF PteType
<1>3. n = [k EXCEPT !.data[f] = "private"]
  <2>1. n = [m EXCEPT !.pte[t][p].dirty = TRUE, !.data[f] = "private"]
    BY DEF Written
  <2> HIDE DEF f
  <2> QED
    BY <1>1, <2>1 DEF Memories
<1> HIDE DEF e
<1>4. Sound(k, h)
  BY <1>2, EntryKeeps
<1>5. EntryIs(k, m, t, p, e)
  BY <1>1, <1>2, EntryChange
<1> HIDE DEF k
<1>6. Sound(n, h) /\ n.dir = k.dir /\ n.task = k.task /\ n.halt = k.halt
  BY <1>1, <1>3, <1>4, Filled DEF Contents
<1> QED
  BY <1>5, <1>6 DEF EntryIs

-----------------------------------------------------------------------------
\* The pages in hand: what do_no_page() and do_execve() have got and no table has.
Hands == [f \in Frames |-> Count(page, f)]

\* Where the tasks are, and which of them have a page in hand, a task structure
\* and a page table.
Control ==
    /\ wrapped = FALSE
    /\ pc \in [Tasks -> {"none", "new", "user", "reading", "exec", "zombie"}]
    /\ page \in [Tasks -> Frames \cup {NoFrame}]
    /\ at \in [Tasks -> Pages \cup {NoArea}]
    /\ area \in [Tasks -> Pages \cup {NoArea}]
    /\ \A t \in Tasks : page[t] # NoFrame <=> pc[t] \in {"reading", "exec"}
    /\ \A t \in Tasks : mem.task[t] # NoFrame <=> pc[t] # "none"
    /\ \A t \in Tasks, d \in Tables : pc[t] \in {"none", "zombie"} => mem.dir[<<t, d>>] = NoFrame
    /\ \A t \in Tasks : pc[t] = "reading" => at[t] \in Pages

\* A fork() under way: the child has no page table of those still to be copied.
Forking(t, u, d) == [parent |-> t, child |-> u, table |-> d]
ForkIs ==
    /\ \A t \in Tasks : pc[t] = "new" <=> fork # NoFork /\ fork.child = t
    /\ \/ fork = NoFork
       \/ \E t, u \in Tasks, d \in 1 .. NTABLES + 1 :
             /\ fork = Forking(t, u, d) /\ t # u
             /\ \A e \in Tables : e >= d => mem.dir[<<u, e>>] = NoFrame

\* The invariant until a count wraps, and the inductive invariant.
Inv == /\ Sound(mem, Hands)
       /\ mem.halt \in {"none", "block", "wild"}
       /\ Control
       /\ ForkIs
IInv == ~wrapped => Inv

\* A fork() under way is one.
LEMMA ForkingIs ==
    ASSUME NEW t, NEW u, NEW d
    PROVE  /\ Forking(t, u, d) # NoFork
           /\ Forking(t, u, d).parent = t /\ Forking(t, u, d).child = u
           /\ Forking(t, u, d).table = d
<1>1. "child" \in DOMAIN Forking(t, u, d)
  BY DEF Forking
<1>2. "child" \notin DOMAIN NoFork
  BY DEF NoFork
<1> QED
  BY <1>1, <1>2 DEF Forking

\* A page that comes to hand is one more there.
LEMMA HandMore ==
    ASSUME NEW k, DOMAIN k = Tasks, NEW g, DOMAIN g = Tasks, NEW t \in Tasks,
           \A d \in Tasks : d # t => k[d] = g[d], g[t] = NoFrame,
           NEW v \in Frames, k[t] = v
    PROVE  [f \in Frames |-> Count(k, f)] = More([f \in Frames |-> Count(g, f)], v)
<1> DEFINE K == [f \in Frames |-> Count(k, f)]
           G == [f \in Frames |-> Count(g, f)]
<1>1. ASSUME NEW f \in Frames
      PROVE  Count(g, f) \in Nat /\ Count(k, f) = IF v = f THEN Count(g, f) + 1 ELSE Count(g, f)
  <2>1. g[t] # f
    BY DEF NoFrame, Frames
  <2>2. Count(k, f) + (IF g[t] = f THEN 1 ELSE 0) = Count(g, f) + (IF k[t] = f THEN 1 ELSE 0)
    BY MemoryAssumption, CountChange
  <2>3. Count(k, f) \in Nat /\ Count(g, f) \in Nat
    BY MemoryAssumption, CountNat
  <2> QED
    BY <2>1, <2>2, <2>3
<1>2. \A f \in Frames : K[f] = IF f = v THEN G[v] + 1 ELSE G[f]
  BY <1>1
<1>3. DOMAIN K = Frames /\ K = [f \in Frames |-> K[f]] /\ DOMAIN G = Frames
  OBVIOUS
<1> HIDE DEF K, G
<1>4. K = More(G, v)
  BY <1>2, <1>3 DEF More
<1> QED
  BY <1>4 DEF K, G

\* A page comes to hand.
LEMMA HandTaken ==
    ASSUME Inv, NEW t \in Tasks, page[t] = NoFrame, NEW f \in Frames,
           page' = [page EXCEPT ![t] = f]
    PROVE  Hands' = More(Hands, f)
<1>1. /\ DOMAIN page = Tasks /\ DOMAIN page' = Tasks /\ page'[t] = f
      /\ \A d \in Tasks : d # t => page'[d] = page[d]
  BY DEF Inv, Control
<1>2. [g \in Frames |-> Count(page', g)] = More([g \in Frames |-> Count(page, g)], f)
  BY ONLY <1>1, t \in Tasks, page[t] = NoFrame, f \in Frames, HandMore
<1> QED
  BY <1>2 DEF Hands

\* A page in hand is given away.
LEMMA HandGiven ==
    ASSUME Inv, NEW t \in Tasks, NEW f \in Frames, page[t] = f,
           page' = [page EXCEPT ![t] = NoFrame]
    PROVE  Hands = More(Hands', f) /\ Hands' \in Hold
<1>1. /\ DOMAIN page = Tasks /\ DOMAIN page' = Tasks /\ page'[t] = NoFrame
      /\ \A d \in Tasks : d # t => page'[d] = page[d]
  BY DEF Inv, Control
<1>2. [g \in Frames |-> Count(page, g)] = More([g \in Frames |-> Count(page', g)], f)
  BY ONLY <1>1, t \in Tasks, page[t] = f, f \in Frames, HandMore
<1>3. \A g \in Frames : Count(page', g) \in Nat
  BY <1>1, CountNat, MemoryAssumption
<1> QED
  BY <1>2, <1>3 DEF Hands, Hold

\* Tasks that stay where they are; one of them may get or lose a page table.
LEMMA Stays ==
    ASSUME Inv, NEW t \in Tasks, pc[t] \notin {"none", "zombie"},
           Sound(mem', Hands), Others(mem', mem, t), mem'.halt \in {"none", "block", "wild"},
           UNCHANGED <<wrapped, fork, pc, page, at>>, fork = NoFork,
           area' \in [Tasks -> Pages \cup {NoArea}]
    PROVE  Inv'
<1>1. Hands' = Hands
  BY DEF Hands
<1>2. Sound(mem', Hands')
  BY <1>1
<1>3. Control' /\ ForkIs'
  BY DEF Inv, Control, ForkIs, Others
<1>4. Sound(mem, Hands)' <=> Sound(mem', Hands')
  BY DEF Sound
<1> QED
  BY <1>2, <1>3, <1>4 DEF Inv

\* A task that goes on: it gets or gives away a page, and memory is sound with that.
LEMMA Goes ==
    ASSUME Inv, NEW t \in Tasks, pc[t] # "none", NEW place \in {"user", "reading", "exec"},
           NEW n, mem' = n, Sound(n, Hands'), n.task = mem.task,
           \A v \in Tasks, d \in Tables : v # t => n.dir[<<v, d>>] = mem.dir[<<v, d>>],
           UNCHANGED <<wrapped, fork>>, fork = NoFork, pc[t] # "new",
           n.halt \in {"none", "block", "wild"}, Go(t, place),
           NEW f \in Frames \cup {NoFrame}, page' = [page EXCEPT ![t] = f],
           f # NoFrame <=> place # "user",
           at' \in [Tasks -> Pages \cup {NoArea}], place = "reading" => at'[t] \in Pages,
           \A v \in Tasks : v # t => at'[v] = at[v], UNCHANGED area
    PROVE  Inv'
<1>1. Control'
  BY ZenonT(60) DEF Inv, Control, Go
<1>3. ForkIs'
  BY DEF Inv, Control, ForkIs, Go
<1>2. Sound(mem, Hands)' <=> Sound(mem', Hands')
  BY DEF Sound
<1> QED
  BY <1>1, <1>2, <1>3 DEF Inv

\* One task has a task structure and a page table.
LEMMA InvInit == Init => IInv
<1> SUFFICES ASSUME Init PROVE Inv
  BY DEF IInv
<1>1. PICK t \in Tasks :
          /\ pc = [u \in Tasks |-> IF u = t THEN "user" ELSE "none"]
          /\ mem = [map |-> [f \in Frames |-> IF f >= NFRAMES - 1 THEN 1 ELSE 0],
                    data |-> [f \in Frames |-> "zero"],
                    task |-> [u \in Tasks |-> IF u = t THEN NFRAMES ELSE NoFrame],
                    dir |-> [e \in Tasks \X Tables |->
                                IF e = <<t, 1>> THEN NFRAMES - 1 ELSE NoFrame],
                    pte |-> [u \in Tasks |-> [p \in Pages |-> Absent]],
                    halt |-> "none"]
  BY DEF Init
<1>2. NFRAMES \in Frames /\ NFRAMES - 1 \in Frames /\ NoFrame \notin Frames
  BY MemoryAssumption DEF Frames, NoFrame
<1>3. mem \in Memories
  <2>1. Absent \in PteType
    BY DEF Absent, PteType
  <2>2. [f \in Frames |-> IF f >= NFRAMES - 1 THEN 1 ELSE 0] \in [Frames -> 0 .. COUNTS - 1]
    <3>1. 0 \in 0 .. COUNTS - 1 /\ 1 \in 0 .. COUNTS - 1
      BY MemoryAssumption
    <3> QED
      BY <3>1
  <2> QED
    BY <1>1, <1>2, <2>1, <2>2 DEF Memories, Contents, PteType
<1>4. \A u \in Tasks, p \in Pages : mem.pte[u][p] = Absent
  BY <1>1
<1>5. /\ DOMAIN page = Tasks /\ \A u \in Tasks : page[u] = NoFrame
      /\ DOMAIN mem.dir = Tasks \X Tables /\ DOMAIN mem.task = Tasks
      /\ \A e \in Tasks \X Tables : mem.dir[e] = IF e = <<t, 1>> THEN NFRAMES - 1 ELSE NoFrame
      /\ \A u \in Tasks : mem.task[u] = IF u = t THEN NFRAMES ELSE NoFrame
      /\ mem.map = [f \in Frames |-> IF f >= NFRAMES - 1 THEN 1 ELSE 0]
  BY <1>1 DEF Init
<1>6. ASSUME NEW f \in Frames
      PROVE  /\ Count(FrameOf(mem), f) = 0 /\ Hands[f] = 0
             /\ Count(mem.dir, f) = IF f = NFRAMES - 1 THEN 1 ELSE 0
             /\ Count(mem.task, f) = IF f = NFRAMES THEN 1 ELSE 0
  <2>1. Count(FrameOf(mem), f) = 0
    <3>1. \A u \in Tasks, p \in Pages : mem.pte[u][p].frame # f
      BY <1>2, <1>4 DEF Absent
    <3> QED
      BY <1>3, <3>1, CountsAre
  <2>2. Hands[f] = 0
    <3>1. \A d \in Tasks : page[d] # f
      BY <1>2, <1>5
    <3>2. Count(page, f) = 0
      BY ONLY <1>5, <3>1, CountNat, MemoryAssumption
    <3> QED
      BY <3>2 DEF Hands
  <2>3. ASSUME NEW D, NEW x \in D, NEW g, DOMAIN g = D, NEW k \in Frames,
               \A u \in D : g[u] = IF u = x THEN k ELSE NoFrame
        PROVE  Count(g, f) = IF f = k THEN 1 ELSE 0
    <3>1. {d \in DOMAIN g : g[d] = f} = IF f = k THEN {x} ELSE {}
      BY <1>2, <2>3
    <3>2. Cardinality({x}) = 1 /\ Cardinality({}) = 0
      BY FS_Singleton, FS_EmptySet
    <3> QED
      BY <3>1, <3>2 DEF Count
  <2>4. Count(mem.dir, f) = IF f = NFRAMES - 1 THEN 1 ELSE 0
    <3>1. <<t, 1>> \in Tasks \X Tables
      BY MemoryAssumption DEF Tables
    <3> DEFINE E == Tasks \X Tables
               x == <<t, 1>>
    <3>2. x \in E /\ DOMAIN mem.dir = E
          /\ \A e \in E : mem.dir[e] = IF e = x THEN NFRAMES - 1 ELSE NoFrame
      BY <1>5, <3>1
    <3> HIDE DEF E, x
    <3> QED
      BY <1>2, <2>3, <3>2
  <2>5. Count(mem.task, f) = IF f = NFRAMES THEN 1 ELSE 0
    BY <1>2, <1>5, <2>3
  <2> QED
    BY <2>1, <2>2, <2>4, <2>5
<1>7. ASSUME NEW f \in Frames
      PROVE  Held(mem, Hands, f) <= mem.map[f] /\ Held(mem, Hands, f) <= 1
             /\ Kernel(mem, Hands, f) = Held(mem, Hands, f) /\ Held(mem, Hands, f) \in Nat
  BY <1>5, <1>6, MemoryAssumption DEF Held, Kernel, Frames
<1>8. Fits(mem, Hands) /\ Apart(mem, Hands)
  BY <1>7 DEF Fits, Apart
<1>9. Alone(mem) /\ Tabled(mem)
  BY <1>4 DEF Alone, Tabled, Present, Absent
<1>10. Hands \in Hold
  BY <1>6 DEF Hands, Hold
<1>11. Control /\ ForkIs
  BY <1>1, <1>2, <1>5 DEF Init, Control, ForkIs
<1> QED
  BY <1>1, <1>3, <1>8, <1>9, <1>10, <1>11 DEF Inv, Sound

-----------------------------------------------------------------------------
\* What the invariant says of the tasks.
LEMMA Tasked ==
    ASSUME Inv, NEW t \in Tasks
    PROVE  /\ page[t] \in Frames \cup {NoFrame}
           /\ page[t] # NoFrame <=> pc[t] \in {"reading", "exec"}
           /\ mem.task[t] # NoFrame <=> pc[t] # "none"
           /\ pc[t] \in {"none", "zombie"} => \A d \in Tables : mem.dir[<<t, d>>] = NoFrame
           /\ pc[t] = "reading" => at[t] \in Pages
           /\ mem \in Memories /\ mem.task[t] \in Frames \cup {NoFrame}
           /\ Sound(mem, Hands) /\ Hands \in Hold
BY DEF Inv, Control, Sound, Memories

\* find_empty_process() and copy_process(): the child gets its task structure.
LEMMA ForkKeeps ==
    ASSUME Inv, NEW t \in Tasks, NEW u \in Tasks, Fork(t, u)
    PROVE  Inv'
<1>1. /\ pc[t] = "user" /\ pc[u] = "none" /\ mem.halt = "none" /\ t # u /\ fork = NoFork
      /\ UNCHANGED <<wrapped, page, at, area>> /\ Hands' = Hands
  BY DEF Fork, Running, Going, Hands
<1>2. PICK r \in get_free_page(mem) :
          IF r.page = NoFrame THEN mem' = r.mem /\ UNCHANGED <<fork, pc>>
          ELSE /\ mem' = [r.mem EXCEPT !.task[u] = r.page]
               /\ fork' = Forking(t, u, 1)
               /\ Go(u, "new")
  BY DEF Fork, Forking
<1>3. /\ Reclaimed(r.mem, mem)
      /\ r.page = NoFrame => Sound(r.mem, Hands)
      /\ r.page # NoFrame => r.page \in Frames /\ Sound(r.mem, More(Hands, r.page))
  BY Tasked, GotPage
<1>4. area' \in [Tasks -> Pages \cup {NoArea}]
  BY <1>1 DEF Inv, Control
<1>5. CASE r.page = NoFrame
  <2>1. /\ Sound(mem', Hands) /\ Others(mem', mem, t) /\ mem'.halt = "none"
        /\ UNCHANGED <<fork, pc, page, at>>
    BY <1>1, <1>2, <1>3, <1>5 DEF Reclaimed, Others
  <2> QED
    BY <1>1, <1>4, <2>1, Stays
<1>6. CASE r.page # NoFrame
  <2>1. mem' = [r.mem EXCEPT !.task[u] = r.page] /\ fork' = Forking(t, u, 1) /\ Go(u, "new")
    BY <1>2, <1>6
  <2>2. r.mem.task[u] = NoFrame /\ r.mem \in Memories
    BY <1>1, <1>3, <1>6, Tasked DEF Reclaimed, Sound
  <2>3. Sound(mem', Hands)
    BY <1>3, <1>6, <2>1, <2>2, Tasked, TaskPut
  <2>4. /\ mem'.dir = mem.dir /\ mem'.halt = "none"
        /\ mem'.task = [mem.task EXCEPT ![u] = r.page]
    BY <1>1, <1>3, <2>1, <2>2 DEF Reclaimed, Memories
  <2>5. Control'
    <3>1. mem'.task[u] # NoFrame /\ \A v \in Tasks : v # u => mem'.task[v] = mem.task[v]
      BY <1>3, <1>6, <2>4 DEF Inv, Sound, Memories, NoFrame, Frames
    <3>2. page[u] = NoFrame
      BY <1>1, Tasked
    <3> QED
      BY <1>1, <2>1, <2>4, <3>1, <3>2 DEF Inv, Control, Go
  <2>6. ForkIs'
    <3>1. 1 \in 1 .. NTABLES + 1
      BY MemoryAssumption
    <3>2. \A d \in Tables : mem'.dir[<<u, d>>] = NoFrame
      BY <1>1, <2>4, Tasked
    <3>3. fork' # NoFork /\ fork'.child = u
      BY <2>1, ForkingIs
    <3>4. \A v \in Tasks : pc[v] # "new"
      BY <1>1 DEF Inv, ForkIs
    <3>5. \A v \in Tasks : pc'[v] = "new" <=> v = u
      BY <2>1, <3>4 DEF Inv, Control, Go
    <3> QED
      BY <1>1, <2>1, <3>1, <3>2, <3>3, <3>5 DEF ForkIs
  <2>7. Sound(mem, Hands)' <=> Sound(mem', Hands')
    BY DEF Sound
  <2> QED
    BY <1>1, <2>3, <2>4, <2>5, <2>6, <2>7 DEF Inv
<1> QED
  BY <1>5, <1>6

\* What the invariant says of a fork() under way.
LEMMA ForkUnderWay ==
    ASSUME Inv, NEW t, NEW u, NEW d, fork = Forking(t, u, d)
    PROVE  /\ t \in Tasks /\ u \in Tasks /\ t # u /\ d \in 1 .. NTABLES + 1
           /\ fork # NoFork /\ pc[u] = "new"
           /\ \A v \in Tasks : pc[v] = "new" <=> v = u
           /\ \A e \in Tables : e >= d => mem.dir[<<u, e>>] = NoFrame
<1>1. fork # NoFork /\ fork.parent = t /\ fork.child = u /\ fork.table = d
  BY ForkingIs
<1>2. PICK v, w \in Tasks, x \in 1 .. NTABLES + 1 :
          /\ fork = Forking(v, w, x) /\ v # w
          /\ \A e \in Tables : e >= x => mem.dir[<<w, e>>] = NoFrame
  BY <1>1 DEF Inv, ForkIs
<1>3. v = t /\ w = u /\ x = d
  BY <1>1, <1>2, ForkingIs
<1> QED
  BY <1>1, <1>2, <1>3 DEF Inv, ForkIs

\* copy_page_tables(): one table is copied; if that fails, the ones before it, all
\* of which are sound, and the task structure are given back.
LEMMA CopyTableKeeps ==
    ASSUME Inv, NEW t \in Tasks, NEW u \in Tasks, NEW d \in Tables, CopyTable(t, u, d), ~wrapped'
    PROVE  Inv'
<1>1. /\ fork = Forking(t, u, d) /\ mem.halt = "none"
      /\ UNCHANGED <<page, at, area>> /\ Hands' = Hands
  BY DEF CopyTable, Forking, Hands
<1>2. /\ t # u /\ fork # NoFork /\ pc[u] = "new" /\ mem.dir[<<u, d>>] = NoFrame
      /\ \A v \in Tasks : pc[v] = "new" <=> v = u
      /\ \A e \in Tables : e >= d => mem.dir[<<u, e>>] = NoFrame
      /\ d + 1 \in 1 .. NTABLES + 1 /\ wrapped = FALSE
  <2>1. d + 1 \in 1 .. NTABLES + 1 /\ d >= d
    BY MemoryAssumption DEF Tables
  <2>2. wrapped = FALSE
    BY DEF CopyTable, Inv, Control
  <2>3. /\ t # u /\ fork # NoFork /\ pc[u] = "new"
        /\ \A v \in Tasks : pc[v] = "new" <=> v = u
        /\ \A e \in Tables : e >= d => mem.dir[<<u, e>>] = NoFrame
    BY <1>1, ForkUnderWay
  <2> QED
    BY <2>1, <2>2, <2>3
<1>3. \A e \in Tables : e >= d + 1 => e >= d /\ e # d
  BY DEF Tables
<1>4. ASSUME fork' = [fork EXCEPT !.table = d + 1]
      PROVE  fork' = Forking(t, u, d + 1) /\ fork' # NoFork /\ fork'.child = u
  <2>1. fork' = Forking(t, u, d + 1)
    BY <1>1, <1>4 DEF Forking
  <2> QED
    BY <2>1, ForkingIs
<1>5. Sound(mem, Hands)' <=> Sound(mem', Hands')
  BY DEF Sound
<1>6. CASE mem.dir[<<t, d>>] = NoFrame
  <2>1. fork' = [fork EXCEPT !.table = d + 1] /\ UNCHANGED <<mem, wrapped, pc>>
    BY <1>2, <1>6 DEF CopyTable
  <2>2. Control'
    BY <1>1, <2>1 DEF Inv, Control
  <2>3. ForkIs'
    BY <1>2, <1>3, <1>4, <2>1 DEF ForkIs
  <2>4. Sound(mem', Hands')
    BY <1>1, <2>1 DEF Inv
  <2> QED
    BY <1>1, <1>5, <2>1, <2>2, <2>3, <2>4 DEF Inv
<1>7. CASE mem.dir[<<t, d>>] # NoFrame
  <2>1. PICK r \in copy_table(mem, t, u, d) :
          IF r.page = NoFrame
          THEN /\ mem' = free_page([free_page_tables(r.mem, u) EXCEPT !.task[u] = NoFrame],
                                   mem.task[u])
               /\ fork' = NoFork
               /\ Go(u, "none")
               /\ UNCHANGED wrapped
          ELSE /\ mem' = r.mem
               /\ wrapped' = (wrapped \/ r.wraps)
               /\ fork' = [fork EXCEPT !.table = d + 1]
               /\ UNCHANGED pc
    BY <1>2, <1>7 DEF CopyTable
  <2>2. ~r.wraps
    <3>1. CASE r.page = NoFrame
      <4>1. PICK q \in get_free_page(mem) :
               r = IF q.page = NoFrame
                   THEN [mem |-> q.mem, page |-> NoFrame, wraps |-> FALSE]
                   ELSE [mem |-> ShareTable([q.mem EXCEPT !.dir[<<u, d>>] = q.page], t, u, d),
                         page |-> q.page,
                         wraps |-> Wraps(q.mem, InEntries(q.mem, t, InTable(d)))]
        BY DEF copy_table
      <4>2. q.page = NoFrame
        BY <3>1, <4>1
      <4> QED
        BY <4>1, <4>2
    <3>2. CASE r.page # NoFrame
      BY <2>1, <3>2
    <3> QED
      BY <3>1, <3>2
  <2>3. /\ Sound(r.mem, Hands) /\ r.mem.halt = mem.halt /\ r.mem.task = mem.task
        /\ \A e \in Tasks \X Tables : e # <<u, d>> => r.mem.dir[e] = mem.dir[e]
    BY <1>2, <2>2, Tasked, TableCopied
  <2>4. CASE r.page # NoFrame
    <3>1. mem' = r.mem /\ fork' = [fork EXCEPT !.table = d + 1] /\ UNCHANGED pc
          /\ wrapped' = (wrapped \/ r.wraps)
      BY <2>1, <2>4
    <3>2. wrapped' = FALSE
      BY <1>2, <2>2, <3>1
    <3>3. \A v \in Tasks, e \in Tables : v # u => mem'.dir[<<v, e>>] = mem.dir[<<v, e>>]
      BY <2>3, <3>1
    <3>4. Control'
      BY <1>1, <1>2, <2>3, <3>1, <3>2, <3>3 DEF Inv, Control
    <3>5. \A e \in Tables : e >= d + 1 => mem'.dir[<<u, e>>] = NoFrame
      BY <1>2, <1>3, <2>3, <3>1
    <3>6. ForkIs'
      BY <1>2, <1>4, <3>1, <3>5 DEF ForkIs
    <3>7. Sound(mem', Hands') /\ mem'.halt = "none"
      BY <1>1, <2>3, <3>1
    <3> QED
      BY <1>5, <3>4, <3>6, <3>7 DEF Inv
  <2>5. CASE r.page = NoFrame
    <3> DEFINE k == free_page_tables(r.mem, u)
               l == [k EXCEPT !.task[u] = NoFrame]
               f == mem.task[u]
    <3>1. /\ Sound(k, Hands) /\ k.halt = r.mem.halt /\ k.task = r.mem.task
          /\ k.dir = NoTables(r.mem, u)
      BY <2>3, TablesFreed
    <3>2. mem' = free_page(l, f) /\ fork' = NoFork /\ Go(u, "none") /\ UNCHANGED wrapped
      BY <2>1, <2>5
    <3> HIDE DEF k
    <3>3. k.task[u] = f /\ f \in Frames /\ k \in Memories
      BY <1>2, <2>3, <3>1, Tasked DEF Sound
    <3> HIDE DEF f
    <3>4. Sound(l, More(Hands, f))
      BY <3>1, <3>3, Tasked, TaskTaken
    <3>5. l.dir = k.dir /\ l.halt = k.halt /\ l.task = [k.task EXCEPT ![u] = NoFrame]
      BY <3>3 DEF Memories
    <3> HIDE DEF l
    <3>6. Sound(mem', Hands) /\ mem'.dir = l.dir /\ mem'.task = l.task /\ mem'.halt = l.halt
      BY <3>2, <3>3, <3>4, Tasked, PageFreed
    <3>7. mem'.task = [mem.task EXCEPT ![u] = NoFrame]
      BY <2>3, <3>1, <3>5, <3>6
    <3>8. \A v \in Tasks, e \in Tables :
             mem'.dir[<<v, e>>] = IF v = u THEN NoFrame ELSE mem.dir[<<v, e>>]
      <4> TAKE v \in Tasks, e \in Tables
      <4>1. mem'.dir = NoTables(r.mem, u)
        BY <3>1, <3>5, <3>6
      <4>2. mem'.dir[<<v, e>>] = IF v = u THEN NoFrame ELSE r.mem.dir[<<v, e>>]
        BY <4>1 DEF NoTables
      <4>3. v # u => r.mem.dir[<<v, e>>] = mem.dir[<<v, e>>]
        BY <2>3
      <4> QED
        BY <4>2, <4>3
    <3>9. Control'
      <4>1. mem'.task[u] = NoFrame /\ \A v \in Tasks : v # u => mem'.task[v] = mem.task[v]
        BY <3>7 DEF Inv, Sound, Memories
      <4>2. page[u] = NoFrame
        BY <1>2, Tasked
      <4> QED
        BY <1>1, <1>2, <3>2, <3>8, <4>1, <4>2 DEF Inv, Control, Go
    <3>10. ForkIs'
      <4>1. \A v \in Tasks : pc'[v] # "new"
        BY <1>2, <3>2 DEF Inv, Control, Go
      <4> QED
        BY <3>2, <4>1 DEF ForkIs
    <3>11. Sound(mem', Hands') /\ mem'.halt = "none"
      BY <1>1, <2>3, <3>1, <3>5, <3>6
    <3> QED
      BY <1>5, <3>9, <3>10, <3>11 DEF Inv
  <2> QED
    BY <2>4, <2>5
<1> QED
  BY <1>6, <1>7

\* The end of copy_process().
LEMMA ForkedKeeps ==
    ASSUME Inv, NEW t \in Tasks, NEW u \in Tasks, Forked(t, u)
    PROVE  Inv'
<1>1. /\ fork = Forking(t, u, NTABLES + 1) /\ mem.halt = "none" /\ fork' = NoFork
      /\ Go(u, "user") /\ UNCHANGED <<mem, wrapped, page, at, area>> /\ Hands' = Hands
  BY DEF Forked, Forking, Hands
<1>2. pc[u] = "new" /\ \A v \in Tasks : pc[v] = "new" <=> v = u
  BY <1>1, ForkUnderWay
<1>3. Control'
  BY <1>1, <1>2 DEF Inv, Control, Go
<1>4. ForkIs'
  <2>1. \A v \in Tasks : pc'[v] # "new"
    BY <1>1, <1>2 DEF Inv, Control, Go
  <2> QED
    BY <1>1, <2>1 DEF ForkIs
<1>5. Sound(mem, Hands)' <=> Sound(mem', Hands')
  BY DEF Sound
<1> QED
  BY <1>1, <1>3, <1>4, <1>5 DEF Inv

\* do_no_page() of an empty page.
LEMMA EmptyPageKeeps ==
    ASSUME Inv, NEW t \in Tasks, NEW p \in Pages, EmptyPage(t, p)
    PROVE  Inv'
<1>1. /\ pc[t] = "user" /\ mem.halt = "none" /\ mem' \in get_empty_page(mem, t, p)
      /\ fork = NoFork /\ UNCHANGED <<wrapped, fork, pc, page, at, area>>
  BY DEF EmptyPage, Running, Going
<1>2. Sound(mem', Hands) /\ Others(mem', mem, t) /\ mem'.halt = "none"
  BY <1>1, Tasked, EmptyPageGot
<1>3. area' \in [Tasks -> Pages \cup {NoArea}]
  BY <1>1 DEF Inv, Control
<1> QED
  BY <1>1, <1>2, <1>3, Stays

\* do_no_page() of a page that another task has.
LEMMA SharePageKeeps ==
    ASSUME Inv, NEW t \in Tasks, NEW p \in Pages, SharePage(t, p), ~wrapped'
    PROVE  Inv'
<1>1. /\ pc[t] = "user" /\ mem.halt = "none" /\ ~Present(mem, t, p) /\ fork = NoFork
      /\ UNCHANGED <<fork, pc, page, at, area>>
  BY DEF SharePage, Running, Going
<1>2. PICK u \in Tasks :
          /\ t # u /\ Present(mem, u, p)
          /\ \E r \in try_to_share(mem, t, u, p) :
                mem' = r.mem /\ wrapped' = (wrapped \/ r.wraps)
  BY DEF SharePage, Sharable
<1>3. PICK r \in try_to_share(mem, t, u, p) :
          mem' = r.mem /\ wrapped' = (wrapped \/ r.wraps)
  BY <1>2
<1>4. Sound(mem', Hands) /\ Others(mem', mem, t) /\ mem'.halt \in {mem.halt, "wild"}
  BY <1>1, <1>2, <1>3, Tasked, SharingTried
<1>5. area' \in [Tasks -> Pages \cup {NoArea}] /\ UNCHANGED wrapped
  BY <1>1, <1>3 DEF Inv, Control
<1> QED
  BY <1>1, <1>4, <1>5, Stays

\* do_no_page() that has a page to read into, or none.
LEMMA ReadPageKeeps ==
    ASSUME Inv, NEW t \in Tasks, NEW p \in Pages, ReadPage(t, p)
    PROVE  Inv'
<1>1. /\ pc[t] = "user" /\ mem.halt = "none" /\ fork = NoFork
      /\ UNCHANGED <<wrapped, fork, area>>
  BY DEF ReadPage, Running, Going
<1>2. PICK r \in get_free_page(mem) :
          \/ r.page = NoFrame /\ mem' = Halt(r.mem, "wild") /\ UNCHANGED <<pc, page, at>>
          \/ r.page # NoFrame /\ mem' = Halt(r.mem, "block") /\ UNCHANGED <<pc, page, at>>
          \/ /\ r.page # NoFrame
             /\ \E what \in {"file", "junk"} : mem' = [r.mem EXCEPT !.data[r.page] = what]
             /\ page' = [page EXCEPT ![t] = r.page]
             /\ at' = [at EXCEPT ![t] = p]
             /\ Go(t, "reading")
  BY DEF ReadPage
<1>3. /\ Reclaimed(r.mem, mem)
      /\ r.page = NoFrame => Sound(r.mem, Hands)
      /\ r.page # NoFrame => r.page \in Frames /\ Sound(r.mem, More(Hands, r.page))
  BY Tasked, GotPage
<1>4. ASSUME NEW why \in {"block", "wild"}, mem' = Halt(r.mem, why), UNCHANGED <<pc, page, at>>
      PROVE  Inv'
  <2>1. Sound(r.mem, Hands)
    BY <1>3, Tasked, Forgotten
  <2>2. Sound(mem', Hands) /\ mem'.halt = why /\ mem'.dir = r.mem.dir /\ mem'.task = r.mem.task
    BY <1>4, <2>1, Halted
  <2>3. Others(mem', mem, t) /\ mem'.halt \in {"none", "block", "wild"}
    BY <1>3, <2>2 DEF Reclaimed, Others
  <2>4. area' \in [Tasks -> Pages \cup {NoArea}]
    BY <1>1 DEF Inv, Control
  <2> QED
    BY <1>1, <1>4, <2>2, <2>3, <2>4, Stays
<1>5. ASSUME r.page # NoFrame, NEW what \in {"file", "junk"},
             mem' = [r.mem EXCEPT !.data[r.page] = what],
             page' = [page EXCEPT ![t] = r.page], at' = [at EXCEPT ![t] = p], Go(t, "reading")
      PROVE  Inv'
  <2>1. Hands' = More(Hands, r.page)
    BY <1>1, <1>3, <1>5, Tasked, HandTaken
  <2>2. /\ Sound(mem', Hands') /\ mem'.halt = "none" /\ mem'.task = mem.task
        /\ mem'.dir = mem.dir
    <3> DEFINE n == [r.mem EXCEPT !.data[r.page] = what]
    <3>1. /\ Sound(n, More(Hands, r.page)) /\ n.halt = r.mem.halt
          /\ n.dir = r.mem.dir /\ n.task = r.mem.task
      BY <1>3, <1>5, Filled DEF Contents
    <3> QED
      BY <1>1, <1>3, <1>5, <2>1, <3>1 DEF Reclaimed
  <2>3. at' \in [Tasks -> Pages \cup {NoArea}] /\ at'[t] \in Pages
        /\ \A v \in Tasks : v # t => at'[v] = at[v]
    BY <1>5 DEF Inv, Control
  <2> QED
    BY <1>1, <1>3, <1>5, <2>2, <2>3, Goes
<1> QED
  BY <1>2, <1>4, <1>5

\* do_no_page() after the disk: the page goes into the table, or is freed.
LEMMA PageReadKeeps ==
    ASSUME Inv, NEW t \in Tasks, PageRead(t)
    PROVE  Inv'
<1> DEFINE f == page[t]
<1>1. /\ pc[t] = "reading" /\ mem.halt = "none" /\ page' = [page EXCEPT ![t] = NoFrame]
      /\ at' = [at EXCEPT ![t] = NoArea] /\ Go(t, "user") /\ fork = NoFork
      /\ UNCHANGED <<wrapped, fork, area>>
  BY DEF PageRead, Going
<1>2. PICK q \in put_page(mem, f, t, at[t]) :
          mem' = IF q.page = NoFrame THEN free_page(q.mem, f) ELSE q.mem
  BY DEF PageRead
<1>3. f \in Frames /\ at[t] \in Pages
  BY <1>1, Tasked
<1>4. Hands = More(Hands', f) /\ Hands' \in Hold
  BY <1>1, <1>3, HandGiven
<1> HIDE DEF f
<1>5. Sound(mem, More(Hands', f))
  BY <1>4, Tasked
<1>6. /\ Others(q.mem, mem, t) /\ q.mem.halt = mem.halt
      /\ q.page = NoFrame => Sound(q.mem, More(Hands', f))
      /\ q.page # NoFrame => Sound(q.mem, Hands')
  BY <1>2, <1>3, <1>4, <1>5, PagePut
<1> DEFINE n == IF q.page = NoFrame THEN free_page(q.mem, f) ELSE q.mem
<1>7. /\ mem' = n /\ Sound(n, Hands') /\ n.halt = mem.halt /\ n.task = mem.task
      /\ \A v \in Tasks, d \in Tables : v # t => n.dir[<<v, d>>] = mem.dir[<<v, d>>]
  <2>1. CASE q.page = NoFrame
    <3> DEFINE k == free_page(q.mem, f)
    <3>1. /\ Sound(k, Hands') /\ k.dir = q.mem.dir /\ k.task = q.mem.task
          /\ k.halt = q.mem.halt
      BY <1>3, <1>4, <1>6, <2>1, PageFreed
    <3>2. mem' = k /\ n = k
      BY <1>2, <2>1
    <3> HIDE DEF k, n
    <3> QED
      BY <1>6, <3>1, <3>2 DEF Others
  <2>2. CASE q.page # NoFrame
    BY <1>2, <1>6, <2>2 DEF Others
  <2> QED
    BY <2>1, <2>2
<1> HIDE DEF n
<1>8. Control' /\ ForkIs'
  BY <1>1, <1>7 DEF Inv, Control, ForkIs, Go
<1>9. Sound(mem, Hands)' <=> Sound(mem', Hands')
  BY DEF Sound
<1> QED
  BY <1>1, <1>7, <1>8, <1>9 DEF Inv

\* do_wp_page() and the first half of verify_area(): n is what un_wp_page() leaves.
LEMMA UnprotectKeeps ==
    ASSUME Inv, NEW t \in Tasks, pc[t] = "user", mem.halt = "none",
           NEW p \in Pages, Present(mem, t, p), mem' \in un_wp_page(mem, t, p),
           UNCHANGED <<wrapped, fork, pc, page, at>>, fork = NoFork,
           area' \in [Tasks -> Pages \cup {NoArea}]
    PROVE  Inv'
<1>1. Sound(mem', Hands) /\ Others(mem', mem, t) /\ mem'.halt \in {mem.halt, "wild"}
  BY Tasked, Unprotected
<1> QED
  BY <1>1, Stays

\* A write by the task or by the kernel for it.
LEMMA WrittenKeeps ==
    ASSUME Inv, NEW t \in Tasks, pc[t] = "user", mem.halt = "none",
           NEW p \in Pages, Present(mem, t, p), mem' = Written(mem, t, p),
           UNCHANGED <<wrapped, fork, pc, page, at>>, fork = NoFork,
           area' \in [Tasks -> Pages \cup {NoArea}]
    PROVE  Inv'
<1>1. Sound(mem', Hands) /\ mem'.dir = mem.dir /\ mem'.task = mem.task /\ mem'.halt = mem.halt
  BY Tasked, WriteKeeps
<1>2. Others(mem', mem, t)
  BY <1>1 DEF Others
<1> QED
  BY <1>1, <1>2, Stays

\* do_wp_page().
LEMMA WriteProtectedKeeps ==
    ASSUME Inv, NEW t \in Tasks, NEW p \in Pages, WriteProtected(t, p)
    PROVE  Inv'
<1>1. area' \in [Tasks -> Pages \cup {NoArea}]
  BY DEF WriteProtected, Inv, Control
<1> QED
  BY <1>1, UnprotectKeeps DEF WriteProtected, Running, Going

\* verify_area().
LEMMA VerifyAreaKeeps ==
    ASSUME Inv, NEW t \in Tasks, NEW p \in Pages, VerifyArea(t, p)
    PROVE  Inv'
<1>1. /\ pc[t] = "user" /\ mem.halt = "none" /\ fork = NoFork
      /\ UNCHANGED <<wrapped, fork, pc, page, at>>
      /\ area' \in [Tasks -> Pages \cup {NoArea}]
  BY DEF VerifyArea, Running, Going, Inv, Control
<1>2. CASE Present(mem, t, p) /\ ~mem.pte[t][p].rw
  <2>1. mem' \in un_wp_page(mem, t, p)
    BY <1>2 DEF VerifyArea
  <2> QED
    BY <1>1, <1>2, <2>1, UnprotectKeeps
<1>3. CASE ~(Present(mem, t, p) /\ ~mem.pte[t][p].rw)
  <2>1. mem' = mem
    BY <1>3 DEF VerifyArea
  <2>2. Sound(mem', Hands) /\ Others(mem', mem, t) /\ mem'.halt = "none"
    BY <1>1, <2>1, Tasked DEF Others
  <2> QED
    BY <1>1, <2>2, Stays
<1> QED
  BY <1>2, <1>3

\* The task writes to its page.
LEMMA WriteStepKeeps ==
    ASSUME Inv, NEW t \in Tasks, NEW p \in Pages, Write(t, p)
    PROVE  Inv'
<1>1. area' \in [Tasks -> Pages \cup {NoArea}]
  BY DEF Write, Inv, Control
<1> QED
  BY <1>1, WrittenKeeps DEF Write, Running, Going

\* The kernel writes to the page verify_area() has approved.
LEMMA KernelWriteKeeps ==
    ASSUME Inv, NEW t \in Tasks, KernelWrite(t)
    PROVE  Inv'
<1>1. area[t] \in Pages /\ area' \in [Tasks -> Pages \cup {NoArea}]
  BY DEF KernelWrite, Running, Going, Inv, Control
<1> QED
  BY <1>1, WrittenKeeps DEF KernelWrite, Running, Going

\* copy_strings() of do_execve().
LEMMA ExecStringsKeeps ==
    ASSUME Inv, NEW t \in Tasks, ExecStrings(t)
    PROVE  Inv'
<1>1. /\ pc[t] = "user" /\ mem.halt = "none" /\ fork = NoFork
      /\ UNCHANGED <<wrapped, fork, at, area>>
  BY DEF ExecStrings, Running, Going
<1>2. PICK r \in get_free_page(mem) :
          IF r.page = NoFrame THEN mem' = r.mem /\ UNCHANGED <<pc, page>>
          ELSE /\ mem' = [r.mem EXCEPT !.data[r.page] = "private"]
               /\ page' = [page EXCEPT ![t] = r.page]
               /\ Go(t, "exec")
  BY DEF ExecStrings
<1>3. /\ Reclaimed(r.mem, mem)
      /\ r.page = NoFrame => Sound(r.mem, Hands)
      /\ r.page # NoFrame => r.page \in Frames /\ Sound(r.mem, More(Hands, r.page))
  BY Tasked, GotPage
<1>4. area' \in [Tasks -> Pages \cup {NoArea}] /\ at' \in [Tasks -> Pages \cup {NoArea}]
  BY <1>1 DEF Inv, Control
<1>5. CASE r.page = NoFrame
  <2>1. Sound(mem', Hands) /\ Others(mem', mem, t) /\ mem'.halt = "none"
    BY <1>1, <1>2, <1>3, <1>5 DEF Reclaimed, Others
  <2> QED
    BY <1>1, <1>2, <1>4, <1>5, <2>1, Stays
<1>6. CASE r.page # NoFrame
  <2> DEFINE n == [r.mem EXCEPT !.data[r.page] = "private"]
  <2>1. mem' = n /\ page' = [page EXCEPT ![t] = r.page] /\ Go(t, "exec")
    BY <1>2, <1>6
  <2>2. Hands' = More(Hands, r.page)
    BY <1>1, <1>3, <1>6, <2>1, Tasked, HandTaken
  <2>3. /\ Sound(n, More(Hands, r.page)) /\ n.halt = r.mem.halt
        /\ n.dir = r.mem.dir /\ n.task = r.mem.task
    BY <1>3, <1>6, Filled DEF Contents
  <2> HIDE DEF n
  <2>4. /\ Sound(mem', Hands') /\ mem'.halt = "none" /\ mem'.task = mem.task
        /\ mem'.dir = mem.dir
    BY <1>1, <1>3, <2>1, <2>2, <2>3 DEF Reclaimed
  <2>5. \A v \in Tasks : v # t => at'[v] = at[v]
    BY <1>1
  <2> QED
    BY <1>1, <1>3, <1>4, <1>6, <2>1, <2>4, <2>5, Goes
<1> QED
  BY <1>5, <1>6

\* exec_error2: the arguments are given up.
LEMMA ExecFailsKeeps ==
    ASSUME Inv, NEW t \in Tasks, ExecFails(t)
    PROVE  Inv'
<1> DEFINE f == page[t]
           n == free_page(mem, f)
<1>1. /\ pc[t] = "exec" /\ mem.halt = "none" /\ page' = [page EXCEPT ![t] = NoFrame]
      /\ mem' = n /\ Go(t, "user") /\ fork = NoFork
      /\ UNCHANGED <<wrapped, fork, at, area>>
  BY DEF ExecFails, Going
<1>2. f \in Frames
  BY <1>1, Tasked
<1>3. Hands = More(Hands', f) /\ Hands' \in Hold
  BY <1>1, <1>2, HandGiven
<1> HIDE DEF f
<1>4. Sound(n, Hands') /\ n.dir = mem.dir /\ n.task = mem.task /\ n.halt = mem.halt
  BY <1>2, <1>3, Tasked, PageFreed
<1> HIDE DEF n
<1>5. at' \in [Tasks -> Pages \cup {NoArea}]
  BY <1>1 DEF Inv, Control
<1> QED
  BY <1>1, <1>4, <1>5, Goes

\* change_ldt(): the page of the arguments is in the new table; without a frame for
\* that table the page is lost, still counted.
LEMMA ExecKeeps ==
    ASSUME Inv, NEW t \in Tasks, NEW p \in Pages, Exec(t, p)
    PROVE  Inv'
<1> DEFINE f == page[t]
           k == free_page_tables(mem, t)
<1>1. /\ pc[t] = "exec" /\ mem.halt = "none" /\ page' = [page EXCEPT ![t] = NoFrame]
      /\ Go(t, "user") /\ fork = NoFork
      /\ UNCHANGED <<wrapped, fork, at, area>>
  BY DEF Exec, Going
<1>2. PICK q \in put_page(k, f, t, p), lowest \in BOOLEAN :
          mem' = IF lowest /\ q.page # NoFrame THEN Written(q.mem, t, p) ELSE q.mem
  BY DEF Exec
<1>3. f \in Frames
  BY <1>1, Tasked
<1>4. Hands = More(Hands', f) /\ Hands' \in Hold
  BY <1>1, <1>3, HandGiven
<1> HIDE DEF f
<1>5. /\ Sound(k, More(Hands', f)) /\ k.halt = mem.halt /\ k.task = mem.task
      /\ k.dir = NoTables(mem, t)
  BY <1>4, Tasked, TablesFreed
<1> HIDE DEF k
<1>6. /\ Others(q.mem, k, t) /\ q.mem.halt = k.halt
      /\ q.page = NoFrame => Sound(q.mem, More(Hands', f))
      /\ q.page # NoFrame => Sound(q.mem, Hands') /\ Present(q.mem, t, p)
  BY <1>2, <1>3, <1>4, <1>5, PagePut
<1>7. Sound(q.mem, Hands')
  BY <1>3, <1>4, <1>6, Forgotten
<1>8. \A v \in Tasks, d \in Tables : v # t => q.mem.dir[<<v, d>>] = mem.dir[<<v, d>>]
  <2> TAKE v \in Tasks, d \in Tables
  <2>1. k.dir[<<v, d>>] = IF v = t THEN NoFrame ELSE mem.dir[<<v, d>>]
    BY <1>5 DEF NoTables
  <2>2. v # t => q.mem.dir[<<v, d>>] = k.dir[<<v, d>>]
    BY <1>6 DEF Others
  <2> QED
    BY <2>1, <2>2
<1> DEFINE n == IF lowest /\ q.page # NoFrame THEN Written(q.mem, t, p) ELSE q.mem
           w == Written(q.mem, t, p)
<1>9. Sound(n, Hands') /\ n.halt = q.mem.halt /\ n.task = q.mem.task /\ n.dir = q.mem.dir
  <2>1. ASSUME q.page # NoFrame
        PROVE  Sound(w, Hands') /\ w.halt = q.mem.halt /\ w.task = q.mem.task
               /\ w.dir = q.mem.dir
    BY <1>6, <2>1, WriteKeeps
  <2> HIDE DEF w
  <2>2. n = IF lowest /\ q.page # NoFrame THEN w ELSE q.mem
    BY DEF w
  <2> HIDE DEF n
  <2> QED
    BY <1>7, <2>1, <2>2
<1>10. mem' = n
  BY <1>2
<1> HIDE DEF n
<1>11. Control' /\ ForkIs'
  BY <1>1, <1>5, <1>6, <1>8, <1>9, <1>10 DEF Inv, Control, ForkIs, Go, Others
<1>12. Sound(mem, Hands)' <=> Sound(mem', Hands')
  BY DEF Sound
<1> QED
  BY <1>1, <1>5, <1>6, <1>9, <1>10, <1>11, <1>12 DEF Inv

\* do_exit().
LEMMA ExitKeeps ==
    ASSUME Inv, NEW t \in Tasks, Exit(t)
    PROVE  Inv'
<1>1. /\ pc[t] = "user" /\ mem.halt = "none" /\ mem' = free_page_tables(mem, t)
      /\ Go(t, "zombie") /\ fork = NoFork
      /\ UNCHANGED <<wrapped, fork, page, at, area>> /\ Hands' = Hands
  BY DEF Exit, Running, Going, Hands
<1>2. /\ Sound(mem', Hands) /\ mem'.halt = "none" /\ mem'.task = mem.task
      /\ mem'.dir = NoTables(mem, t)
  BY <1>1, Tasked, TablesFreed
<1>3. Control' /\ ForkIs'
  BY <1>1, <1>2, Tasked DEF Inv, Control, ForkIs, Go, Memories, NoTables
<1>4. Sound(mem, Hands)' <=> Sound(mem', Hands')
  BY DEF Sound
<1> QED
  BY <1>1, <1>2, <1>3, <1>4 DEF Inv

\* release().
LEMMA ReapKeeps ==
    ASSUME Inv, NEW t \in Tasks, Reap(t)
    PROVE  Inv'
<1> DEFINE f == mem.task[t]
           n == [mem EXCEPT !.task[t] = NoFrame]
<1>1. /\ pc[t] = "zombie" /\ mem.halt = "none" /\ mem' = free_page(n, f)
      /\ Go(t, "none") /\ fork = NoFork
      /\ UNCHANGED <<wrapped, fork, page, at, area>> /\ Hands' = Hands
  BY DEF Reap, Going, Hands
<1>2. f \in Frames /\ mem \in Memories /\ \A d \in Tables : mem.dir[<<t, d>>] = NoFrame
  BY <1>1, Tasked
<1>3. /\ n.dir = mem.dir /\ n.halt = mem.halt /\ n.task = [mem.task EXCEPT ![t] = NoFrame]
  BY <1>2 DEF Memories
<1>4. Sound(n, More(Hands, f))
  BY <1>2, Tasked, TaskTaken
<1> HIDE DEF f, n
<1>5. Sound(mem', Hands) /\ mem'.dir = n.dir /\ mem'.task = n.task /\ mem'.halt = n.halt
  BY <1>1, <1>2, <1>4, Tasked, PageFreed
<1>6. Control' /\ ForkIs'
  BY <1>1, <1>2, <1>3, <1>5 DEF Inv, Control, ForkIs, Go, Memories
<1>7. Sound(mem, Hands)' <=> Sound(mem', Hands')
  BY DEF Sound
<1> QED
  BY <1>1, <1>3, <1>5, <1>6, <1>7 DEF Inv

\* No step forgets that a count has wrapped.
LEMMA WrappedStays ==
    ASSUME [Next]_vars, ~wrapped'
    PROVE  ~wrapped
<1>1. ASSUME NEW t \in Tasks, NEW p \in Pages,
             \/ EmptyPage(t, p) \/ SharePage(t, p) \/ ReadPage(t, p)
             \/ WriteProtected(t, p) \/ Write(t, p) \/ VerifyArea(t, p) \/ Exec(t, p)
      PROVE  ~wrapped
  BY <1>1 DEF EmptyPage, SharePage, ReadPage, WriteProtected, Write, VerifyArea, Exec
<1>2. ASSUME NEW t \in Tasks, NEW u \in Tasks, Fork(t, u) \/ Forked(t, u)
      PROVE  ~wrapped
  BY <1>2 DEF Fork, Forked
<1>3. ASSUME NEW t \in Tasks, NEW u \in Tasks, NEW d \in Tables, CopyTable(t, u, d)
      PROVE  ~wrapped
  BY <1>3 DEF CopyTable
<1>4. ASSUME NEW t \in Tasks,
             \/ PageRead(t) \/ KernelWrite(t) \/ ExecStrings(t) \/ ExecFails(t)
             \/ Exit(t) \/ Reap(t)
      PROVE  ~wrapped
  BY <1>4 DEF PageRead, KernelWrite, ExecStrings, ExecFails, Exit, Reap
<1>5. CASE UNCHANGED vars
  BY <1>5 DEF vars
<1> QED
  BY <1>1, <1>2, <1>3, <1>4, <1>5 DEF Next

\* Every step keeps the inductive invariant.
LEMMA InvNext == IInv /\ [Next]_vars => IInv'
<1> SUFFICES ASSUME IInv, [Next]_vars, ~wrapped' PROVE Inv'
  BY DEF IInv
<1>0. Inv
  <2>1. ~wrapped
    BY WrappedStays
  <2> QED
    BY <2>1 DEF IInv
<1>1. ASSUME NEW t \in Tasks, NEW u \in Tasks,
             Fork(t, u) \/ Forked(t, u) \/ \E d \in Tables : CopyTable(t, u, d)
      PROVE  Inv'
  BY <1>0, <1>1, ForkKeeps, ForkedKeeps, CopyTableKeeps
<1>2. ASSUME NEW t \in Tasks, NEW p \in Pages,
             EmptyPage(t, p) \/ SharePage(t, p) \/ ReadPage(t, p)
      PROVE  Inv'
  BY <1>0, <1>2, EmptyPageKeeps, SharePageKeeps, ReadPageKeeps
<1>3. ASSUME NEW t \in Tasks, NEW p \in Pages,
             WriteProtected(t, p) \/ Write(t, p) \/ VerifyArea(t, p)
      PROVE  Inv'
  BY <1>0, <1>3, WriteProtectedKeeps, WriteStepKeeps, VerifyAreaKeeps
<1>4. ASSUME NEW t \in Tasks, PageRead(t) \/ KernelWrite(t)
      PROVE  Inv'
  BY <1>0, <1>4, PageReadKeeps, KernelWriteKeeps
<1>5. ASSUME NEW t \in Tasks,
             ExecStrings(t) \/ ExecFails(t) \/ (\E p \in Pages : Exec(t, p))
      PROVE  Inv'
  BY <1>0, <1>5, ExecStringsKeeps, ExecFailsKeeps, ExecKeeps
<1>6. ASSUME NEW t \in Tasks, Exit(t) \/ Reap(t)
      PROVE  Inv'
  BY <1>0, <1>6, ExitKeeps, ReapKeeps
<1>7. CASE UNCHANGED vars
  <2>1. mem' = mem /\ Hands' = Hands /\ UNCHANGED <<wrapped, fork, pc, page, at, area>>
    BY <1>7 DEF vars, Hands
  <2>2. Control' /\ ForkIs'
    BY <1>0, <2>1 DEF Inv, Control, ForkIs
  <2>3. Sound(mem, Hands)' <=> Sound(mem', Hands')
    BY DEF Sound
  <2> QED
    BY <1>0, <2>1, <2>2, <2>3 DEF Inv
<1> QED
  BY <1>1, <1>2, <1>3, <1>4, <1>5, <1>6, <1>7 DEF Next

-----------------------------------------------------------------------------
\* The inductive invariant: until a count wraps, every reference to a frame is
\* counted in mem_map, tables and task structures have their frames alone, and so
\* has an entry that can be written (get_free_page(), free_page(),
\* copy_page_tables(), un_wp_page(), try_to_share() and their callers).
THEOREM Invariance == Spec => []IInv
<1> QED
  BY InvInit, InvNext, PTL DEF Spec

\* The references the runs count are those of the inductive invariant.
LEMMA ReferencesAre ==
    ASSUME mem \in Memories, DOMAIN page = Tasks, NEW f \in Frames
    PROVE  References(f) = Held(mem, Hands, f)
<1>1. Cardinality(Entries(f)) = Count(FrameOf(mem), f)
  <2>1. /\ DOMAIN FrameOf(mem) = Tasks \X Pages
        /\ \A e \in Tasks \X Pages : FrameOf(mem)[e] = mem.pte[e[1]][e[2]].frame
    BY DEF FrameOf
  <2>2. Entries(f) = {d \in DOMAIN FrameOf(mem) : FrameOf(mem)[d] = f}
    BY <2>1 DEF Entries
  <2> QED
    BY <2>2 DEF Count
<1>2. DOMAIN mem.dir = Tasks \X Tables /\ DOMAIN mem.task = Tasks
  BY DEF Memories
<1>3. /\ Cardinality({e \in Tasks \X Tables : mem.dir[e] = f}) = Count(mem.dir, f)
      /\ Cardinality({t \in Tasks : mem.task[t] = f}) = Count(mem.task, f)
      /\ Cardinality({t \in Tasks : page[t] = f}) = Hands[f]
  BY <1>2 DEF Count, Hands
<1>4. /\ Count(FrameOf(mem), f) \in Nat /\ Count(mem.dir, f) \in Nat
      /\ Count(mem.task, f) \in Nat
  BY CountsAre
<1>5. Hands[f] \in Nat
  <2>1. Count(page, f) \in Nat
    BY MemoryAssumption, CountNat
  <2> QED
    BY <2>1 DEF Hands
<1> QED
  BY <1>1, <1>3, <1>4, <1>5 DEF References, Held, Kernel

\* Until a count wraps, every variable has its type; a task has pages only in a
\* page table, a frame in hand only while it waits, and a task structure from
\* fork() to release().
THEOREM TypeCorrect == Spec => [](~wrapped => TypeOK)
<1>1. IInv => (~wrapped => TypeOK)
  <2> SUFFICES ASSUME Inv PROVE TypeOK
    BY DEF IInv
  <2>1. fork \in [parent : Tasks, child : Tasks, table : 1 .. NTABLES + 1] \cup {NoFork}
    BY DEF Inv, ForkIs, Forking
  <2>2. wrapped \in BOOLEAN
    BY DEF Inv, Control
  <2> QED
    BY <2>1, <2>2 DEF Inv, Control, ForkIs, Sound, Tabled, TypeOK
<1> QED
  BY <1>1, Invariance, PTL

\* No frame in use is free or counted too low, whatever get_free_page() drops and
\* wherever a call fails, until a count wraps: get_free_page() gives nobody a frame
\* that somebody still has.
THEOREM FramesAreCounted == Spec => []NeverTooLow
<1>1. IInv => NeverTooLow
  <2> SUFFICES ASSUME Inv, NEW f \in Frames PROVE References(f) <= mem.map[f]
    BY DEF IInv, NeverTooLow, Reliable
  <2>1. mem \in Memories /\ DOMAIN page = Tasks /\ Held(mem, Hands, f) <= mem.map[f]
    BY DEF Inv, Sound, Fits, Control
  <2> QED
    BY <2>1, ReferencesAre
<1> QED
  BY <1>1, Invariance, PTL

\* A page that a task can write is in no other page table entry, until a count
\* wraps: copy-on-write and try_to_share() leave no writable page shared.
THEOREM WritersAreAlone == Spec => []WritableIsAlone
<1>1. IInv => WritableIsAlone
  <2> SUFFICES ASSUME Inv, NEW t \in Tasks, NEW p \in Pages,
                      Present(mem, t, p), mem.pte[t][p].rw
               PROVE  Cardinality(Entries(mem.pte[t][p].frame)) = 1
    BY DEF IInv, WritableIsAlone, Reliable
  <2>1. Entries(mem.pte[t][p].frame) = {<<t, p>>}
    BY DEF Inv, Sound, Alone, Entries
  <2> QED
    BY <2>1, FS_Singleton
<1> QED
  BY <1>1, Invariance, PTL

\* The frames of page tables and of task structures are in no task's pages, until
\* a count wraps: the kernel does not hand its own tables to a task.
THEOREM TablesAreApart == Spec => []KernelFramesApart
<1>1. IInv => KernelFramesApart
  <2> SUFFICES ASSUME Inv, NEW t \in Tasks, NEW d \in Tables,
                      NEW f \in {mem.dir[<<t, d>>], mem.task[t]} \ {NoFrame}
               PROVE  References(f) = 1
    BY DEF IInv, KernelFramesApart, Reliable
  <2>1. mem \in Memories /\ DOMAIN page = Tasks /\ Sound(mem, Hands)
    BY DEF Inv, Sound, Control
  <2>2. f \in Frames
    BY <2>1 DEF Memories
  <2>3. /\ Count(mem.dir, f) \in Nat /\ Count(mem.task, f) \in Nat /\ Hands[f] \in Nat
        /\ Count(mem.dir, f) # 0 \/ Count(mem.task, f) # 0
    <3>1. <<t, d>> \in Tasks \X Tables
      OBVIOUS
    <3> QED
      BY <2>1, <2>2, <3>1, CountsAre, Numbers
  <2>4. Held(mem, Hands, f) = 1
    BY <2>1, <2>2, <2>3, Numbers DEF Kernel
  <2> QED
    BY <2>1, <2>2, <2>4, ReferencesAre
<1> QED
  BY <1>1, Invariance, PTL

\* The panics of free_page(), copy_page_tables() and try_to_share() are not
\* reached until a count wraps, wherever fork() fails: nothing is freed twice and no
\* page table is overwritten.
THEOREM NoPanics == Spec => []NoPanic
<1>1. IInv => NoPanic
  BY DEF IInv, Inv, NoPanic
<1> QED
  BY <1>1, Invariance, PTL

=============================================================================
