----------------------- MODULE PageReplacementProofs -----------------------
(***************************************************************************)
(* Proofs about PageReplacement, for every number of frames, pages and     *)
(* requests.                                                               *)
(***************************************************************************)
EXTENDS PageReplacement, FiniteSetTheorems, WellFoundedInduction, TLAPS

\* First(S) is the least element of S.
LEMMA FirstIsLeast ==
    ASSUME NEW S, S \subseteq Nat, S # {}
    PROVE  First(S) \in S /\ \A i \in S : First(S) <= i
<1> DEFINE Less == OpToRel(<, Nat)
<1>1. ASSUME NEW i \in Nat, NEW j \in Nat, i < j
      PROVE  <<i, j>> \in Less
  BY <1>1 DEF OpToRel
<1>2. IsWellFoundedOn(Less, Nat)
  BY NatLessThanWellFounded
<1> HIDE DEF Less
<1>3. PICK x \in S : \A y \in S : ~ (<<y, x>> \in Less)
  BY <1>2, WFMin
<1>4. ASSUME NEW y \in S
      PROVE  x <= y
  <2>1. x \in Nat /\ y \in Nat /\ ~ (y < x)
    BY <1>1, <1>3
  <2> QED
    BY <2>1
<1> QED
  BY <1>4 DEF First

\* A set of frames has a first one, and the frames before it are not in it.
LEMMA FirstFrame ==
    ASSUME NEW S \in SUBSET Frames, S # {}
    PROVE  /\ First(S) \in S /\ First(S) \in Frames
           /\ \A i \in S : First(S) <= i
<1>1. S \subseteq Nat
  BY DEF Frames
<1> QED
  BY <1>1, FirstIsLeast

-----------------------------------------------------------------------------
\* The bits after a call of whichpage() that has found none.
LEMMA UnusedBits ==
    ASSUME NEW bits \in [Frames -> Bits], NEW k \in Int
    PROVE  /\ Unused(bits, k) \in [Frames -> Bits]
           /\ \A j \in Frames : /\ Unused(bits, k)[j].modified = bits[j].modified
                                /\ j < k => Unused(bits, k)[j].used = 0
                                /\ ~ j < k => Unused(bits, k)[j].used = bits[j].used
BY DEF Unused, Bits, Frames

\* A call that finds a frame finds the first of the lowest rank; one that finds
\* none was given pages that were all used, and leaves them all unused.
LEMMA PassesFind ==
    ASSUME NEW bits \in [Frames -> Bits],
           \E j \in Frames : bits[j].used = 0
    PROVE  /\ Passes(bits).frame \in Frames
           /\ Passes(bits).bits \in [Frames -> Bits]
           /\ Passes(bits).frame =
                First({j \in Frames : \A i \in Frames : Rank(bits[j]) <= Rank(bits[i])})
<1> DEFINE Least == {j \in Frames : \A i \in Frames : Rank(bits[j]) <= Rank(bits[i])}
<1>0. \A j \in Frames : bits[j] = [used |-> bits[j].used, modified |-> bits[j].modified]
                        /\ bits[j].used \in {0, 1} /\ bits[j].modified \in {0, 1}
  BY DEF Bits
<1>1. CASE With(bits, 0, 0) # {}
  <2>1. Least = With(bits, 0, 0)
    BY <1>0, <1>1 DEF With, Rank
  <2>2. Passes(bits) = [frame |-> First(With(bits, 0, 0)), bits |-> bits]
    BY <1>1 DEF Passes
  <2>3. With(bits, 0, 0) \in SUBSET Frames
    BY DEF With
  <2> QED
    BY <1>1, <2>1, <2>2, <2>3, FirstFrame, SMTT(30)
<1>2. CASE With(bits, 0, 0) = {}
  <2>1. With(bits, 0, 1) # {}
    BY <1>0, <1>2 DEF With
  <2>2. Least = With(bits, 0, 1)
    BY <1>0, <1>2, <2>1 DEF With, Rank
  <2>3. With(bits, 0, 1) \in SUBSET Frames
    BY DEF With
  <2>4. First(With(bits, 0, 1)) \in Frames
    BY <2>1, <2>3, FirstFrame
  <2>5. Passes(bits) = [frame |-> First(With(bits, 0, 1)),
                        bits |-> Unused(bits, First(With(bits, 0, 1)))]
    BY <1>2, <2>1 DEF Passes
  <2>6. Unused(bits, First(With(bits, 0, 1))) \in [Frames -> Bits]
    BY <2>4, UnusedBits DEF Frames
  <2> QED
    BY <2>2, <2>4, <2>5, <2>6
<1> QED
  BY <1>1, <1>2

\* A call that finds no frame leaves all pages unused, and their order among
\* themselves as it was.
LEMMA PassesMiss ==
    ASSUME NEW bits \in [Frames -> Bits],
           \A j \in Frames : bits[j].used = 1
    PROVE  /\ Passes(bits).frame = InsideCount
           /\ Passes(bits).bits \in [Frames -> Bits]
           /\ \A j \in Frames : /\ Passes(bits).bits[j].used = 0
                                /\ Passes(bits).bits[j].modified = bits[j].modified
<1>1. With(bits, 0, 0) = {} /\ With(bits, 0, 1) = {}
  BY DEF With
<1>2. Passes(bits) = [frame |-> InsideCount, bits |-> Unused(bits, InsideCount)]
  BY <1>1 DEF Passes
<1>3. InsideCount \in Int /\ \A j \in Frames : j < InsideCount
  BY PageReplacementAssumption DEF Frames
<1> QED
  BY <1>2, <1>3, UnusedBits

\* whichpage() ends after at most one call of itself, and returns the first frame
\* of the lowest rank (clock.cpp:75).
THEOREM WhichPageIsLeast ==
    ASSUME NEW bits \in [Frames -> Bits]
    PROVE  /\ whichpage(bits).frame \in Frames
           /\ whichpage(bits).bits \in [Frames -> Bits]
           /\ whichpage(bits).frame =
                First({j \in Frames : \A i \in Frames : Rank(bits[j]) <= Rank(bits[i])})
<1>0. InsideCount \notin Frames
  BY PageReplacementAssumption DEF Frames
<1>1. CASE \E j \in Frames : bits[j].used = 0
  BY <1>0, <1>1, PassesFind DEF whichpage
<1>2. CASE \A j \in Frames : bits[j].used # 0
  <2> DEFINE next == Passes(bits).bits
  <2>1. \A j \in Frames : bits[j].used = 1 /\ bits[j].modified \in {0, 1}
    BY <1>2 DEF Bits
  <2>2. /\ Passes(bits).frame = InsideCount /\ next \in [Frames -> Bits]
        /\ \A j \in Frames : next[j].used = 0 /\ next[j].modified = bits[j].modified
    BY <2>1, PassesMiss
  <2>3. \E j \in Frames : next[j].used = 0
    <3>1. 0 \in Frames
      BY PageReplacementAssumption DEF Frames
    <3> QED
      BY <2>2, <3>1
  <2> HIDE DEF next
  <2>4. /\ Passes(next).frame \in Frames /\ Passes(next).bits \in [Frames -> Bits]
        /\ Passes(next).frame =
             First({j \in Frames : \A i \in Frames : Rank(next[j]) <= Rank(next[i])})
    BY <2>2, <2>3, PassesFind
  <2>5. {j \in Frames : \A i \in Frames : Rank(next[j]) <= Rank(next[i])}
          = {j \in Frames : \A i \in Frames : Rank(bits[j]) <= Rank(bits[i])}
    <3>1. \A j, i \in Frames : Rank(next[j]) <= Rank(next[i]) <=> Rank(bits[j]) <= Rank(bits[i])
      BY <2>1, <2>2 DEF Rank
    <3> QED
      BY <3>1
  <2>6. whichpage(bits) = Passes(next)
    BY <2>2 DEF whichpage, next
  <2> QED
    BY <2>4, <2>5, <2>6
<1> QED
  BY <1>1, <1>2

-----------------------------------------------------------------------------
\* The initial states have the types.
LEMMA InitType == Init => TypeOK
<1>1. NoBits \in Bits
  BY DEF NoBits, Bits
<1> QED
  BY <1>1, PageReplacementAssumption DEF Init, TypeOK, Frames

\* A request keeps types, whichever frame is replaced.
LEMMA RequestType ==
    ASSUME TypeOK, NEW c, Request(c)
    PROVE  /\ Page' = Page /\ num \in 0 .. PageCount - 1 /\ num' \in 0 .. PageCount
           /\ runs' = runs /\ Page[num] \in Pages \cup {0}
BY PageReplacementAssumption DEF TypeOK, Request

\* A request for a page that is inside keeps the types.
LEMMA HitType ==
    ASSUME TypeOK, num \in 0 .. PageCount - 1, isInside
    PROVE  /\ state' \in [Frames -> {0, 1}] /\ Inside' \in [Frames -> Pages \cup {0}]
           /\ count_' \in 0 .. InsideCount /\ lost' \in Nat
BY DEF TypeOK, isInside

\* A request that finds an empty frame keeps the types.
LEMMA FillType ==
    ASSUME TypeOK, Page[num] \in Pages \cup {0}, Fill
    PROVE  /\ state' \in [Frames -> {0, 1}] /\ Inside' \in [Frames -> Pages \cup {0}]
           /\ count_' \in 0 .. InsideCount /\ lost' \in Nat
<1>1. \A v \in Pages \cup {0} : \A j : [Inside EXCEPT ![j] = v] \in [Frames -> Pages \cup {0}]
  BY DEF TypeOK
<1>2. count_ \in 0 .. InsideCount /\ count_ < InsideCount /\ count_' = count_ + 1
  BY DEF TypeOK, Fill
<1>3. count_' \in 0 .. InsideCount
  BY <1>2, PageReplacementAssumption
<1> QED
  BY <1>1, <1>3 DEF TypeOK, Fill

\* A replacement keeps the types, whatever the algorithm.
LEMMA ReplaceType ==
    ASSUME TypeOK, Page[num] \in Pages \cup {0}, NEW victim, Replace(victim)
    PROVE  /\ Inside' \in [Frames -> Pages \cup {0}]
           /\ count_' \in 0 .. InsideCount /\ lost' \in Nat
<1>1. \A v \in Pages \cup {0} : \A j : [Inside EXCEPT ![j] = v] \in [Frames -> Pages \cup {0}]
  BY DEF TypeOK
<1> QED
  BY <1>1 DEF TypeOK, Replace

\* Every step keeps the types.
LEMMA NextType ==
    ASSUME TypeOK, [Next]_vars
    PROVE  TypeOK'
<1> USE DEF TypeOK
<1>1. CASE Choose
  <2>1. NoBits \in Bits
    BY DEF NoBits, Bits
  <2>2. Page' \in [0 .. PageCount - 1 -> Pages \cup {0}]
    BY <1>1, PageReplacementAssumption DEF Choose
  <2>3. state' \in [Frames -> {0, 1}] /\ state2' \in [Frames -> Bits]
    BY <1>1, <2>1 DEF Choose
  <2> QED
    BY <1>1, <2>2, <2>3, PageReplacementAssumption DEF Choose
<1>2. CASE OPT
  BY <1>2, RequestType, HitType, FillType, ReplaceType DEF OPT
<1>3. CASE FIFO
  <2>1. (insert + 1) % Swept \in 0 .. Swept - 1
    BY PageReplacementAssumption
  <2> QED
    BY <1>3, <2>1, RequestType, HitType, FillType, ReplaceType DEF FIFO
<1>4. CASE randexchange
  BY <1>4, RequestType, HitType, FillType, ReplaceType DEF randexchange
<1>5. CASE LRU
  BY <1>5, RequestType, HitType, FillType, ReplaceType DEF LRU
<1>6. CASE clock
  <2>1. [j \in Frames |-> IF j = ClockVictim THEN 1 ELSE IF Passed(j) THEN 0 ELSE state[j]]
          \in [Frames -> {0, 1}]
    OBVIOUS
  <2> QED
    BY <1>6, <2>1, RequestType, HitType, FillType, ReplaceType DEF clock
<1>7. CASE improveclock
  <2>0. /\ Page' = Page /\ num \in 0 .. PageCount - 1 /\ num' \in 0 .. PageCount
        /\ runs' = runs /\ Page[num] \in Pages \cup {0} /\ insert' = insert
    BY <1>7, RequestType DEF improveclock
  <2>1. CASE isInside2
    <3>1. PICK bits \in {[used |-> 1, modified |-> 1],
                         [state2[First(Holding)] EXCEPT !.used = 1]} :
             state2' = [state2 EXCEPT ![First(Holding)] = bits]
      BY <2>1 DEF isInside2
    <3>2. First(Holding) \in Frames
      BY <2>1, FirstFrame DEF isInside2, Holding
    <3>3. bits \in Bits
      BY <3>1, <3>2 DEF Bits
    <3>4. state2' \in [Frames -> Bits]
      BY <3>1, <3>3
    <3> QED
      BY <2>0, <2>1, <3>4 DEF isInside2
  <2>2. CASE Fill /\ UNCHANGED state2
    BY <2>0, <2>2, FillType
  <2>3. CASE /\ Replace(whichpage(state2).frame) /\ UNCHANGED state
             /\ state2' = [whichpage(state2).bits EXCEPT ![whichpage(state2).frame].used = 1]
    <3> DEFINE frame == whichpage(state2).frame  bits == whichpage(state2).bits
    <3>1. frame \in Frames /\ bits \in [Frames -> Bits]
      BY WhichPageIsLeast
    <3> HIDE DEF frame, bits
    <3>2. [bits EXCEPT ![frame].used = 1] \in [Frames -> Bits]
      BY <3>1 DEF Bits
    <3>3. state2' \in [Frames -> Bits]
      BY <2>3, <3>2 DEF frame, bits
    <3> QED
      BY <2>0, <2>3, <3>3, ReplaceType
  <2> QED
    BY <1>7, <2>1, <2>2, <2>3 DEF improveclock
<1>8. CASE UNCHANGED vars
  BY <1>8 DEF vars
<1> QED
  BY <1>1, <1>2, <1>3, <1>4, <1>5, <1>6, <1>7, <1>8 DEF Next

\* Every variable keeps its type, in every run of every algorithm.
THEOREM TypeCorrect == Spec => []TypeOK
<1>1. Init => TypeOK
  BY InitType
<1>2. TypeOK /\ [Next]_vars => TypeOK'
  BY NextType
<1> QED
  BY <1>1, <1>2, PTL DEF Spec

\* improveclock() replaces the page of the lowest rank whenever it replaces one.
THEOREM FirstOfLeastGoes == Spec => []FirstOfLeast
<1>1. TypeOK => FirstOfLeast
  BY WhichPageIsLeast DEF TypeOK, FirstOfLeast
<1> QED
  BY <1>1, TypeCorrect, PTL

-----------------------------------------------------------------------------
\* The pages asked for after request k, of the first n requests, and the pages in
\* the frames.
After(P, n, k) == {P[i] : i \in k + 1 .. n - 1}
Within(f, p) == \E j \in Frames : f[j] = p

\* Request k is the last one for its page.
IsLast(P, n, k) == k \in 0 .. n - 1 /\ P[k] \notin After(P, n, k)

\* What LruKeepsRecent says.
Recent(P, n, f) ==
    \A k \in 0 .. n - 1 :
      IsLast(P, n, k) => (Within(f, P[k]) <=> Cardinality(After(P, n, k)) < InsideCount)

\* The first c frames have different pages that were asked for; and all that
\* were asked for, as long as there is room.
Filled(P, n, f, c) ==
    /\ \A j \in Frames : /\ j < c => f[j] # 0 /\ \E k \in 0 .. n - 1 : P[k] = f[j]
                         /\ j >= c => f[j] = 0
    /\ \A i, j \in Frames : i < c /\ j < c /\ i # j => f[i] # f[j]
    /\ c < InsideCount => \A k \in 0 .. n - 1 : Within(f, P[k])

LruInv ==
    ch = "U" => /\ \A k \in 0 .. PageCount - 1 : Page[k] \in Pages
                /\ Filled(Page, num, Inside, count_)
                /\ Recent(Page, num, Inside)

\* No page in the frames was last asked for before that of frame v.
Earliest(P, n, f, v) ==
    \A k, l : (IsLast(P, n, k) /\ P[k] = f[v] /\ IsLast(P, n, l) /\ Within(f, P[l])) => k <= l

\* A set of numbers up to n has a greatest one.
LEMMA Greatest ==
    ASSUME NEW n \in Nat, NEW S \in SUBSET (0 .. n), S # {}
    PROVE  \E k \in S : \A i \in S : i <= k
<1> DEFINE T == {i \in 0 .. n : n - i \in S}
<1>1. T \subseteq Nat
  OBVIOUS
<1>2. PICK s \in S : TRUE
  OBVIOUS
<1>3. n - s \in 0 .. n /\ n - (n - s) = s
  BY <1>2
<1>4. n - s \in T
  BY <1>2, <1>3
<1>5. First(T) \in T /\ \A i \in T : First(T) <= i
  BY <1>1, <1>4, FirstIsLeast
<1>6. ASSUME NEW i \in S PROVE i <= n - First(T)
  <2>1. n - i \in 0 .. n /\ n - (n - i) = i /\ i \in Int
    OBVIOUS
  <2>2. n - i \in T
    BY <2>1
  <2>3. First(T) <= n - i /\ First(T) \in Int
    BY <1>5, <2>2
  <2> HIDE DEF T
  <2> QED
    BY <2>1, <2>3
<1>7. n - First(T) \in S
  BY <1>5
<1> QED
  BY <1>6, <1>7

\* The pages asked for since are finitely many; an earlier request has more after it.
LEMMA AfterIs ==
    ASSUME NEW P, NEW n \in Nat, NEW k \in Nat
    PROVE  IsFiniteSet(After(P, n, k)) /\ Cardinality(After(P, n, k)) \in Nat
<1> DEFINE S == k + 1 .. n - 1
           g == [i \in S |-> P[i]]
<1>1. IsFiniteSet(S)
  BY FS_Interval
<1>2. g \in Surjection(S, After(P, n, k))
  BY DEF Surjection, After
<1> HIDE DEF g, S
<1>3. IsFiniteSet(After(P, n, k))
  BY <1>1, <1>2, FS_Surjection
<1> QED
  BY <1>3, FS_CardinalityType

\* One more request.
LEMMA OneMore ==
    ASSUME NEW P, NEW n \in Nat, NEW k \in 0 .. n - 1
    PROVE  /\ After(P, n + 1, k) = After(P, n, k) \cup {P[n]}
           /\ Cardinality(After(P, n + 1, k))
                = Cardinality(After(P, n, k)) + (IF P[n] \in After(P, n, k) THEN 0 ELSE 1)
<1>1. k + 1 .. (n + 1) - 1 = (k + 1 .. n - 1) \cup {n}
  OBVIOUS
<1>2. After(P, n + 1, k) = After(P, n, k) \cup {P[n]}
  BY <1>1 DEF After
<1> QED
  BY <1>2, AfterIs, FS_AddElement

\* A later request is among those after an earlier one, with all after it.
LEMMA LaterIs ==
    ASSUME NEW P, NEW n \in Nat, NEW k \in 0 .. n - 1, NEW i \in k + 1 .. n - 1
    PROVE  P[i] \in After(P, n, k) /\ After(P, n, i) \subseteq After(P, n, k)
BY DEF After

\* A page that was asked for was asked for a last time; only once for the last
\* time; and later than its other times.
LEMMA LastExists ==
    ASSUME NEW P, NEW n \in Nat, NEW i \in 0 .. n - 1
    PROVE  \E k \in i .. n - 1 : IsLast(P, n, k) /\ P[k] = P[i]
<1> DEFINE S == {k \in i .. n - 1 : P[k] = P[i]}
<1>1. PICK k \in S : \A j \in S : j <= k
  <2>1. S \in SUBSET (0 .. n) /\ i \in S
    OBVIOUS
  <2> HIDE DEF S
  <2> QED
    BY <2>1, Greatest
<1>2. k \in i .. n - 1 /\ P[k] = P[i]
  OBVIOUS
<1>3. P[k] \notin After(P, n, k)
  <2> SUFFICES ASSUME NEW j \in k + 1 .. n - 1, P[j] = P[k] PROVE FALSE
    BY DEF After
  <2>1. j \in S /\ j > k
    BY <1>2
  <2> QED
    BY <1>1, <2>1
<1> QED
  BY <1>2, <1>3 DEF IsLast

\* Of two last requests the one for another page is earlier or later.
LEMMA LastIsOne ==
    ASSUME NEW P, NEW n \in Nat, NEW k, IsLast(P, n, k), NEW i \in 0 .. n - 1, P[i] = P[k]
    PROVE  i <= k
BY LaterIs DEF IsLast

\* If a page is in memory, so is every page asked for after it for the last time.
LEMMA LaterStay ==
    ASSUME NEW P, NEW n \in Nat, NEW f, Recent(P, n, f), InsideCount \in Nat,
           NEW k, IsLast(P, n, k), Within(f, P[k]), NEW p \in After(P, n, k)
    PROVE  Within(f, p)
<1>1. PICK j \in k + 1 .. n - 1 : p = P[j]
  BY DEF After
<1>2. k \in 0 .. n - 1 /\ j \in 0 .. n - 1
  BY DEF IsLast
<1>3. PICK i \in j .. n - 1 : IsLast(P, n, i) /\ P[i] = p
  BY <1>1, <1>2, LastExists
<1>4. i \in k + 1 .. n - 1 /\ i \in 0 .. n - 1
  BY <1>2
<1>5. After(P, n, i) \subseteq After(P, n, k)
  BY <1>2, <1>4, LaterIs
<1>6. Cardinality(After(P, n, i)) <= Cardinality(After(P, n, k))
  BY <1>2, <1>5, AfterIs, FS_Subset
<1>7. Cardinality(After(P, n, k)) < InsideCount
  BY <1>2 DEF Recent
<1>8. Cardinality(After(P, n, i)) < InsideCount
  BY <1>2, <1>4, <1>6, <1>7, AfterIs
<1> QED
  BY <1>3, <1>4, <1>8 DEF Recent
\* The pages of the first c frames, if no two are the same.
Loaded(f, c) == {f[j] : j \in 0 .. c - 1}
LEMMA LoadedIs ==
    ASSUME NEW f, NEW c \in Nat, \A i, j \in 0 .. c - 1 : i # j => f[i] # f[j]
    PROVE  IsFiniteSet(Loaded(f, c)) /\ Cardinality(Loaded(f, c)) = c
<1> DEFINE S == 0 .. c - 1
           g == [j \in S |-> f[j]]
<1>1. IsFiniteSet(S) /\ Cardinality(S) = c
  BY FS_Interval
<1>2. g \in Surjection(S, Loaded(f, c)) /\ g \in Injection(S, Loaded(f, c))
  BY DEF Surjection, Injection, IsInjective, Loaded
<1> HIDE DEF g, S
<1> QED
  BY <1>1, <1>2, FS_Surjection

\* The last of n + 1 requests.
LEMMA NewestIs ==
    ASSUME NEW P, NEW n \in Nat, NEW f, Within(f, P[n]), InsideCount \in Nat, InsideCount > 0
    PROVE  Within(f, P[n]) <=> Cardinality(After(P, n + 1, n)) < InsideCount
<1>1. After(P, n + 1, n) = {}
  BY DEF After
<1> QED
  BY <1>1, FS_EmptySet

\* What is the last request for its page was so before, and the new one is for
\* another page.
LEMMA WasLast ==
    ASSUME NEW P, NEW n \in Nat, NEW k, IsLast(P, n + 1, k), k # n
    PROVE  /\ k \in 0 .. n - 1 /\ IsLast(P, n, k) /\ P[k] # P[n] /\ P[k] \notin After(P, n, k)
           /\ Cardinality(After(P, n, k)) \in Nat
           /\ Cardinality(After(P, n + 1, k))
                = Cardinality(After(P, n, k)) + (IF P[n] \in After(P, n, k) THEN 0 ELSE 1)
<1>1. k \in 0 .. n - 1
  BY DEF IsLast
<1> QED
  BY <1>1, OneMore, AfterIs DEF IsLast

\* A request for a page that is in memory.
LEMMA HitRecent ==
    ASSUME NEW P, NEW n \in Nat, NEW f, Recent(P, n, f), Within(f, P[n]),
           InsideCount \in Nat, InsideCount > 0,
           NEW i \in 0 .. n - 1, P[i] = P[n]
    PROVE  Recent(P, n + 1, f)
<1> SUFFICES ASSUME NEW k, IsLast(P, n + 1, k)
             PROVE  Within(f, P[k]) <=> Cardinality(After(P, n + 1, k)) < InsideCount
  BY DEF Recent
<1>1. CASE k = n
  BY <1>1, NewestIs
<1>2. CASE k # n
  <2>1. /\ k \in 0 .. n - 1 /\ IsLast(P, n, k) /\ P[k] # P[n] /\ P[k] \notin After(P, n, k)
        /\ Cardinality(After(P, n, k)) \in Nat
        /\ Cardinality(After(P, n + 1, k))
             = Cardinality(After(P, n, k)) + (IF P[n] \in After(P, n, k) THEN 0 ELSE 1)
    BY <1>2, WasLast
  <2>2. Within(f, P[k]) <=> Cardinality(After(P, n, k)) < InsideCount
    BY <2>1 DEF Recent
  <2>3. CASE P[n] \in After(P, n, k)
    BY <2>1, <2>2, <2>3
  <2>4. CASE P[n] \notin After(P, n, k)
    <3>1. PICK l \in i .. n - 1 : IsLast(P, n, l) /\ P[l] = P[n]
      BY LastExists
    <3>2. l \in 0 .. n - 1 /\ k \in l + 1 .. n - 1
      <4>1. ~ l \in k + 1 .. n - 1
        BY <2>1, <2>4, <3>1, LaterIs
      <4> QED
        BY <2>1, <3>1, <4>1
    <3>3. P[k] \in After(P, n, l) /\ After(P, n, k) \subseteq After(P, n, l)
      BY <3>2, LaterIs
    <3>4. Cardinality(After(P, n, k)) + 1 <= Cardinality(After(P, n, l))
      <4>1. IsFiniteSet(After(P, n, k)) /\ IsFiniteSet(After(P, n, l))
        BY <2>1, <3>2, AfterIs
      <4>2. Cardinality(After(P, n, k) \cup {P[k]}) = Cardinality(After(P, n, k)) + 1
        BY <2>1, <4>1, FS_AddElement
      <4> QED
        BY <3>3, <4>1, <4>2, FS_Subset
    <3>5. Cardinality(After(P, n, l)) < InsideCount /\ Cardinality(After(P, n, l)) \in Nat
      BY <3>1, <3>2, AfterIs DEF Recent
    <3> QED
      BY <2>1, <2>2, <2>4, <3>4, <3>5
  <2> QED
    BY <2>3, <2>4
<1> QED
  BY <1>1, <1>2

\* A request for a page that goes to an empty frame.
LEMMA FillRecent ==
    ASSUME NEW P, NEW n \in Nat, NEW f, NEW c \in Nat, Filled(P, n, f, c), c < InsideCount,
           InsideCount \in Nat, \A k \in 0 .. n - 1 : P[k] # 0,
           NEW g, g[c] = P[n], \A j \in Frames \ {c} : g[j] = f[j]
    PROVE  Recent(P, n + 1, g)
<1>1. c \in Frames /\ f[c] = 0
  BY DEF Frames, Filled
<1> SUFFICES ASSUME NEW k, IsLast(P, n + 1, k)
             PROVE  Within(g, P[k]) <=> Cardinality(After(P, n + 1, k)) < InsideCount
  BY DEF Recent
<1>2. CASE k = n
  <2>1. Within(g, P[n]) /\ InsideCount > 0
    BY <1>1 DEF Within
  <2> QED
    BY <1>2, <2>1, NewestIs
<1>3. CASE k # n
  <2>1. /\ k \in 0 .. n - 1 /\ IsLast(P, n, k) /\ P[k] # P[n] /\ P[k] \notin After(P, n, k)
        /\ Cardinality(After(P, n, k)) \in Nat
        /\ Cardinality(After(P, n + 1, k))
             = Cardinality(After(P, n, k)) + (IF P[n] \in After(P, n, k) THEN 0 ELSE 1)
    BY <1>3, WasLast
  <2>2. ASSUME NEW i \in 0 .. n - 1 PROVE P[i] \in Loaded(f, c)
    <3>1. PICK j \in Frames : f[j] = P[i]
      BY DEF Filled, Within
    <3>2. j < c /\ j \in Nat
      BY <3>1 DEF Filled, Frames
    <3> QED
      BY <3>1, <3>2 DEF Loaded
  <2>3. Within(g, P[k])
    <3>1. PICK j \in Frames : f[j] = P[k]
      BY <2>1 DEF Filled, Within
    <3>2. j # c
      BY <1>1, <2>1, <3>1
    <3> QED
      BY <3>1, <3>2 DEF Within
  <2>4. IsFiniteSet(Loaded(f, c)) /\ Cardinality(Loaded(f, c)) = c
    <3>1. \A i, j \in 0 .. c - 1 : i # j => f[i] # f[j]
      BY DEF Filled, Frames
    <3> QED
      BY <3>1, LoadedIs
  <2>5. After(P, n, k) \cup {P[k]} \subseteq Loaded(f, c)
    BY <2>1, <2>2 DEF After
  <2>6. Cardinality(After(P, n, k)) + 1 <= c
    <3>1. IsFiniteSet(After(P, n, k))
      BY <2>1, AfterIs
    <3>2. Cardinality(After(P, n, k) \cup {P[k]}) = Cardinality(After(P, n, k)) + 1
      BY <2>1, <3>1, FS_AddElement
    <3> QED
      BY <2>4, <2>5, <3>2, FS_Subset
  <2> QED
    BY <2>1, <2>3, <2>6
<1> QED
  BY <1>2, <1>3

\* A request for a page that replaces the one that was last asked for first.
LEMMA ReplaceRecent ==
    ASSUME NEW P, NEW n \in Nat, NEW f, Recent(P, n, f), Filled(P, n, f, InsideCount),
           InsideCount \in Nat, ~ Within(f, P[n]), NEW v \in Frames,
           Earliest(P, n, f, v),
           NEW g, g[v] = P[n], \A j \in Frames \ {v} : g[j] = f[j]
    PROVE  Recent(P, n + 1, g)
<1> SUFFICES ASSUME NEW k, IsLast(P, n + 1, k)
             PROVE  Within(g, P[k]) <=> Cardinality(After(P, n + 1, k)) < InsideCount
  BY DEF Recent
<1> DEFINE M == Loaded(f, InsideCount)
           A == After(P, n, k)
<1>1. IsFiniteSet(M) /\ Cardinality(M) = InsideCount
  <2>1. \A i, j \in 0 .. InsideCount - 1 : i # j => f[i] # f[j]
    BY DEF Filled, Frames
  <2> QED
    BY <2>1, LoadedIs
<1>2. \A p : p \in M <=> Within(f, p)
  BY DEF Loaded, Within, Frames
<1>3. \A j \in Frames : \E i \in 0 .. n - 1 : P[i] = f[j]
  BY DEF Filled, Frames
<1>4. CASE k = n
  <2>1. Within(g, P[n]) /\ InsideCount > 0
    BY DEF Within, Frames
  <2> QED
    BY <1>4, <2>1, NewestIs
<1>5. CASE k # n
  <2>1. /\ k \in 0 .. n - 1 /\ IsLast(P, n, k) /\ P[k] # P[n] /\ P[k] \notin A
        /\ Cardinality(A) \in Nat
        /\ Cardinality(After(P, n + 1, k)) = Cardinality(A) + (IF P[n] \in A THEN 0 ELSE 1)
    BY <1>5, WasLast
  <2>2. Within(f, P[k]) <=> Cardinality(A) < InsideCount
    BY <2>1 DEF Recent
  <2>3. Within(f, P[k]) => \A p \in A : Within(f, p)
    BY <2>1, LaterStay
  <2>4. IsFiniteSet(A)
    BY <2>1, AfterIs
  <2>5. f[v] \in M
    BY <1>2 DEF Within
  <2> HIDE DEF M, A
  <2>6. CASE ~ Within(f, P[k])
    <3>1. ~ Within(g, P[k])
      BY <2>1, <2>6 DEF Within
    <3> QED
      BY <2>1, <2>2, <2>6, <3>1
  <2>7. CASE P[k] = f[v]
    <3>1. ~ Within(g, P[k])
      BY <2>1, <2>7 DEF Within, Filled, Frames
    <3>2. ASSUME NEW p \in M \ {P[k]} PROVE p \in A
      <4>1. PICK j \in Frames : f[j] = p
        BY <1>2 DEF Within
      <4>2. PICK i \in 0 .. n - 1 : P[i] = p
        BY <1>3, <4>1
      <4>3. PICK l \in i .. n - 1 : IsLast(P, n, l) /\ P[l] = p
        BY <4>2, LastExists
      <4>4. k <= l /\ k # l
        BY <1>2, <2>1, <2>7, <4>3 DEF Earliest
      <4>5. l \in k + 1 .. n - 1
        BY <2>1, <4>3, <4>4
      <4> QED
        BY <2>1, <4>3, <4>5, LaterIs DEF A
    <3>3. InsideCount - 1 <= Cardinality(A)
      <4>1. Cardinality(M \ {P[k]}) = InsideCount - 1
        BY <1>1, <2>5, <2>7, FS_RemoveElement
      <4> QED
        BY <2>4, <3>2, <4>1, FS_Subset
    <3>4. P[n] \notin A
      BY <1>2, <2>3, <2>5, <2>7
    <3> QED
      BY <2>1, <3>1, <3>3, <3>4
  <2>8. CASE Within(f, P[k]) /\ P[k] # f[v]
    <3>1. Within(g, P[k])
      BY <2>8 DEF Within
    <3>2. PICK i \in 0 .. n - 1 : P[i] = f[v]
      BY <1>3
    <3>3. PICK l \in i .. n - 1 : IsLast(P, n, l) /\ P[l] = f[v]
      BY <3>2, LastExists
    <3>4. l <= k /\ l # k
      BY <2>1, <2>8, <3>3 DEF Earliest
    <3>5. l \in 0 .. n - 1 /\ k \in l + 1 .. n - 1
      BY <2>1, <3>3, <3>4
    <3>6. f[v] \notin A
      BY <3>3, <3>5, LaterIs DEF A, IsLast
    <3>7. A \subseteq (M \ {P[k]}) \ {f[v]}
      BY <1>2, <2>1, <2>3, <2>8, <3>6
    <3>8. Cardinality(A) <= InsideCount - 2
      <4>1. P[k] \in M
        BY <1>2, <2>8
      <4>2. IsFiniteSet(M \ {P[k]}) /\ Cardinality(M \ {P[k]}) = InsideCount - 1
        BY <1>1, <4>1, FS_RemoveElement
      <4>3. /\ IsFiniteSet((M \ {P[k]}) \ {f[v]})
            /\ Cardinality((M \ {P[k]}) \ {f[v]}) = (InsideCount - 1) - 1
        BY <2>5, <2>8, <4>2, FS_RemoveElement
      <4> QED
        BY <3>7, <4>3, FS_Subset
    <3> QED
      BY <2>1, <3>1, <3>8
  <2> QED
    BY <2>6, <2>7, <2>8
<1> QED
  BY <1>4, <1>5
-----------------------------------------------------------------------------
\* LRU() finds the last request for the page of a frame, ...
LEMMA LastUseIs ==
    ASSUME num \in Nat, NEW j \in Frames, Page[num] # Inside[j],
           NEW k, IsLast(Page, num, k), Page[k] = Inside[j]
    PROVE  LastUse(j) = k
<1> DEFINE uses == {i \in 1 .. num : Page[i] = Inside[j]} \cup {0}
<1>1. k \in 0 .. num - 1
  BY DEF IsLast
<1>2. k \in uses
  BY <1>1
<1>3. ASSUME NEW i \in uses PROVE i <= k /\ i \in Nat
  <2>1. CASE i = 0
    BY <1>1, <2>1
  <2>2. CASE i # 0
    <3>1. i \in 0 .. num - 1 /\ Page[i] = Page[k]
      BY <2>2
    <3> QED
      BY <3>1, LastIsOne
  <2> QED
    BY <2>1, <2>2
<1>4. LastUse(j) = CHOOSE l \in uses : \A i \in uses : i <= l
  BY DEF LastUse
<1> HIDE DEF uses
<1>5. ASSUME NEW l \in uses, \A i \in uses : i <= l PROVE l = k
  BY <1>1, <1>2, <1>3, <1>5
<1> QED
  BY <1>2, <1>3, <1>4, <1>5

\* ... and replaces one for which that is as early as for any other.
LEMMA LruVictimIs ==
    ASSUME num \in Nat, Filled(Page, num, Inside, InsideCount), ~ Within(Inside, Page[num]),
           InsideCount \in Nat, InsideCount > 0
    PROVE  LruVictim \in Frames /\ Earliest(Page, num, Inside, LruVictim)
<1> DEFINE T == {LastUse(j) : j \in Frames}
           S == {j \in Frames : \A i \in Frames : LastUse(j) <= LastUse(i)}
<1>1. \A j \in Frames : Page[num] # Inside[j]
  BY DEF Within
<1>2. ASSUME NEW j \in Frames PROVE LastUse(j) \in Nat
  <2>1. PICK i \in 0 .. num - 1 : Page[i] = Inside[j]
    BY DEF Filled, Frames
  <2>2. PICK k \in i .. num - 1 : IsLast(Page, num, k) /\ Page[k] = Page[i]
    BY LastExists
  <2>3. LastUse(j) = k
    BY <1>1, <2>1, <2>2, LastUseIs
  <2> QED
    BY <2>2, <2>3
<1>3. First(T) \in T /\ \A i \in T : First(T) <= i
  <2>1. T \subseteq Nat
    BY <1>2
  <2>2. T # {}
    BY DEF Frames
  <2> HIDE DEF T
  <2> QED
    BY <2>1, <2>2, FirstIsLeast
<1>4. S # {} /\ S \in SUBSET Frames
  <2>1. PICK j \in Frames : LastUse(j) = First(T)
    BY <1>3
  <2>2. \A i \in Frames : LastUse(i) \in T
    OBVIOUS
  <2>3. \A i \in Frames : LastUse(j) <= LastUse(i)
    BY <1>3, <2>1, <2>2
  <2> QED
    BY <2>3
<1>5. LruVictim = First(S)
  BY DEF LruVictim
<1> HIDE DEF S, T
<1>6. LruVictim \in S
  BY <1>4, <1>5, FirstFrame
<1>7. LruVictim \in Frames /\ \A i \in Frames : LastUse(LruVictim) <= LastUse(i)
  BY <1>6 DEF S
<1>8. Earliest(Page, num, Inside, LruVictim)
  <2> SUFFICES ASSUME NEW k, NEW l, IsLast(Page, num, k), Page[k] = Inside[LruVictim],
                      IsLast(Page, num, l), Within(Inside, Page[l])
               PROVE  k <= l
    BY DEF Earliest
  <2>1. PICK i \in Frames : Inside[i] = Page[l]
    BY DEF Within
  <2>2. LastUse(i) = l
    BY <1>1, <2>1, LastUseIs
  <2>3. LastUse(LruVictim) = k
    BY <1>1, <1>7, LastUseIs
  <2> QED
    BY <1>7, <2>1, <2>2, <2>3
<1> QED
  BY <1>7, <1>8

\* A request of LRU() keeps what it has, whichever way it goes.
LEMMA LruKeeps ==
    ASSUME TypeOK, LruInv, LRU
    PROVE  LruInv'
<1>1. /\ ch = "U" /\ num \in 0 .. PageCount - 1 /\ num \in Nat /\ num' = num + 1 /\ Page' = Page
      /\ ch' = ch /\ count_ \in Nat /\ InsideCount \in Nat /\ InsideCount > 0
      /\ Inside \in [Frames -> Pages \cup {0}] /\ count_ <= InsideCount
  BY PageReplacementAssumption DEF LRU, Request, TypeOK
<1>2. /\ \A k \in 0 .. PageCount - 1 : Page[k] \in Pages
      /\ Filled(Page, num, Inside, count_) /\ Recent(Page, num, Inside)
  BY <1>1 DEF LruInv
<1>3. /\ Page[num] # 0
      /\ \A k \in 0 .. num : Page[k] # 0 /\ k \in 0 .. PageCount - 1
      /\ 0 .. (num + 1) - 1 = (0 .. num - 1) \cup {num}
  <2>1. \A k \in 0 .. num : k \in 0 .. PageCount - 1
    BY <1>1, PageReplacementAssumption
  <2>2. 0 \notin Pages
    BY PageReplacementAssumption
  <2> QED
    BY <1>1, <1>2, <2>1, <2>2
<1>4. SUFFICES Filled(Page, num + 1, Inside', count_') /\ Recent(Page, num + 1, Inside')
  BY <1>1, <1>2 DEF LruInv
<1>5. CASE isInside
  <2>1. Inside' = Inside /\ count_' = count_
    BY <1>5 DEF isInside
  <2>2. PICK j \in Frames : Inside[j] = Page[num]
    BY <1>5 DEF isInside, Holding
  <2>3. Within(Inside, Page[num])
    BY <2>2 DEF Within
  <2>4. PICK i \in 0 .. num - 1 : Page[i] = Page[num]
    BY <1>1, <1>2, <1>3, <2>2 DEF Filled, Frames
  <2>5. Recent(Page, num + 1, Inside)
    BY <1>1, <1>2, <2>3, <2>4, HitRecent
  <2>6. Filled(Page, num + 1, Inside, count_)
    BY <1>2, <1>3, <2>3 DEF Filled
  <2> QED
    BY <2>1, <2>5, <2>6
<1>6. CASE Fill
  <2>1. /\ count_ \in Frames /\ count_ < InsideCount /\ count_' = count_ + 1
        /\ Inside'[count_] = Page[num]
        /\ \A j \in Frames \ {count_} : Inside'[j] = Inside[j]
        /\ ~ Within(Inside, Page[num])
    BY <1>1, <1>6 DEF Fill, Frames, Holding, Within
  <2>2. \A k \in 0 .. num - 1 : Page[k] # 0
    BY <1>1, <1>3
  <2>3. Recent(Page, num + 1, Inside')
    BY <1>1, <1>2, <2>1, <2>2, FillRecent
  <2>4. ASSUME NEW j \in Frames
        PROVE  /\ j < count_ + 1 => /\ Inside'[j] # 0
                                    /\ \E k \in 0 .. (num + 1) - 1 : Page[k] = Inside'[j]
               /\ j >= count_ + 1 => Inside'[j] = 0
    <3>1. CASE j = count_
      BY <1>1, <1>3, <2>1, <3>1
    <3>2. CASE j # count_
      <4>1. Inside'[j] = Inside[j] /\ (j < count_ + 1 <=> j < count_)
            /\ (j >= count_ + 1 => j >= count_)
        BY <1>1, <2>1, <3>2 DEF Frames
      <4> QED
        BY <1>2, <1>3, <4>1 DEF Filled
    <3> QED
      BY <3>1, <3>2
  <2>5. ASSUME NEW i \in Frames, NEW j \in Frames, i < count_ + 1, j < count_ + 1, i # j
        PROVE  Inside'[i] # Inside'[j]
    <3>1. CASE i # count_ /\ j # count_
      <4>1. i < count_ /\ j < count_
        BY <1>1, <2>5, <3>1 DEF Frames
      <4> QED
        BY <1>2, <2>1, <2>5, <3>1, <4>1 DEF Filled
    <3>2. CASE i = count_ \/ j = count_
      BY <2>1, <2>5, <3>2 DEF Within
    <3> QED
      BY <3>1, <3>2
  <2>6. ASSUME NEW k \in 0 .. (num + 1) - 1 PROVE Within(Inside', Page[k])
    <3>1. CASE k = num
      BY <2>1, <3>1 DEF Within
    <3>2. CASE k # num
      <4>1. k \in 0 .. num - 1
        BY <1>3, <3>2
      <4>2. PICK j \in Frames : Inside[j] = Page[k]
        BY <1>2, <2>1, <4>1 DEF Filled, Within
      <4>3. j # count_
        BY <1>1, <1>2, <2>1, <2>2, <4>1, <4>2 DEF Filled
      <4> QED
        BY <2>1, <4>2, <4>3 DEF Within
    <3> QED
      BY <3>1, <3>2
  <2> QED
    BY <2>1, <2>3, <2>4, <2>5, <2>6 DEF Filled
<1>7. CASE Replace(LruVictim)
  <2> DEFINE v == LruVictim
  <2>1. /\ count_ = InsideCount /\ count_' = InsideCount /\ ~ Within(Inside, Page[num])
        /\ Inside' = [Inside EXCEPT ![v] = Page[num]]
    BY <1>7 DEF Replace, Holding, Within
  <2>2. v \in Frames /\ Earliest(Page, num, Inside, v)
    BY <1>1, <1>2, <2>1, LruVictimIs
  <2> HIDE DEF v
  <2>3. Inside'[v] = Page[num] /\ \A j \in Frames \ {v} : Inside'[j] = Inside[j]
    BY <1>1, <2>1, <2>2
  <2>4. Recent(Page, num + 1, Inside')
    BY <1>1, <1>2, <2>1, <2>2, <2>3, ReplaceRecent
  <2>5. ASSUME NEW j \in Frames
        PROVE  /\ Inside'[j] # 0 /\ \E k \in 0 .. (num + 1) - 1 : Page[k] = Inside'[j]
               /\ j < InsideCount
    <3>1. j < InsideCount
      BY <1>1 DEF Frames
    <3>2. CASE j = v
      BY <1>1, <1>3, <2>3, <3>1, <3>2
    <3>3. CASE j # v
      <4>1. Inside[j] # 0 /\ \E k \in 0 .. num - 1 : Page[k] = Inside[j]
        BY <1>2, <2>1, <3>1 DEF Filled
      <4> QED
        BY <1>3, <2>3, <3>1, <3>3, <4>1
    <3> QED
      BY <3>2, <3>3
  <2>6. ASSUME NEW i \in Frames, NEW j \in Frames, i # j PROVE Inside'[i] # Inside'[j]
    <3>1. i < InsideCount /\ j < InsideCount
      BY <2>5
    <3> QED
      BY <1>2, <2>1, <2>3, <2>6, <3>1 DEF Filled, Within
  <2>7. \A j \in Frames : ~ j >= InsideCount
    BY <1>1 DEF Frames
  <2> QED
    BY <1>1, <2>1, <2>4, <2>5, <2>6, <2>7 DEF Filled
<1> QED
  BY <1>5, <1>6, <1>7 DEF LRU

\* A run begins with an empty memory.
LEMMA ChooseKeeps ==
    ASSUME Choose
    PROVE  LruInv'
<1>1. /\ Page' \in Requests /\ num' = 0 /\ count_' = 0 /\ Inside' = [j \in Frames |-> 0]
  BY DEF Choose
<1>2. \A k \in 0 .. PageCount - 1 : Page'[k] \in Pages
  BY <1>1, PageReplacementAssumption
<1>3. 0 .. num' - 1 = {}
  BY <1>1
<1>4. Recent(Page', num', Inside')
  BY <1>3 DEF Recent
<1>5. Filled(Page', num', Inside', count_')
  BY <1>1, <1>3 DEF Filled, Frames
<1> QED
  BY <1>2, <1>4, <1>5 DEF LruInv

\* At each moment of a run of LRU() the pages in memory are those asked for last
\* (clock.cpp:215).
THEOREM RecentPagesStay == Spec => []LruKeepsRecent
<1>1. Init => LruInv
  BY DEF Init, LruInv
<1>2. TypeOK /\ LruInv /\ [Next]_vars => LruInv'
  <2> SUFFICES ASSUME TypeOK, LruInv, [Next]_vars PROVE LruInv'
    OBVIOUS
  <2>1. CASE Choose
    BY <2>1, ChooseKeeps
  <2>2. CASE LRU
    BY <2>2, LruKeeps
  <2>3. CASE OPT \/ FIFO \/ randexchange \/ clock \/ improveclock
    <3>1. ch # "U" /\ ch' = ch
      BY <2>3 DEF OPT, FIFO, randexchange, clock, improveclock, Request
    <3> QED
      BY <3>1 DEF LruInv
  <2>4. CASE UNCHANGED vars
    BY <2>4 DEF vars, LruInv
  <2> QED
    BY <2>1, <2>2, <2>3, <2>4 DEF Next
<1>3. LruInv => LruKeepsRecent
  <2> SUFFICES ASSUME LruInv, ch = "U", NEW k \in 0 .. num - 1, Page[k] \notin Since(k)
               PROVE  (\E j \in Frames : Inside[j] = Page[k])
                        <=> Cardinality(Since(k)) < InsideCount
    BY DEF LruKeepsRecent
  <2>1. Since(k) = After(Page, num, k)
    BY DEF Since, After
  <2>2. IsLast(Page, num, k) /\ Recent(Page, num, Inside)
    BY <2>1 DEF IsLast, LruInv
  <2> QED
    BY <2>1, <2>2 DEF Recent, Within
<1> QED
  BY <1>1, <1>2, <1>3, TypeCorrect, PTL DEF Spec
=============================================================================
