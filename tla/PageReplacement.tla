-------------------------- MODULE PageReplacement --------------------------
(***************************************************************************)
(* The simulator of page replacement (clock.cpp): six algorithms that give *)
(* InsideCount frames to PageCount requests for pages.  Frame and request  *)
(* numbers are those of the arrays; 0 is an empty frame.  A loss is only   *)
(* counted when the memory is full.                                        *)
(***************************************************************************)
EXTENDS Integers, FiniteSets

CONSTANTS
    InsideCount,        \* frames of the memory
    Swept,              \* the 3 that FIFO(), clock() and randexchange() count to
    PageCount,
    Pages,
    Requests,           \* sequences of pages that may be asked for
    Algorithms,
    MaxRuns

Frames == 0 .. InsideCount - 1

ASSUME PageReplacementAssumption ==
    /\ InsideCount \in Nat /\ Swept \in 1 .. InsideCount
    /\ PageCount \in Nat /\ Pages \subseteq Nat \ {0}
    /\ Requests \subseteq [0 .. PageCount - 1 -> Pages]
    /\ Algorithms \subseteq {"O", "F", "S", "U", "C", "I"}
    /\ MaxRuns \in Nat

VARIABLES
    ch, Page, num,      \* the algorithm, what is asked for, the next request
    Inside, count_,     \* page of each frame, frames that were filled
    lost,
    insert,             \* the frame FIFO() takes next
    state,              \* was the page of a frame hit?  (clock())
    state2,             \* was it used, was it modified?  (improveclock())
    runs                \* bound: runs to come

vars == <<ch, Page, num, Inside, count_, lost, insert, state, state2, runs>>

Bits == [used : {0, 1}, modified : {0, 1}]
NoBits == [used |-> 0, modified |-> 0]

First(S) == CHOOSE j \in S : \A i \in S : j <= i

-----------------------------------------------------------------------------
\* Which frame is replaced.

\* Mutant: a page that is not asked for again is taken for the next one.
NextUseIfAny(j) ==
    LET uses == {k \in num .. PageCount - 1 : Page[k] = Inside[j]} IN
    IF uses = {} THEN num ELSE First(uses)

\* OPT() and LRU() take the first of the frames that are furthest away.
NextUse(j) == First({k \in num .. PageCount - 1 : Page[k] = Inside[j]} \cup {PageCount})
OptVictim == First({j \in Frames : \A i \in Frames : NextUse(i) <= NextUse(j)})

\* Mutant: how long a page has been in memory.
FirstUse(j) == First({k \in 1 .. num : Page[k] = Inside[j]} \cup {num})

LastUse(j) ==
    LET uses == {k \in 1 .. num : Page[k] = Inside[j]} \cup {0} IN
    CHOOSE k \in uses : \A i \in uses : i <= k
LruVictim == First({j \in Frames : \A i \in Frames : LastUse(j) <= LastUse(i)})

\* The sweep of clock() begins at frame 0 and takes back what it passes.
Unhit == {j \in 0 .. Swept - 1 : state[j] = 0}
ClockVictim == IF Unhit = {} THEN 0 ELSE First(Unhit)
Passed(j) == j < Swept /\ (Unhit = {} \/ j < ClockVictim)

\* One call of whichpage(): frame InsideCount if it has to call itself.
With(bits, used, modified) ==
    {j \in Frames : bits[j] = [used |-> used, modified |-> modified]}
Unused(bits, k) == [j \in Frames |-> IF j < k THEN [bits[j] EXCEPT !.used = 0] ELSE bits[j]]

\* Mutant: the first of two passes is left out.
OnePass(bits) ==
    IF With(bits, 0, 0) \cup With(bits, 0, 1) # {}
    THEN [frame |-> First(With(bits, 0, 0) \cup With(bits, 0, 1)), bits |-> bits]
    ELSE [frame |-> InsideCount, bits |-> Unused(bits, InsideCount)]

Passes(bits) ==
    LET frame == IF With(bits, 0, 1) # {} THEN First(With(bits, 0, 1)) ELSE InsideCount IN
    IF With(bits, 0, 0) # {} THEN [frame |-> First(With(bits, 0, 0)), bits |-> bits]
    ELSE [frame |-> frame, bits |-> Unused(bits, frame)]
whichpage(bits) ==
    IF Passes(bits).frame # InsideCount THEN Passes(bits) ELSE Passes(Passes(bits).bits)

-----------------------------------------------------------------------------
\* A request that is a hit, one that fills a frame, one that replaces a page.
Holding == {j \in Frames : Inside[j] = Page[num]}
isInside ==
    /\ Holding # {}
    /\ state' = [state EXCEPT ![First(Holding)] = 1]
    /\ UNCHANGED <<Inside, count_, lost>>

Fill ==
    /\ Holding = {} /\ count_ < InsideCount
    /\ Inside' = [Inside EXCEPT ![count_] = Page[num]] /\ count_' = count_ + 1
    /\ UNCHANGED <<lost, state>>

Replace(victim) ==
    /\ Holding = {} /\ count_ = InsideCount
    /\ Inside' = [Inside EXCEPT ![victim] = Page[num]] /\ lost' = lost + 1
    /\ UNCHANGED count_

Request(c) ==
    /\ ch = c /\ num < PageCount /\ num' = num + 1
    /\ UNCHANGED <<ch, Page, runs>>

OPT ==
    /\ Request("O")
    /\ isInside \/ Fill \/ (Replace(OptVictim) /\ UNCHANGED state)
    /\ UNCHANGED <<insert, state2>>

FIFO ==
    /\ Request("F")
    /\ \/ (isInside \/ Fill) /\ UNCHANGED insert
       \/ Replace(insert) /\ insert' = (insert + 1) % Swept /\ UNCHANGED state
    /\ UNCHANGED state2

randexchange ==
    /\ Request("S")
    /\ \/ isInside \/ Fill
       \/ \E suiji \in 0 .. Swept - 1 : Replace(suiji) /\ UNCHANGED state
    /\ UNCHANGED <<insert, state2>>

LRU ==
    /\ Request("U")
    /\ isInside \/ Fill \/ (Replace(LruVictim) /\ UNCHANGED state)
    /\ UNCHANGED <<insert, state2>>

clock ==
    /\ Request("C")
    /\ \/ isInside
       \/ Fill
       \/ /\ Replace(ClockVictim)
          /\ state' = [j \in Frames |-> IF j = ClockVictim THEN 1
                                        ELSE IF Passed(j) THEN 0 ELSE state[j]]
    /\ UNCHANGED <<insert, state2>>

\* A page that is hit may be modified; a page that is loaded into a frame keeps
\* what the last one has modified.
isInside2 ==
    /\ Holding # {}
    /\ \E bits \in {[used |-> 1, modified |-> 1], [state2[First(Holding)] EXCEPT !.used = 1]} :
         state2' = [state2 EXCEPT ![First(Holding)] = bits]
    /\ UNCHANGED <<Inside, count_, lost, state>>

improveclock ==
    /\ Request("I")
    /\ \/ isInside2
       \/ Fill /\ UNCHANGED state2
       \/ LET found == whichpage(state2) IN
          /\ Replace(found.frame) /\ UNCHANGED state
          /\ state2' = [found.bits EXCEPT ![found.frame].used = 1]
    /\ UNCHANGED insert

\* main() asks for an algorithm and starts it with an empty memory.  insert is
\* where the last run of FIFO() left it.
Choose ==
    /\ num = PageCount /\ runs > 0 /\ runs' = runs - 1
    /\ ch' \in Algorithms /\ Page' \in Requests
    /\ num' = 0 /\ lost' = 0 /\ count_' = 0 /\ Inside' = [j \in Frames |-> 0]
    /\ state' = IF ch' = "C" THEN [j \in Frames |-> 0] ELSE state
    /\ state2' = IF ch' = "I" THEN [j \in Frames |-> NoBits] ELSE state2
    /\ UNCHANGED insert

Init ==
    /\ ch = "none" /\ num = PageCount /\ runs = MaxRuns
    /\ Page = [k \in 0 .. PageCount - 1 |-> 0]
    /\ Inside = [j \in Frames |-> 0] /\ count_ = 0 /\ lost = 0 /\ insert = 0
    /\ state = [j \in Frames |-> 0] /\ state2 = [j \in Frames |-> NoBits]

Next == Choose \/ OPT \/ FIFO \/ randexchange \/ LRU \/ clock \/ improveclock

Spec == Init /\ [][Next]_vars

-----------------------------------------------------------------------------
\* Type invariant.
TypeOK ==
    /\ Page \in [0 .. PageCount - 1 -> Pages \cup {0}] /\ num \in 0 .. PageCount
    /\ Inside \in [Frames -> Pages \cup {0}] /\ count_ \in 0 .. InsideCount
    /\ lost \in Nat /\ insert \in 0 .. Swept - 1 /\ runs \in Nat
    /\ state \in [Frames -> {0, 1}] /\ state2 \in [Frames -> Bits]

\* The fewest losses that any choice of victims comes to, from request k on, with
\* a set of pages in memory.
Fewest[k \in 0 .. PageCount, mem \in SUBSET Pages] ==
    IF k = PageCount THEN 0
    ELSE IF Page[k] \in mem THEN Fewest[k + 1, mem]
    ELSE LET all == mem \cup {Page[k]}
             after == IF Cardinality(mem) = InsideCount
                      THEN {1 + Fewest[k + 1, all \ {v}] : v \in mem}
                      ELSE {Fewest[k + 1, all]} IN
         First(after)

\* OPT() is the best there can be: at the end of a run no algorithm that sees the
\* same requests has lost fewer pages.
OptLosesLeast ==
    ch = "O" /\ num = PageCount => lost = Fewest[0, {}]

\* LRU() keeps the pages asked for last: another is in memory only if fewer
\* different ones than there are frames have been asked for since.
Since(k) == {Page[i] : i \in k + 1 .. num - 1}
LruKeepsRecent ==
    ch = "U" =>
      \A k \in 0 .. num - 1 :
        Page[k] \notin Since(k) =>
          ((\E j \in Frames : Inside[j] = Page[k]) <=> Cardinality(Since(k)) < InsideCount)

\* improveclock() replaces the first of the frames whose pages are the least
\* used, and of these the least modified, as they were before the search, and
\* the search ends after one call of itself.
Rank(b) == 2 * b.used + b.modified
FirstOfLeast ==
    whichpage(state2).frame =
      First({j \in Frames : \A i \in Frames : Rank(state2[j]) <= Rank(state2[i])})

\* FIFO() replaces the page that came first: of two pages that have only been
\* asked for once, the later one does not go before the other.
Asked(page) == {k \in 0 .. num - 1 : Page[k] = page}
FirstInFirstOut ==
    ch = "F" /\ num = PageCount =>
      \A a, b \in {p \in Pages : \E k \in Asked(p) : Asked(p) = {k}} :
        First(Asked(a)) < First(Asked(b)) /\ (\E j \in Frames : Inside[j] = a)
          => \E j \in Frames : Inside[j] = b
=============================================================================
