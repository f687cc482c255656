--------------------------- MODULE BufferProofs ----------------------------
(* Buffers in use are counted, keep their block, and no block has two; no   *)
(* change is lost, and nobody sleeps beside a free buffer.                  *)
EXTENDS Buffer, FiniteSetTheorems, TLAPS

\* The types, before it is known that no count goes below zero.
Types ==
    /\ b_block \in [Buffers -> Blocks \cup {None}]
    /\ b_count \in [Buffers -> Int]
    /\ b_dirt \in [Buffers -> BOOLEAN]
    /\ b_uptodate \in [Buffers -> BOOLEAN]
    /\ io \in [Buffers -> {"none", "read", "write"}]
    /\ unwritten \in [Buffers -> BOOLEAN]
    /\ pc \in [Tasks -> Places]
    /\ op \in [Tasks -> Ops \cup {"ahead", None}]
    /\ want \in [Tasks -> Blocks \cup {None}]
    /\ also \in [Tasks -> Blocks \cup {None}]
    /\ cur \in [Tasks -> Buffers \cup {None}]
    /\ held \in [Tasks -> Buffers \cup {None}]
    /\ next \in [Tasks -> Nat \ {0}]
    /\ buffer_wait \subseteq Tasks
    /\ use \in Uses

\* Which tasks have which buffers.
Having ==
    /\ \A t \in Tasks : pc[t] \in Counted \cup {"victim"} => cur[t] \in Buffers
    /\ \A t \in Tasks : pc[t] = "sync" /\ op[t] # "sync" => cur[t] \in Buffers
    /\ \A t \in Tasks : pc[t] # "idle" /\ op[t] # "ahead" => held[t] = None
    /\ \A t \in Tasks : op[t] = "ahead" =>
          pc[t] \notin {"idle", "reading"} /\ held[t] \in Buffers /\ "breada" \in Ops
    /\ \A t \in buffer_wait : pc[t] = "asleep"

Shape == Types /\ Having

TheStep(t) ==
    \/ \E o \in Ops, blk, ahead \in Blocks : Call(t, o, blk, ahead)
    \/ CallSync(t) \/ SyncBuffer(t) \/ SyncDone(t)
    \/ Lookup(t) \/ FoundUnlocked(t) \/ PickVictim(t) \/ SleepForBuffer(t)
    \/ StartAgain(t) \/ SyncVictim(t) \/ TakeVictim(t)
    \/ FillNew(t) \/ Overwrite(t) \/ Bread(t) \/ Breada(t) \/ Ahead(t)
    \/ ReadDone(t) \/ ReadFailed(t) \/ Modify(t) \/ brelse(t)

\* A step of the system is a step of a task, the end of a transfer, or none.
LEMMA StepCases ==
    ASSUME [Next]_vars
    PROVE  \/ \E t \in Tasks : MayRun(t) /\ TheStep(t)
           \/ \E b \in Buffers, ok \in BOOLEAN : EndIO(b, ok)
           \/ UNCHANGED vars
  BY DEF Next, TheStep

\* The initial state has the shape.
LEMMA ShapeInit == Init => Shape
  BY BufferAssumption DEF Init, Shape, Types, Having, Places, Counted, Buffers

\* What a transfer changes keeps its type.
LEMMA TransferTypes ==
    ASSUME Types, NEW b \in Buffers, NEW rw \in {"read", "write"},
           StartIO(b, rw) \/ UNCHANGED <<io, b_dirt, unwritten>>
    PROVE  /\ io' \in [Buffers -> {"none", "read", "write"}]
           /\ b_dirt' \in [Buffers -> BOOLEAN]
           /\ unwritten' \in [Buffers -> BOOLEAN]
<1>1. (unwritten[b] /\ rw = "read") \in BOOLEAN
  OBVIOUS
<1> QED
  BY <1>1 DEF StartIO, Types

\* Every step keeps the shape.
LEMMA ShapeStep == Shape /\ [Next]_vars => Shape'
<1> USE DEF Shape, Types, Having, Places, Counted
<1> SUFFICES ASSUME Shape, [Next]_vars PROVE Shape'
  OBVIOUS
<1> USE BufferAssumption
<1>1. ASSUME NEW t \in Tasks, TheStep(t) PROVE Shape'
  <2>1. CASE \E o \in Ops, blk, ahead \in Blocks : Call(t, o, blk, ahead)
    BY <2>1 DEF Call, bufVars, Go, Calls
  <2>2. CASE CallSync(t)
    BY <2>2 DEF CallSync, bufVars, Go
  <2>3. CASE SyncBuffer(t)
    <3> DEFINE b == ((next[t] - 1) % NR_BUFFERS) + 1
    <3>1. b \in Buffers
      BY <1>1 DEF Buffers
    <3>2. StartIO(b, "write") \/ UNCHANGED <<io, b_dirt, unwritten>>
      BY <2>3 DEF SyncBuffer
    <3>3. next' \in [Tasks -> Nat \ {0}]
      BY <2>3, <1>1 DEF SyncBuffer
    <3> HIDE DEF b
    <3> QED
      BY <3>1, <3>2, <3>3, <2>3, TransferTypes DEF SyncBuffer
  <2>4. CASE SyncDone(t)
    BY <2>4 DEF SyncDone, bufVars, Go
  <2>5. CASE Lookup(t)
    BY <2>5 DEF Lookup, Go, find_buffer
  <2>6. CASE FoundUnlocked(t)
    BY <2>6 DEF FoundUnlocked, Go
  <2>7. CASE PickVictim(t)
    BY <2>7 DEF PickVictim, bufVars, Go, Unused
  <2>8. CASE SleepForBuffer(t)
    BY <2>8 DEF SleepForBuffer, bufVars, Go
  <2>9. CASE StartAgain(t)
    BY <2>9 DEF StartAgain, bufVars, Go
  <2>10. CASE SyncVictim(t)
    BY <2>10 DEF SyncVictim, bufVars, Go
  <2>11. CASE TakeVictim(t)
    BY <2>11 DEF TakeVictim, Go
  <2>12. CASE FillNew(t)
    BY <2>12 DEF FillNew, Go
  <2>13. CASE Overwrite(t)
    BY <2>13 DEF Overwrite, Go
  <2>14. CASE Bread(t)
    <3>1. cur[t] \in Buffers
      BY <1>1, <2>14 DEF Bread
    <3>2. StartIO(cur[t], "read") \/ UNCHANGED <<io, b_dirt, unwritten>>
      BY <2>14 DEF Bread, ReadIfNeeded
    <3> QED
      BY <1>1, <3>1, <3>2, <2>14, TransferTypes DEF Bread, Go
  <2>15. CASE Breada(t)
    <3>1. cur[t] \in Buffers
      BY <1>1, <2>15 DEF Breada
    <3>2. StartIO(cur[t], "read") \/ UNCHANGED <<io, b_dirt, unwritten>>
      BY <2>15 DEF Breada, ReadIfNeeded
    <3> QED
      BY <1>1, <3>1, <3>2, <2>15, TransferTypes DEF Breada, Go, Calls
  <2>16. CASE Ahead(t)
    <3>1. cur[t] \in Buffers /\ held[t] \in Buffers
      BY <1>1, <2>16 DEF Ahead
    <3>2. StartIO(held[t], "read") \/ UNCHANGED <<io, b_dirt, unwritten>>
      BY <2>16 DEF Ahead
    <3> QED
      <4>1. Types'
        BY <1>1, <3>1, <3>2, <2>16, TransferTypes DEF Ahead, Go
      <4>2. Having'
        BY <1>1, <3>1, <2>16 DEF Ahead, Go
      <4> QED
        BY <4>1, <4>2
  <2>17. CASE ReadDone(t)
    <3>1. Types'
      BY <1>1, <2>17 DEF ReadDone, bufVars, Go
    <3>2. Having'
      BY <1>1, <2>17 DEF ReadDone, bufVars, Go
    <3> QED
      BY <3>1, <3>2
  <2>18. CASE ReadFailed(t)
    <3>1. Types'
      BY <1>1, <2>18 DEF ReadFailed
    <3>2. Having'
      BY <1>1, <2>18 DEF ReadFailed
    <3> QED
      BY <3>1, <3>2
  <2>19. CASE Modify(t)
    BY <2>19 DEF Modify
  <2>20. CASE brelse(t)
    BY <2>20 DEF brelse, WakeBufferWait
  <2> QED
    BY <1>1, <2>1, <2>2, <2>3, <2>4, <2>5, <2>6, <2>7, <2>8, <2>9, <2>10, <2>11,
       <2>12, <2>13, <2>14, <2>15, <2>16, <2>17, <2>18, <2>19, <2>20 DEF TheStep
<1>2. ASSUME NEW b \in Buffers, NEW ok \in BOOLEAN, EndIO(b, ok) PROVE Shape'
  BY <1>2 DEF EndIO
<1>3. CASE UNCHANGED vars
  BY <1>3 DEF vars, bufVars
<1> QED
  BY <1>1, <1>2, <1>3, StepCases

-----------------------------------------------------------------------------
\* A task more, or a task less, in a set of tasks.
LEMMA OneMore ==
    ASSUME NEW S \in SUBSET Tasks, NEW t \in Tasks \ S
    PROVE  Cardinality(S \cup {t}) = Cardinality(S) + 1
  BY FS_AddElement, FS_Subset, BufferAssumption

\* One element more or less in a finite set is one more or less in its count.
LEMMA OneLess ==
    ASSUME NEW S \in SUBSET Tasks, NEW t \in S
    PROVE  Cardinality(S \ {t}) = Cardinality(S) - 1
  BY FS_RemoveElement, FS_Subset, BufferAssumption

\* The numbers of references are natural numbers.
LEMMA NumbersOfReferences ==
    ASSUME NEW b
    PROVE  /\ Holders(b) \in SUBSET Tasks /\ Users(b) \in SUBSET Tasks
           /\ Cardinality(Holders(b)) \in Nat /\ Cardinality(Users(b)) \in Nat
  BY FS_CardinalityType, FS_Subset, BufferAssumption DEF Holders, Users

\* A step that changes neither the counts nor who has what.
LEMMA SameReferences ==
    ASSUME CountIsReferences, b_count' = b_count,
           \A b \in Buffers : Holders(b)' = Holders(b) /\ Users(b)' = Users(b)
    PROVE  CountIsReferences'
  BY DEF CountIsReferences

\* A task begins to use a buffer, and counts it.
LEMMA UserMore ==
    ASSUME Types, CountIsReferences, NEW c \in Buffers, NEW t \in Tasks \ Users(c),
           b_count' = [b_count EXCEPT ![c] = @ + 1],
           Users(c)' = Users(c) \cup {t},
           \A b \in Buffers \ {c} : Users(b)' = Users(b),
           \A b \in Buffers : Holders(b)' = Holders(b)
    PROVE  CountIsReferences'
<1>1. Cardinality(Users(c)') = Cardinality(Users(c)) + 1
  BY OneMore, NumbersOfReferences
<1>2. b_count'[c] = Cardinality(Holders(c)') + Cardinality(Users(c)')
  BY <1>1, NumbersOfReferences DEF CountIsReferences, Types
<1>3. \A b \in Buffers \ {c} : b_count'[b] = Cardinality(Holders(b)') + Cardinality(Users(b)')
  BY DEF CountIsReferences, Types
<1> QED
  BY <1>2, <1>3 DEF CountIsReferences

\* A task stops using a buffer, and counts it down.
LEMMA UserLess ==
    ASSUME Types, CountIsReferences, NEW c \in Buffers, NEW t \in Users(c),
           b_count' = [b_count EXCEPT ![c] = @ - 1],
           Users(c)' = Users(c) \ {t},
           \A b \in Buffers \ {c} : Users(b)' = Users(b),
           \A b \in Buffers : Holders(b)' = Holders(b)
    PROVE  CountIsReferences'
<1>1. Cardinality(Users(c)') = Cardinality(Users(c)) - 1
  BY OneLess, NumbersOfReferences
<1>2. b_count'[c] = Cardinality(Holders(c)') + Cardinality(Users(c)')
  BY <1>1, NumbersOfReferences DEF CountIsReferences, Types
<1>3. \A b \in Buffers \ {c} : b_count'[b] = Cardinality(Holders(b)') + Cardinality(Users(b)')
  BY DEF CountIsReferences, Types
<1> QED
  BY <1>2, <1>3 DEF CountIsReferences

\* A task goes from using a buffer to holding it.
LEMMA UserHolds ==
    ASSUME CountIsReferences, NEW c \in Buffers, NEW t \in Users(c) \ Holders(c),
           b_count' = b_count,
           Users(c)' = Users(c) \ {t}, Holders(c)' = Holders(c) \cup {t},
           \A b \in Buffers \ {c} : Users(b)' = Users(b) /\ Holders(b)' = Holders(b)
    PROVE  CountIsReferences'
<1>1. Cardinality(Users(c)') = Cardinality(Users(c)) - 1
  BY OneLess, NumbersOfReferences
<1>2. Cardinality(Holders(c)') = Cardinality(Holders(c)) + 1
  BY OneMore, NumbersOfReferences
<1>3. b_count'[c] = Cardinality(Holders(c)') + Cardinality(Users(c)')
  BY <1>1, <1>2, NumbersOfReferences DEF CountIsReferences
<1>4. \A b \in Buffers \ {c} : b_count'[b] = Cardinality(Holders(b)') + Cardinality(Users(b)')
  BY DEF CountIsReferences
<1> QED
  BY <1>3, <1>4 DEF CountIsReferences

\* A task gives back the buffer it holds.
LEMMA HolderLess ==
    ASSUME Types, CountIsReferences, NEW c \in Buffers, NEW t \in Holders(c),
           b_count' = [b_count EXCEPT ![c] = @ - 1],
           Holders(c)' = Holders(c) \ {t},
           \A b \in Buffers \ {c} : Holders(b)' = Holders(b),
           \A b \in Buffers : Users(b)' = Users(b)
    PROVE  CountIsReferences'
<1>1. Cardinality(Holders(c)') = Cardinality(Holders(c)) - 1
  BY OneLess, NumbersOfReferences
<1>2. b_count'[c] = Cardinality(Holders(c)') + Cardinality(Users(c)')
  BY <1>1, NumbersOfReferences DEF CountIsReferences, Types
<1>3. \A b \in Buffers \ {c} : b_count'[b] = Cardinality(Holders(b)') + Cardinality(Users(b)')
  BY DEF CountIsReferences, Types
<1> QED
  BY <1>2, <1>3 DEF CountIsReferences

-----------------------------------------------------------------------------
\* At first nobody has a buffer.
LEMMA CountInit == Init => CountIsReferences
<1> SUFFICES ASSUME Init, NEW b \in Buffers
             PROVE  b_count[b] = Cardinality(Holders(b)) + Cardinality(Users(b))
  BY DEF CountIsReferences
<1>1. Holders(b) = {} /\ Users(b) = {}
  BY BufferAssumption DEF Init, Holders, Users, Counted, Buffers
<1> QED
  BY <1>1, FS_EmptySet DEF Init

\* Every step of a task counts what it takes and gives back.
LEMMA CountTask ==
    ASSUME Shape, CountIsReferences, NEW t \in Tasks, TheStep(t)
    PROVE  CountIsReferences'
<1> USE DEF Shape, Types, Having, Places, Counted
<1> DEFINE Same == /\ b_count' = b_count
                   /\ \A b \in Buffers : Holders(b)' = Holders(b) /\ Users(b)' = Users(b)
<1>1. CASE \E o \in Ops, blk, ahead \in Blocks : Call(t, o, blk, ahead)
  <2>1. Same
    BY <1>1 DEF Holders, Users, Call, bufVars, Go
  <2> QED
    BY <2>1, SameReferences
<1>2. CASE CallSync(t) \/ SyncBuffer(t) \/ SyncDone(t)
  <2>1. Same
    BY <1>2 DEF Holders, Users, CallSync, SyncBuffer, SyncDone, bufVars, Go
  <2> QED
    BY <2>1, SameReferences
<1>3. CASE PickVictim(t) \/ SleepForBuffer(t) \/ StartAgain(t) \/ SyncVictim(t)
  <2>1. Same
    BY <1>3 DEF Holders, Users, PickVictim, SleepForBuffer, StartAgain, SyncVictim, bufVars, Go
  <2> QED
    BY <2>1, SameReferences
<1>4. CASE Bread(t) \/ Modify(t)
  <2>1. Same
    BY <1>4 DEF Holders, Users, Bread, Modify, Go
  <2> QED
    BY <2>1, SameReferences
<1>5. CASE Lookup(t)
  <2>1. PICK b \in Buffers : /\ cur' = [cur EXCEPT ![t] = b]
                             /\ b_count' = [b_count EXCEPT ![b] = @ + 1]
    BY <1>5 DEF Holders, Users, Lookup, find_buffer
  <2>2. t \notin Users(b) /\ Users(b)' = Users(b) \cup {t}
    BY <1>5, <2>1 DEF Holders, Users, Lookup, Go
  <2>3. /\ \A a \in Buffers \ {b} : Users(a)' = Users(a)
        /\ \A a \in Buffers : Holders(a)' = Holders(a)
    BY <1>5, <2>1 DEF Holders, Users, Lookup, Go
  <2> QED
    BY <2>1, <2>2, <2>3, UserMore
<1>6. CASE FoundUnlocked(t) /\ b_block[cur[t]] = want[t]
  <2>1. Same
    BY <1>6 DEF Holders, Users, FoundUnlocked, Go
  <2> QED
    BY <2>1, SameReferences
<1>7. CASE FoundUnlocked(t) /\ b_block[cur[t]] # want[t]
  <2>0. PICK c \in Buffers : c = cur[t]
    BY <1>7 DEF Holders, Users, FoundUnlocked
  <2>1. t \in Users(c) /\ b_count' = [b_count EXCEPT ![c] = @ - 1]
    BY <2>0, <1>7 DEF Holders, Users, FoundUnlocked
  <2>2. Users(c)' = Users(c) \ {t}
    BY <2>0, <1>7, <2>1 DEF Holders, Users, FoundUnlocked, Go
  <2>3. /\ \A a \in Buffers \ {c} : Users(a)' = Users(a)
        /\ \A a \in Buffers : Holders(a)' = Holders(a)
    BY <2>0, <1>7, <2>1 DEF Holders, Users, FoundUnlocked, Go
  <2> QED
    BY <2>1, <2>2, <2>3, UserLess
<1>8. CASE TakeVictim(t)
  <2>0. PICK c \in Buffers : c = cur[t]
    BY <1>8 DEF Holders, Users, TakeVictim, VictimTaken
  <2>1. b_count' = [b_count EXCEPT ![c] = @ + 1]
    BY <2>0, <1>8 DEF Holders, Users, TakeVictim, VictimTaken
  <2>2. t \notin Users(c) /\ Users(c)' = Users(c) \cup {t}
    BY <2>0, <1>8 DEF Holders, Users, TakeVictim, Go
  <2>3. /\ \A a \in Buffers \ {c} : Users(a)' = Users(a)
        /\ \A a \in Buffers : Holders(a)' = Holders(a)
    BY <2>0, <1>8 DEF Holders, Users, TakeVictim, Go
  <2> QED
    BY <2>1, <2>2, <2>3, UserMore
<1>9. CASE FillNew(t) \/ Overwrite(t) \/ Breada(t) \/ ReadDone(t)
  <2>0. PICK c \in Buffers : c = cur[t]
    BY <1>9, BufferAssumption DEF Holders, Users, FillNew, Overwrite, Breada, ReadDone, bufVars, Buffers, Calls
  <2>1. t \in Users(c) /\ t \notin Holders(c) /\ b_count' = b_count
    BY <2>0, <1>9, BufferAssumption DEF Holders, Users, FillNew, Overwrite, Breada, ReadDone, bufVars, Buffers, Calls
  <2>2. Users(c)' = Users(c) \ {t} /\ Holders(c)' = Holders(c) \cup {t}
    BY <2>0, <1>9, <2>1, BufferAssumption DEF Holders, Users, FillNew, Overwrite, Breada, ReadDone, bufVars, Go, Buffers
  <2>3. \A a \in Buffers \ {c} : Users(a)' = Users(a) /\ Holders(a)' = Holders(a)
    BY <2>0, <1>9, <2>1, BufferAssumption
       DEF Holders, Users, FillNew, Overwrite, Breada, ReadDone, bufVars, Go, Buffers, Calls
  <2> QED
    BY <2>1, <2>2, <2>3, UserHolds
<1>10. CASE ReadFailed(t)
  <2>0. PICK c \in Buffers : c = cur[t]
    BY <1>10 DEF Holders, Users, ReadFailed
  <2>1. t \in Users(c) /\ b_count' = [b_count EXCEPT ![c] = @ - 1]
    BY <2>0, <1>10 DEF Holders, Users, ReadFailed
  <2>2. Users(c)' = Users(c) \ {t}
    BY <2>0, <1>10, <2>1 DEF Holders, Users, ReadFailed
  <2>3. /\ \A a \in Buffers \ {c} : Users(a)' = Users(a)
        /\ \A a \in Buffers : Holders(a)' = Holders(a)
    BY <2>0, <1>10, <2>1 DEF Holders, Users, ReadFailed
  <2> QED
    BY <2>1, <2>2, <2>3, UserLess
<1>11. CASE brelse(t)
  <2>1. PICK b \in Buffers : b = held[t]
    BY <1>11 DEF Holders, Users, brelse
  <2>2. t \in Holders(b) /\ b_count' = [b_count EXCEPT ![b] = @ - 1]
    BY <1>11, <2>1 DEF Holders, Users, brelse
  <2>3. Holders(b)' = Holders(b) \ {t}
    BY <1>11, <2>1, BufferAssumption DEF Holders, Users, brelse, Buffers
  <2>4. /\ \A a \in Buffers \ {b} : Holders(a)' = Holders(a)
        /\ \A a \in Buffers : Users(a)' = Users(a)
    BY <1>11, <2>1, BufferAssumption DEF Holders, Users, brelse, WakeBufferWait, Buffers
  <2> QED
    BY <2>2, <2>3, <2>4, HolderLess
<1>12. CASE Ahead(t)
  <2>0. PICK c \in Buffers, h \in Buffers : c = cur[t] /\ h = held[t]
    BY <1>12 DEF Ahead
  <2>1. /\ t \in Users(c) /\ t \in Holders(h)
        /\ b_count' = [b_count EXCEPT ![c] = @ - 1]
    BY <1>12, <2>0 DEF Holders, Users, Ahead
  <2>2. \A b \in Buffers : Users(b)' = IF b = h THEN Users(b) \cup {t} ELSE Users(b) \ {t}
    BY <1>12, <2>0 DEF Holders, Users, Ahead, Go
  <2>3. \A b \in Buffers : Holders(b)' = Holders(b) \ {t}
    BY <1>12, <2>0, BufferAssumption DEF Holders, Users, Ahead, Buffers
  <2>7. /\ \A S : t \notin S => S \ {t} = S
        /\ \A S : t \in S => S \cup {t} = S
    OBVIOUS
  <2>8. /\ \A b \in Buffers \ {c} : t \notin Users(b)
        /\ \A b \in Buffers \ {h} : t \notin Holders(b)
    BY <2>0 DEF Holders, Users
  <2>4. Cardinality(Holders(h)') = Cardinality(Holders(h)) - 1
    BY <2>1, <2>3, OneLess, NumbersOfReferences
  <2>5. CASE c = h
    <3>1. \A b \in Buffers : Users(b)' = Users(b)
      <4> TAKE b \in Buffers
      <4>1. CASE b = h
        BY <2>1, <2>2, <2>5, <2>7, <4>1, Zenon
      <4>2. CASE b # h
        BY <2>2, <2>5, <2>7, <2>8, <4>2
      <4> QED
        BY <4>1, <4>2
    <3>2. \A b \in Buffers \ {c} : Holders(b)' = Holders(b)
      BY <2>3, <2>5, <2>7, <2>8
    <3> QED
      BY <2>1, <2>3, <2>5, <3>1, <3>2, HolderLess
  <2>6. CASE c # h
    <3>2. /\ Users(c)' = Users(c) \ {t} /\ Users(h)' = Users(h) \cup {t}
          /\ Users(c) \in SUBSET Tasks /\ Users(h) \in SUBSET Tasks
      BY <2>2, <2>6, NumbersOfReferences
    <3>7. Cardinality(Users(c)') = Cardinality(Users(c)) - 1
      BY <2>1, <3>2, OneLess
    <3>8. Cardinality(Users(h)') = Cardinality(Users(h)) + 1
      BY <2>6, <2>8, <3>2, OneMore
    <3>3. \A b \in Buffers \ {c, h} : Users(b)' = Users(b) /\ Holders(b)' = Holders(b)
      <4> TAKE b \in Buffers \ {c, h}
      <4>0. b \in Buffers /\ b # c /\ b # h
        OBVIOUS
      <4>3. t \notin Users(b) /\ t \notin Holders(b)
        BY <4>0, <2>8
      <4>1. Users(b)' = Users(b)
        BY <4>0, <4>3, <2>2, <2>7, Zenon
      <4>2. Holders(b)' = Holders(b)
        BY <4>0, <4>3, <2>3, <2>7, Zenon
      <4> QED
        BY <4>1, <4>2
    <3>4. Holders(c)' = Holders(c)
      BY <2>3, <2>6, <2>7, <2>8
    <3>5. /\ b_count'[c] = Cardinality(Holders(c)') + Cardinality(Users(c)')
          /\ b_count'[h] = Cardinality(Holders(h)') + Cardinality(Users(h)')
      <4>1. b_count'[c] = b_count[c] - 1 /\ b_count'[h] = b_count[h]
        BY <2>1, <2>6
      <4>2. /\ b_count[c] = Cardinality(Holders(c)) + Cardinality(Users(c))
            /\ b_count[h] = Cardinality(Holders(h)) + Cardinality(Users(h))
        BY DEF CountIsReferences
      <4>3. /\ Cardinality(Holders(c)) \in Nat /\ Cardinality(Users(c)) \in Nat
            /\ Cardinality(Holders(h)) \in Nat /\ Cardinality(Users(h)) \in Nat
        BY NumbersOfReferences
      <4> QED
        BY <2>4, <3>4, <3>7, <3>8, <4>1, <4>2, <4>3
    <3>6. \A b \in Buffers \ {c, h} :
              b_count'[b] = Cardinality(Holders(b)') + Cardinality(Users(b)')
      BY <2>1, <3>3 DEF CountIsReferences
    <3>9. \A b \in Buffers : b = c \/ b = h \/ b \in Buffers \ {c, h}
      OBVIOUS
    <3> QED
      BY <3>5, <3>6, <3>9 DEF CountIsReferences
  <2> QED
    BY <2>5, <2>6
<1> QED
  BY <1>1, <1>2, <1>3, <1>4, <1>5, <1>6, <1>7, <1>8, <1>9, <1>10, <1>11, <1>12 DEF TheStep

\* Every step of the system keeps the counts.
LEMMA CountStep == Shape /\ CountIsReferences /\ [Next]_vars => CountIsReferences'
<1> SUFFICES ASSUME Shape, CountIsReferences, [Next]_vars PROVE CountIsReferences'
  OBVIOUS
<1>1. CASE UNCHANGED vars
  BY <1>1, SameReferences DEF vars, bufVars, Holders, Users
<1>2. ASSUME NEW b \in Buffers, NEW ok \in BOOLEAN, EndIO(b, ok) PROVE CountIsReferences'
  BY <1>2, SameReferences DEF EndIO, Holders, Users
<1> QED
  BY <1>1, <1>2, CountTask, StepCases

\* A buffer with the count zero is nobody's.
LEMMA NotInUse ==
    ASSUME CountIsReferences, NEW b \in Buffers, b_count[b] = 0, NEW t \in Tasks
    PROVE  held[t] # b /\ ~(pc[t] \in Counted /\ cur[t] = b)
<1>1. Cardinality(Holders(b)) = 0 /\ Cardinality(Users(b)) = 0
  BY NumbersOfReferences DEF CountIsReferences
<1>2. Holders(b) = {} /\ Users(b) = {}
  BY <1>1, FS_EmptySet, FS_Subset, NumbersOfReferences, BufferAssumption
<1> QED
  BY <1>2 DEF Holders, Users

\* Every step of a task lets all buffers in use keep their blocks.
LEMMA KeepTask ==
    ASSUME Shape, CountIsReferences, KeepsItsBlock, NEW t \in Tasks, TheStep(t)
    PROVE  KeepsItsBlock'
<1> USE BufferAssumption DEF Shape, Types, Having, Places, Counted, KeepsItsBlock, Buffers
<1>1. CASE \E o \in Ops, blk, ahead \in Blocks : Call(t, o, blk, ahead)
  BY <1>1 DEF Call, bufVars, Go, Calls
<1>2. CASE CallSync(t)
  BY <1>2 DEF CallSync, bufVars, Go
<1>3. CASE SyncBuffer(t) \/ SyncDone(t)
  <2>1. CASE SyncBuffer(t)
    BY <2>1 DEF SyncBuffer, bufVars, Go
  <2>2. CASE SyncDone(t)
    BY <2>2 DEF SyncDone, bufVars, Go
  <2> QED
    BY <1>3, <2>1, <2>2
<1>4. CASE Lookup(t)
  BY <1>4 DEF Lookup, Go, find_buffer
<1>5. CASE FoundUnlocked(t)
  BY <1>5 DEF FoundUnlocked, Go
<1>6. CASE PickVictim(t) \/ SleepForBuffer(t)
  <2>1. CASE PickVictim(t)
    BY <2>1 DEF PickVictim, bufVars, Go
  <2>2. CASE SleepForBuffer(t)
    BY <2>2 DEF SleepForBuffer, bufVars, Go
  <2> QED
    BY <1>6, <2>1, <2>2
<1>7. CASE StartAgain(t) \/ SyncVictim(t)
  <2>1. CASE StartAgain(t)
    BY <2>1 DEF StartAgain, bufVars, Go
  <2>2. CASE SyncVictim(t)
    BY <2>2 DEF SyncVictim, bufVars, Go
  <2> QED
    BY <1>7, <2>1, <2>2
<1>8. CASE TakeVictim(t)
  <2>0. PICK c \in Buffers : c = cur[t]
    BY <1>8 DEF TakeVictim
  <2>1. \A u \in Tasks : held[u] # c /\ ~(pc[u] \in Counted /\ cur[u] = c)
    BY <1>8, <2>0, NotInUse DEF TakeVictim, VictimTaken
  <2>2. /\ b_block' = [b_block EXCEPT ![c] = want[t]]
        /\ pc' = [pc EXCEPT ![t] = "got"]
        /\ UNCHANGED <<op, want, also, cur, held>>
    BY <1>8, <2>0 DEF TakeVictim, Go
  <2> QED
    BY <2>0, <2>1, <2>2
<1>9. CASE FillNew(t) \/ Overwrite(t)
  <2>1. CASE FillNew(t)
    BY <2>1 DEF FillNew, Go
  <2>2. CASE Overwrite(t)
    BY <2>2 DEF Overwrite, Go
  <2> QED
    BY <1>9, <2>1, <2>2
<1>10. CASE Bread(t) \/ Modify(t)
  <2>1. CASE Bread(t)
    BY <2>1 DEF Bread, Go
  <2>2. CASE Modify(t)
    BY <2>2 DEF Modify, Go
  <2> QED
    BY <1>10, <2>1, <2>2
<1>11. CASE Breada(t)
  BY <1>11 DEF Breada, Go
<1>12. CASE Ahead(t)
  BY <1>12 DEF Ahead, Go
<1>13. CASE ReadDone(t)
  BY <1>13 DEF ReadDone, bufVars, Go
<1>14. CASE ReadFailed(t)
  BY <1>14 DEF ReadFailed
<1>15. CASE brelse(t)
  BY <1>15 DEF brelse, WakeBufferWait
<1> QED
  BY <1>1, <1>2, <1>3, <1>4, <1>5, <1>6, <1>7, <1>8, <1>9, <1>10, <1>11, <1>12,
     <1>13, <1>14, <1>15 DEF TheStep

\* Every step of a task leaves each block in one buffer: only TakeVictim()
\* brings a block in, when no buffer has it.
LEMMA OneTask ==
    ASSUME Types, OneBufferPerBlock, NEW t \in Tasks, TheStep(t)
    PROVE  OneBufferPerBlock'
<1>1. CASE TakeVictim(t)
  BY <1>1 DEF TakeVictim, BlockCameIn, find_buffer, OneBufferPerBlock, Types
<1>2. CASE b_block' = b_block
  BY <1>2 DEF OneBufferPerBlock
<1>3. TakeVictim(t) \/ b_block' = b_block
  BY DEF TheStep, Call, CallSync, SyncBuffer, SyncDone, Lookup, FoundUnlocked,
         PickVictim, SleepForBuffer, StartAgain, SyncVictim, FillNew, Overwrite, Bread,
         Breada, Ahead, ReadDone, ReadFailed, Modify, brelse, bufVars
<1> QED
  BY <1>1, <1>2, <1>3

-----------------------------------------------------------------------------
\* What getblk() and its callers keep true together: the shape and the counts
\* are what makes the rest inductive.
IInv == Shape /\ CountIsReferences /\ KeepsItsBlock /\ OneBufferPerBlock

\* The inductive invariant holds at first.
LEMMA IInvInit == Init => IInv
<1> SUFFICES ASSUME Init PROVE KeepsItsBlock /\ OneBufferPerBlock
  BY ShapeInit, CountInit DEF IInv
<1>1. KeepsItsBlock
  BY DEF Init, KeepsItsBlock, Counted
<1>2. OneBufferPerBlock
  BY DEF Init, OneBufferPerBlock
<1> QED
  BY <1>1, <1>2

\* Every step keeps the inductive invariant.
LEMMA IInvStep == IInv /\ [Next]_vars => IInv'
<1> SUFFICES ASSUME IInv, [Next]_vars PROVE KeepsItsBlock' /\ OneBufferPerBlock'
  BY ShapeStep, CountStep DEF IInv
<1>1. CASE UNCHANGED vars
  BY <1>1 DEF vars, bufVars, IInv, KeepsItsBlock, OneBufferPerBlock
<1>2. ASSUME NEW b \in Buffers, NEW ok \in BOOLEAN, EndIO(b, ok)
      PROVE  KeepsItsBlock' /\ OneBufferPerBlock'
  BY <1>2 DEF EndIO, IInv, KeepsItsBlock, OneBufferPerBlock
<1> QED
  BY <1>1, <1>2, KeepTask, OneTask, StepCases DEF IInv, Shape

\* The inductive invariant is an invariant of getblk() and its callers.
THEOREM Invariance == Spec => []IInv
  BY IInvInit, IInvStep, PTL DEF Spec

\* All variables keep their types; b_count never goes below zero in brelse()
\* or breada(), whatever tasks, blocks and buffers there are.
THEOREM TypeCorrect == Spec => []TypeOK
<1>1. IInv => TypeOK
  <2> SUFFICES ASSUME IInv PROVE b_count \in [Buffers -> Nat]
    BY DEF IInv, Shape, Types, TypeOK
  <2>1. \A b \in Buffers : b_count[b] \in Nat
    BY NumbersOfReferences DEF IInv, CountIsReferences
  <2> QED
    BY <2>1 DEF IInv, Shape, Types
<1> QED
  BY <1>1, Invariance, PTL

\* b_count is the number of tasks that have the buffer: the panic of brelse()
\* is never reached and no buffer is leaked.
THEOREM CountsCorrect == Spec => []CountIsReferences
<1>1. IInv => CountIsReferences
  BY DEF IInv
<1> QED
  BY <1>1, Invariance, PTL

\* getblk() never gives a buffer in use to another block.
THEOREM BuffersKeepBlocks == Spec => []KeepsItsBlock
<1>1. IInv => KeepsItsBlock
  BY DEF IInv
<1> QED
  BY <1>1, Invariance, PTL

\* getblk() never makes a second buffer of a block.
THEOREM BlocksUnique == Spec => []OneBufferPerBlock
<1>1. IInv => OneBufferPerBlock
  BY DEF IInv
<1> QED
  BY <1>1, Invariance, PTL

-----------------------------------------------------------------------------
\* A task calls what its workload lets it; "ahead" is part of breada().
CallsAllowed ==
    \A t \in Tasks : \/ op[t] \in use[t] \cup {None}
                     \/ op[t] = "ahead" /\ "breada" \in use[t]

\* getblk() returns a buffer without a transfer, and its caller goes on before
\* another task can start one.
GotUnlocked == \A t \in Tasks : pc[t] = "got" => io[cur[t]] = "none"

\* While nobody overwrites whole blocks and no write fails, changed data are
\* dirty and up to date, what is being read is not up to date, and what a task
\* has got is.
Unspoilt ==
    /\ \A b \in Buffers : unwritten[b] => b_dirt[b] /\ b_uptodate[b]
    /\ \A b \in Buffers : io[b] = "read" => ~b_uptodate[b]
    /\ \A t \in Tasks : pc[t] = "idle" /\ held[t] # None => b_uptodate[held[t]]

Safe == ~Calling("write") /\ "write" \notin Failing

DataInv == CallsAllowed /\ GotUnlocked /\ (Safe => Unspoilt) /\ SleepsOnlyIfFull

\* All this holds at first.
LEMMA DataInit == Init => DataInv
<1> SUFFICES ASSUME Init PROVE DataInv
  OBVIOUS
<1> USE BufferAssumption DEF Init
<1>1. CallsAllowed
  BY DEF CallsAllowed
<1>2. GotUnlocked
  BY DEF GotUnlocked
<1>3. Unspoilt
  BY DEF Unspoilt
<1>4. SleepsOnlyIfFull
  BY DEF SleepsOnlyIfFull
<1> QED
  BY <1>1, <1>2, <1>3, <1>4 DEF DataInv

\* What may be called does not change.
LEMMA SameUse == [Next]_vars => use' = use
<1> SUFFICES ASSUME [Next]_vars PROVE use' = use
  OBVIOUS
<1>1. ASSUME NEW t \in Tasks, TheStep(t) PROVE use' = use
  BY <1>1 DEF TheStep, Call, CallSync, SyncBuffer, SyncDone, Lookup, FoundUnlocked,
     PickVictim, SleepForBuffer, StartAgain, SyncVictim, TakeVictim, FillNew, Overwrite,
     Bread, Breada, Ahead, ReadDone, ReadFailed, Modify, brelse
<1>2. ASSUME NEW b \in Buffers, NEW ok \in BOOLEAN, EndIO(b, ok) PROVE use' = use
  BY <1>2 DEF EndIO
<1> QED
  BY <1>1, <1>2, StepCases DEF vars

\* Every step keeps the calls within the workload.
LEMMA CallsStep == Shape /\ CallsAllowed /\ [Next]_vars => CallsAllowed'
<1> SUFFICES ASSUME Shape, CallsAllowed, [Next]_vars PROVE CallsAllowed'
  OBVIOUS
<1> USE BufferAssumption DEF CallsAllowed
<1>1. ASSUME NEW t \in Tasks, TheStep(t), op' # op PROVE CallsAllowed'
  <2> USE DEF Shape, Types
  <2>1. \A u \in Tasks : use[u] \subseteq Calls
    OBVIOUS
  <2>2. CASE \E o \in Ops, blk, ahead \in Blocks : Call(t, o, blk, ahead)
    BY <2>2, SameUse DEF Call
  <2>3. CASE CallSync(t)
    BY <2>3, SameUse DEF CallSync
  <2>4. CASE Breada(t)
    <3>1. "breada" \in use[t]
      BY <2>4, <2>1 DEF Breada, Calls
    <3> QED
      BY <3>1, <2>4, SameUse DEF Breada
  <2>5. CASE Ahead(t)
    <3>1. "breada" \in use[t]
      BY <2>5, <2>1 DEF Ahead, Calls
    <3> QED
      BY <3>1, <2>5, SameUse DEF Ahead
  <2> QED
    BY <1>1, <2>2, <2>3, <2>4, <2>5
    DEF TheStep, SyncBuffer, SyncDone, Lookup, FoundUnlocked, PickVictim, SleepForBuffer,
        StartAgain, SyncVictim, TakeVictim, FillNew, Overwrite, Bread, ReadDone,
        ReadFailed, Modify, brelse
<1>2. CASE op' = op
  BY <1>2, SameUse
<1>3. ASSUME NEW b \in Buffers, NEW ok \in BOOLEAN, EndIO(b, ok) PROVE op' = op
  BY <1>3 DEF EndIO
<1> QED
  BY <1>1, <1>2, <1>3, StepCases DEF vars

\* Every step leaves a buffer that getblk() returned without a transfer.
LEMMA GotStep == Shape /\ GotUnlocked /\ [Next]_vars => GotUnlocked'
<1> SUFFICES ASSUME Shape, GotUnlocked, [Next]_vars PROVE GotUnlocked'
  OBVIOUS
<1> USE DEF Shape, Types, GotUnlocked
<1>1. ASSUME NEW t \in Tasks, MayRun(t), TheStep(t),
             NEW u \in Tasks, pc'[u] = "got"
      PROVE  io'[cur'[u]] = "none"
  <2>1. u = t /\ pc[t] # "got"
    <3>1. u # t => pc[u] # "got"
      BY <1>1 DEF MayRun
    <3>2. u # t => pc'[u] # "got"
      BY <1>1, <3>1
      DEF TheStep, Call, CallSync, SyncBuffer, SyncDone, Lookup, FoundUnlocked,
          PickVictim, SleepForBuffer, StartAgain, SyncVictim, TakeVictim, FillNew,
          Overwrite, Bread, Breada, Ahead, ReadDone, ReadFailed, Modify, brelse,
          WakeBufferWait, Go
    <3>3. pc[t] = "got" => pc'[t] # "got"
      BY <1>1
      DEF TheStep, Call, CallSync, SyncBuffer, SyncDone, Lookup, FoundUnlocked,
          PickVictim, SleepForBuffer, StartAgain, SyncVictim, TakeVictim, FillNew,
          Overwrite, Bread, Breada, Ahead, ReadDone, ReadFailed, Modify, brelse,
          Go, Having, Calls
    <3> QED
      BY <1>1, <3>2, <3>3
  <2>2. FoundUnlocked(t) \/ TakeVictim(t)
    BY <1>1, <2>1
    DEF TheStep, Call, CallSync, SyncBuffer, SyncDone, Lookup, PickVictim,
        SleepForBuffer, StartAgain, SyncVictim, FillNew, Overwrite, Bread, Breada,
        Ahead, ReadDone, ReadFailed, Modify, brelse, WakeBufferWait, Go
  <2> QED
    BY <1>1, <2>1, <2>2 DEF FoundUnlocked, TakeVictim, b_lock, Go
<1>2. ASSUME NEW b \in Buffers, NEW ok \in BOOLEAN, EndIO(b, ok) PROVE GotUnlocked'
  <2>1. \A t \in Tasks : pc[t] = "got" => cur[t] \in Buffers
    BY DEF Having, Counted
  <2> QED
    BY <1>2, <2>1 DEF EndIO
<1>3. CASE UNCHANGED vars
  BY <1>3 DEF vars, bufVars
<1> QED
  BY <1>1, <1>2, <1>3, StepCases

\* A transfer that starts leaves the data unspoilt if only buffers that are not
\* up to date are read.
LEMMA TransferUnspoilt ==
    ASSUME Types, Unspoilt, NEW b \in Buffers, NEW rw \in {"read", "write"},
           rw = "read" => ~b_uptodate[b],
           StartIO(b, rw) \/ UNCHANGED <<io, b_dirt, unwritten>>,
           b_uptodate' = b_uptodate
    PROVE  /\ \A c \in Buffers : unwritten'[c] => b_dirt'[c] /\ b_uptodate'[c]
           /\ \A c \in Buffers : io'[c] = "read" => ~b_uptodate'[c]
<1>1. CASE UNCHANGED <<io, b_dirt, unwritten>>
  BY <1>1 DEF Unspoilt
<1>2. CASE StartIO(b, rw)
  <2>1. \A c \in Buffers : unwritten'[c] = (unwritten[c] /\ (c = b => rw = "read"))
    BY <1>2 DEF StartIO, Types
  <2>2. \A c \in Buffers : io'[c] = IF c = b THEN rw ELSE io[c]
    BY <1>2 DEF StartIO, Types
  <2>3. \A c \in Buffers : b_dirt'[c] = IF c = b THEN FALSE ELSE b_dirt[c]
    BY <1>2 DEF StartIO, Types
  <2>4. \A c \in Buffers : unwritten'[c] => c # b
    BY <2>1 DEF Unspoilt
  <2> QED
    BY <2>1, <2>2, <2>3, <2>4 DEF Unspoilt
<1> QED
  BY <1>1, <1>2

\* Every step of a task leaves the data unspoilt.
LEMMA UnspoiltTask ==
    ASSUME Shape, CountIsReferences, CallsAllowed, GotUnlocked, Safe, Unspoilt,
           NEW t \in Tasks, TheStep(t)
    PROVE  Unspoilt'
<1> USE BufferAssumption DEF Shape, Types, Having, Places, Counted
<1> DEFINE Idle(u) == pc'[u] = "idle" /\ held'[u] # None => b_uptodate'[held'[u]]
<1>0. op[t] # "write"
  BY DEF CallsAllowed, Safe, Calling, Calls
<1>1. CASE SyncBuffer(t)
  <2> DEFINE b == ((next[t] - 1) % NR_BUFFERS) + 1
  <2>1. b \in Buffers
    BY DEF Buffers
  <2>2. /\ StartIO(b, "write") \/ UNCHANGED <<io, b_dirt, unwritten>>
        /\ UNCHANGED <<b_uptodate, pc, held>>
    BY <1>1 DEF SyncBuffer
  <2> HIDE DEF b
  <2>3. /\ \A c \in Buffers : unwritten'[c] => b_dirt'[c] /\ b_uptodate'[c]
        /\ \A c \in Buffers : io'[c] = "read" => ~b_uptodate'[c]
    BY <2>1, <2>2, TransferUnspoilt
  <2> QED
    BY <2>2, <2>3 DEF Unspoilt
<1>2. CASE Bread(t) \/ Breada(t) \/ Ahead(t)
  <2>1. PICK b \in Buffers :
           /\ \/ ~b_uptodate[b] /\ StartIO(b, "read")
              \/ UNCHANGED <<io, b_dirt, unwritten>>
           /\ b_uptodate' = b_uptodate
    <3>1. CASE Bread(t) \/ Breada(t)
      BY <3>1 DEF Bread, Breada, ReadIfNeeded
    <3>2. CASE Ahead(t)
      BY <3>2 DEF Ahead
    <3> QED
      BY <1>2, <3>1, <3>2
  <2>2. /\ \A c \in Buffers : unwritten'[c] => b_dirt'[c] /\ b_uptodate'[c]
        /\ \A c \in Buffers : io'[c] = "read" => ~b_uptodate'[c]
    <3>1. CASE ~b_uptodate[b] /\ StartIO(b, "read")
      BY <2>1, <3>1, TransferUnspoilt
    <3>2. CASE UNCHANGED <<io, b_dirt, unwritten>>
      BY <2>1, <3>2 DEF Unspoilt
    <3> QED
      BY <2>1, <3>1, <3>2
  <2>3. \A u \in Tasks : pc'[u] = "idle" => u # t /\ pc[u] = "idle" /\ held'[u] = held[u]
    BY <1>2 DEF Bread, Breada, Ahead, Go
  <2> QED
    BY <2>1, <2>2, <2>3 DEF Unspoilt
<1>3. CASE TakeVictim(t)
  <2>1. PICK c \in Buffers : c = cur[t]
    BY <1>3 DEF TakeVictim
  <2>2. /\ ~unwritten[c] /\ io[c] = "none"
        /\ \A u \in Tasks : held[u] # c
    BY <1>3, <2>1, NotInUse DEF TakeVictim, VictimTaken, Unspoilt, b_lock
  <2>3. /\ b_dirt' = [b_dirt EXCEPT ![c] = FALSE]
        /\ b_uptodate' = [b_uptodate EXCEPT ![c] = FALSE]
        /\ pc' = [pc EXCEPT ![t] = "got"]
        /\ UNCHANGED <<io, unwritten, held>>
    BY <1>3, <2>1 DEF TakeVictim, Go
  <2> QED
    BY <2>2, <2>3 DEF Unspoilt
<1>4. CASE FillNew(t)
  <2>1. PICK c \in Buffers : c = cur[t]
    BY <1>4 DEF FillNew
  <2>2. io[c] = "none"
    BY <1>4, <2>1 DEF FillNew, GotUnlocked
  <2>3. /\ b_dirt' = [b_dirt EXCEPT ![c] = TRUE]
        /\ b_uptodate' = [b_uptodate EXCEPT ![c] = TRUE]
        /\ unwritten' = [unwritten EXCEPT ![c] = TRUE]
        /\ held' = [held EXCEPT ![t] = c]
        /\ pc' = [pc EXCEPT ![t] = "idle"]
        /\ io' = io
    BY <1>4, <2>1 DEF FillNew, Go
  <2> QED
    BY <2>2, <2>3 DEF Unspoilt
<1>5. CASE Modify(t)
  <2>1. PICK c \in Buffers : c = held[t]
    BY <1>5 DEF Modify
  <2>2. b_uptodate[c]
    BY <1>5, <2>1 DEF Modify, Unspoilt
  <2>3. /\ b_dirt' = [b_dirt EXCEPT ![c] = TRUE]
        /\ unwritten' = [unwritten EXCEPT ![c] = TRUE]
        /\ UNCHANGED <<b_uptodate, io, pc, held>>
    BY <1>5, <2>1 DEF Modify
  <2> QED
    BY <2>2, <2>3 DEF Unspoilt
<1>6. ASSUME UNCHANGED <<b_dirt, b_uptodate, io, unwritten>>,
             \A u \in Tasks : Idle(u)
      PROVE  Unspoilt'
  BY <1>6 DEF Unspoilt
<1>7. CASE ReadDone(t)
  <2>1. \A u \in Tasks : Idle(u)
    BY <1>7 DEF ReadDone, bufVars, Go, Unspoilt
  <2> QED
    BY <1>6, <1>7, <2>1 DEF ReadDone, bufVars
<1>8. CASE ReadFailed(t)
  <2>1. \A u \in Tasks : Idle(u)
    BY <1>8 DEF ReadFailed, Unspoilt
  <2> QED
    BY <1>6, <1>8, <2>1 DEF ReadFailed
<1>9. CASE brelse(t)
  <2>1. \A u \in Tasks : Idle(u)
    BY <1>9 DEF brelse, WakeBufferWait, Unspoilt
  <2> QED
    BY <1>6, <1>9, <2>1 DEF brelse
<1>10. CASE \/ \E o \in Ops, blk, ahead \in Blocks : Call(t, o, blk, ahead)
            \/ CallSync(t) \/ SyncDone(t) \/ Lookup(t) \/ FoundUnlocked(t)
            \/ PickVictim(t) \/ SleepForBuffer(t) \/ StartAgain(t) \/ SyncVictim(t)
  <2>1. /\ UNCHANGED <<b_dirt, b_uptodate, io, unwritten, held>>
        /\ \A u \in Tasks \ {t} : pc'[u] = pc[u]
        /\ pc'[t] = "idle" => held[t] = None
    BY <1>10
    DEF Call, CallSync, SyncDone, Lookup, FoundUnlocked, PickVictim, SleepForBuffer,
        StartAgain, SyncVictim, bufVars, Go
  <2> QED
    BY <1>6, <2>1 DEF Unspoilt
<1>11. ~Overwrite(t)
  BY <1>0 DEF Overwrite
<1> QED
  BY <1>1, <1>2, <1>3, <1>4, <1>5, <1>7, <1>8, <1>9, <1>10, <1>11 DEF TheStep

\* The end of a transfer leaves the data unspoilt, if writes do not fail.
LEMMA UnspoiltDisk ==
    ASSUME Shape, Safe, Unspoilt, NEW b \in Buffers, NEW ok \in BOOLEAN, EndIO(b, ok)
    PROVE  Unspoilt'
<1>1. io[b] = "read" \/ ok
  BY DEF EndIO, Safe, Shape, Types, b_lock
<1>2. CASE ok
  BY <1>2 DEF EndIO, Unspoilt, Shape, Types
<1>3. CASE ~ok
  <2>1. ~b_uptodate[b] /\ b_uptodate' = b_uptodate
    BY <1>1, <1>3 DEF EndIO, Unspoilt, Shape, Types
  <2> QED
    BY <2>1 DEF EndIO, Unspoilt, Shape, Types
<1> QED
  BY <1>2, <1>3

\* Every step leaves the data unspoilt.
LEMMA UnspoiltStep ==
    IInv /\ DataInv /\ [Next]_vars => (Safe => Unspoilt)'
<1> SUFFICES ASSUME IInv, DataInv, [Next]_vars, Safe' PROVE Unspoilt'
  OBVIOUS
<1>1. Safe
  BY SameUse DEF Safe, Calling
<1>2. CASE UNCHANGED vars
  BY <1>1, <1>2 DEF vars, bufVars, Unspoilt, DataInv
<1> QED
  BY <1>1, <1>2, UnspoiltTask, UnspoiltDisk, StepCases DEF IInv, DataInv

\* Every step leaves nobody asleep beside a free buffer: what makes a count
\* zero wakes the sleepers, and get_hash_table() never gives a buffer back
\* because it has become another block.
LEMMA SleepStep ==
    IInv /\ DataInv /\ [Next]_vars => SleepsOnlyIfFull'
<1> SUFFICES ASSUME IInv, DataInv, [Next]_vars, ~Calling("breada"), buffer_wait' # {}
             PROVE  \A b \in Buffers : b_count'[b] # 0
  BY SameUse DEF SleepsOnlyIfFull, Calling, Unused
<1> USE BufferAssumption DEF IInv, Shape, Types, Having, Counted
<1>0. buffer_wait # {} => \A b \in Buffers : b_count[b] # 0
  BY DEF DataInv, SleepsOnlyIfFull, Unused
<1>1. ASSUME NEW t \in Tasks, TheStep(t) PROVE \A b \in Buffers : b_count'[b] # 0
  <2>1. CASE SleepForBuffer(t)
    BY <2>1 DEF SleepForBuffer, Unused, bufVars
  <2>2. CASE Lookup(t)
    <3>1. \A b \in Buffers : b_count[b] \in Nat
      BY NumbersOfReferences DEF CountIsReferences
    <3> QED
      BY <1>0, <2>2, <3>1 DEF Lookup, find_buffer
  <2>3. CASE FoundUnlocked(t)
    BY <1>0, <1>1, <2>3 DEF FoundUnlocked, KeepsItsBlock
  <2>4. CASE TakeVictim(t)
    BY <1>0, <2>4 DEF TakeVictim
  <2>5. ~Ahead(t)
    BY DEF Ahead, DataInv, CallsAllowed, Calling, Calls
  <2>6. ~ReadFailed(t) /\ ~brelse(t)
    BY DEF ReadFailed, brelse, WakeBufferWait
  <2>7. CASE buffer_wait' = buffer_wait /\ b_count' = b_count
    BY <1>0, <2>7
  <2> QED
    BY <1>1, <2>1, <2>2, <2>3, <2>4, <2>5, <2>6, <2>7
    DEF TheStep, Call, CallSync, SyncBuffer, SyncDone, PickVictim, StartAgain,
        SyncVictim, FillNew, Overwrite, Bread, Breada, ReadDone, Modify, bufVars
<1>2. ASSUME NEW b \in Buffers, NEW ok \in BOOLEAN, EndIO(b, ok)
      PROVE  buffer_wait' = buffer_wait /\ b_count' = b_count
  BY <1>2 DEF EndIO
<1> QED
  BY <1>0, <1>1, <1>2, StepCases DEF vars, bufVars

\* With the counts and blocks, what happens to the data is inductive.
LEMMA DataStep == IInv /\ DataInv /\ [Next]_vars => DataInv'
  BY CallsStep, GotStep, UnspoiltStep, SleepStep DEF IInv, DataInv

\* The calls, transfers and data are always as DataInv says.
THEOREM DataInvariance == Spec => []DataInv
  BY DataInit, DataStep, Invariance, PTL DEF Spec

\* Where nobody overwrites whole blocks and no write fails, no change is lost:
\* what no write was asked for is in a dirty buffer.
THEOREM ChangesStayDirty == Spec => []UnwrittenIsDirty
<1>1. DataInv => UnwrittenIsDirty
  BY DEF DataInv, UnwrittenIsDirty, Unspoilt, Safe
<1> QED
  BY <1>1, DataInvariance, PTL

\* Without breada(), nobody sleeps on buffer_wait beside an unused buffer.
THEOREM NobodySleepsBesideFree == Spec => []SleepsOnlyIfFull
<1>1. DataInv => SleepsOnlyIfFull
  BY DEF DataInv
<1> QED
  BY <1>1, DataInvariance, PTL
=============================================================================
