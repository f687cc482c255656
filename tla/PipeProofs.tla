---------------------------- MODULE PipeProofs ----------------------------
(* The ring of a pipe is a queue, and nobody sleeps beside it in vain.      *)
EXTENDS Pipe, SequenceTheorems, TLAPS

\* What one task does in a step.
TheStep(t) ==
    \/ ReadChars(t) \/ ReadSleeps(t) \/ ReadReturns(t)
    \/ WriteChars(t) \/ WriteSleeps(t) \/ WriteReturns(t) \/ WriteBreaks(t)
    \/ Resume(t) \/ CopyRest(t) \/ sys_pipe(t) \/ TakeSignal(t)
    \/ \E u \in Tasks : Fork(t, u)
    \/ \E e \in Ends : sys_close(t, e)
    \/ \E n \in ReadSizes : sys_read(t, n)
    \/ \E s \in Payloads : sys_write(t, s)

\* A step is one of these, or changes nothing.
LEMMA StepCases == [Next]_vars => (\E t \in Tasks : TheStep(t)) \/ UNCHANGED vars
  BY DEF Next, Kernel, Scheduled, TheStep

\* Wrap() stays in the page.
LEMMA WrapInSlots ==
    ASSUME NEW x \in Int, - PAGE_SIZE <= x, x < 2 * PAGE_SIZE
    PROVE  Wrap(x) \in Slots
  BY SizeAssumption DEF Wrap, Slots

\* The size of the ring, and the room in it, are in a page less one.
LEMMA SizeInSlots ==
    ASSUME head \in Slots, tail \in Slots
    PROVE  Size \in Slots /\ Room \in Slots
  BY SizeAssumption DEF Size, Room, Wrap, Slots

\* A chunk is what the call asks for at most, and does not pass the end of
\* the page.
LEMMA ChunkBounds ==
    ASSUME NEW t \in Tasks, NEW from \in Slots, NEW size \in Slots, size > 0,
           count \in [Tasks -> Nat], count[t] > 0
    PROVE  /\ Chunk(t, from, size) \in 1 .. size
           /\ Chunk(t, from, size) <= count[t]
           /\ from + Chunk(t, from, size) <= PAGE_SIZE
  BY SizeAssumption DEF Chunk, AtMost, Slots

\* What is copied of n characters is at most n.
LEMMA CopiedBounds ==
    ASSUME NEW t, NEW n \in Nat, NEW k \in Copied(t, n)
    PROVE  k \in 0 .. n
  BY DEF Copied

\* A wake-up makes a sleeper a woken one and does nothing else.
LEMMA WokenPlaces ==
    ASSUME NEW p \in Tasks \cup {None}, NEW places \in [Tasks -> Places]
    PROVE  /\ Woken(p, places) \in [Tasks -> Places]
           /\ \A t \in Tasks :
                 Woken(p, places)[t] = IF t = p /\ places[t] = "sleep" THEN "woken"
                                       ELSE places[t]
  BY NoneAssumption DEF Woken, Places

\* A copy out of the ring appends k characters to the buffer.
LEMMA CopyOutTypes ==
    ASSUME NEW t \in Tasks, NEW from \in 0 .. PAGE_SIZE, NEW k \in Nat,
           from + k <= PAGE_SIZE,
           data \in [Slots -> Chars], buf \in [Tasks -> Seq(Chars)],
           CopyOut(t, from, k)
    PROVE  data' \in [Slots -> Chars] /\ buf' \in [Tasks -> Seq(Chars)]
  <1> DEFINE got == [i \in 1 .. k |-> data[from + i - 1]]
  <1>1. \A i \in 1 .. k : data[from + i - 1] \in Chars
    BY SizeAssumption DEF Slots
  <1>2. got \in Seq(Chars)
    BY <1>1, IsASeq
  <1>3. buf[t] \o got \in Seq(Chars)
    BY <1>2, ConcatProperties
  <1> QED
    BY <1>3 DEF CopyOut

\* A copy into the ring takes k characters off the buffer.
LEMMA CopyInTypes ==
    ASSUME NEW t \in Tasks, NEW from \in 0 .. PAGE_SIZE, NEW k \in Nat,
           from + k <= PAGE_SIZE,
           data \in [Slots -> Chars], buf \in [Tasks -> Seq(Chars)],
           k <= Len(buf[t]), CopyIn(t, from, k)
    PROVE  /\ data' \in [Slots -> Chars] /\ buf' \in [Tasks -> Seq(Chars)]
           /\ Len(buf'[t]) = Len(buf[t]) - k
           /\ \A u \in Tasks \ {t} : buf'[u] = buf[u]
  <1>1. \A i \in 1 .. Len(buf[t]) : buf[t][i] \in Chars
    BY ElementOfSeq
  <1>2. Len(buf[t]) \in Nat
    BY LenProperties
  <1>3. data' \in [Slots -> Chars]
    <2>1. \A i \in Slots : i \in from .. from + k - 1 => buf[t][i - from + 1] \in Chars
      BY <1>1, <1>2 DEF Slots
    <2> QED
      BY <2>1 DEF CopyIn
  <1>4. /\ SubSeq(buf[t], k + 1, Len(buf[t])) \in Seq(Chars)
        /\ Len(SubSeq(buf[t], k + 1, Len(buf[t]))) = Len(buf[t]) - k
    <2>1. \A i \in (k + 1) .. Len(buf[t]) : buf[t][i] \in Chars
      BY <1>1, <1>2
    <2>2. k + 1 \in Int /\ Len(buf[t]) \in Int
      BY <1>2
    <2>3. /\ SubSeq(buf[t], k + 1, Len(buf[t])) \in Seq(Chars)
          /\ Len(SubSeq(buf[t], k + 1, Len(buf[t]))) =
                IF k + 1 <= Len(buf[t]) THEN Len(buf[t]) - (k + 1) + 1 ELSE 0
      BY <2>1, <2>2, SubSeqProperties
    <2> QED
      BY <2>3, <1>2
  <1> QED
    BY <1>3, <1>4 DEF CopyIn

-----------------------------------------------------------------------------
\* TypeOK in two parts: the variables' types, and what ties a task's together.
Kinds ==
    /\ data \in [Slots -> Chars]
    /\ head \in Slots /\ tail \in Slots
    /\ i_count \in 0 .. 2
    /\ i_wait \in Tasks \cup {None}
    /\ ends \in [Tasks -> SUBSET Ends]
    /\ op \in [Tasks -> {"none", "read", "write"}]
    /\ count \in [Tasks -> Nat]
    /\ buf \in [Tasks -> Seq(Chars)]
    /\ tmp \in [Tasks -> Tasks \cup {None}]
    /\ rest \in [Tasks -> (0 .. PAGE_SIZE) \X Slots]
    /\ pc \in [Tasks -> Places]
    /\ cpu \in Tasks \cup {None}
    /\ sigpipe \in [Tasks -> BOOLEAN]
    /\ use \in Uses

Placed(t) ==
    /\ pc[t] = "user" <=> op[t] = "none"
    /\ pc[t] = "run" <=> cpu = t
    /\ op[t] = "write" => Len(buf[t]) = count[t] + rest[t][2]
    /\ pc[t] # "fault" => rest[t] = <<0, 0>>
    /\ rest[t][1] + rest[t][2] <= PAGE_SIZE

\* TypeOK is just these.
LEMMA TypeParts == TypeOK <=> Kinds /\ \A t \in Tasks : Placed(t)
  BY DEF TypeOK, Kinds, Placed

\* Pause() where the copying of n characters stops, in types and places.
LEMMA PauseTypes ==
    ASSUME Kinds, NEW t \in Tasks, Placed(t), NEW from \in 0 .. PAGE_SIZE, NEW n \in Slots,
           cpu = t, pc[t] = "run", Pause(t, from, n)
    PROVE  /\ rest' \in [Tasks -> (0 .. PAGE_SIZE) \X Slots]
           /\ pc' \in [Tasks -> Places] /\ cpu' \in Tasks \cup {None}
           /\ n = 0 => rest'[t] = <<0, 0>> /\ pc'[t] = "run" /\ cpu' = t
           /\ n # 0 => rest'[t] = <<from, n>> /\ pc'[t] = "fault" /\ cpu' = None
           /\ \A u \in Tasks \ {t} : rest'[u] = rest[u] /\ pc'[u] = pc[u]
  <1>1. CASE n = 0
    <2>1. UNCHANGED <<rest, pc, cpu>> /\ rest[t] = <<0, 0>>
      BY <1>1 DEF Pause, Placed
    <2> QED
      BY <1>1, <2>1 DEF Kinds
  <1>2. CASE n # 0
    <2>1. <<from, n>> \in (0 .. PAGE_SIZE) \X Slots
      OBVIOUS
    <2>2. /\ rest' = [rest EXCEPT ![t] = <<from, n>>]
          /\ pc' = [pc EXCEPT ![t] = "fault"] /\ cpu' = None
      BY <1>2 DEF Pause
    <2>3. /\ rest \in [Tasks -> (0 .. PAGE_SIZE) \X Slots]
          /\ pc \in [Tasks -> Places] /\ "fault" \in Places
      BY DEF Kinds, Places
    <2> HIDE DEF Places, Slots
    <2> QED
      BY <1>2, <2>1, <2>2, <2>3
  <1> QED
    BY <1>1, <1>2

\* A turn of the reader keeps the types.
LEMMA ReadCharsTypes ==
    ASSUME Kinds, \A u \in Tasks : Placed(u), NEW t \in Tasks, ReadChars(t)
    PROVE  Kinds' /\ \A u \in Tasks : Placed(u)'
  <1>1. Size \in Slots /\ Size > 0 /\ count[t] > 0
    BY SizeInSlots DEF ReadChars, Kinds
  <1> PICK chars \in 1 .. Size :
           /\ chars <= count[t] /\ tail + chars <= PAGE_SIZE
           /\ chars = Chunk(t, tail, Size)
    BY <1>1, ChunkBounds DEF Kinds
  <1> PICK k \in Copied(t, chars) :
           CopyOut(t, tail, k) /\ Pause(t, tail + k, chars - k)
    BY DEF ReadChars
  <1>2. k \in 0 .. chars /\ chars \in Slots /\ tail \in Slots
    <2>1. chars \in Slots /\ chars \in Nat
      BY <1>1, SizeAssumption DEF Slots
    <2>2. k \in 0 .. chars
      BY <2>1, CopiedBounds
    <2> QED
      BY <2>1, <2>2 DEF Kinds
  <1>3. tail + k \in 0 .. PAGE_SIZE /\ chars - k \in Slots
    BY <1>2, SizeAssumption DEF Slots
  <1>4. data' \in [Slots -> Chars] /\ buf' \in [Tasks -> Seq(Chars)]
        /\ \A u \in Tasks \ {t} : buf'[u] = buf[u]
    <2>1. /\ data \in [Slots -> Chars] /\ buf \in [Tasks -> Seq(Chars)]
          /\ tail \in 0 .. PAGE_SIZE /\ k \in Nat /\ tail + k <= PAGE_SIZE
      <3>1. data \in [Slots -> Chars] /\ buf \in [Tasks -> Seq(Chars)]
        BY DEF Kinds
      <3> QED
        BY <3>1, <1>2, SizeAssumption DEF Slots
    <2>2. data' \in [Slots -> Chars] /\ buf' \in [Tasks -> Seq(Chars)]
      BY <2>1, CopyOutTypes
    <2>3. \A u \in Tasks \ {t} : buf'[u] = buf[u]
      BY <2>1 DEF CopyOut
    <2> QED
      BY <2>2, <2>3
  <1>5. /\ rest' \in [Tasks -> (0 .. PAGE_SIZE) \X Slots]
        /\ pc' \in [Tasks -> Places] /\ cpu' \in Tasks \cup {None}
        /\ chars - k = 0 => rest'[t] = <<0, 0>> /\ pc'[t] = "run" /\ cpu' = t
        /\ chars - k # 0 =>
              rest'[t] = <<tail + k, chars - k>> /\ pc'[t] = "fault" /\ cpu' = None
        /\ \A u \in Tasks \ {t} : rest'[u] = rest[u] /\ pc'[u] = pc[u]
    BY <1>3, PauseTypes DEF ReadChars, In
  <1>6. tail' \in Slots
    <2>1. tail' = Wrap(tail + chars)
      BY DEF ReadChars
    <2> QED
      BY <2>1, <1>2, WrapInSlots, SizeAssumption DEF Slots
  <1>7. count' = [count EXCEPT ![t] = @ - chars] /\ count' \in [Tasks -> Nat]
    BY <1>1 DEF ReadChars, Kinds
  <1>8. /\ UNCHANGED <<head, i_count, i_wait, ends, op, tmp, sigpipe, use>>
        /\ op[t] = "read" /\ cpu = t
    BY DEF ReadChars, In
  <1>9. ASSUME NEW u \in Tasks
        PROVE  Placed(u)'
    <2>1. CASE u = t
      <3>1. rest'[t][1] + rest'[t][2] <= PAGE_SIZE
        BY <1>2, <1>5, SizeAssumption DEF Slots
      <3> QED
        BY <2>1, <3>1, <1>2, <1>5, <1>8, NoneAssumption DEF Placed
    <2>2. CASE u # t
      BY <2>2, <1>4, <1>5, <1>7, <1>8, NoneAssumption DEF Kinds, Placed
    <2> QED
      BY <2>1, <2>2
  <1> QED
    BY <1>4, <1>5, <1>6, <1>7, <1>8, <1>9 DEF Kinds

\* So does a turn of the writer.
LEMMA WriteCharsTypes ==
    ASSUME Kinds, \A u \in Tasks : Placed(u), NEW t \in Tasks, WriteChars(t)
    PROVE  Kinds' /\ \A u \in Tasks : Placed(u)'
  <1>1. Room \in Slots /\ Room > 0 /\ count[t] > 0
    BY SizeInSlots DEF WriteChars, Kinds
  <1> PICK chars \in 1 .. Room :
           /\ chars <= count[t] /\ head + chars <= PAGE_SIZE
           /\ chars = Chunk(t, head, Room)
    BY <1>1, ChunkBounds DEF Kinds
  <1> PICK k \in Copied(t, chars) :
           CopyIn(t, head, k) /\ Pause(t, head + k, chars - k)
    BY DEF WriteChars
  <1>2. k \in 0 .. chars /\ chars \in Slots /\ head \in Slots
    <2>1. chars \in Slots /\ chars \in Nat
      BY <1>1, SizeAssumption DEF Slots
    <2>2. k \in 0 .. chars
      BY <2>1, CopiedBounds
    <2> QED
      BY <2>1, <2>2 DEF Kinds
  <1>3. head + k \in 0 .. PAGE_SIZE /\ chars - k \in Slots
    BY <1>2, SizeAssumption DEF Slots
  <1>8. /\ UNCHANGED <<tail, i_count, i_wait, ends, op, tmp, sigpipe, use>>
        /\ op[t] = "write" /\ cpu = t /\ pc[t] = "run"
    BY DEF WriteChars, In
  <1>4. /\ data' \in [Slots -> Chars] /\ buf' \in [Tasks -> Seq(Chars)]
        /\ Len(buf'[t]) = Len(buf[t]) - k
        /\ \A u \in Tasks \ {t} : buf'[u] = buf[u]
    <2>1. Len(buf[t]) = count[t]
      <3>1. Len(buf[t]) = count[t] + rest[t][2] /\ rest[t] = <<0, 0>>
        BY <1>8 DEF Placed
      <3>2. count[t] \in Nat
        BY DEF Kinds
      <3> QED
        BY <3>1, <3>2
    <2>2. /\ data \in [Slots -> Chars] /\ buf \in [Tasks -> Seq(Chars)]
          /\ head \in 0 .. PAGE_SIZE /\ k \in Nat /\ head + k <= PAGE_SIZE
          /\ k <= Len(buf[t])
      <3>1. data \in [Slots -> Chars] /\ buf \in [Tasks -> Seq(Chars)]
        BY DEF Kinds
      <3> QED
        BY <3>1, <2>1, <1>2, SizeAssumption DEF Slots
    <2> QED
      BY <2>2, CopyInTypes
  <1>5. /\ rest' \in [Tasks -> (0 .. PAGE_SIZE) \X Slots]
        /\ pc' \in [Tasks -> Places] /\ cpu' \in Tasks \cup {None}
        /\ chars - k = 0 => rest'[t] = <<0, 0>> /\ pc'[t] = "run" /\ cpu' = t
        /\ chars - k # 0 =>
              rest'[t] = <<head + k, chars - k>> /\ pc'[t] = "fault" /\ cpu' = None
        /\ \A u \in Tasks \ {t} : rest'[u] = rest[u] /\ pc'[u] = pc[u]
    BY <1>3, <1>8, PauseTypes
  <1>6. head' \in Slots
    <2>1. head' = Wrap(head + chars)
      BY DEF WriteChars
    <2> QED
      BY <2>1, <1>2, WrapInSlots, SizeAssumption DEF Slots
  <1>7. count' = [count EXCEPT ![t] = @ - chars] /\ count' \in [Tasks -> Nat]
    BY <1>1 DEF WriteChars, Kinds
  <1>9. ASSUME NEW u \in Tasks
        PROVE  Placed(u)'
    <2>1. CASE u = t
      <3>1. Len(buf[t]) = count[t] /\ count'[t] = count[t] - chars
            /\ count[t] \in Nat
        <4>1. Len(buf[t]) = count[t] + rest[t][2] /\ rest[t] = <<0, 0>>
          BY <1>8 DEF Placed
        <4>2. count \in [Tasks -> Nat]
          BY DEF Kinds
        <4> QED
          BY <4>1, <4>2, <1>7
      <3>2. rest'[t][2] = chars - k /\ rest'[t][1] + rest'[t][2] <= PAGE_SIZE
        BY <1>2, <1>5, SizeAssumption DEF Slots
      <3>3. Len(buf'[t]) = count'[t] + rest'[t][2]
        BY <3>1, <3>2, <1>2, <1>4
      <3> QED
        BY <2>1, <3>2, <3>3, <1>2, <1>5, <1>8, NoneAssumption DEF Kinds, Slots, Placed
    <2>2. CASE u # t
      BY <2>2, <1>4, <1>5, <1>7, <1>8, NoneAssumption DEF Kinds, Placed
    <2> QED
      BY <2>1, <2>2
  <1> QED
    BY <1>4, <1>5, <1>6, <1>7, <1>8, <1>9 DEF Kinds

\* And the end of a page fault.
LEMMA CopyRestTypes ==
    ASSUME Kinds, \A u \in Tasks : Placed(u), NEW t \in Tasks, CopyRest(t)
    PROVE  Kinds' /\ \A u \in Tasks : Placed(u)'
  <1> PICK from \in 0 .. PAGE_SIZE, n \in Slots : rest[t] = <<from, n>>
    <2>1. rest[t] \in (0 .. PAGE_SIZE) \X Slots
      BY DEF Kinds
    <2> HIDE DEF Slots
    <2> QED
      BY <2>1
  <1>1. from + n <= PAGE_SIZE /\ n \in Nat
    BY DEF Slots, Placed
  <1>2. /\ IF op[t] = "read" THEN CopyOut(t, from, n) ELSE CopyIn(t, from, n)
        /\ pc[t] = "fault" /\ cpu = None /\ cpu' = t
        /\ pc' = [pc EXCEPT ![t] = "run"] /\ rest' = [rest EXCEPT ![t] = <<0, 0>>]
        /\ UNCHANGED <<head, tail, i_count, i_wait, ends, op, count, tmp, sigpipe,
                       use>>
    BY DEF CopyRest
  <1>3. op[t] = "read" \/ (op[t] = "write" /\ Len(buf[t]) = count[t] + n)
    <2>1. op[t] = "read" \/ op[t] = "write"
      BY <1>2 DEF Placed, Kinds
    <2>2. op[t] = "write" => Len(buf[t]) = count[t] + n
      BY DEF Placed
    <2> QED
      BY <2>1, <2>2
  <1>4. data \in [Slots -> Chars] /\ buf \in [Tasks -> Seq(Chars)] /\ count[t] \in Nat
    BY DEF Kinds
  <1>5. /\ data' \in [Slots -> Chars] /\ buf' \in [Tasks -> Seq(Chars)]
        /\ \A u \in Tasks \ {t} : buf'[u] = buf[u]
        /\ op[t] = "write" => Len(buf'[t]) = count[t]
    <2>1. CASE op[t] = "read"
      <3>1. CopyOut(t, from, n)
        BY <1>2, <2>1
      <3>2. data' \in [Slots -> Chars] /\ buf' \in [Tasks -> Seq(Chars)]
        BY <3>1, <1>1, <1>4, CopyOutTypes
      <3>3. \A u \in Tasks \ {t} : buf'[u] = buf[u]
        BY <3>1, <1>4 DEF CopyOut
      <3> QED
        BY <2>1, <3>2, <3>3
    <2>2. CASE op[t] = "write"
      <3>1. CopyIn(t, from, n) /\ n <= Len(buf[t])
        BY <1>1, <1>2, <1>3, <1>4, <2>2
      <3>2. /\ data' \in [Slots -> Chars] /\ buf' \in [Tasks -> Seq(Chars)]
            /\ Len(buf'[t]) = Len(buf[t]) - n
            /\ \A u \in Tasks \ {t} : buf'[u] = buf[u]
        BY <3>1, <1>1, <1>4, CopyInTypes
      <3>3. Len(buf[t]) = count[t] + n
        BY <1>3, <2>2
      <3>4. Len(buf'[t]) = count[t]
        BY <3>2, <3>3, <1>1, <1>4
      <3> QED
        BY <3>2, <3>4
    <2> QED
      BY <1>3, <2>1, <2>2
  <1>6. ASSUME NEW u \in Tasks
        PROVE  Placed(u)'
    <2>1. CASE u = t
      BY <2>1, <1>2, <1>3, <1>4, <1>5, SizeAssumption DEF Kinds, Placed
    <2>2. CASE u # t
      BY <2>2, <1>2, <1>5, NoneAssumption DEF Kinds, Placed
    <2> QED
      BY <2>1, <2>2
  <1>7. /\ rest' \in [Tasks -> (0 .. PAGE_SIZE) \X Slots]
        /\ pc' \in [Tasks -> Places] /\ cpu' \in Tasks \cup {None}
    BY <1>2, SizeAssumption DEF Kinds, Slots, Placed, Places
  <1> QED
    BY <1>2, <1>5, <1>6, <1>7 DEF Kinds

-----------------------------------------------------------------------------
\* Leaving the kernel by a return or a sleep, in types and places.
LEMMA LeaveTypes ==
    ASSUME Kinds, NEW t \in Tasks, NEW place \in {"user", "sleep"},
           pc' = Woken(i_wait, [pc EXCEPT ![t] = place])
    PROVE  /\ pc' \in [Tasks -> Places]
           /\ pc'[t] = place \/ (place = "sleep" /\ i_wait = t /\ pc'[t] = "woken")
           /\ \A u \in Tasks \ {t} :
                 pc'[u] = IF u = i_wait /\ pc[u] = "sleep" THEN "woken" ELSE pc[u]
  <1>1. [pc EXCEPT ![t] = place] \in [Tasks -> Places] /\ i_wait \in Tasks \cup {None}
    BY DEF Kinds, Places
  <1>2. /\ pc' \in [Tasks -> Places]
        /\ \A u \in Tasks :
              pc'[u] = IF u = i_wait /\ [pc EXCEPT ![t] = place][u] = "sleep"
                       THEN "woken" ELSE [pc EXCEPT ![t] = place][u]
    BY <1>1, WokenPlaces
  <1>3. pc \in [Tasks -> Places]
    BY DEF Kinds
  <1> QED
    BY <1>2, <1>3

\* A task that returns has no call any more.
LEMMA ReturnTypes ==
    ASSUME Kinds, \A u \in Tasks : Placed(u), NEW t \in Tasks,
           cpu = t, pc[t] = "run", Return(t),
           UNCHANGED <<data, head, tail, i_count, ends, tmp, rest, use>>,
           sigpipe' \in [Tasks -> BOOLEAN]
    PROVE  Kinds' /\ \A u \in Tasks : Placed(u)'
  <1>1. /\ op' = [op EXCEPT ![t] = "none"] /\ count' = [count EXCEPT ![t] = 0]
        /\ buf' = [buf EXCEPT ![t] = <<>>] /\ i_wait' = None /\ cpu' = None
        /\ pc' = Woken(i_wait, [pc EXCEPT ![t] = "user"])
    BY DEF Return
  <1>2. /\ pc' \in [Tasks -> Places] /\ pc'[t] = "user"
        /\ \A u \in Tasks \ {t} :
              pc'[u] = IF u = i_wait /\ pc[u] = "sleep" THEN "woken" ELSE pc[u]
    BY <1>1, LeaveTypes
  <1>3. /\ op' \in [Tasks -> {"none", "read", "write"}]
        /\ count' \in [Tasks -> Nat] /\ buf' \in [Tasks -> Seq(Chars)]
    BY <1>1 DEF Kinds
  <1>4. Kinds'
    BY <1>1, <1>2, <1>3 DEF Kinds
  <1>5. ASSUME NEW u \in Tasks
        PROVE  Placed(u)'
    <2>1. CASE u = t
      BY <2>1, <1>1, <1>2, NoneAssumption DEF Placed, Kinds
    <2>2. CASE u # t
      BY <2>2, <1>1, <1>2, NoneAssumption DEF Placed, Kinds
    <2> QED
      BY <2>1, <2>2
  <1> QED
    BY <1>4, <1>5

\* Nor has one that goes to sleep the processor.
LEMMA SleepTypes ==
    ASSUME Kinds, \A u \in Tasks : Placed(u), NEW t \in Tasks,
           cpu = t, pc[t] = "run", WakeAndSleep(t),
           UNCHANGED <<data, head, tail, i_count, ends, op, count, buf, rest,
                       sigpipe, use>>
    PROVE  Kinds' /\ \A u \in Tasks : Placed(u)'
  <1>1. /\ tmp' = [tmp EXCEPT ![t] = None] /\ i_wait' = t /\ cpu' = None
        /\ pc' = Woken(i_wait, [pc EXCEPT ![t] = "sleep"])
    BY DEF WakeAndSleep
  <1>2. /\ pc' \in [Tasks -> Places] /\ pc'[t] \in {"sleep", "woken"}
        /\ \A u \in Tasks \ {t} :
              pc'[u] = IF u = i_wait /\ pc[u] = "sleep" THEN "woken" ELSE pc[u]
    BY <1>1, LeaveTypes
  <1>3. tmp' \in [Tasks -> Tasks \cup {None}]
    BY <1>1 DEF Kinds
  <1>4. Kinds'
    BY <1>1, <1>2, <1>3 DEF Kinds
  <1>5. ASSUME NEW u \in Tasks
        PROVE  Placed(u)'
    <2>1. CASE u = t
      BY <2>1, <1>1, <1>2, NoneAssumption DEF Placed, Kinds
    <2>2. CASE u # t
      BY <2>2, <1>1, <1>2, NoneAssumption DEF Placed, Kinds
    <2> QED
      BY <2>1, <2>2
  <1> QED
    BY <1>4, <1>5

\* Every step keeps the types.
LEMMA TypesNext ==
    ASSUME TypeOK, CountIsEnds, NEW t \in Tasks, TheStep(t)
    PROVE  TypeOK'
  <1>0. Kinds /\ \A u \in Tasks : Placed(u)
    BY TypeParts
  <1> SUFFICES Kinds' /\ \A u \in Tasks : Placed(u)'
    BY DEF TypeOK, Kinds, Placed
  <1>1. CASE ReadChars(t)
    BY <1>0, <1>1, ReadCharsTypes
  <1>2. CASE WriteChars(t)
    BY <1>0, <1>2, WriteCharsTypes
  <1>3. CASE CopyRest(t)
    BY <1>0, <1>3, CopyRestTypes
  <1>4. CASE ReadSleeps(t)
    BY <1>0, <1>4, SleepTypes DEF ReadSleeps, In
  <1>5. CASE WriteSleeps(t)
    BY <1>0, <1>5, SleepTypes DEF WriteSleeps, In
  <1>6. CASE ReadReturns(t)
    <2>1. sigpipe' \in [Tasks -> BOOLEAN]
      BY <1>0, <1>6 DEF ReadReturns, Kinds
    <2> QED
      BY <1>0, <1>6, <2>1, ReturnTypes DEF ReadReturns, In
  <1>7. CASE WriteReturns(t)
    <2>1. sigpipe' \in [Tasks -> BOOLEAN]
      BY <1>0, <1>7 DEF WriteReturns, Kinds
    <2> QED
      BY <1>0, <1>7, <2>1, ReturnTypes DEF WriteReturns, In
  <1>8. CASE WriteBreaks(t)
    <2>1. sigpipe' \in [Tasks -> BOOLEAN]
      BY <1>0, <1>8 DEF WriteBreaks, Kinds
    <2> QED
      BY <1>0, <1>8, <2>1, ReturnTypes DEF WriteBreaks, In
  <1>9. CASE Resume(t)
    <2>1. /\ cpu = None /\ pc[t] = "woken" /\ cpu' = t
          /\ pc' = Woken(tmp[t], [pc EXCEPT ![t] = "run"])
          /\ tmp' = [tmp EXCEPT ![t] = None]
          /\ UNCHANGED <<data, head, tail, i_count, i_wait, ends, op, count, buf,
                         rest, sigpipe, use>>
      BY <1>9 DEF Resume
    <2>2. [pc EXCEPT ![t] = "run"] \in [Tasks -> Places] /\ tmp[t] \in Tasks \cup {None}
          /\ pc \in [Tasks -> Places]
      BY <1>0 DEF Kinds, Places
    <2>3. /\ pc' \in [Tasks -> Places]
          /\ \A u \in Tasks :
                pc'[u] = IF u = tmp[t] /\ [pc EXCEPT ![t] = "run"][u] = "sleep"
                         THEN "woken" ELSE [pc EXCEPT ![t] = "run"][u]
      BY <2>1, <2>2, WokenPlaces
    <2>4. tmp' \in [Tasks -> Tasks \cup {None}]
      BY <1>0, <2>1 DEF Kinds
    <2>5. Kinds'
      BY <1>0, <2>1, <2>3, <2>4 DEF Kinds
    <2>6. ASSUME NEW u \in Tasks
          PROVE  Placed(u)'
      <3>1. CASE u = t
        BY <1>0, <2>1, <2>2, <2>3, <3>1, NoneAssumption DEF Placed
      <3>2. CASE u # t
        BY <1>0, <2>1, <2>2, <2>3, <3>2, NoneAssumption DEF Placed
      <3> QED
        BY <3>1, <3>2
    <2> QED
      BY <2>5, <2>6
  <1>10. CASE sys_pipe(t)
    <2>1. data' \in [Slots -> Chars] /\ head' \in Slots /\ tail' \in Slots
      BY <1>10, NulAssumption, SizeAssumption DEF sys_pipe, Slots
    <2>2. i_count' \in 0 .. 2 /\ ends' \in [Tasks -> SUBSET Ends]
      BY <1>0, <1>10 DEF sys_pipe, Kinds
    <2> QED
      BY <1>0, <1>10, <2>1, <2>2 DEF sys_pipe, Kinds, Placed
  <1>11. CASE TakeSignal(t)
    BY <1>0, <1>11 DEF TakeSignal, Kinds, Placed
  <1>12. CASE \E u \in Tasks : Fork(t, u)
    BY <1>0, <1>12 DEF Fork, Kinds, Placed
  <1>13. CASE \E e \in Ends : sys_close(t, e)
    <2> PICK e \in Ends : sys_close(t, e)
      BY <1>13
    <2>1. ends' \in [Tasks -> SUBSET Ends]
      BY <1>0 DEF sys_close, Kinds
    <2>2. CASE \E u \in Tasks \ {t} : e \in ends[u]
      BY <1>0, <2>1, <2>2 DEF sys_close, Kinds, Placed
    <2>3. CASE ~ \E u \in Tasks \ {t} : e \in ends[u]
      <3>1. iput
        BY <2>3 DEF sys_close
      <3>2. pc \in [Tasks -> Places] /\ i_wait \in Tasks \cup {None}
        BY <1>0 DEF Kinds
      <3>3. /\ pc' \in [Tasks -> Places]
            /\ \A u \in Tasks : pc'[u] = IF u = i_wait /\ pc[u] = "sleep" THEN "woken"
                                        ELSE pc[u]
        BY <3>1, <3>2, WokenPlaces DEF iput
      <3>4. i_count' \in 0 .. 2
        <4>1. i_count > 0 /\ i_count \in 0 .. 2
          BY <1>0 DEF sys_close, CountIsEnds, Ends, Kinds
        <4>2. i_count' = i_count - 1
          BY <3>1 DEF iput
        <4> QED
          BY <4>1, <4>2
      <3>5. /\ UNCHANGED <<data, head, tail, op, count, buf, tmp, rest, cpu, sigpipe,
                         use>>
            /\ i_wait' = None
        BY <3>1 DEF sys_close, iput
      <3>6. Kinds'
        BY <1>0, <2>1, <3>3, <3>4, <3>5 DEF Kinds
      <3>7. ASSUME NEW u \in Tasks
            PROVE  Placed(u)'
        BY <1>0, <3>3, <3>5 DEF Placed
      <3> QED
        BY <3>6, <3>7
    <2> QED
      BY <2>2, <2>3
  <1>14. CASE (\E n \in ReadSizes : sys_read(t, n)) \/ (\E s \in Payloads : sys_write(t, s))
    <2> PICK o \in {"read", "write"}, n \in Nat, s \in Seq(Chars) :
             Enter(t, o, n, s) /\ (o = "write" => Len(s) = n)
      <3>1. CASE \E n \in ReadSizes : sys_read(t, n)
        <4>1. <<>> \in Seq(Chars)
          BY EmptySeq
        <4> QED
          BY <3>1, <4>1, CallAssumption DEF sys_read
      <3>2. CASE \E s \in Payloads : sys_write(t, s)
        BY <3>2, CallAssumption, LenProperties DEF sys_write
      <3> QED
        BY <1>14, <3>1, <3>2
    <2>1. /\ op' = [op EXCEPT ![t] = o] /\ count' = [count EXCEPT ![t] = n]
          /\ buf' = [buf EXCEPT ![t] = s] /\ pc' = [pc EXCEPT ![t] = "run"]
          /\ cpu' = t /\ cpu = None /\ pc[t] = "user"
          /\ UNCHANGED <<data, head, tail, i_count, i_wait, ends, tmp, rest, sigpipe,
                         use>>
      BY DEF Enter, InUser
    <2>2. /\ op' \in [Tasks -> {"none", "read", "write"}]
          /\ count' \in [Tasks -> Nat] /\ buf' \in [Tasks -> Seq(Chars)]
          /\ pc' \in [Tasks -> Places]
      BY <1>0, <2>1 DEF Kinds, Places
    <2>3. Kinds'
      BY <1>0, <2>1, <2>2 DEF Kinds
    <2>4. ASSUME NEW u \in Tasks
          PROVE  Placed(u)'
      <3>1. CASE u = t
        <4>1. rest[t] = <<0, 0>>
          BY <1>0, <2>1 DEF Placed
        <4>2. /\ op'[t] = o /\ count'[t] = n /\ buf'[t] = s /\ pc'[t] = "run"
              /\ rest'[t] = <<0, 0>>
          BY <1>0, <2>1, <4>1 DEF Kinds
        <4> QED
          BY <3>1, <2>1, <4>2, SizeAssumption DEF Placed
      <3>2. CASE u # t
        BY <1>0, <2>1, <3>2, NoneAssumption DEF Placed, Kinds
      <3> QED
        BY <3>1, <3>2
    <2> QED
      BY <2>3, <2>4
  <1> QED
    BY <1>1, <1>2, <1>3, <1>4, <1>5, <1>6, <1>7, <1>8, <1>9, <1>10, <1>11, <1>12,
       <1>13, <1>14 DEF TheStep

-----------------------------------------------------------------------------
\* A call is one on an end that the task has open.
HasEnd == \A t \in Tasks : op[t] # "none" => op[t] \in ends[t]

\* Only tasks with a buffer on an absent page are ever in a page fault.
NoFault == \A t \in Tasks : pc[t] = "fault" => t \in use.absent

PipeInv ==
    TypeOK /\ CountIsEnds /\ HasEnd /\ SleeperIsHead /\ SleepsOnlyIfMust /\ NoFault

\* All of it holds in the beginning.
LEMMA InvInit == Init => PipeInv
  <1> SUFFICES ASSUME Init PROVE PipeInv
    OBVIOUS
  <1>1. <<>> \in Seq(Chars) /\ Len(<<>>) = 0
    BY EmptySeq
  <1>2. TypeOK
    BY <1>1, SizeAssumption, NulAssumption, NoneAssumption
    DEF Init, TypeOK, Slots, Places, Ends
  <1> QED
    BY <1>2 DEF PipeInv, Init, CountIsEnds, HasEnd, SleeperIsHead, SleepsOnlyIfMust, NoFault

\* The ends stay counted: only sys_pipe(), fork() and sys_close() change them.
LEMMA EndsNext ==
    ASSUME PipeInv, NEW t \in Tasks, TheStep(t)
    PROVE  CountIsEnds' /\ HasEnd'
  <1>0. /\ Kinds /\ (\A u \in Tasks : Placed(u)) /\ CountIsEnds /\ HasEnd
        /\ ends \in [Tasks -> SUBSET Ends] /\ op \in [Tasks -> {"none", "read", "write"}]
    BY TypeParts DEF PipeInv, Kinds
  <1>1. CASE UNCHANGED <<ends, i_count>> /\ \A u \in Tasks : op'[u] \in {op[u], "none"}
    BY <1>0, <1>1 DEF CountIsEnds, HasEnd
  <1>2. CASE sys_pipe(t)
    BY <1>0, <1>2 DEF sys_pipe, CountIsEnds, HasEnd, Ends
  <1>3. CASE \E u \in Tasks : Fork(t, u)
    <2> PICK u \in Tasks : Fork(t, u)
      BY <1>3
    <2>1. /\ ends' = [ends EXCEPT ![u] = ends[t]] /\ ends[u] = {} /\ op[u] = "none"
          /\ i_count' = i_count /\ op' = op
      BY <1>0 DEF Fork, Placed
    <2>2. \A e \in Ends : (\E v \in Tasks : e \in ends'[v]) <=> (\E v \in Tasks : e \in ends[v])
      BY <1>0, <2>1
    <2> QED
      BY <1>0, <2>1, <2>2 DEF CountIsEnds, HasEnd, Ends
  <1>4. CASE \E e \in Ends : sys_close(t, e)
    <2> PICK e \in Ends : sys_close(t, e)
      BY <1>4
    <2>1. /\ ends' = [ends EXCEPT ![t] = @ \ {e}] /\ e \in ends[t] /\ op' = op
          /\ op[t] = "none"
      BY <1>0 DEF sys_close, InUser, Placed
    <2>2. \A d \in Ends \ {e} :
             (\E v \in Tasks : d \in ends'[v]) <=> (\E v \in Tasks : d \in ends[v])
      BY <1>0, <2>1
    <2>3. CASE \E u \in Tasks \ {t} : e \in ends[u]
      <3>1. i_count' = i_count
        BY <2>3 DEF sys_close
      <3>2. \E v \in Tasks : e \in ends'[v]
        BY <1>0, <2>1, <2>3
      <3> QED
        BY <1>0, <2>1, <2>2, <3>1, <3>2 DEF CountIsEnds, HasEnd, Ends
    <2>4. CASE ~ \E u \in Tasks \ {t} : e \in ends[u]
      <3>1. i_count' = i_count - 1
        BY <2>4 DEF sys_close, iput
      <3>2. ~ \E v \in Tasks : e \in ends'[v]
        BY <1>0, <2>1, <2>4
      <3> QED
        BY <1>0, <2>1, <2>2, <3>1, <3>2 DEF CountIsEnds, HasEnd, Ends
    <2> QED
      BY <2>3, <2>4
  <1>5. CASE (\E n \in ReadSizes : sys_read(t, n)) \/ (\E s \in Payloads : sys_write(t, s))
    <2>1. \E o \in {"read", "write"} :
             o \in ends[t] /\ op' = [op EXCEPT ![t] = o] /\ UNCHANGED <<ends, i_count>>
      BY <1>5 DEF sys_read, sys_write, Enter
    <2> QED
      BY <1>0, <2>1 DEF CountIsEnds, HasEnd
  <1>6. CASE ReadReturns(t) \/ WriteReturns(t) \/ WriteBreaks(t)
    <2>1. UNCHANGED <<ends, i_count>> /\ op' = [op EXCEPT ![t] = "none"]
      BY <1>6 DEF ReadReturns, WriteReturns, WriteBreaks, Return
    <2> QED
      BY <1>0, <1>1, <2>1
  <1> QED
    BY <1>1, <1>2, <1>3, <1>4, <1>5, <1>6
    DEF TheStep, ReadChars, WriteChars, ReadSleeps, WriteSleeps, Resume, CopyRest,
        TakeSignal

\* As there is one sleeper, one wake_up() wakes all: on the last descriptor of
\* an end, and on every return.
LEMMA IputWakes ==
    ASSUME PipeInv, iput
    PROVE  i_wait' = None /\ \A u \in Tasks : pc'[u] # "sleep"
  <1>1. pc \in [Tasks -> Places] /\ i_wait \in Tasks \cup {None} /\ SleeperIsHead
    BY DEF PipeInv, TypeOK
  <1>2. \A u \in Tasks : pc'[u] = IF u = i_wait /\ pc[u] = "sleep" THEN "woken"
                               ELSE pc[u]
    BY <1>1, WokenPlaces DEF iput
  <1> QED
    BY <1>1, <1>2 DEF iput, SleeperIsHead

\* A call that returns leaves nobody asleep on the pipe.
LEMMA ReturnWakes ==
    ASSUME PipeInv, NEW t \in Tasks, Return(t)
    PROVE  i_wait' = None /\ \A u \in Tasks : pc'[u] # "sleep"
  <1>1. Kinds /\ SleeperIsHead
    BY TypeParts DEF PipeInv
  <1>2. i_wait' = None /\ pc' = Woken(i_wait, [pc EXCEPT ![t] = "user"])
    BY DEF Return
  <1> QED
    BY <1>1, <1>2, LeaveTypes DEF SleeperIsHead

\* Nobody is in a call of a pipe that nobody has open.
LEMMA ClosedPipe ==
    ASSUME PipeInv, i_count = 0
    PROVE  \A u \in Tasks : ends[u] = {} /\ op[u] = "none" /\ pc[u] = "user"
  <1>1. /\ CountIsEnds /\ HasEnd /\ ends \in [Tasks -> SUBSET Ends]
        /\ \A u \in Tasks : pc[u] = "user" <=> op[u] = "none"
    BY DEF PipeInv, TypeOK
  <1>2. \A u \in Tasks : ends[u] = {}
    <2>1. ASSUME NEW u \in Tasks, NEW e \in Ends, e \in ends[u]
          PROVE  i_count > 0
      BY <1>1, <2>1 DEF CountIsEnds, Ends
    <2>2. \A u \in Tasks, e \in Ends : e \notin ends[u]
      BY <2>1
    <2> QED
      BY <1>1, <2>2
  <1> QED
    BY <1>1, <1>2 DEF HasEnd

\* What an action does to the places, for the arguments about sleepers.
LEMMA PlacesNext ==
    ASSUME PipeInv, NEW t \in Tasks, TheStep(t)
    PROVE  \/ /\ i_wait' = i_wait
              /\ \A u \in Tasks : pc'[u] = "sleep" => pc[u] = "sleep"
           \/ i_wait' = None /\ \A u \in Tasks : pc'[u] # "sleep"
           \/ /\ ReadSleeps(t) \/ WriteSleeps(t)
              /\ i_wait' = t /\ \A u \in Tasks \ {t} : pc'[u] # "sleep"
  <1>0. /\ Kinds /\ (\A u \in Tasks : Placed(u)) /\ CountIsEnds /\ HasEnd /\ SleeperIsHead
        /\ pc \in [Tasks -> Places] /\ i_wait \in Tasks \cup {None}
        /\ tmp \in [Tasks -> Tasks \cup {None}]
        /\ op \in [Tasks -> {"none", "read", "write"}]
    BY TypeParts DEF PipeInv, Kinds
  <1>1. CASE ReadReturns(t) \/ WriteReturns(t) \/ WriteBreaks(t)
    BY <1>1, ReturnWakes DEF ReadReturns, WriteReturns, WriteBreaks
  <1>2. CASE ReadSleeps(t) \/ WriteSleeps(t)
    <2>1. i_wait' = t /\ pc' = Woken(i_wait, [pc EXCEPT ![t] = "sleep"])
      BY <1>2 DEF ReadSleeps, WriteSleeps, WakeAndSleep
    <2> QED
      BY <1>0, <1>2, <2>1, LeaveTypes, ZenonT(60) DEF SleeperIsHead
  <1>3. CASE Resume(t)
    <2>1. /\ i_wait' = i_wait /\ pc' = Woken(tmp[t], [pc EXCEPT ![t] = "run"])
          /\ [pc EXCEPT ![t] = "run"] \in [Tasks -> Places]
      BY <1>0, <1>3 DEF Resume, Places
    <2>2. \A u \in Tasks :
             pc'[u] = IF u = tmp[t] /\ [pc EXCEPT ![t] = "run"][u] = "sleep"
                      THEN "woken" ELSE [pc EXCEPT ![t] = "run"][u]
      BY <1>0, <2>1, WokenPlaces, ZenonT(60)
    <2> QED
      BY <1>0, <2>1, <2>2
  <1>4. CASE \E e \in Ends : sys_close(t, e)
    <2> PICK e \in Ends : sys_close(t, e)
      BY <1>4
    <2>1. CASE UNCHANGED <<i_wait, pc>>
      BY <2>1
    <2>2. CASE iput
      BY <2>2, IputWakes
    <2> QED
      BY <2>1, <2>2 DEF sys_close
  <1>5. CASE sys_pipe(t)
    <2>1. i_count = 0 /\ i_wait' = None /\ pc' = pc
      BY <1>5 DEF sys_pipe
    <2> QED
      BY <2>1, ClosedPipe
  <1>6. CASE ReadChars(t) \/ WriteChars(t)
    <2>1. /\ i_wait' = i_wait
          /\ UNCHANGED pc \/ pc' = [pc EXCEPT ![t] = "fault"]
      BY <1>6 DEF ReadChars, WriteChars, Pause
    <2> QED
      BY <1>0, <2>1
  <1>7. CASE CopyRest(t)
    BY <1>0, <1>7 DEF CopyRest
  <1>8. CASE TakeSignal(t) \/ (\E u \in Tasks : Fork(t, u))
    BY <1>8 DEF TakeSignal, Fork
  <1>9. CASE (\E n \in ReadSizes : sys_read(t, n)) \/ (\E s \in Payloads : sys_write(t, s))
    <2>1. i_wait' = i_wait /\ pc' = [pc EXCEPT ![t] = "run"]
      BY <1>9 DEF sys_read, sys_write, Enter
    <2> QED
      BY <1>0, <2>1
  <1> QED
    BY <1>1, <1>2, <1>3, <1>4, <1>5, <1>6, <1>7, <1>8, <1>9 DEF TheStep

\* Sleepers stay the head of the queue.
LEMMA HeadNext ==
    ASSUME PipeInv, NEW t \in Tasks, TheStep(t)
    PROVE  SleeperIsHead'
  BY PlacesNext DEF PipeInv, SleeperIsHead

\* Who has just gone to sleep had to: by CountIsEnds, i_count = 2 says that
\* there is somebody at the other end.
LEMMA SleepingMust ==
    ASSUME PipeInv, NEW t \in Tasks, ReadSleeps(t) \/ WriteSleeps(t)
    PROVE  SleepsOnlyIfMust'
  <1>1. CountIsEnds /\ i_count = 2 /\ UNCHANGED <<ends, head, tail, op>>
    BY DEF PipeInv, ReadSleeps, WriteSleeps
  <1>2. /\ \E v \in Tasks : "read" \in ends[v]
        /\ \E v \in Tasks : "write" \in ends[v]
    BY <1>1 DEF CountIsEnds
  <1>3. \A u \in Tasks \ {t} : pc'[u] # "sleep"
    <2>1. TheStep(t) /\ SleeperIsHead /\ i_wait' = t
      BY DEF TheStep, PipeInv, ReadSleeps, WriteSleeps, WakeAndSleep
    <2> QED
      BY <2>1, PlacesNext, NoneAssumption DEF SleeperIsHead
  <1>4. /\ op[t] = "read" => Size = 0
        /\ op[t] = "write" => Room = 0
    BY DEF ReadSleeps, WriteSleeps, In
  <1>5. Size' = Size /\ Room' = Room
    BY <1>1 DEF Size, Room
  <1> QED
    BY <1>1, <1>2, <1>3, <1>4, <1>5 DEF SleepsOnlyIfMust, PQ!Nobody

\* Nobody comes to sleep in vain.
LEMMA MustNext ==
    ASSUME PipeInv, NEW t \in Tasks, TheStep(t)
    PROVE  SleepsOnlyIfMust'
  <1>0. /\ ends \in [Tasks -> SUBSET Ends] /\ pc \in [Tasks -> Places]
        /\ SleepsOnlyIfMust /\ CountIsEnds
    BY DEF PipeInv, TypeOK
  <1>1. CASE \A u \in Tasks : pc'[u] # "sleep"
    BY <1>1 DEF SleepsOnlyIfMust
  <1>2. CASE cpu' = t
    BY <1>2, NoneAssumption DEF SleepsOnlyIfMust
  <1>3. CASE ReadSleeps(t) \/ WriteSleeps(t)
    BY <1>3, SleepingMust
  <1>4. CASE ReadReturns(t) \/ WriteReturns(t) \/ WriteBreaks(t)
    BY <1>1, <1>4, ReturnWakes DEF ReadReturns, WriteReturns, WriteBreaks
  <1>5. CASE ReadChars(t) \/ WriteChars(t)
    <2>1. cpu' = t \/ pc' = [pc EXCEPT ![t] = "fault"]
      BY <1>5 DEF ReadChars, WriteChars, Pause, In
    <2>2. CASE pc' = [pc EXCEPT ![t] = "fault"]
      BY <1>0, <2>2 DEF SleepsOnlyIfMust
    <2> QED
      BY <1>2, <2>1, <2>2
  <1>6. CASE /\ UNCHANGED <<head, tail, op, pc, cpu>>
             /\ \A e \in Ends : PQ!Nobody(e)' => PQ!Nobody(e)
    <2>1. Size' = Size /\ Room' = Room
      BY <1>6 DEF Size, Room
    <2> QED
      BY <1>0, <1>6, <2>1 DEF SleepsOnlyIfMust, Ends
  <1>7. CASE \E u \in Tasks : Fork(t, u)
    <2> PICK u \in Tasks : Fork(t, u)
      BY <1>7
    <2>1. ends' = [ends EXCEPT ![u] = ends[t]] /\ ends[u] = {}
      BY DEF Fork
    <2>2. \A e \in Ends : PQ!Nobody(e)' => PQ!Nobody(e)
      BY <1>0, <2>1 DEF PQ!Nobody
    <2> QED
      BY <1>6, <2>2 DEF Fork
  <1>8. CASE TakeSignal(t)
    BY <1>6, <1>8 DEF TakeSignal, PQ!Nobody
  <1>9. CASE \E e \in Ends : sys_close(t, e)
    <2> PICK e \in Ends : sys_close(t, e)
      BY <1>9
    <2>1. CASE iput
      BY <1>1, <2>1, IputWakes
    <2>2. CASE \E u \in Tasks \ {t} : e \in ends[u]
      <3>1. /\ ends' = [ends EXCEPT ![t] = @ \ {e}]
            /\ UNCHANGED <<head, tail, op, pc, cpu>>
        BY <2>2 DEF sys_close
      <3>2. \A d \in Ends : PQ!Nobody(d)' => PQ!Nobody(d)
        BY <1>0, <2>2, <3>1 DEF PQ!Nobody
      <3> QED
        BY <1>6, <3>1, <3>2
    <2> QED
      BY <2>1, <2>2 DEF sys_close
  <1>10. CASE sys_pipe(t)
    <2>1. i_count = 0 /\ pc' = pc
      BY <1>10 DEF sys_pipe
    <2> QED
      BY <1>1, <2>1, ClosedPipe
  <1> QED
    BY <1>2, <1>3, <1>4, <1>5, <1>7, <1>8, <1>9, <1>10
    DEF TheStep, Resume, CopyRest, sys_read, sys_write, Enter

\* Page faults stay with those who can have them.
LEMMA FaultNext ==
    ASSUME PipeInv, NEW t \in Tasks, TheStep(t)
    PROVE  NoFault'
  <1>0. Kinds /\ NoFault /\ pc \in [Tasks -> Places] /\ i_wait \in Tasks \cup {None}
        /\ tmp \in [Tasks -> Tasks \cup {None}]
    BY TypeParts DEF PipeInv, Kinds
  <1>1. CASE ReadChars(t) \/ WriteChars(t)
    <2>1. \/ UNCHANGED <<pc, use>>
          \/ /\ pc' = [pc EXCEPT ![t] = "fault"] /\ use' = use
             /\ \E n, k : k \in Copied(t, n) /\ n - k # 0 /\ n \in Int
      <3>1. Size \in Slots /\ Room \in Slots /\ head \in Slots /\ tail \in Slots
            /\ count \in [Tasks -> Nat]
        BY <1>0, SizeInSlots DEF Kinds
      <3>2. CASE ReadChars(t)
        <4>1. Chunk(t, tail, Size) \in Int
          BY <3>1, <3>2, ChunkBounds DEF ReadChars, Slots
        <4> QED
          BY <3>2, <4>1 DEF ReadChars, Pause
      <3>3. CASE WriteChars(t)
        <4>1. Chunk(t, head, Room) \in Int
          BY <3>1, <3>3, ChunkBounds DEF WriteChars, Slots
        <4> QED
          BY <3>3, <4>1 DEF WriteChars, Pause
      <3> QED
        BY <1>1, <3>2, <3>3
    <2>2. ASSUME NEW n \in Int, NEW k \in Copied(t, n), n - k # 0
          PROVE  t \in use.absent
      BY <2>2 DEF Copied
    <2> QED
      BY <1>0, <2>1, <2>2 DEF NoFault
  <1>2. CASE ReadReturns(t) \/ WriteReturns(t) \/ WriteBreaks(t)
    <2>1. pc' = Woken(i_wait, [pc EXCEPT ![t] = "user"]) /\ use' = use
      BY <1>2 DEF ReadReturns, WriteReturns, WriteBreaks, Return
    <2> QED
      BY <1>0, <2>1, LeaveTypes DEF NoFault
  <1>3. CASE ReadSleeps(t) \/ WriteSleeps(t)
    <2>1. pc' = Woken(i_wait, [pc EXCEPT ![t] = "sleep"]) /\ use' = use
      BY <1>3 DEF ReadSleeps, WriteSleeps, WakeAndSleep
    <2> QED
      BY <1>0, <2>1, LeaveTypes DEF NoFault
  <1>4. CASE Resume(t)
    <2>1. /\ pc' = Woken(tmp[t], [pc EXCEPT ![t] = "run"]) /\ use' = use
          /\ [pc EXCEPT ![t] = "run"] \in [Tasks -> Places]
      BY <1>0, <1>4 DEF Resume, Places
    <2>2. \A u \in Tasks :
             pc'[u] = IF u = tmp[t] /\ [pc EXCEPT ![t] = "run"][u] = "sleep"
                      THEN "woken" ELSE [pc EXCEPT ![t] = "run"][u]
      BY <1>0, <2>1, WokenPlaces
    <2> QED
      BY <1>0, <2>1, <2>2 DEF NoFault
  <1>5. CASE \E e \in Ends : sys_close(t, e)
    <2>1. use' = use /\ (UNCHANGED pc \/ pc' = Woken(i_wait, pc))
      BY <1>5 DEF sys_close, iput
    <2> QED
      BY <1>0, <2>1, WokenPlaces DEF NoFault
  <1>6. CASE use' = use /\ (UNCHANGED pc \/ pc' = [pc EXCEPT ![t] = "run"])
    BY <1>0, <1>6 DEF NoFault
  <1> QED
    BY <1>1, <1>2, <1>3, <1>4, <1>5, <1>6
    DEF TheStep, CopyRest, sys_pipe, TakeSignal, Fork, sys_read, sys_write, Enter

\* The invariant, and what follows from it.
LEMMA InvNext == PipeInv /\ [Next]_vars => PipeInv'
  <1> SUFFICES ASSUME PipeInv, [Next]_vars PROVE PipeInv'
    OBVIOUS
  <1>1. CASE \E t \in Tasks : TheStep(t)
    BY <1>1, TypesNext, EndsNext, HeadNext, MustNext, FaultNext DEF PipeInv
  <1>2. CASE UNCHANGED vars
    BY <1>2 DEF vars, PipeInv, TypeOK, CountIsEnds, HasEnd, SleeperIsHead,
                SleepsOnlyIfMust, NoFault, Size, Room, PQ!Nobody
  <1> QED
    BY <1>1, <1>2, StepCases

\* The inductive invariant holds in every reachable state.
LEMMA InvAlways == Spec => []PipeInv
  BY InvInit, InvNext, PTL DEF Spec

\* Types: see TypeOK.
THEOREM TypeCorrect == Spec => []TypeOK
  <1>1. PipeInv => TypeOK
    BY DEF PipeInv
  <1> QED
    BY <1>1, InvAlways, PTL

\* i_count tells, at every moment, which ends are open in somebody's table.
THEOREM EndsCounted == Spec => []CountIsEnds
  <1>1. PipeInv => CountIsEnds
    BY DEF PipeInv
  <1> QED
    BY <1>1, InvAlways, PTL

\* A pipe never has two sleepers, and the one it has can be woken.
THEOREM SleepersReachable == Spec => []SleeperIsHead
  <1>1. PipeInv => SleeperIsHead
    BY DEF PipeInv
  <1> QED
    BY <1>1, InvAlways, PTL

\* Nobody sleeps beside a pipe that would let him go on.
THEOREM NoneSleepsInVain == Spec => []SleepsOnlyIfMust
  <1>1. PipeInv => SleepsOnlyIfMust
    BY DEF PipeInv
  <1> QED
    BY <1>1, InvAlways, PTL

-----------------------------------------------------------------------------
\* Contents of a ring d from slot l on, up to slot h.
Ring(d, h, l) == [i \in 1 .. Wrap(h - l) |-> d[Wrap(l + i - 1)]]

\* They are a sequence of the ring's size.
LEMMA RingIsSeq ==
    ASSUME NEW d \in [Slots -> Chars], NEW h \in Slots, NEW l \in Slots
    PROVE  /\ Wrap(h - l) \in Slots
           /\ Ring(d, h, l) \in Seq(Chars)
           /\ Len(Ring(d, h, l)) = Wrap(h - l)
           /\ \A i \in 1 .. Wrap(h - l) :
                 Wrap(l + i - 1) \in Slots /\ Ring(d, h, l)[i] = d[Wrap(l + i - 1)]
  <1>1. Wrap(h - l) \in Slots /\ Wrap(h - l) \in Nat
    BY SizeAssumption DEF Wrap, Slots
  <1>2. \A i \in 1 .. Wrap(h - l) : Wrap(l + i - 1) \in Slots
    BY SizeAssumption DEF Wrap, Slots
  <1>3. \A i \in 1 .. Wrap(h - l) : d[Wrap(l + i - 1)] \in Chars
    BY <1>2
  <1>4. Ring(d, h, l) \in Seq(Chars)
    BY <1>1, <1>3, IsASeq DEF Ring
  <1>5. DOMAIN Ring(d, h, l) = 1 .. Wrap(h - l)
    BY DEF Ring
  <1>6. Len(Ring(d, h, l)) = Wrap(h - l)
    BY <1>1, <1>4, <1>5, LenProperties
  <1> QED
    BY <1>1, <1>2, <1>4, <1>6 DEF Ring

\* Moving the tail over n slots, which do not pass the end of the page, takes
\* the first n characters away.
LEMMA RingGet ==
    ASSUME NEW d \in [Slots -> Chars], NEW h \in Slots, NEW l \in Slots,
           NEW n \in 1 .. Wrap(h - l), l + n <= PAGE_SIZE
    PROVE  /\ Ring(d, h, Wrap(l + n)) =
                 SubSeq(Ring(d, h, l), n + 1, Len(Ring(d, h, l)))
           /\ [i \in 1 .. n |-> d[l + i - 1]] = SubSeq(Ring(d, h, l), 1, n)
  <1> DEFINE q == Ring(d, h, l)
             size == Wrap(h - l)
             m == Wrap(l + n)
  <1>1. /\ size \in Slots /\ q \in Seq(Chars) /\ Len(q) = size
        /\ \A i \in 1 .. size : q[i] = d[Wrap(l + i - 1)] /\ q[i] \in Chars
    BY RingIsSeq, ElementOfSeq
  <1>2. /\ m \in Slots /\ Wrap(h - m) = size - n
        /\ \A i \in 1 .. size - n : Wrap(m + i - 1) = Wrap(l + (n + i) - 1)
        /\ \A i \in 1 .. n : Wrap(l + i - 1) = l + i - 1
    BY SizeAssumption DEF Wrap, Slots
  <1>3. /\ Ring(d, h, m) \in Seq(Chars) /\ Len(Ring(d, h, m)) = size - n
        /\ \A i \in 1 .. size - n : Ring(d, h, m)[i] = d[Wrap(m + i - 1)]
    BY <1>2, RingIsSeq
  <1>4. size \in Nat /\ n \in Nat /\ n <= size /\ l \in Nat
    BY <1>1, SizeAssumption DEF Slots
  <1> HIDE DEF q, size, m
  <1>5. /\ SubSeq(q, n + 1, size) \in Seq(Chars)
        /\ Len(SubSeq(q, n + 1, size)) = size - n
        /\ \A i \in 1 .. size - n : SubSeq(q, n + 1, size)[i] = q[n + i]
    <2>1. \A i \in (n + 1) .. size : q[i] \in Chars
      BY <1>1, <1>4
    <2>2. /\ SubSeq(q, n + 1, size) \in Seq(Chars)
          /\ Len(SubSeq(q, n + 1, size)) =
                IF n + 1 <= size THEN size - (n + 1) + 1 ELSE 0
          /\ \A i \in 1 .. size - (n + 1) + 1 :
                SubSeq(q, n + 1, size)[i] = q[(n + 1) + i - 1]
      BY <1>4, <2>1, SubSeqProperties
    <2> QED
      BY <1>4, <2>2
  <1>6. \A i \in 1 .. size - n : Ring(d, h, m)[i] = SubSeq(q, n + 1, size)[i]
    <2> TAKE i \in 1 .. size - n
    <2>1. n + i \in 1 .. size
      BY <1>4
    <2>2. q[n + i] = d[Wrap(l + (n + i) - 1)]
      BY <1>1, <2>1
    <2> QED
      BY <1>2, <1>3, <1>5, <2>2
  <1>7. Ring(d, h, m) = SubSeq(q, n + 1, size)
    BY <1>3, <1>5, <1>6, SeqEqual
  <1>8. /\ SubSeq(q, 1, n) \in Seq(Chars) /\ Len(SubSeq(q, 1, n)) = n
        /\ \A i \in 1 .. n : SubSeq(q, 1, n)[i] = q[i]
    <2>1. \A i \in 1 .. n : q[i] \in Chars
      BY <1>1, <1>4
    <2>2. /\ SubSeq(q, 1, n) \in Seq(Chars)
          /\ Len(SubSeq(q, 1, n)) = IF 1 <= n THEN n - 1 + 1 ELSE 0
          /\ \A i \in 1 .. n - 1 + 1 : SubSeq(q, 1, n)[i] = q[1 + i - 1]
      BY <1>4, <2>1, SubSeqProperties
    <2> QED
      BY <1>4, <2>2
  <1>9. [i \in 1 .. n |-> d[l + i - 1]] = SubSeq(q, 1, n)
    <2> DEFINE got == [i \in 1 .. n |-> d[l + i - 1]]
    <2>1. \A i \in 1 .. n : d[l + i - 1] = q[i] /\ q[i] \in Chars
      <3> TAKE i \in 1 .. n
      <3>1. i \in 1 .. size
        BY <1>4
      <3> QED
        BY <1>1, <1>2, <3>1
    <2>2. \A i \in 1 .. n : d[l + i - 1] \in Chars
      BY <2>1
    <2>3. got \in Seq(Chars)
      BY <1>4, <2>2, IsASeq
    <2>4. Len(got) = n
      BY <1>4, <2>3, LenProperties
    <2>5. \A i \in 1 .. n : got[i] = SubSeq(q, 1, n)[i]
      BY <1>8, <2>1
    <2> HIDE DEF got
    <2>6. got = SubSeq(q, 1, n)
      BY <1>8, <2>3, <2>4, <2>5, SeqEqual
    <2> QED
      BY <2>6 DEF got
  <1> QED
    BY <1>1, <1>7, <1>9 DEF q, m

\* e is the ring d after n characters of s were written from slot h on.
Written(e, d, s, h, n) ==
    \A i \in Slots : e[i] = IF i \in h .. h + n - 1 THEN s[i - h + 1] ELSE d[i]

\* Writing n characters behind the others and moving the head over them
\* appends them.
LEMMA RingPut ==
    ASSUME NEW d \in [Slots -> Chars], NEW h \in Slots, NEW l \in Slots,
           NEW s \in Seq(Chars),
           NEW n \in 1 .. (PAGE_SIZE - 1 - Wrap(h - l)),
           h + n <= PAGE_SIZE, n <= Len(s),
           NEW e \in [Slots -> Chars], Written(e, d, s, h, n)
    PROVE  Ring(e, Wrap(h + n), l) = Ring(d, h, l) \o SubSeq(s, 1, n)
  <1> DEFINE q == Ring(d, h, l)
             size == Wrap(h - l)
             m == Wrap(h + n)
             p == SubSeq(s, 1, n)
  <1>1. /\ size \in Slots /\ q \in Seq(Chars) /\ Len(q) = size
        /\ \A i \in 1 .. size : q[i] = d[Wrap(l + i - 1)]
    BY RingIsSeq
  <1>2. /\ m \in Slots /\ Wrap(m - l) = size + n
        /\ \A i \in 1 .. size :
              Wrap(l + i - 1) \in Slots /\ Wrap(l + i - 1) \notin h .. h + n - 1
        /\ \A i \in 1 .. n :
              Wrap(l + (size + i) - 1) = h + i - 1 /\ h + i - 1 \in Slots
    BY SizeAssumption DEF Wrap, Slots
  <1>3. /\ Ring(e, m, l) \in Seq(Chars) /\ Len(Ring(e, m, l)) = size + n
        /\ \A i \in 1 .. size + n : Ring(e, m, l)[i] = e[Wrap(l + i - 1)]
    <2>1. /\ Ring(e, m, l) \in Seq(Chars) /\ Len(Ring(e, m, l)) = Wrap(m - l)
          /\ \A i \in 1 .. Wrap(m - l) : Ring(e, m, l)[i] = e[Wrap(l + i - 1)]
      <3> HIDE DEF m
      <3> QED
        BY <1>2, RingIsSeq
    <2> QED
      BY <1>2, <2>1
  <1>4. size \in Nat /\ n \in Nat /\ h \in Nat /\ l \in Nat
    BY <1>1, SizeAssumption DEF Slots
  <1> HIDE DEF q, size, m, p
  <1>5. /\ p \in Seq(Chars) /\ Len(p) = n
        /\ \A i \in 1 .. n : p[i] = s[i]
    <2>1. \A i \in 1 .. n : s[i] \in Chars
      BY <1>4, ElementOfSeq, LenProperties
    <2>2. /\ SubSeq(s, 1, n) \in Seq(Chars)
          /\ Len(SubSeq(s, 1, n)) = IF 1 <= n THEN n - 1 + 1 ELSE 0
          /\ \A i \in 1 .. n - 1 + 1 : SubSeq(s, 1, n)[i] = s[1 + i - 1]
      BY <1>4, <2>1, SubSeqProperties
    <2> QED
      BY <1>4, <2>2 DEF p
  <1>6. /\ q \o p \in Seq(Chars) /\ Len(q \o p) = size + n
        /\ \A i \in 1 .. size + n : (q \o p)[i] = IF i <= size THEN q[i] ELSE p[i - size]
    <2>1. /\ q \o p \in Seq(Chars) /\ Len(q \o p) = Len(q) + Len(p)
          /\ \A i \in 1 .. Len(q) + Len(p) :
                (q \o p)[i] = IF i <= Len(q) THEN q[i] ELSE p[i - Len(q)]
      <3>1. q \in Seq(Chars) /\ p \in Seq(Chars)
        BY <1>1, <1>5
      <3> QED
        BY <3>1, ConcatProperties, Zenon
    <2> QED
      BY <2>1, <1>1, <1>5
  <1>7. \A i \in 1 .. size + n : Ring(e, m, l)[i] = (q \o p)[i]
    <2> TAKE i \in 1 .. size + n
    <2>1. CASE i <= size
      <3>1. i \in 1 .. size
        BY <1>4, <2>1
      <3>2. e[Wrap(l + i - 1)] = d[Wrap(l + i - 1)]
        BY <1>2, <3>1 DEF Written
      <3> QED
        BY <1>1, <1>3, <1>6, <3>1, <3>2
    <2>2. CASE i > size
      <3> DEFINE j == i - size
      <3>1. j \in 1 .. n /\ i = size + j
        BY <1>4, <2>2
      <3>2. Wrap(l + i - 1) = h + j - 1 /\ h + j - 1 \in Slots
        BY <1>2, <3>1
      <3>3. h + j - 1 \in h .. h + n - 1 /\ (h + j - 1) - h + 1 = j
        BY <1>4, <3>1
      <3> HIDE DEF j
      <3>4. e[h + j - 1] = s[j]
        BY <3>2, <3>3 DEF Written
      <3>5. (q \o p)[i] = p[j]
        <4>1. ~ (i <= size) /\ i - size = j
          BY <1>4, <2>2 DEF j
        <4> QED
          BY <1>6, <4>1
      <3> QED
        BY <1>3, <1>5, <3>1, <3>2, <3>4, <3>5
    <2>3. i <= size \/ i > size
      BY <1>4
    <2> QED
      BY <2>1, <2>2, <2>3
  <1>8. Ring(e, m, l) = q \o p
    BY <1>3, <1>6, <1>7, SeqEqual
  <1> QED
    BY <1>8 DEF q, m, p

-----------------------------------------------------------------------------
\* What the queue sees of the ring.
LEMMA ContentsAre ==
    ASSUME PipeInv
    PROVE  /\ Contents = Ring(data, head, tail) /\ Contents \in Seq(Chars)
           /\ Len(Contents) = Size /\ Size \in Nat
           /\ Size = 0 <=> Contents = <<>>
  <1>1. data \in [Slots -> Chars] /\ head \in Slots /\ tail \in Slots
    BY DEF PipeInv, TypeOK
  <1>2. Contents = Ring(data, head, tail)
    BY DEF Contents, Ring, Size
  <1>3. Contents \in Seq(Chars) /\ Len(Contents) = Size /\ Size \in Slots
    BY <1>1, <1>2, RingIsSeq DEF Size
  <1>4. Size \in Nat
    BY <1>3, SizeAssumption DEF Slots
  <1> QED
    BY <1>2, <1>3, <1>4, EmptySeq

\* A turn of the reader takes from the front of the queue.
LEMMA ReadCharsIsGet ==
    ASSUME PipeInv, NEW t \in Tasks, ReadChars(t), use.absent = {}
    PROVE  \E k \in 1 .. Len(Contents) : PQ!Get(t, k)
  <1>0. /\ data \in [Slots -> Chars] /\ head \in Slots /\ tail \in Slots
        /\ count \in [Tasks -> Nat] /\ Size \in Slots
    BY SizeInSlots DEF PipeInv, TypeOK
  <1>1. In(t, "read") /\ count[t] > 0 /\ Size > 0
    BY DEF ReadChars
  <1> DEFINE chars == Chunk(t, tail, Size)
  <1>2. chars \in 1 .. Size /\ chars <= count[t] /\ tail + chars <= PAGE_SIZE
    BY <1>0, <1>1, ChunkBounds
  <1>3. /\ tail' = Wrap(tail + chars) /\ count' = [count EXCEPT ![t] = @ - chars]
        /\ CopyOut(t, tail, chars)
        /\ UNCHANGED <<head, ends, op, sigpipe>>
    BY DEF ReadChars, Copied
  <1> HIDE DEF chars
  <1>4. /\ data' = data
        /\ buf' = [buf EXCEPT ![t] = @ \o [i \in 1 .. chars |-> data[tail + i - 1]]]
    BY <1>3 DEF CopyOut
  <1>5. /\ Contents = Ring(data, head, tail) /\ Len(Contents) = Size
        /\ Size = Wrap(head - tail)
    BY ContentsAre DEF Size
  <1>6. /\ Ring(data, head, Wrap(tail + chars)) =
              SubSeq(Contents, chars + 1, Len(Contents))
        /\ [i \in 1 .. chars |-> data[tail + i - 1]] = SubSeq(Contents, 1, chars)
    BY <1>0, <1>2, <1>5, RingGet, SMTT(30)
  <1>7. Contents' = Ring(data, head, Wrap(tail + chars))
    BY <1>3, <1>4 DEF Contents, Ring, Size
  <1>8. PQ!Get(t, chars)
    BY <1>1, <1>2, <1>3, <1>4, <1>6, <1>7 DEF PQ!Get, In
  <1> QED
    BY <1>2, <1>5, <1>8

\* A turn of the writer puts behind it.
LEMMA WriteCharsIsPut ==
    ASSUME PipeInv, NEW t \in Tasks, WriteChars(t), use.absent = {}
    PROVE  \E k \in 1 .. Len(buf[t]) : PQ!Put(t, k)
  <1>0. /\ data \in [Slots -> Chars] /\ head \in Slots /\ tail \in Slots
        /\ count \in [Tasks -> Nat] /\ Size \in Slots /\ Room \in Slots
        /\ buf \in [Tasks -> Seq(Chars)] /\ \A u \in Tasks : Placed(u)
    BY SizeInSlots, TypeParts DEF PipeInv, Kinds
  <1>1. In(t, "write") /\ count[t] > 0 /\ Room > 0
    BY DEF WriteChars
  <1> DEFINE chars == Chunk(t, head, Room)
  <1>2. chars \in 1 .. Room /\ chars <= count[t] /\ head + chars <= PAGE_SIZE
    BY <1>0, <1>1, ChunkBounds
  <1>3. /\ head' = Wrap(head + chars) /\ count' = [count EXCEPT ![t] = @ - chars]
        /\ CopyIn(t, head, chars)
        /\ UNCHANGED <<tail, ends, op, sigpipe>>
    BY DEF WriteChars, Copied
  <1>4. Len(buf[t]) = count[t] /\ count[t] \in Nat
    <2>1. Len(buf[t]) = count[t] + rest[t][2] /\ rest[t] = <<0, 0>>
      BY <1>0, <1>1 DEF Placed, In
    <2> QED
      BY <1>0, <2>1
  <1> HIDE DEF chars
  <1>5. /\ data' = [i \in Slots |-> IF i \in head .. head + chars - 1
                                  THEN buf[t][i - head + 1] ELSE data[i]]
        /\ buf' = [buf EXCEPT ![t] = SubSeq(@, chars + 1, Len(@))]
    BY <1>3 DEF CopyIn
  <1>6. data' \in [Slots -> Chars]
    <2>1. head \in 0 .. PAGE_SIZE /\ chars \in Nat /\ chars <= Len(buf[t])
      BY <1>0, <1>2, <1>4, SizeAssumption DEF Slots
    <2> QED
      BY <1>0, <1>2, <1>3, <2>1, CopyInTypes
  <1>7. /\ Contents = Ring(data, head, tail) /\ Len(Contents) = Size
        /\ Size = Wrap(head - tail) /\ Room = PAGE_SIZE - 1 - Size
    BY ContentsAre DEF Size, Room
  <1>8. Ring(data', Wrap(head + chars), tail) = Contents \o SubSeq(buf[t], 1, chars)
    <2>1. /\ chars \in 1 .. (PAGE_SIZE - 1 - Wrap(head - tail)) /\ chars <= Len(buf[t])
          /\ buf[t] \in Seq(Chars)
      BY <1>0, <1>2, <1>4, <1>7
    <2>2. Written(data', data, buf[t], head, chars)
      BY <1>5 DEF Written
    <2> PICK d \in [Slots -> Chars] : d = data'
      BY <1>6
    <2>3. Written(d, data, buf[t], head, chars)
      BY <2>2
    <2>4. Ring(d, Wrap(head + chars), tail) =
             Ring(data, head, tail) \o SubSeq(buf[t], 1, chars)
      <3>1. /\ data \in [Slots -> Chars] /\ head \in Slots /\ tail \in Slots
            /\ head + chars <= PAGE_SIZE
        BY <1>0, <1>2
      <3> QED
        BY <2>1, <2>3, <3>1, RingPut
    <2> QED
      BY <1>7, <2>4
  <1>9. Contents' = Ring(data', Wrap(head + chars), tail)
    BY <1>3 DEF Contents, Ring, Size
  <1>10. Len(Contents) + chars <= PAGE_SIZE - 1
    BY <1>0, <1>2, <1>7, SizeAssumption DEF Slots
  <1>11. PQ!Put(t, chars)
    BY <1>1, <1>2, <1>3, <1>5, <1>8, <1>9, <1>10 DEF PQ!Put, In
  <1> QED
    BY <1>2, <1>4, <1>11, <1>0, SizeAssumption DEF Slots

\* Every step of the pipe is one of the queue, or shows it nothing.
LEMMA StepIsQueueStep ==
    ASSUME PipeInv, NEW t \in Tasks, TheStep(t), use.absent = {}
    PROVE  PQ!QNext \/ UNCHANGED PQ!qvars
  <1>0. /\ Kinds /\ (\A u \in Tasks : Placed(u)) /\ CountIsEnds /\ HasEnd /\ NoFault
    BY TypeParts DEF PipeInv
  <1>1. CASE ReadChars(t)
    BY <1>1, ReadCharsIsGet DEF PQ!QNext
  <1>2. CASE WriteChars(t)
    BY <1>2, WriteCharsIsPut DEF PQ!QNext
  <1>3. CASE ReadSleeps(t) \/ WriteSleeps(t) \/ Resume(t)
    BY <1>3 DEF ReadSleeps, WriteSleeps, Resume, PQ!qvars, Contents, Size
  <1>4. CASE CopyRest(t)
    BY <1>0, <1>4 DEF CopyRest, NoFault
  <1> DEFINE Same == Contents' = Contents
  <1>5. UNCHANGED <<data, head, tail>> => Same
    BY DEF Contents, Size
  <1>6. CASE ReadReturns(t)
    <2>1. PQ!EndCall(t) /\ UNCHANGED <<data, head, tail, ends, sigpipe>> /\ op[t] = "read"
      BY <1>6 DEF ReadReturns, Return, PQ!EndCall, In
    <2>2. count[t] = 0 \/ (Size = 0 /\ i_count # 2)
      BY <1>6 DEF ReadReturns
    <2>3. count[t] = 0 \/ (Contents = <<>> /\ PQ!Nobody("write"))
      <3>1. "read" \in ends[t]
        BY <1>0, <2>1 DEF HasEnd
      <3>2. ASSUME NEW u \in Tasks, "write" \in ends[u]
            PROVE  i_count = 2
        BY <1>0, <3>1, <3>2 DEF CountIsEnds
      <3>3. i_count # 2 => PQ!Nobody("write")
        BY <3>2 DEF PQ!Nobody
      <3> QED
        BY <2>2, <3>3, ContentsAre
    <2> QED
      BY <1>5, <2>1, <2>3 DEF PQ!QNext, PQ!EndRead
  <1>7. CASE WriteReturns(t)
    <2>1. /\ PQ!EndCall(t) /\ UNCHANGED <<data, head, tail, ends, sigpipe>>
          /\ op[t] = "write" /\ count[t] = 0
      BY <1>7 DEF WriteReturns, Return, PQ!EndCall, In
    <2> QED
      BY <1>5, <2>1 DEF PQ!QNext, PQ!EndWrite
  <1>8. CASE WriteBreaks(t)
    <2>1. /\ PQ!EndCall(t) /\ UNCHANGED <<data, head, tail, ends>> /\ op[t] = "write"
          /\ sigpipe' = [sigpipe EXCEPT ![t] = TRUE] /\ Room = 0 /\ i_count # 2
      BY <1>8 DEF WriteBreaks, Return, PQ!EndCall, In
    <2>2. Len(Contents) = PAGE_SIZE - 1
      BY <2>1, ContentsAre, SizeAssumption DEF Room
    <2>3. PQ!Nobody("read")
      <3>1. "write" \in ends[t]
        BY <1>0, <2>1 DEF HasEnd
      <3> QED
        BY <1>0, <2>1, <3>1 DEF CountIsEnds, PQ!Nobody
    <2> QED
      BY <1>5, <2>1, <2>2, <2>3 DEF PQ!QNext, PQ!BreakWrite
  <1>9. CASE sys_pipe(t)
    <2>1. /\ i_count = 0 /\ ends' = [ends EXCEPT ![t] = Ends] /\ head' = 0 /\ tail' = 0
          /\ UNCHANGED <<op, count, buf, sigpipe>>
      BY <1>9 DEF sys_pipe
    <2>2. \A e \in {"read", "write"} : PQ!Nobody(e)
      BY <2>1, ClosedPipe DEF PQ!Nobody
    <2>3. Contents' = <<>>
      <3>1. Size' = 0
        BY <2>1, SizeAssumption DEF Size, Wrap
      <3>2. Contents' = [i \in 1 .. 0 |-> data'[Wrap(tail' + i - 1)]]
        BY <3>1 DEF Contents
      <3> QED
        BY <3>2
    <2> QED
      BY <2>1, <2>2, <2>3 DEF PQ!QNext, PQ!QOpen, Ends
  <1>10. CASE TakeSignal(t)
    BY <1>5, <1>10 DEF TakeSignal, PQ!QNext, PQ!QTakeSignal
  <1>11. CASE \E u \in Tasks : Fork(t, u)
    <2> PICK u \in Tasks : Fork(t, u)
      BY <1>11
    <2>1. PQ!QPass(t, u)
      BY <1>0, <1>5 DEF Fork, InUser, Placed, PQ!QPass
    <2> QED
      BY <2>1 DEF PQ!QNext
  <1>12. CASE \E e \in Ends : sys_close(t, e)
    <2> PICK e \in Ends : sys_close(t, e)
      BY <1>12
    <2>1. PQ!QClose(t, e)
      BY <1>0, <1>5 DEF sys_close, InUser, Placed, PQ!QClose
    <2> QED
      BY <2>1 DEF PQ!QNext, Ends
  <1>13. CASE \E n \in ReadSizes : sys_read(t, n)
    <2> PICK n \in ReadSizes : sys_read(t, n)
      BY <1>13
    <2>1. PQ!QRead(t, n)
      BY <1>0, <1>5 DEF sys_read, Enter, InUser, Placed, PQ!QRead
    <2> QED
      BY <2>1 DEF PQ!QNext
  <1>14. CASE \E s \in Payloads : sys_write(t, s)
    <2> PICK s \in Payloads : sys_write(t, s)
      BY <1>14
    <2>1. PQ!QWrite(t, s)
      BY <1>0, <1>5 DEF sys_write, Enter, InUser, Placed, PQ!QWrite
    <2> QED
      BY <2>1 DEF PQ!QNext
  <1> QED
    BY <1>1, <1>2, <1>3, <1>4, <1>6, <1>7, <1>8, <1>9, <1>10, <1>11, <1>12, <1>13,
       <1>14 DEF TheStep

\* A pipe is a queue (see ImplementsQueue), for a page of any size, any number
\* of readers and writers, and any calls, while no copy sleeps.
THEOREM RingIsQueue == Spec => ImplementsQueue
  <1>1. Init => PQ!QInit
    <2> SUFFICES ASSUME Init PROVE PQ!QInit
      OBVIOUS
    <2>1. Size = 0
      BY SizeAssumption DEF Init, Size, Wrap
    <2>2. Contents = [i \in 1 .. 0 |-> data[Wrap(tail + i - 1)]]
      BY <2>1 DEF Contents
    <2>3. Contents = <<>>
      BY <2>2
    <2> QED
      BY <2>3 DEF Init, PQ!QInit
  <1>2. PipeInv /\ [Next]_vars => [use.absent = {} => PQ!QNext]_(PQ!qvars)
    <2> SUFFICES ASSUME PipeInv, [Next]_vars, use.absent = {}
                 PROVE  PQ!QNext \/ UNCHANGED PQ!qvars
      OBVIOUS
    <2>1. CASE \E t \in Tasks : TheStep(t)
      BY <2>1, StepIsQueueStep
    <2>2. CASE UNCHANGED vars
      BY <2>2 DEF vars, PQ!qvars, Contents, Size
    <2> QED
      BY <2>1, <2>2, StepCases
  <1> QED
    BY <1>1, <1>2, InvAlways, PTL DEF Spec, ImplementsQueue

=============================================================================
