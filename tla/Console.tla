------------------------------ MODULE Console ------------------------------
(***************************************************************************)
(* The screen of the console: con_write() and all it calls, in             *)
(* kernel/chr_drv/console.c.                                               *)
(*                                                                         *)
(* The display is one record, and each routine a function on it.  Video    *)
(* memory, pos, origin and scr_end count cells (two bytes), from           *)
(* video_mem_start.  An EGA scrolls the whole screen by moving its origin  *)
(* and goes back to the start of its memory at the end; the other displays *)
(* always copy.  The screen and the memory are small: so are TAB, the      *)
(* distance of tabulators (8), and Seven and Eight, the columns '7' and    *)
(* '8' (55 and 56) to which con_write() compares x instead of c.           *)
(* respond() is in module Terminal.                                        *)
(*                                                                         *)
(* con_write() of a task runs with interrupts enabled.  A key is echoed by *)
(* a con_write() of its own, in the handler, which takes all that is in    *)
(* the queue: between two characters of the task, and between the stores   *)
(* that one character makes to x, y and pos.                               *)
(***************************************************************************)
EXTENDS Integers, Sequences

CONSTANTS
    Cols, Lines,
    Memory,             \* cells of video memory
    NPAR, MaxPar,       \* parameters of a sequence, and a bound on their value
    TAB, Seven, Eight,
    Inputs, Echoes,     \* what tasks write, and what is echoed for a key
    Stale,              \* what GETCH may find in an empty queue
    MaxInputs           \* how many inputs and keys come

\* The characters that are written.
Chars == Stale \cup UNION {{i[k] : k \in DOMAIN i} : i \in Inputs \cup Echoes}

ASSUME ScreenAssumption ==
    /\ Cols \in Nat \ {0} /\ Cols % 2 = 0 /\ Lines \in Nat \ {0}
    /\ Memory \in Nat /\ Memory >= Lines * Cols
    /\ TAB \in 1 .. Cols /\ Cols % TAB = 0
ASSUME InputAssumption ==
    /\ NPAR \in Nat /\ NPAR > 1 /\ MaxPar \in Nat
    /\ Inputs \subseteq Seq(Chars) /\ Echoes \subseteq Seq(Chars) \ {<<>>}

VARIABLES
    d,                          \* the display
    ega,                        \* video_type
    state, npar, par, ques,     \* the place in an escape sequence
    attr, saved,
    input, left,                \* the queue, and inputs and keys to come
    count,                      \* nr of the task's con_write()
    handler,                    \* a key is being echoed
    rest,                       \* what the character it has come within has still to store
    torn                        \* a key has come within a character

sequence == <<npar, par, ques, attr, saved>>
vars == <<d, ega, state, sequence, input, left, count, handler, rest, torn>>

Nothing == "nothing"

Blank == <<"blank", 7>>
Digits == <<"0", "1", "2", "3", "4", "5", "6", "7", "8", "9">>
Control == {"ESC", "LF", "CR", "DEL", "BS", "TAB", "BEL"}

\* The cells of n lines.
Row(n) == n * Cols

Min2(a, b) == IF a < b THEN a ELSE b

-----------------------------------------------------------------------------
\* The n cells from a place on are cells of video memory.  (A count is unsigned.)
Within(from, n) == n = 0 \/ (n > 0 /\ 0 <= from /\ from + n <= Memory)

\* stosw and movsl: the cells from a place on become blank, or those of another.
\* The field out tells if some were none of video memory.
Fill(s, from, n) ==
    [s EXCEPT !.mem = [i \in DOMAIN s.mem |->
                         IF from <= i /\ i < from + n THEN Blank ELSE s.mem[i]],
              !.out = @ \/ ~ Within(from, n)]
Copy(s, to, from, n) ==
    [s EXCEPT !.mem = [i \in DOMAIN s.mem |->
                         IF to <= i /\ i < to + n /\ i - to + from \in DOMAIN s.mem
                         THEN s.mem[i - to + from] ELSE s.mem[i]],
              !.out = @ \/ ~ Within(to, n) \/ ~ Within(from, n)]

\* The cursor, where it is on the screen.
gotoxy(s, nx, ny) ==
    IF nx < 0 \/ nx > Cols \/ ny < 0 \/ ny >= Lines THEN s
    ELSE [s EXCEPT !.x = nx, !.y = ny, !.pos = s.origin + Row(ny) + nx]

\* Mutant: pos is not moved back with the origin.
ScrollStaleCursor(s) ==
    LET o == s.origin + Cols
        e == s.end + Cols IN
    IF e > Memory
    THEN [Fill(Copy(s, 0, o, Row(Lines - 1)), Row(Lines - 1), Cols)
            EXCEPT !.origin = 0, !.end = e - o, !.pos = s.pos + Cols]
    ELSE [Fill(s, s.end, Cols) EXCEPT !.origin = o, !.end = e, !.pos = s.pos + Cols]

\* scrup() of the whole screen of an EGA.
ScrollOrigin(s) ==
    LET o == s.origin + Cols
        e == s.end + Cols IN
    IF e > Memory
    THEN [Fill(Copy(s, 0, o, Row(Lines - 1)), Row(Lines - 1), Cols)
            EXCEPT !.origin = 0, !.end = e - o, !.pos = s.pos + Cols - o]
    ELSE [Fill(s, s.end, Cols) EXCEPT !.origin = o, !.end = e, !.pos = s.pos + Cols]

scrup(s) ==
    IF ega /\ s.top = 0 /\ s.bottom = Lines THEN ScrollOrigin(s)
    ELSE Fill(Copy(s, s.origin + Row(s.top), s.origin + Row(s.top + 1),
                   Row(s.bottom - s.top - 1)),
              s.origin + Row(s.bottom - 1), Cols)

\* Mutant: the copy goes forward, over what it has still to read.
ScrdownForward(s) ==
    Fill([s EXCEPT !.mem = [i \in DOMAIN s.mem |->
            IF s.origin + Row(s.top + 1) <= i /\ i < s.origin + Row(s.bottom)
            THEN s.mem[s.origin + Row(s.top) + ((i - s.origin) % Cols)] ELSE s.mem[i]]],
         s.origin + Row(s.top), Cols)

\* scrdown() copies from the end backwards.
scrdown(s) ==
    Fill(Copy(s, s.origin + Row(s.top + 1), s.origin + Row(s.top),
              Row(s.bottom - s.top - 1)),
         s.origin + Row(s.top), Cols)

lf(s) == IF s.y + 1 < s.bottom THEN [s EXCEPT !.y = @ + 1, !.pos = @ + Cols] ELSE scrup(s)
ri(s) == IF s.y > s.top THEN [s EXCEPT !.y = @ - 1, !.pos = @ - Cols] ELSE scrdown(s)
cr(s) == [s EXCEPT !.pos = @ - s.x, !.x = 0]
BackSpace(s) == IF s.x = 0 THEN s ELSE [s EXCEPT !.pos = @ - 1, !.x = @ - 1]
del(s) == IF s.x = 0 THEN s ELSE Fill(BackSpace(s), s.pos - 1, 1)

\* The cursor goes from behind the last column to the next line.
Wrap(s) == lf([s EXCEPT !.x = @ - Cols, !.pos = @ - Cols])

PutChar(s, c) ==
    LET w == IF s.x >= Cols THEN Wrap(s) ELSE s IN
    [w EXCEPT !.mem[w.pos] = <<c, attr>>, !.out = @ \/ ~ Within(w.pos, 1),
              !.pos = @ + 1, !.x = @ + 1]

Tabulate(s) ==
    LET n == TAB - (s.x % TAB)
        w == [s EXCEPT !.x = @ + n, !.pos = @ + n] IN
    IF w.x > Cols THEN Wrap(w) ELSE w

csi_J(s, p) ==
    CASE p = 0 -> Fill(s, s.pos, s.end - s.pos)
      [] p = 1 -> Fill(s, s.origin, s.pos - s.origin)
      [] p = 2 -> Fill(s, s.origin, Row(Lines))
      [] OTHER -> s

csi_K(s, p) ==
    CASE p = 0 -> IF s.x >= Cols THEN s ELSE Fill(s, s.pos, Cols - s.x)
      [] p = 1 -> Fill(s, s.pos - s.x, Min2(s.x, Cols))
      [] p = 2 -> Fill(s, s.pos - s.x, Cols)
      [] OTHER -> s

\* Between the cursor and the last column.
insert_char(s) ==
    IF s.x >= Cols THEN s ELSE Fill(Copy(s, s.pos + 1, s.pos, Cols - s.x - 1), s.pos, 1)
delete_char(s) ==
    IF s.x >= Cols THEN s
    ELSE Fill(Copy(s, s.pos, s.pos + 1, Cols - s.x - 1), s.pos + Cols - s.x - 1, 1)

\* Between the cursor's line and the last, whatever the region is.
Below(s, scroll(_)) ==
    [scroll([s EXCEPT !.top = s.y, !.bottom = Lines]) EXCEPT !.top = s.top, !.bottom = s.bottom]
insert_line(s) == Below(s, scrdown)
delete_line(s) == Below(s, scrup)

\* csi_at(), csi_P(), csi_L() and csi_M(): once, or n times up to a limit.
Once(c, s) ==
    CASE c = "L" -> insert_line(s) [] c = "M" -> delete_line(s)
      [] c = "P" -> delete_char(s) [] c = "@" -> insert_char(s)
Repeated(c, s, n) ==
    LET after[k \in 0 .. n] == IF k = 0 THEN s ELSE Once(c, after[k - 1])
    IN  after[n]
Times(n, limit) == IF n = 0 THEN 1 ELSE Min2(n, limit)

-----------------------------------------------------------------------------
\* con_write() of one character c: state 0, outside of sequences.
Plain(c) ==
    /\ state = 0
    /\ d' = CASE c = "LF" -> lf(d) [] c = "CR" -> cr(d) [] c = "DEL" -> del(d)
              [] c = "BS" -> BackSpace(d) [] c = "TAB" -> Tabulate(d)
              [] c \in {"ESC", "BEL"} -> d
              [] OTHER -> PutChar(d, c)
    /\ state' = IF c = "ESC" THEN 1 ELSE 0
    /\ UNCHANGED sequence

\* State 1, after an ESC.  ('7' and '8' are compared to the column.)
Escape(c) ==
    LET other == c \notin {"[", "E", "M", "D", "Z"} IN
    /\ state = 1
    /\ state' = IF c = "[" THEN 2 ELSE 0
    /\ d' = CASE c = "E" -> gotoxy(d, 0, d.y + 1) [] c = "M" -> ri(d) [] c = "D" -> lf(d)
              [] other /\ d.x = Eight -> gotoxy(d, saved[1], saved[2])
              [] OTHER -> d
    /\ saved' = IF other /\ d.x = Seven THEN <<d.x, d.y>> ELSE saved
    /\ UNCHANGED <<npar, par, ques, attr>>

\* States 2 and 3: the parameters of a sequence.
NoPar == [i \in 0 .. NPAR - 1 |-> 0]
Parameter(c, p, n) ==
    \/ /\ c = ";" /\ n < NPAR - 1
       /\ npar' = n + 1 /\ par' = p
    \/ \E i \in 1 .. 10 :
         /\ c = Digits[i]
         /\ par' = [p EXCEPT ![n] = Min2(10 * @ + i - 1, MaxPar)]
         /\ npar' = n
IsParameter(c, n) == (c = ";" /\ n < NPAR - 1) \/ \E i \in 1 .. 10 : c = Digits[i]

\* Parameters count from one, or say how often.
Less1(n) == IF n > 0 THEN n - 1 ELSE 0
Least1(n) == IF n = 0 THEN 1 ELSE n

Attribute(n) ==
    CASE n \in {0, 27} -> 7 [] n \in {1, 4} -> 15 [] n = 7 -> 112 [] OTHER -> -1

\* The letters that move the cursor, with parameters p, and where to.
Movers == {"G", "backquote", "A", "B", "e", "C", "a", "D", "E", "F", "d", "H", "f", "u"}
Goal(c, p) ==
    LET n == Least1(p[0]) IN
    CASE c \in {"G", "backquote"} -> <<Less1(p[0]), d.y>>
      [] c = "A" -> <<d.x, d.y - n>>
      [] c \in {"B", "e"} -> <<d.x, d.y + n>>
      [] c \in {"C", "a"} -> <<d.x + n, d.y>>
      [] c = "D" -> <<d.x - n, d.y>>
      [] c = "E" -> <<0, d.y + n>>
      [] c = "F" -> <<0, d.y - n>>
      [] c = "d" -> <<d.x, Less1(p[0])>>
      [] c \in {"H", "f"} -> <<Less1(p[1]), Less1(p[0])>>
      [] c = "u" -> saved

\* State 4: the letter that ends the sequence.
Final(c, p, n) ==
    LET region == [top |-> Less1(p[0]), bottom |-> IF p[1] = 0 THEN Lines ELSE p[1]]
        colours == {i \in 0 .. n : Attribute(p[i]) # -1}
        last == CHOOSE i \in colours : \A j \in colours : j <= i
    IN
    /\ d' = CASE c \in Movers -> gotoxy(d, Goal(c, p)[1], Goal(c, p)[2])
              [] c = "J" -> csi_J(d, p[0])
              [] c = "K" -> csi_K(d, p[0])
              [] c \in {"L", "M"} -> Repeated(c, d, Times(p[0], Lines))
              [] c \in {"P", "@"} -> Repeated(c, d, Times(p[0], Cols))
              [] c = "r" /\ region.top < region.bottom /\ region.bottom <= Lines ->
                   [d EXCEPT !.top = region.top, !.bottom = region.bottom]
              [] OTHER -> d
    /\ attr' = IF c = "m" /\ colours # {} THEN Attribute(p[last]) ELSE attr
    /\ saved' = IF c = "s" THEN <<d.x, d.y>> ELSE saved
    /\ state' = 0
    /\ par' = p /\ npar' = n

\* A character after the "[": a "?" is taken first.
Pars == IF state = 2 THEN NoPar ELSE par
NPars == IF state = 2 THEN 0 ELSE npar
Question(c) == state = 2 /\ c = "?"
Sequence(c) ==
    /\ state \in {2, 3}
    /\ ques' = IF state = 2 THEN c = "?" ELSE ques
    /\ IF Question(c) \/ IsParameter(c, NPars)
       THEN /\ state' = 3
            /\ IF Question(c) THEN par' = Pars /\ npar' = NPars
               ELSE Parameter(c, Pars, NPars)
            /\ UNCHANGED <<d, attr, saved>>
       ELSE Final(c, Pars, NPars)

\* The next character: a handler takes all there are, a task as many as it has
\* counted, though a handler has taken them meanwhile.
con_write ==
    /\ handler \/ (count > 0 /\ rest = Nothing)
    /\ \E c \in IF input = <<>> THEN Stale ELSE {Head(input)} :
         Plain(c) \/ Escape(c) \/ Sequence(c)
    /\ input' = IF input = <<>> THEN <<>> ELSE Tail(input)
    /\ handler' = (handler /\ Len(input) > 1)
    /\ count' = IF handler THEN count ELSE count - 1
    /\ UNCHANGED <<ega, left, rest, torn>>

Idle == count = 0 /\ rest = Nothing /\ ~ handler

\* A task writes something else, and counts what there is in the queue.
Submit ==
    /\ Idle /\ input = <<>> /\ left > 0
    /\ input' \in Inputs /\ left' = left - 1
    /\ UNCHANGED <<d, ega, state, sequence, count, handler, rest, torn>>
Count ==
    /\ Idle /\ input # <<>>
    /\ count' = Len(input)
    /\ UNCHANGED <<d, ega, state, sequence, input, left, handler, rest, torn>>

-----------------------------------------------------------------------------
\* Interrupts of the keyboard.

\* The handler begins to echo a key.
EchoKey(queue) ==
    /\ left > 0 /\ left' = left - 1
    /\ \E e \in Echoes : input' = queue \o e
    /\ handler' = TRUE

\* Where a task is not in con_write(), or between two characters of it, or where
\* another key has come.
Key ==
    /\ ~ handler /\ EchoKey(input)
    /\ UNCHANGED <<d, ega, state, sequence, count, rest, torn>>

\* The first of two stores to x, y and pos, and what the second has to do.
HalfGoto(g) ==
    IF gotoxy(d, g[1], g[2]) = d THEN {}
    ELSE {<<[d EXCEPT !.x = g[1], !.y = g[2]], "place">>}
HalfLf == IF d.y + 1 < d.bottom THEN {<<[d EXCEPT !.y = @ + 1], "down">>} ELSE {}
HalfRi == IF d.y > d.top THEN {<<[d EXCEPT !.y = @ - 1], "up">>} ELSE {}
Halves(c) ==
    CASE state = 0 /\ c = "LF" -> HalfLf
      [] state = 0 /\ c = "CR" -> {<<[d EXCEPT !.pos = @ - d.x], "start">>}
      [] state = 0 /\ c = "BS" /\ d.x > 0 -> {<<[d EXCEPT !.x = @ - 1], "back">>}
      [] state = 0 /\ c \notin Control -> {<<[PutChar(d, c) EXCEPT !.x = @ - 1], "next">>}
      [] state = 1 /\ c = "E" -> HalfGoto(<<0, d.y + 1>>)
      [] state = 1 /\ c = "M" -> HalfRi
      [] state = 1 /\ c = "D" -> HalfLf
      [] state \in {2, 3} /\ c \in Movers -> HalfGoto(Goal(c, Pars))
      [] OTHER -> {}
Second(s) ==
    CASE rest = "place" -> [s EXCEPT !.pos = s.origin + Row(s.y) + s.x]
      [] rest = "down" -> [s EXCEPT !.pos = @ + Cols]
      [] rest = "up" -> [s EXCEPT !.pos = @ - Cols]
      [] rest = "back" -> [s EXCEPT !.pos = @ - 1]
      [] rest = "start" -> [s EXCEPT !.x = 0]
      [] rest = "next" -> [s EXCEPT !.x = @ + 1]

\* A key comes between the two, and the task does the second later.
KeyWithin ==
    /\ ~ handler /\ rest = Nothing /\ count > 0 /\ input # <<>>
    /\ \E h \in Halves(Head(input)) : d' = h[1] /\ rest' = h[2]
    /\ EchoKey(Tail(input))
    /\ state' = 0 /\ npar' = NPars /\ par' = Pars
    /\ ques' = (ques /\ state # 2)
    /\ count' = count - 1 /\ torn' = TRUE
    /\ UNCHANGED <<ega, attr, saved>>
Resume ==
    /\ ~ handler /\ rest # Nothing
    /\ d' = Second(d) /\ rest' = Nothing
    /\ UNCHANGED <<ega, state, sequence, input, left, count, handler, torn>>

-----------------------------------------------------------------------------
\* con_init(): the cursor is where the BIOS left it, in a screen of anything.
Init ==
    /\ \E x \in 0 .. Cols - 1, y \in 0 .. Lines - 1 :
         d = [mem |-> [i \in 0 .. Memory - 1 |-> <<"bios", i>>], origin |-> 0,
              end |-> Row(Lines), pos |-> Row(y) + x, x |-> x, y |-> y,
              top |-> 0, bottom |-> Lines, out |-> FALSE]
    /\ ega \in BOOLEAN
    /\ state = 0 /\ npar = 0 /\ par = NoPar /\ ques = FALSE
    /\ attr = 7 /\ saved = <<0, 0>>
    /\ input = <<>> /\ left = MaxInputs /\ count = 0
    /\ handler = FALSE /\ rest = Nothing /\ torn = FALSE

Done == Idle /\ input = <<>> /\ left = 0 /\ UNCHANGED vars

Next == con_write \/ Submit \/ Count \/ Key \/ KeyWithin \/ Resume \/ Done

Spec == Init /\ [][Next]_vars

-----------------------------------------------------------------------------
\* The cursor is on the screen or behind its last column, pos is its place in
\* video memory, and the screen is inside of it; so is all that was written.
Inside(s) ==
    /\ s.x \in 0 .. Cols /\ s.y \in 0 .. Lines - 1
    /\ 0 <= s.top /\ s.top < s.bottom /\ s.bottom <= Lines
    /\ s.pos = s.origin + Row(s.y) + s.x
    /\ s.origin >= 0 /\ s.end = s.origin + Row(Lines) /\ s.end <= Memory
    /\ ~ s.out

\* Whatever is written, with any sequence in any region, and echoed between the
\* characters of it: the display stays so, and nothing is ever written or read
\* outside of video memory, until a key comes within a character.
InVideoMemory == ~ torn => Inside(d)

\* "This will work even for keyboard interrupts": wherever the keys come, once
\* the character is done the display is as it should be.
WorksForKeys == rest = Nothing => Inside(d)

\* What is shown, from the origin on.
Picture(s) ==
    [p \in (0 .. Lines - 1) \X (0 .. Cols - 1) |-> s.mem[s.origin + Row(p[1]) + p[2]]]
Glyphs == Chars \X {7, 15, 112}

ScreenShown == INSTANCE Screen WITH picture <- Picture(d), x <- d.x, y <- d.y,
                   top <- d.top, bottom <- d.bottom, Glyphs <- Glyphs, Blank <- Blank

\* However the origin moves and whatever is copied, each character, of a task or
\* an echo between two of them, does one of the things of module Screen to the
\* picture, until a key comes within a character.
ImplementsScreen ==
    ScreenShown!Init /\ [][torn' \/ ScreenShown!Next]_(ScreenShown!vars)

=============================================================================
