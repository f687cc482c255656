--------------------------- MODULE ConsoleProofs ---------------------------
(* What is written to the console stays on the screen, and the screen does  *)
(* what module Screen says, for every size of screen and of video memory,   *)
(* every input and both kinds of display.  At the end, the line ends that a *)
(* terminal counts are those in its queue, for queues of every size.        *)
EXTENDS Console, Terminal, FiniteSetTheorems, WellFoundedInduction, TLAPS

-----------------------------------------------------------------------------
(* Rows of cells: all that is used of the product in Row.                   *)

\* Where a line begins is a number, and the first one begins at 0.
LEMMA RowType == Row(0) = 0 /\ \A n \in Int : Row(n) \in Int
BY ScreenAssumption DEF Row

\* Lines are of one length.
LEMMA RowSum ==
    \A m, n \in Int : Row(m + n) = Row(m) + Row(n) /\ Row(m - n) = Row(m) - Row(n)
BY ScreenAssumption DEF Row

\* The next line and the one before.
LEMMA RowNext ==
    \A n \in Int : Row(n + 1) = Row(n) + Cols /\ Row(n - 1) = Row(n) - Cols
BY ScreenAssumption DEF Row

\* A line ends before a later one begins.
LEMMA RowOrder == \A m, n \in Int : m < n => Row(m) + Cols <= Row(n)
<1> SUFFICES ASSUME NEW m \in Int, NEW n \in Int, m < n
             PROVE  Row(m) + Cols <= Row(n)
  OBVIOUS
<1>1. PICK k \in Nat : n = m + 1 + k
  <2>1. n - m - 1 \in Nat /\ n = m + 1 + (n - m - 1)
    OBVIOUS
  <2> QED
    BY <2>1
<1>2. Row(n) = Row(m) + Cols + Row(k)
  BY <1>1, RowSum, RowNext, RowType
<1>3. Row(k) >= 0
  BY ScreenAssumption DEF Row
<1> QED
  BY <1>2, <1>3, RowType, ScreenAssumption

\* A line begins where it does or later.
LEMMA RowMonotone == \A m, n \in Int : m <= n => Row(m) <= Row(n)
<1> SUFFICES ASSUME NEW m \in Int, NEW n \in Int, m <= n
             PROVE  Row(m) <= Row(n)
  OBVIOUS
<1>1. CASE m = n
  BY <1>1, RowType
<1>2. CASE m < n
  BY <1>2, RowOrder, RowType, ScreenAssumption
<1> QED
  BY <1>1, <1>2

-----------------------------------------------------------------------------
(* The display.                                                             *)

Slots == 0 .. Memory - 1
Cells == ({"bios"} \X Slots) \cup Glyphs \cup {Blank}
Displays == [mem : [Slots -> Cells], origin : Int, end : Int, pos : Int,
             x : Int, y : Int, top : Int, bottom : Int, out : BOOLEAN]

\* A display that may be written to.
Good(s) == s \in Displays /\ Inside(s)

\* t is s but for its memory.
SamePlace(s, t) ==
    /\ t.origin = s.origin /\ t.end = s.end /\ t.pos = s.pos /\ t.out = s.out
    /\ t.x = s.x /\ t.y = s.y /\ t.top = s.top /\ t.bottom = s.bottom

\* What is within video memory leaves the field out as it is.
LEMMA WithinIs ==
    ASSUME NEW from \in Int, NEW n \in Int, 0 <= from, 0 <= n, from + n <= Memory
    PROVE  Within(from, n) = TRUE
BY DEF Within

\* Fill() changes the memory only, and how.
LEMMA FillIs ==
    ASSUME NEW s \in Displays, NEW from \in Int, NEW n \in Int,
           0 <= from, 0 <= n, from + n <= Memory
    PROVE  /\ Fill(s, from, n) \in Displays /\ SamePlace(s, Fill(s, from, n))
           /\ \A i \in Slots : Fill(s, from, n).mem[i] =
                IF from <= i /\ i < from + n THEN Blank ELSE s.mem[i]
<1> DEFINE m == [i \in DOMAIN s.mem |->
                   IF from <= i /\ i < from + n THEN Blank ELSE s.mem[i]]
<1>1. DOMAIN s.mem = Slots
  BY DEF Displays
<1>2. m \in [Slots -> Cells]
  BY <1>1 DEF Cells, Displays
<1>3. (s.out \/ ~ Within(from, n)) = s.out
  <2>1. s.out \in BOOLEAN
    BY DEF Displays
  <2> QED
    BY <2>1, WithinIs
<1>4. Fill(s, from, n) = [s EXCEPT !.mem = m, !.out = s.out]
  BY <1>3, Zenon DEF Fill
<1>5. \A i \in Slots : m[i] = IF from <= i /\ i < from + n THEN Blank ELSE s.mem[i]
  BY <1>1
<1> HIDE DEF m
<1> QED
  BY <1>2, <1>4, <1>5 DEF Displays, SamePlace

\* So does Copy().
LEMMA CopyIs ==
    ASSUME NEW s \in Displays, NEW to \in Int, NEW from \in Int, NEW n \in Int,
           0 <= from, 0 <= n, from + n <= Memory, 0 <= to, to + n <= Memory
    PROVE  /\ Copy(s, to, from, n) \in Displays /\ SamePlace(s, Copy(s, to, from, n))
           /\ \A i \in Slots : Copy(s, to, from, n).mem[i] =
                IF to <= i /\ i < to + n THEN s.mem[i - to + from] ELSE s.mem[i]
<1> DEFINE m == [i \in DOMAIN s.mem |->
                   IF to <= i /\ i < to + n /\ i - to + from \in DOMAIN s.mem
                   THEN s.mem[i - to + from] ELSE s.mem[i]]
<1>1. DOMAIN s.mem = Slots
  BY DEF Displays
<1>2. \A i \in Slots : to <= i /\ i < to + n => i - to + from \in Slots
  BY ScreenAssumption DEF Slots
<1>3. m \in [Slots -> Cells]
  BY <1>1, <1>2 DEF Displays
<1>4. (s.out \/ ~ Within(to, n) \/ ~ Within(from, n)) = s.out
  <2>1. s.out \in BOOLEAN
    BY DEF Displays
  <2> QED
    BY <2>1, WithinIs
<1>5. Copy(s, to, from, n) = [s EXCEPT !.mem = m, !.out = s.out]
  BY <1>4, Zenon DEF Copy
<1>6. \A i \in Slots : m[i] = IF to <= i /\ i < to + n THEN s.mem[i - to + from] ELSE s.mem[i]
  BY <1>1, <1>2
<1> HIDE DEF m
<1> QED
  BY <1>3, <1>5, <1>6 DEF Displays, SamePlace

\* The cell in line r and column c.
Cell(s, r, c) == s.mem[s.origin + Row(r) + c]
Rows == 0 .. Lines - 1
Columns == 0 .. Cols - 1

\* The cells of the screen are in video memory.
LEMMA CellPlace ==
    ASSUME NEW s, Good(s), NEW r \in Rows, NEW c \in Columns
    PROVE  /\ s.origin + Row(r) + c \in Slots
           /\ s.origin + Row(r) + c < s.end
           /\ Row(r) >= 0 /\ Row(r) + Cols <= Row(Lines)
<1>1. r \in Int /\ r < Lines /\ (0 < r \/ r = 0)
  BY ScreenAssumption DEF Rows
<1>2. Row(r) + Cols <= Row(Lines) /\ Row(r) >= 0
  BY <1>1, RowOrder, RowType, ScreenAssumption
<1>3. s.origin \in Int /\ s.origin >= 0 /\ s.end = s.origin + Row(Lines) /\ s.end <= Memory
  BY DEF Good, Inside, Displays
<1>4. Row(r) \in Int /\ Row(Lines) \in Int /\ c \in Int /\ 0 <= c /\ c < Cols
  BY <1>1, RowType, ScreenAssumption DEF Columns
<1> QED
  BY <1>2, <1>3, <1>4, ScreenAssumption DEF Slots

\* The picture is made of the cells.
LEMMA PictureIs ==
    ASSUME NEW s
    PROVE  /\ Picture(s) = [p \in Rows \X Columns |-> Picture(s)[p]]
           /\ \A r \in Rows, c \in Columns : Picture(s)[<<r, c>>] = Cell(s, r, c)
BY DEF Picture, Cell, Rows, Columns

\* Lines that move, cell by cell.
LinesMove(s, t, n, from, to) ==
    \A r \in Rows, c \in Columns :
        Cell(t, r, c) = IF ~ (from <= r /\ r < to) THEN Cell(s, r, c)
                        ELSE IF from <= r + n /\ r + n < to THEN Cell(s, r + n, c)
                        ELSE Blank

\* The picture of lines that move.
LEMMA PictureMoved ==
    ASSUME NEW s, NEW t, NEW n \in Int, NEW from \in Nat, NEW to \in Int, to <= Lines,
           LinesMove(s, t, n, from, to)
    PROVE  Picture(t) = ScreenShown!Moved(Picture(s), n, from, to)
<1> DEFINE M == ScreenShown!Moved(Picture(s), n, from, to)
<1>1. ASSUME NEW r \in Rows, NEW c \in Columns
      PROVE  Picture(t)[<<r, c>>] = M[<<r, c>>]
  <2>1. from <= r + n /\ r + n < to => r + n \in Rows
    BY ScreenAssumption DEF Rows
  <2> QED
    BY <2>1, PictureIs DEF LinesMove, ScreenShown!Moved, ScreenShown!Places, Rows, Columns
<1>2. M = [p \in Rows \X Columns |-> M[p]]
  BY DEF ScreenShown!Moved, ScreenShown!Places, Rows, Columns
<1>3. ASSUME NEW p \in Rows \X Columns
      PROVE  Picture(t)[p] = M[p]
  <2> PICK r \in Rows, c \in Columns : p = <<r, c>>
    OBVIOUS
  <2> QED
    BY <1>1
<1>4. Picture(t) = [p \in Rows \X Columns |-> Picture(t)[p]]
  BY PictureIs
<1> HIDE DEF M
<1>5. [p \in Rows \X Columns |-> Picture(t)[p]] = [p \in Rows \X Columns |-> M[p]]
  BY <1>3
<1>6. Picture(t) = M
  BY <1>2, <1>4, <1>5
<1> QED
  BY <1>6 DEF M

-----------------------------------------------------------------------------
(* Scrolling.                                                               *)

\* What a routine that scrolls does: the cursor and the region stay.
Scrolls(s, t, n) ==
    /\ Good(t)
    /\ t.x = s.x /\ t.y = s.y /\ t.top = s.top /\ t.bottom = s.bottom
    /\ LinesMove(s, t, n, s.top, s.bottom)

\* The lines of a region.
LEMMA RegionRows ==
    ASSUME NEW s, Good(s)
    PROVE  /\ s.top \in Rows /\ s.bottom \in 1 .. Lines /\ s.top < s.bottom
           /\ s.bottom - 1 \in Rows /\ s.bottom - 1 \in Int
           /\ Row(s.bottom - s.top - 1) = Row(s.bottom) - Row(s.top) - Cols
           /\ Row(s.bottom - 1) = Row(s.bottom) - Cols
           /\ Row(s.top + 1) = Row(s.top) + Cols
           /\ Row(s.top) + Cols <= Row(s.bottom) /\ Row(s.bottom) <= Row(Lines)
           /\ Row(s.top) >= 0 /\ Row(s.top) \in Int /\ Row(s.bottom) \in Int
<1>1. s.top \in Int /\ s.bottom \in Int /\ 0 <= s.top /\ s.top < s.bottom /\ s.bottom <= Lines
  BY DEF Good, Inside, Displays
<1>2. /\ s.top \in Rows /\ s.bottom \in 1 .. Lines /\ s.bottom - 1 \in Rows
      /\ s.bottom - 1 \in Int /\ s.bottom - s.top \in Int
  BY <1>1, ScreenAssumption DEF Rows
<1>3. /\ Row(s.bottom - s.top - 1) = Row(s.bottom) - Row(s.top) - Cols
      /\ Row(s.bottom - 1) = Row(s.bottom) - Cols
      /\ Row(s.top + 1) = Row(s.top) + Cols
  BY <1>1, <1>2, RowNext, RowSum
<1>4. Row(s.top) + Cols <= Row(s.bottom)
  BY <1>1, RowOrder
<1>5. Row(s.bottom) <= Row(Lines)
  BY <1>1, RowMonotone, ScreenAssumption
<1>6. Row(s.top) >= 0 /\ Row(s.top) \in Int /\ Row(s.bottom) \in Int
  BY <1>1, RowOrder, RowType, ScreenAssumption
<1> QED
  BY <1>1, <1>2, <1>3, <1>4, <1>5, <1>6

\* A cell is in a row of the region, or before or behind it.
LEMMA CellInRows ==
    ASSUME NEW r \in Rows, NEW c \in Columns, NEW m \in Int
    PROVE  /\ r < m => Row(r) + c < Row(m) /\ Row(r) + Cols <= Row(m)
           /\ m <= r => Row(m) <= Row(r)
           /\ Row(r) \in Int /\ Row(m) \in Int
<1>1. r \in Int
  BY DEF Rows
<1>2. r < m => Row(r) + Cols <= Row(m)
  BY <1>1, RowOrder
<1>3. m <= r => Row(m) <= Row(r)
  BY <1>1, RowMonotone
<1> QED
  BY <1>1, <1>2, <1>3, RowType, ScreenAssumption DEF Columns

\* A good display stays good if only its memory changes.
LEMMA GoodSame ==
    ASSUME NEW s, Good(s), NEW t \in Displays, SamePlace(s, t)
    PROVE  Good(t)
BY DEF Good, Inside, SamePlace

\* Scrolling up by copying: movsl and stosw.
CopiedUp(s) ==
    Fill(Copy(s, s.origin + Row(s.top), s.origin + Row(s.top + 1),
              Row(s.bottom - s.top - 1)),
         s.origin + Row(s.bottom - 1), Cols)

\* A copy up within the region, the last line of it blank, is a scroll.
LEMMA CopiedUpScrolls ==
    ASSUME NEW s, Good(s)
    PROVE  Scrolls(s, CopiedUp(s), 1)
<1> DEFINE o == s.origin
           T == Row(s.top)
           B == Row(s.bottom)
           u == Copy(s, o + T, o + (T + Cols), B - T - Cols)
           t == Fill(u, o + (B - Cols), Cols)
<1>0. /\ s \in Displays /\ o \in Int /\ o >= 0 /\ s.end = o + Row(Lines) /\ s.end <= Memory
      /\ Cols \in Nat \ {0} /\ Memory \in Nat /\ Row(Lines) \in Int
  BY RowType, ScreenAssumption DEF Good, Inside, Displays
<1>1. CopiedUp(s) = t
  BY RegionRows DEF CopiedUp
<1>2. T \in Int /\ B \in Int /\ 0 <= T /\ T + Cols <= B /\ B <= Row(Lines)
  BY RegionRows
<1> HIDE DEF o, T, B
<1>3. /\ u \in Displays /\ SamePlace(s, u)
      /\ \A i \in Slots : u.mem[i] =
           IF o + T <= i /\ i < o + T + (B - T - Cols)
           THEN s.mem[i - (o + T) + (o + (T + Cols))] ELSE s.mem[i]
  <2>1. o + T \in Int /\ o + (T + Cols) \in Int /\ B - T - Cols \in Int
    BY <1>0, <1>2
  <2>2. /\ 0 <= o + (T + Cols) /\ o + (T + Cols) + (B - T - Cols) <= Memory
        /\ 0 <= o + T /\ o + T + (B - T - Cols) <= Memory /\ 0 <= B - T - Cols
    BY <1>0, <1>2
  <2> QED
    BY <1>0, <2>1, <2>2, CopyIs
<1> HIDE DEF u
<1>4. /\ t \in Displays /\ SamePlace(u, t)
      /\ \A i \in Slots : t.mem[i] =
           IF o + (B - Cols) <= i /\ i < o + (B - Cols) + Cols THEN Blank ELSE u.mem[i]
  <2>1. o + (B - Cols) \in Int /\ 0 <= o + (B - Cols) /\ o + (B - Cols) + Cols <= Memory
    BY <1>0, <1>2
  <2> QED
    BY <1>0, <1>3, <2>1, FillIs
<1> HIDE DEF t
<1>5. SamePlace(s, t) /\ Good(t)
  BY <1>3, <1>4, GoodSame DEF SamePlace
<1>6. LinesMove(s, t, 1, s.top, s.bottom)
  <2> SUFFICES ASSUME NEW r \in Rows, NEW c \in Columns
               PROVE  Cell(t, r, c) = IF ~ (s.top <= r /\ r < s.bottom) THEN Cell(s, r, c)
                        ELSE IF s.top <= r + 1 /\ r + 1 < s.bottom THEN Cell(s, r + 1, c)
                        ELSE Blank
    BY DEF LinesMove
  <2> DEFINE i == o + Row(r) + c
  <2>1. /\ i \in Slots /\ Row(r) \in Int /\ c \in Int /\ 0 <= c /\ c < Cols /\ r \in Int
        /\ s.top \in Int /\ s.bottom \in Int
    BY CellPlace, CellInRows, RegionRows, ScreenAssumption DEF Rows, Columns, o
  <2>2. Cell(t, r, c) = t.mem[i] /\ Cell(s, r, c) = s.mem[i]
    BY <1>5 DEF Cell, SamePlace, o
  <2>3. Cell(s, r + 1, c) = s.mem[o + (Row(r) + Cols) + c]
    BY <2>1, RowNext DEF Cell, o
  <2>4. CASE r < s.top
    <3>1. Row(r) + Cols <= T
      BY <2>1, <2>4, CellInRows DEF T
    <3>2. t.mem[i] = s.mem[i]
      BY <1>0, <1>2, <1>3, <1>4, <2>1, <3>1
    <3> QED
      BY <2>1, <2>2, <2>4, <3>2
  <2>5. CASE s.bottom <= r
    <3>1. B <= Row(r)
      BY <2>1, <2>5, CellInRows DEF B
    <3>2. t.mem[i] = s.mem[i]
      BY <1>0, <1>2, <1>3, <1>4, <2>1, <3>1
    <3> QED
      BY <2>1, <2>2, <2>5, <3>2
  <2>6. CASE s.top <= r /\ r + 1 < s.bottom
    <3>1. T <= Row(r)
      BY <2>1, <2>6, CellInRows DEF T
    <3>2. Row(r) + Cols + Cols <= B
      <4>1. r + 1 \in Int /\ Row(r + 1) = Row(r) + Cols
        BY <2>1, RowNext
      <4> QED
        BY <2>1, <2>6, <4>1, RowOrder DEF B
    <3>3. t.mem[i] = s.mem[i - (o + T) + (o + (T + Cols))]
      BY <1>0, <1>2, <1>3, <1>4, <2>1, <3>1, <3>2
    <3>4. i - (o + T) + (o + (T + Cols)) = o + (Row(r) + Cols) + c
      BY <1>0, <1>2, <2>1
    <3> QED
      BY <2>1, <2>2, <2>3, <2>6, <3>3, <3>4
  <2>7. CASE s.top <= r /\ r + 1 = s.bottom
    <3>1. B = Row(r) + Cols
      BY <2>1, <2>7, RowNext DEF B
    <3>2. t.mem[i] = Blank
      BY <1>0, <1>2, <1>3, <1>4, <2>1, <3>1
    <3> QED
      BY <2>1, <2>2, <2>7, <3>2
  <2> QED
    BY <2>1, <2>4, <2>5, <2>6, <2>7
<1> QED
  BY <1>1, <1>5, <1>6 DEF Scrolls, SamePlace

\* A copy down within the region, the first line of it blank, is a scroll.
LEMMA ScrdownScrolls ==
    ASSUME NEW s, Good(s)
    PROVE  Scrolls(s, scrdown(s), -1)
<1> DEFINE o == s.origin
           T == Row(s.top)
           B == Row(s.bottom)
           u == Copy(s, o + (T + Cols), o + T, B - T - Cols)
           t == Fill(u, o + T, Cols)
<1>0. /\ s \in Displays /\ o \in Int /\ o >= 0 /\ s.end = o + Row(Lines) /\ s.end <= Memory
      /\ Cols \in Nat \ {0} /\ Memory \in Nat /\ Row(Lines) \in Int
  BY RowType, ScreenAssumption DEF Good, Inside, Displays
<1>1. scrdown(s) = t
  BY RegionRows DEF scrdown
<1>2. T \in Int /\ B \in Int /\ 0 <= T /\ T + Cols <= B /\ B <= Row(Lines)
  BY RegionRows
<1> HIDE DEF o, T, B
<1>3. /\ u \in Displays /\ SamePlace(s, u)
      /\ \A i \in Slots : u.mem[i] =
           IF o + (T + Cols) <= i /\ i < o + (T + Cols) + (B - T - Cols)
           THEN s.mem[i - (o + (T + Cols)) + (o + T)] ELSE s.mem[i]
  <2>1. o + T \in Int /\ o + (T + Cols) \in Int /\ B - T - Cols \in Int
    BY <1>0, <1>2
  <2>2. /\ 0 <= o + T /\ o + T + (B - T - Cols) <= Memory /\ 0 <= B - T - Cols
        /\ 0 <= o + (T + Cols) /\ o + (T + Cols) + (B - T - Cols) <= Memory
    BY <1>0, <1>2
  <2> QED
    BY <1>0, <2>1, <2>2, CopyIs
<1> HIDE DEF u
<1>4. /\ t \in Displays /\ SamePlace(u, t)
      /\ \A i \in Slots : t.mem[i] =
           IF o + T <= i /\ i < o + T + Cols THEN Blank ELSE u.mem[i]
  <2>1. /\ o + T \in Int /\ Cols \in Int /\ u \in Displays
        /\ 0 <= o + T /\ 0 <= Cols /\ o + T + Cols <= Memory
    BY <1>0, <1>2, <1>3
  <2> QED
    BY <2>1, FillIs
<1> HIDE DEF t
<1>5. SamePlace(s, t) /\ Good(t)
  BY <1>3, <1>4, GoodSame DEF SamePlace
<1>6. LinesMove(s, t, -1, s.top, s.bottom)
  <2> SUFFICES ASSUME NEW r \in Rows, NEW c \in Columns
               PROVE  Cell(t, r, c) = IF ~ (s.top <= r /\ r < s.bottom) THEN Cell(s, r, c)
                        ELSE IF s.top <= r + (-1) /\ r + (-1) < s.bottom
                             THEN Cell(s, r + (-1), c)
                        ELSE Blank
    BY DEF LinesMove
  <2> DEFINE i == o + Row(r) + c
  <2>1. /\ i \in Slots /\ Row(r) \in Int /\ c \in Int /\ 0 <= c /\ c < Cols /\ r \in Int
        /\ s.top \in Int /\ s.bottom \in Int /\ r + (-1) = r - 1
    BY CellPlace, CellInRows, RegionRows, ScreenAssumption DEF Rows, Columns, o
  <2>2. Cell(t, r, c) = t.mem[i] /\ Cell(s, r, c) = s.mem[i]
    BY <1>5 DEF Cell, SamePlace, o
  <2>3. Cell(s, r + (-1), c) = s.mem[o + (Row(r) - Cols) + c]
    BY <2>1, RowNext DEF Cell, o
  <2>4. CASE r < s.top
    <3>1. Row(r) + Cols <= T
      BY <2>1, <2>4, CellInRows DEF T
    <3>2. t.mem[i] = s.mem[i]
      BY <1>0, <1>2, <1>3, <1>4, <2>1, <3>1
    <3> QED
      BY <2>1, <2>2, <2>4, <3>2
  <2>5. CASE s.bottom <= r
    <3>1. B <= Row(r)
      BY <2>1, <2>5, CellInRows DEF B
    <3>2. t.mem[i] = s.mem[i]
      BY <1>0, <1>2, <1>3, <1>4, <2>1, <3>1
    <3> QED
      BY <2>1, <2>2, <2>5, <3>2
  <2>6. CASE s.top < r /\ r < s.bottom
    <3>1. Row(r) + Cols <= B
      BY <2>1, <2>6, CellInRows DEF B
    <3>2. T + Cols <= Row(r)
      BY <2>1, <2>6, RowOrder DEF T
    <3>3. t.mem[i] = s.mem[i - (o + (T + Cols)) + (o + T)]
      BY <1>0, <1>2, <1>3, <1>4, <2>1, <3>1, <3>2
    <3>4. i - (o + (T + Cols)) + (o + T) = o + (Row(r) - Cols) + c
      BY <1>0, <1>2, <2>1
    <3> QED
      BY <2>1, <2>2, <2>3, <2>6, <3>3, <3>4
  <2>7. CASE s.top = r /\ r < s.bottom
    <3>1. T = Row(r)
      BY <2>7 DEF T
    <3>2. t.mem[i] = Blank
      BY <1>0, <1>2, <1>3, <1>4, <2>1, <3>1
    <3> QED
      BY <2>1, <2>2, <2>7, <3>2
  <2> QED
    BY <2>1, <2>4, <2>5, <2>6, <2>7
<1> QED
  BY <1>1, <1>5, <1>6 DEF Scrolls, SamePlace

\* Moving the origin of a display that scrolls whole, within its memory or back
\* to the start of it, is a scroll too.
LEMMA OriginScrolls ==
    ASSUME NEW s, Good(s), s.top = 0, s.bottom = Lines
    PROVE  Scrolls(s, ScrollOrigin(s), 1)
<1> DEFINE o == s.origin
           L == Row(Lines)
           K == Row(Lines - 1)
           t == ScrollOrigin(s)
<1>0. /\ s \in Displays /\ o \in Int /\ o >= 0 /\ s.end = o + L /\ s.end <= Memory
      /\ Cols \in Nat \ {0} /\ Memory \in Nat /\ L \in Int /\ L <= Memory /\ Cols <= L
      /\ K = L - Cols /\ K \in Int
  <2>1. L <= Memory /\ L \in Int
    BY ScreenAssumption DEF Row
  <2>2. Cols <= L /\ Row(Lines - 1) = L - Cols
    <3>1. Lines \in Int /\ 0 \in Int /\ 0 < Lines
      BY ScreenAssumption
    <3>2. Row(0) = 0 /\ Row(Lines) \in Int /\ Row(Lines - 1) = Row(Lines) - Cols
      BY <3>1, RowNext, RowType
    <3>3. Row(0) + Cols <= Row(Lines)
      BY <3>1, RowOrder
    <3> QED
      BY <3>2, <3>3, ScreenAssumption
  <2> QED
    BY <2>1, <2>2, ScreenAssumption DEF Good, Inside, Displays
<1>1. s.mem \in [Slots -> Cells] /\ s.pos \in Int /\ s.pos = o + Row(s.y) + s.x
  BY DEF Good, Inside, Displays
<1>2. CASE s.end + Cols > Memory
  <2> DEFINE u == Copy(s, 0, o + Cols, K)
             v == Fill(u, K, Cols)
  <2>1. t = [v EXCEPT !.origin = 0, !.end = (s.end + Cols) - (o + Cols),
                      !.pos = s.pos + Cols - (o + Cols)]
    BY <1>2 DEF ScrollOrigin
  <2>2. /\ u \in Displays /\ SamePlace(s, u)
        /\ \A i \in Slots : u.mem[i] =
             IF 0 <= i /\ i < 0 + K THEN s.mem[i - 0 + (o + Cols)] ELSE s.mem[i]
    <3>1. o + Cols \in Int /\ 0 <= o + Cols /\ 0 \in Int /\ o + Cols + K <= Memory
      BY <1>0
    <3> HIDE DEF o, L, K
    <3> QED
      BY <1>0, <3>1, CopyIs
  <2> HIDE DEF u, o, L, K
  <2>3. /\ v \in Displays /\ SamePlace(u, v)
        /\ \A i \in Slots : v.mem[i] =
             IF K <= i /\ i < K + Cols THEN Blank ELSE u.mem[i]
    <3>1. u \in Displays /\ K \in Int /\ Cols \in Int /\ 0 <= K /\ 0 <= Cols /\ K + Cols <= Memory
      BY <1>0, <2>2
    <3> QED
      BY <3>1, FillIs
  <2> HIDE DEF v
  <2>4. /\ t \in Displays /\ t.mem = v.mem /\ t.origin = 0 /\ t.end = L
        /\ t.pos = s.pos - o /\ t.out = s.out
        /\ t.x = s.x /\ t.y = s.y /\ t.top = s.top /\ t.bottom = s.bottom
    <3>1. (s.end + Cols) - (o + Cols) = L /\ s.pos + Cols - (o + Cols) = s.pos - o
          /\ L \in Int /\ s.pos - o \in Int
      BY <1>0, <1>1
    <3>2. /\ v.x = s.x /\ v.y = s.y /\ v.top = s.top /\ v.bottom = s.bottom
          /\ v.out = s.out /\ v \in Displays
      BY <2>2, <2>3 DEF SamePlace
    <3> HIDE DEF t
    <3> QED
      BY <2>1, <3>1, <3>2 DEF Displays
  <2> HIDE DEF t
  <2>5. Good(t)
    <3>1. Row(s.y) \in Int /\ s.x \in Int
      BY RowType, ScreenAssumption DEF Good, Inside
    <3>2. t.pos = t.origin + Row(t.y) + t.x
      BY <1>0, <1>1, <2>4, <3>1
    <3>3. t.end = t.origin + Row(Lines) /\ t.end <= Memory
      BY <1>0, <2>4 DEF L
    <3> QED
      BY <2>4, <3>2, <3>3 DEF Good, Inside
  <2>6. LinesMove(s, t, 1, s.top, s.bottom)
    <3> SUFFICES ASSUME NEW r \in Rows, NEW c \in Columns
                 PROVE  Cell(t, r, c) = IF r + 1 < Lines THEN Cell(s, r + 1, c) ELSE Blank
      BY ScreenAssumption DEF LinesMove, Rows
    <3>1. /\ Row(r) + c \in Slots /\ Row(r) \in Int /\ c \in Int /\ 0 <= c /\ c < Cols
          /\ r \in Int /\ 0 <= Row(r) /\ Row(r) + Cols <= L
      <4>1. 0 <= Row(r) /\ Row(r) + Cols <= L
        BY CellPlace DEF L
      <4> QED
        BY <1>0, <4>1, CellInRows, ScreenAssumption DEF Rows, Columns, Slots
    <3>2. Cell(t, r, c) = v.mem[Row(r) + c]
      BY <2>4, <3>1 DEF Cell
    <3>3. Cell(s, r + 1, c) = s.mem[o + (Row(r) + Cols) + c]
      BY <3>1, RowNext DEF Cell, o
    <3>4. CASE r + 1 < Lines
      <4>1. Row(r) + Cols + Cols <= L
        <5>1. r + 1 \in Int /\ Row(r + 1) = Row(r) + Cols
          BY <3>1, RowNext
        <5> QED
          BY <3>1, <3>4, <5>1, RowOrder, ScreenAssumption DEF L
      <4>2. v.mem[Row(r) + c] = s.mem[Row(r) + c - 0 + (o + Cols)]
        BY <1>0, <2>2, <2>3, <3>1, <4>1
      <4>3. Row(r) + c - 0 + (o + Cols) = o + (Row(r) + Cols) + c
        BY <1>0, <3>1
      <4> QED
        BY <3>2, <3>3, <3>4, <4>2, <4>3
    <3>5. CASE ~ (r + 1 < Lines)
      <4>1. r = Lines - 1
        BY <3>1, <3>5, ScreenAssumption DEF Rows
      <4>2. Row(r) = L - Cols
        BY <1>0, <4>1 DEF K
      <4>3. v.mem[Row(r) + c] = Blank
        BY <1>0, <2>3, <3>1, <4>2
      <4> QED
        BY <3>2, <3>5, <4>3
    <3> QED
      BY <3>4, <3>5
  <2> QED
    BY <2>4, <2>5, <2>6 DEF Scrolls, t
<1>3. CASE ~ (s.end + Cols > Memory)
  <2> DEFINE v == Fill(s, s.end, Cols)
  <2>1. t = [v EXCEPT !.origin = o + Cols, !.end = s.end + Cols, !.pos = s.pos + Cols]
    BY <1>3 DEF ScrollOrigin
  <2> HIDE DEF o, L, K
  <2>3. /\ v \in Displays /\ SamePlace(s, v)
        /\ \A i \in Slots : v.mem[i] =
             IF s.end <= i /\ i < s.end + Cols THEN Blank ELSE s.mem[i]
    <3>1. s.end \in Int /\ 0 <= s.end /\ 0 <= Cols /\ s.end + Cols <= Memory
      BY <1>0, <1>3
    <3> QED
      BY <1>0, <3>1, FillIs
  <2> HIDE DEF v, t
  <2>4. /\ t \in Displays /\ t.mem = v.mem /\ t.origin = o + Cols /\ t.end = s.end + Cols
        /\ t.pos = s.pos + Cols /\ t.out = s.out
        /\ t.x = s.x /\ t.y = s.y /\ t.top = s.top /\ t.bottom = s.bottom
    <3>1. o + Cols \in Int /\ s.end + Cols \in Int /\ s.pos + Cols \in Int
      BY <1>0, <1>1
    <3>2. /\ v.x = s.x /\ v.y = s.y /\ v.top = s.top /\ v.bottom = s.bottom
          /\ v.out = s.out /\ v \in Displays
      BY <2>3 DEF SamePlace
    <3> QED
      BY <2>1, <3>1, <3>2 DEF Displays
  <2>5. Good(t)
    <3>1. Row(s.y) \in Int /\ s.x \in Int
      BY RowType, ScreenAssumption DEF Good, Inside
    <3>2. t.pos = t.origin + Row(t.y) + t.x
      BY <1>0, <1>1, <2>4, <3>1
    <3>3. t.end = t.origin + Row(Lines) /\ t.end <= Memory /\ t.origin >= 0
      BY <1>0, <1>3, <2>4 DEF L
    <3> QED
      BY <2>4, <3>2, <3>3 DEF Good, Inside
  <2>6. LinesMove(s, t, 1, s.top, s.bottom)
    <3> SUFFICES ASSUME NEW r \in Rows, NEW c \in Columns
                 PROVE  Cell(t, r, c) = IF r + 1 < Lines THEN Cell(s, r + 1, c) ELSE Blank
      BY ScreenAssumption DEF LinesMove, Rows
    <3> DEFINE i == o + Cols + Row(r) + c
    <3>1. /\ i \in Slots /\ Row(r) \in Int /\ c \in Int /\ 0 <= c /\ c < Cols
          /\ r \in Int
      <4>1. t.origin + Row(r) + c \in Slots
        BY <2>5, CellPlace
      <4> QED
        BY <2>4, <4>1, CellInRows, ScreenAssumption DEF Rows, Columns
    <3>2. Cell(t, r, c) = v.mem[i]
      BY <2>4 DEF Cell
    <3>3. Cell(s, r + 1, c) = s.mem[i]
      <4>1. o + (Row(r) + Cols) + c = i
        BY <1>0, <3>1
      <4> QED
        BY <3>1, <4>1, RowNext DEF Cell, o
    <3>4. CASE r + 1 < Lines
      <4>1. Row(r) + Cols + Cols <= L
        <5>1. r + 1 \in Int /\ Row(r + 1) = Row(r) + Cols
          BY <3>1, RowNext
        <5> QED
          BY <3>1, <3>4, <5>1, RowOrder, ScreenAssumption DEF L
      <4>2. v.mem[i] = s.mem[i]
        BY <1>0, <2>3, <3>1, <4>1
      <4> QED
        BY <3>2, <3>3, <3>4, <4>2
    <3>5. CASE ~ (r + 1 < Lines)
      <4>1. r = Lines - 1
        BY <3>1, <3>5, ScreenAssumption DEF Rows
      <4>2. Row(r) = L - Cols
        BY <1>0, <4>1 DEF K
      <4>3. v.mem[i] = Blank
        BY <1>0, <2>3, <3>1, <4>2
      <4> QED
        BY <3>2, <3>5, <4>3
    <3> QED
      BY <3>4, <3>5
  <2> QED
    BY <2>4, <2>5, <2>6 DEF Scrolls, t
<1> QED
  BY <1>2, <1>3

\* scrup(), on both kinds of display.
LEMMA ScrupScrolls ==
    ASSUME NEW s, Good(s)
    PROVE  Scrolls(s, scrup(s), 1)
<1>1. CASE ega /\ s.top = 0 /\ s.bottom = Lines
  BY <1>1, OriginScrolls DEF scrup
<1>2. CASE ~ (ega /\ s.top = 0 /\ s.bottom = Lines)
  BY <1>2, CopiedUpScrolls DEF scrup, CopiedUp
<1> QED
  BY <1>1, <1>2

-----------------------------------------------------------------------------
(* The cursor.                                                              *)

\* Line feed, and what the next line is on the screen.
GoesDown(s, t) ==
    /\ Good(t) /\ t.top = s.top /\ t.bottom = s.bottom
    /\ IF s.y + 1 < s.bottom THEN t.y = s.y + 1 /\ Picture(t) = Picture(s)
       ELSE t.y = s.y /\ Picture(t) = ScreenShown!Moved(Picture(s), 1, s.top, s.bottom)

\* The cursor moves, and nothing else.
MovesTo(s, t, nx, ny) ==
    /\ Good(t) /\ t.top = s.top /\ t.bottom = s.bottom
    /\ t.x = nx /\ t.y = ny /\ Picture(t) = Picture(s)

\* A display with another cursor on the screen, in its place.
LEMMA CursorMoved ==
    ASSUME NEW s, Good(s), NEW nx \in 0 .. Cols, NEW ny \in Rows, NEW p \in Int,
           p = s.origin + Row(ny) + nx
    PROVE  MovesTo(s, [s EXCEPT !.x = nx, !.y = ny, !.pos = p], nx, ny)
<1> DEFINE t == [s EXCEPT !.x = nx, !.y = ny, !.pos = p]
<1>1. nx \in Int /\ ny \in Int
  BY ScreenAssumption DEF Rows
<1>2. /\ t \in Displays /\ t.mem = s.mem /\ t.origin = s.origin /\ t.end = s.end
      /\ t.top = s.top /\ t.bottom = s.bottom /\ t.x = nx /\ t.y = ny /\ t.pos = p
      /\ t.out = s.out
  BY <1>1 DEF Good, Displays
<1> HIDE DEF t
<1>3. Inside(t)
  BY <1>2 DEF Good, Inside, Rows
<1>4. Picture(t) = Picture(s)
  BY <1>2 DEF Picture
<1> QED
  BY <1>2, <1>3, <1>4 DEF MovesTo, Good, t

\* A cursor that moves in its line, or by one line.
LEMMA CursorTypes ==
    ASSUME NEW s, Good(s)
    PROVE  /\ s.x \in 0 .. Cols /\ s.x \in Int /\ s.y \in Rows /\ s.y \in Int
           /\ s.pos \in Int /\ s.origin \in Int /\ s.pos = s.origin + Row(s.y) + s.x
           /\ Row(s.y) \in Int /\ s.top \in Int /\ s.bottom \in Int
           /\ 0 <= s.top /\ s.top < s.bottom /\ s.bottom <= Lines
BY RowType, ScreenAssumption DEF Good, Inside, Displays, Rows

\* A cursor that moves along its line.
LEMMA ColumnMoved ==
    ASSUME NEW s, Good(s), NEW nx \in 0 .. Cols, NEW p \in Int, p = s.pos - s.x + nx
    PROVE  MovesTo(s, [s EXCEPT !.x = nx, !.pos = p], nx, s.y)
<1>1. p = s.origin + Row(s.y) + nx
  BY CursorTypes, ScreenAssumption
<1>2. MovesTo(s, [s EXCEPT !.x = nx, !.y = s.y, !.pos = p], nx, s.y)
  BY <1>1, CursorTypes, CursorMoved
<1>3. [s EXCEPT !.x = nx, !.y = s.y, !.pos = p] = [s EXCEPT !.x = nx, !.pos = p]
  BY DEF Good, Displays
<1> QED
  BY <1>2, <1>3

\* A cursor that moves to another line.
LEMMA LineMoved ==
    ASSUME NEW s, Good(s), NEW ny \in Rows, NEW p \in Int,
           p = s.pos - Row(s.y) + Row(ny)
    PROVE  MovesTo(s, [s EXCEPT !.y = ny, !.pos = p], s.x, ny)
<1>1. p = s.origin + Row(ny) + s.x
  BY CursorTypes, RowType, ScreenAssumption DEF Rows
<1>2. MovesTo(s, [s EXCEPT !.x = s.x, !.y = ny, !.pos = p], s.x, ny)
  BY <1>1, CursorTypes, CursorMoved
<1>3. [s EXCEPT !.x = s.x, !.y = ny, !.pos = p] = [s EXCEPT !.y = ny, !.pos = p]
  BY DEF Good, Displays
<1> QED
  BY <1>2, <1>3

\* A scroll of the region moves the lines of the picture.
LEMMA ScrollsPicture ==
    ASSUME NEW s, Good(s), NEW t, NEW n \in Int, Scrolls(s, t, n)
    PROVE  Picture(t) = ScreenShown!Moved(Picture(s), n, s.top, s.bottom)
<1>1. s.top \in Nat /\ s.bottom \in Int /\ s.bottom <= Lines
  BY CursorTypes
<1> QED
  BY <1>1, PictureMoved DEF Scrolls

\* lf().
LEMMA LfDoes ==
    ASSUME NEW s, Good(s)
    PROVE  GoesDown(s, lf(s)) /\ lf(s).x = s.x
<1>1. CASE s.y + 1 < s.bottom
  <2>1. s.y + 1 \in Rows /\ s.pos + Cols \in Int
    BY <1>1, CursorTypes, ScreenAssumption DEF Rows
  <2>2. s.pos + Cols = s.pos - Row(s.y) + Row(s.y + 1)
    BY CursorTypes, RowNext, ScreenAssumption
  <2>3. MovesTo(s, [s EXCEPT !.y = s.y + 1, !.pos = s.pos + Cols], s.x, s.y + 1)
    BY <2>1, <2>2, LineMoved
  <2>4. lf(s) = [s EXCEPT !.y = s.y + 1, !.pos = s.pos + Cols]
    BY <1>1 DEF lf
  <2> QED
    BY <1>1, <2>3, <2>4 DEF MovesTo, GoesDown
<1>2. CASE ~ (s.y + 1 < s.bottom)
  <2>1. Scrolls(s, lf(s), 1)
    BY <1>2, ScrupScrolls DEF lf
  <2>2. Picture(lf(s)) = ScreenShown!Moved(Picture(s), 1, s.top, s.bottom)
    BY <2>1, ScrollsPicture
  <2> QED
    BY <1>2, <2>1, <2>2 DEF Scrolls, GoesDown
<1> QED
  BY <1>1, <1>2

\* ri().
LEMMA RiDoes ==
    ASSUME NEW s, Good(s)
    PROVE  /\ Good(ri(s)) /\ ri(s).top = s.top /\ ri(s).bottom = s.bottom /\ ri(s).x = s.x
           /\ IF s.y > s.top THEN ri(s).y = s.y - 1 /\ Picture(ri(s)) = Picture(s)
              ELSE ri(s).y = s.y
                   /\ Picture(ri(s)) = ScreenShown!Moved(Picture(s), -1, s.top, s.bottom)
<1>1. CASE s.y > s.top
  <2>1. s.y - 1 \in Rows /\ s.pos - Cols \in Int
    BY <1>1, CursorTypes, ScreenAssumption DEF Rows
  <2>2. s.pos - Cols = s.pos - Row(s.y) + Row(s.y - 1)
    BY CursorTypes, RowNext, ScreenAssumption
  <2>3. MovesTo(s, [s EXCEPT !.y = s.y - 1, !.pos = s.pos - Cols], s.x, s.y - 1)
    BY <2>1, <2>2, LineMoved
  <2>4. ri(s) = [s EXCEPT !.y = s.y - 1, !.pos = s.pos - Cols]
    BY <1>1 DEF ri
  <2> QED
    BY <1>1, <2>3, <2>4 DEF MovesTo
<1>2. CASE ~ (s.y > s.top)
  <2>1. Scrolls(s, ri(s), -1)
    BY <1>2, ScrdownScrolls DEF ri
  <2>2. Picture(ri(s)) = ScreenShown!Moved(Picture(s), -1, s.top, s.bottom)
    BY <2>1, ScrollsPicture
  <2> QED
    BY <1>2, <2>1, <2>2 DEF Scrolls
<1> QED
  BY <1>1, <1>2

\* cr().
LEMMA CrDoes == ASSUME NEW s, Good(s) PROVE MovesTo(s, cr(s), 0, s.y)
<1>1. s.pos - s.x \in Int /\ 0 \in 0 .. Cols /\ s.pos - s.x = s.pos - s.x + 0
  BY CursorTypes, ScreenAssumption
<1>2. MovesTo(s, [s EXCEPT !.x = 0, !.pos = s.pos - s.x], 0, s.y)
  BY <1>1, ColumnMoved
<1>3. cr(s) = [s EXCEPT !.x = 0, !.pos = s.pos - s.x]
  BY DEF cr, Good, Displays
<1> QED
  BY <1>2, <1>3

\* A backspace.
LEMMA BackSpaceDoes ==
    ASSUME NEW s, Good(s), s.x # 0
    PROVE  MovesTo(s, BackSpace(s), s.x - 1, s.y)
<1>1. s.pos - 1 \in Int /\ s.x - 1 \in 0 .. Cols /\ s.pos - 1 = s.pos - s.x + (s.x - 1)
  BY CursorTypes, ScreenAssumption
<1>2. MovesTo(s, [s EXCEPT !.x = s.x - 1, !.pos = s.pos - 1], s.x - 1, s.y)
  BY <1>1, ColumnMoved
<1>3. BackSpace(s) = [s EXCEPT !.x = s.x - 1, !.pos = s.pos - 1]
  BY DEF BackSpace, Good, Displays
<1> QED
  BY <1>2, <1>3

\* gotoxy(): to a place on the screen, or nowhere.
LEMMA GotoDoes ==
    ASSUME NEW s, Good(s), NEW nx \in Int, NEW ny \in Int
    PROVE  gotoxy(s, nx, ny) = s \/ (/\ nx \in 0 .. Cols /\ ny \in Rows
                                     /\ MovesTo(s, gotoxy(s, nx, ny), nx, ny))
<1>1. CASE nx < 0 \/ nx > Cols \/ ny < 0 \/ ny >= Lines
  BY <1>1 DEF gotoxy
<1>2. CASE ~ (nx < 0 \/ nx > Cols \/ ny < 0 \/ ny >= Lines)
  <2>1. nx \in 0 .. Cols /\ ny \in Rows /\ s.origin + Row(ny) + nx \in Int
    BY <1>2, CursorTypes, RowType, ScreenAssumption DEF Rows
  <2>2. MovesTo(s, [s EXCEPT !.x = nx, !.y = ny, !.pos = s.origin + Row(ny) + nx], nx, ny)
    BY <2>1, CursorMoved
  <2>3. gotoxy(s, nx, ny) = [s EXCEPT !.x = nx, !.y = ny, !.pos = s.origin + Row(ny) + nx]
    BY <1>2 DEF gotoxy
  <2> QED
    BY <2>1, <2>2, <2>3
<1> QED
  BY <1>1, <1>2

\* s with the cursor a line's length behind column nx.
Behind(s, w, nx) ==
    w = [s EXCEPT !.x = nx + Cols, !.pos = (s.pos - s.x + nx) + Cols]

\* From behind the last column, or past it by a tabulator, to the next line.
LEMMA WrapDoes ==
    ASSUME NEW s, Good(s), NEW nx \in 0 .. Cols, NEW w, Behind(s, w, nx)
    PROVE  GoesDown(s, Wrap(w)) /\ Wrap(w).x = nx
<1> DEFINE p == s.pos - s.x + nx
           v == [s EXCEPT !.x = nx, !.pos = p]
<1>0. p \in Int /\ w = [s EXCEPT !.x = nx + Cols, !.pos = p + Cols]
  BY CursorTypes, ScreenAssumption DEF Behind
<1>1. MovesTo(s, v, nx, s.y)
  BY <1>0, ColumnMoved
<1> HIDE DEF p
<1>2. [w EXCEPT !.x = w.x - Cols, !.pos = w.pos - Cols] = v
  <2>1. /\ s \in Displays /\ nx \in Int /\ Cols \in Int /\ nx + Cols \in Int /\ p + Cols \in Int
        /\ (nx + Cols) - Cols = nx /\ (p + Cols) - Cols = p
    BY <1>0, ScreenAssumption DEF Good
  <2>2. w.x = nx + Cols /\ w.pos = p + Cols
    BY <1>0, <2>1 DEF Displays
  <2>3. [w EXCEPT !.x = nx, !.pos = p] = v
    BY <1>0, <2>1 DEF Displays
  <2> QED
    BY <2>1, <2>2, <2>3
<1>3. Wrap(w) = lf(v)
  BY <1>2 DEF Wrap
<1> HIDE DEF v
<1>4. GoesDown(v, lf(v)) /\ lf(v).x = nx
  BY <1>1, LfDoes DEF MovesTo
<1> QED
  BY <1>1, <1>3, <1>4 DEF MovesTo, GoesDown

\* Two cells of the screen are in one place only if they are one.
LEMMA PlaceInjective ==
    ASSUME NEW r \in Rows, NEW c \in Columns, NEW q \in Rows, NEW e \in Columns,
           Row(r) + c = Row(q) + e
    PROVE  r = q /\ c = e
<1>1. /\ r \in Int /\ q \in Int /\ c \in Int /\ e \in Int
      /\ 0 <= c /\ c < Cols /\ 0 <= e /\ e < Cols /\ Row(r) \in Int /\ Row(q) \in Int
  BY RowType, ScreenAssumption DEF Rows, Columns
<1>2. ~ (r < q)
  <2>1. r < q => Row(r) + Cols <= Row(q)
    BY <1>1, RowOrder
  <2> QED
    BY <1>1, <2>1, ScreenAssumption
<1>3. ~ (q < r)
  <2>1. q < r => Row(q) + Cols <= Row(r)
    BY <1>1, RowOrder
  <2> QED
    BY <1>1, <2>1, ScreenAssumption
<1> QED
  BY <1>1, <1>2, <1>3

\* A character at the cursor.
Written(s, g) == [s EXCEPT !.mem = [s.mem EXCEPT ![s.pos] = g], !.out = s.out,
                           !.pos = s.pos + 1, !.x = s.x + 1]

\* A character in the picture.
LEMMA WrittenDoes ==
    ASSUME NEW s, Good(s), s.x < Cols, NEW g \in Cells
    PROVE  /\ Good(Written(s, g)) /\ Written(s, g).x = s.x + 1 /\ Written(s, g).y = s.y
           /\ Written(s, g).top = s.top /\ Written(s, g).bottom = s.bottom
           /\ Picture(Written(s, g)) = [Picture(s) EXCEPT ![<<s.y, s.x>>] = g]
<1> DEFINE m == [s.mem EXCEPT ![s.pos] = g]
           t == Written(s, g)
<1>1. s.x \in Columns /\ s.y \in Rows /\ s.pos \in Int /\ s.pos \in Slots
  <2>1. s.x \in Columns
    BY CursorTypes, ScreenAssumption DEF Columns
  <2> QED
    BY <2>1, CursorTypes, CellPlace
<1>2. s.mem \in [Slots -> Cells]
  BY DEF Good, Displays
<1>3. m \in [Slots -> Cells] /\ \A i \in Slots : m[i] = IF i = s.pos THEN g ELSE s.mem[i]
  BY <1>1, <1>2
<1>4. t = [s EXCEPT !.mem = m, !.out = s.out, !.pos = s.pos + 1, !.x = s.x + 1]
  BY DEF Written
<1> HIDE DEF m, t
<1>5. /\ t \in Displays /\ t.mem = m /\ t.origin = s.origin /\ t.end = s.end
      /\ t.pos = s.pos + 1 /\ t.x = s.x + 1 /\ t.y = s.y /\ t.top = s.top
      /\ t.bottom = s.bottom /\ t.out = s.out
  <2>1. s \in Displays /\ s.pos + 1 \in Int /\ s.x + 1 \in Int
    BY <1>1, CursorTypes DEF Good
  <2> QED
    BY <1>3, <1>4, <2>1 DEF Displays
<1>6. Good(t)
  <2>1. t.pos = t.origin + Row(t.y) + t.x /\ t.x \in 0 .. Cols
    BY <1>5, CursorTypes, ScreenAssumption
  <2> QED
    BY <1>5, <2>1 DEF Good, Inside
<1>7. ASSUME NEW r \in Rows, NEW c \in Columns
      PROVE  Picture(t)[<<r, c>>] = IF r = s.y /\ c = s.x THEN g ELSE Picture(s)[<<r, c>>]
  <2> DEFINE i == s.origin + Row(r) + c
  <2>1. i \in Slots
    BY CellPlace
  <2>2. i = s.pos => r = s.y /\ c = s.x
    <3>1. c \in Int /\ Row(r) \in Int
      BY RowType, ScreenAssumption DEF Rows, Columns
    <3>2. i = s.pos => Row(r) + c = Row(s.y) + s.x
      BY <3>1, CursorTypes
    <3> QED
      BY <1>1, <3>2, PlaceInjective
  <2>3. r = s.y /\ c = s.x => i = s.pos
    BY CursorTypes
  <2>4. Picture(t)[<<r, c>>] = m[i] /\ Picture(s)[<<r, c>>] = s.mem[i]
    BY <1>5, PictureIs DEF Cell
  <2> QED
    BY <1>3, <2>1, <2>2, <2>3, <2>4
<1>8. Picture(t) = [Picture(s) EXCEPT ![<<s.y, s.x>>] = g]
  <2> DEFINE P == [Picture(s) EXCEPT ![<<s.y, s.x>>] = g]
  <2>1. P = [p \in Rows \X Columns |-> P[p]]
    BY <1>1, PictureIs
  <2>2. ASSUME NEW p \in Rows \X Columns
        PROVE  Picture(t)[p] = P[p]
    <3>1. PICK r \in Rows, c \in Columns : p = <<r, c>>
      OBVIOUS
    <3>2. <<r, c>> \in DOMAIN Picture(s)
      BY PictureIs
    <3>3. P[<<r, c>>] = IF r = s.y /\ c = s.x THEN g ELSE Picture(s)[<<r, c>>]
      BY <3>2
    <3> QED
      BY <1>7, <3>1, <3>3
  <2>3. Picture(t) = [p \in Rows \X Columns |-> Picture(t)[p]]
    BY PictureIs
  <2> HIDE DEF P
  <2>4. [p \in Rows \X Columns |-> Picture(t)[p]] = [p \in Rows \X Columns |-> P[p]]
    BY <2>2
  <2>5. Picture(t) = P
    BY <2>1, <2>3, <2>4
  <2> QED
    BY <2>5 DEF P
<1> QED
  BY <1>5, <1>6, <1>8 DEF t

Attributes == {7, 15, 112}

\* A character that is written: what module Screen's PutChar says of the picture.
LEMMA PutCharDoes ==
    ASSUME NEW s, Good(s), NEW c \in Chars, attr \in Attributes
    PROVE  LET t == PutChar(s, c)
               g == <<c, attr>>
           IN  /\ Good(t) /\ t.top = s.top /\ t.bottom = s.bottom
               /\ IF s.x < Cols
                  THEN /\ t.x = s.x + 1 /\ t.y = s.y
                       /\ Picture(t) = [Picture(s) EXCEPT ![<<s.y, s.x>>] = g]
                  ELSE /\ t.x = 1
                       /\ IF s.y + 1 < s.bottom
                          THEN /\ t.y = s.y + 1
                               /\ Picture(t) = [Picture(s) EXCEPT ![<<s.y + 1, 0>>] = g]
                          ELSE /\ t.y = s.y
                               /\ Picture(t) =
                                    [ScreenShown!Moved(Picture(s), 1, s.top, s.bottom)
                                        EXCEPT ![<<s.y, 0>>] = g]
<1> DEFINE t == PutChar(s, c)
           g == <<c, attr>>
           w == IF s.x >= Cols THEN Wrap(s) ELSE s
<1>1. g \in Cells
  BY DEF Cells, Glyphs, Attributes
<1>2. t = [w EXCEPT !.mem[w.pos] = g, !.out = @ \/ ~ Within(w.pos, 1),
                    !.pos = @ + 1, !.x = @ + 1]
  BY DEF PutChar
<1> HIDE DEF g
<1>3. ASSUME Good(w), w.x < Cols
      PROVE  t = Written(w, g)
  <2> HIDE DEF w, t
  <2>1. w.x \in Columns /\ w.pos = w.origin + Row(w.y) + w.x /\ w.pos \in Int
    BY <1>3, CursorTypes, ScreenAssumption DEF Columns
  <2>2. w.pos \in Slots
    BY <1>3, <2>1, CursorTypes, CellPlace
  <2>3. Within(w.pos, 1)
    BY <2>1, <2>2, ScreenAssumption DEF Slots, Within
  <2>4. w.out \in BOOLEAN
    BY <1>3 DEF Good, Displays
  <2>5. (w.out \/ ~ Within(w.pos, 1)) = w.out
    BY <2>3, <2>4
  <2>6. t = [w EXCEPT !.mem[w.pos] = g, !.out = w.out, !.pos = @ + 1, !.x = @ + 1]
    BY <1>2, <2>5, Zenon
  <2> QED
    BY <1>3, <2>6 DEF Written, Good, Displays
<1>4. CASE s.x < Cols
  <2>1. w = s
    BY <1>4, CursorTypes, ScreenAssumption
  <2>2. t = Written(s, g)
    BY <1>3, <1>4, <2>1
  <2> HIDE DEF t, w
  <2> QED
    BY <1>1, <1>4, <2>2, WrittenDoes DEF t, g
<1>5. CASE ~ (s.x < Cols)
  <2>1. s.x = Cols /\ 0 \in 0 .. Cols
        /\ s.x = 0 + Cols /\ s.pos = (s.pos - s.x + 0) + Cols
    BY <1>5, CursorTypes, ScreenAssumption
  <2>2. Behind(s, s, 0)
    BY <2>1 DEF Good, Displays, Behind
  <2>3. GoesDown(s, Wrap(s)) /\ Wrap(s).x = 0
    BY <2>1, <2>2, WrapDoes
  <2>4. w = Wrap(s)
    BY <2>1, ScreenAssumption
  <2>5. Good(w) /\ w.x = 0 /\ GoesDown(s, w)
    BY <2>3, <2>4 DEF GoesDown
  <2>6. t = Written(w, g)
    BY <1>3, <2>5, ScreenAssumption
  <2> HIDE DEF t, w
  <2>7. /\ Good(t) /\ t.x = w.x + 1 /\ t.y = w.y /\ t.top = w.top /\ t.bottom = w.bottom
        /\ Picture(t) = [Picture(w) EXCEPT ![<<w.y, w.x>>] = g]
    BY <1>1, <2>5, <2>6, ScreenAssumption, WrittenDoes
  <2>8. t.x = 1
    BY <2>5, <2>7
  <2> QED
    BY <1>5, <2>5, <2>7, <2>8 DEF GoesDown, t, g
<1> QED
  BY <1>4, <1>5

\* A tabulator: along the line, or to the next one.
LEMMA TabulateDoes ==
    ASSUME NEW s, Good(s)
    PROVE  \E nx \in 0 .. Cols :
             \/ MovesTo(s, Tabulate(s), nx, s.y)
             \/ GoesDown(s, Tabulate(s)) /\ Tabulate(s).x = nx
<1> DEFINE n == TAB - (s.x % TAB)
           w == [s EXCEPT !.x = @ + n, !.pos = @ + n]
<1>1. n \in 1 .. TAB /\ n \in Int /\ n <= Cols
  <2>1. s.x % TAB \in 0 .. TAB - 1
    BY CursorTypes, ScreenAssumption
  <2> QED
    BY <2>1, ScreenAssumption
<1>2. Tabulate(s) = IF w.x > Cols THEN Wrap(w) ELSE w
  BY DEF Tabulate
<1> HIDE DEF n
<1>3. w = [s EXCEPT !.x = s.x + n, !.pos = s.pos + n] /\ w.x = s.x + n
  BY <1>1, CursorTypes DEF Good, Displays
<1> HIDE DEF w
<1>4. CASE s.x + n > Cols
  <2> DEFINE nx == s.x + n - Cols
  <2>1. /\ nx \in 0 .. Cols
        /\ s.x + n = nx + Cols /\ s.pos + n = (s.pos - s.x + nx) + Cols
    BY <1>1, <1>4, CursorTypes, ScreenAssumption
  <2> HIDE DEF nx
  <2>2. Behind(s, w, nx)
    BY <1>3, <2>1 DEF Behind
  <2>3. GoesDown(s, Wrap(w)) /\ Wrap(w).x = nx
    BY <2>1, <2>2, WrapDoes
  <2>4. Tabulate(s) = Wrap(w)
    BY <1>2, <1>3, <1>4
  <2> QED
    BY <2>1, <2>3, <2>4
<1>5. CASE ~ (s.x + n > Cols)
  <2>1. s.x + n \in 0 .. Cols /\ s.pos + n \in Int /\ s.pos + n = s.pos - s.x + (s.x + n)
    BY <1>1, <1>5, CursorTypes, ScreenAssumption
  <2>2. MovesTo(s, [s EXCEPT !.x = s.x + n, !.pos = s.pos + n], s.x + n, s.y)
    BY <2>1, ColumnMoved
  <2>3. Tabulate(s) = [s EXCEPT !.x = s.x + n, !.pos = s.pos + n]
    BY <1>2, <1>3, <1>5
  <2> QED
    BY <2>1, <2>2, <2>3
<1> QED
  BY <1>4, <1>5

-----------------------------------------------------------------------------
(* Erasing.                                                                 *)

\* The cells of a stretch of memory.
InStretch(s, from, n, r, c) ==
    from <= s.origin + Row(r) + c /\ s.origin + Row(r) + c < from + n

\* t is s with some places erased.
Erases(s, t, S) ==
    /\ Good(t) /\ SamePlace(s, t)
    /\ Picture(t) = ScreenShown!Erased(Picture(s), S)

\* The screen, what comes before and behind the cursor in it, and the line of
\* the cursor are in video memory.
LEMMA ScreenFits ==
    ASSUME NEW s, Good(s)
    PROVE  /\ 0 <= s.origin /\ s.origin <= s.pos - s.x /\ s.pos - s.x + Cols <= s.end
           /\ s.end <= Memory /\ s.end = s.origin + Row(Lines) /\ 0 <= Row(Lines)
           /\ Memory \in Int /\ s.origin \in Int /\ s.end \in Int
           /\ s.origin <= s.pos /\ s.pos <= s.end
<1>1. /\ s.y \in Int /\ Lines \in Int /\ 0 <= s.y /\ s.y + 1 <= Lines /\ 0 \in Int
      /\ Row(s.y) \in Int /\ Row(Lines) \in Int /\ s.x \in Int /\ s.origin \in Int
      /\ 0 <= s.x /\ s.x <= Cols /\ Memory \in Int /\ Cols \in Int /\ s.end \in Int
  BY CursorTypes, RowType, ScreenAssumption DEF Rows, Good, Displays
<1>2. 0 <= Row(s.y) /\ 0 <= Row(Lines) /\ Row(s.y) + Cols <= Row(Lines)
  <2>1. Row(0) <= Row(s.y) /\ Row(0) <= Row(Lines) /\ Row(s.y + 1) <= Row(Lines)
    BY <1>1, RowMonotone
  <2> QED
    BY <1>1, <2>1, RowType, RowNext
<1>3. s.pos = s.origin + Row(s.y) + s.x /\ s.end = s.origin + Row(Lines)
  BY DEF Good, Inside
<1> QED
  BY <1>1, <1>2, <1>3 DEF Good, Inside

\* Fill() erases the places of its stretch.
LEMMA FillErases ==
    ASSUME NEW s, Good(s), NEW from \in Int, NEW n \in Int, NEW S,
           0 <= from, 0 <= n, from + n <= Memory,
           \A r \in Rows, c \in Columns : <<r, c>> \in S <=> InStretch(s, from, n, r, c)
    PROVE  Erases(s, Fill(s, from, n), S)
<1> DEFINE t == Fill(s, from, n)
           E == ScreenShown!Erased(Picture(s), S)
<1>1. /\ t \in Displays /\ SamePlace(s, t)
      /\ \A i \in Slots : t.mem[i] = IF from <= i /\ i < from + n THEN Blank ELSE s.mem[i]
  BY FillIs DEF Good
<1> HIDE DEF t
<1>2. Good(t)
  BY <1>1, GoodSame
<1>3. ASSUME NEW r \in Rows, NEW c \in Columns
      PROVE  Picture(t)[<<r, c>>] = IF <<r, c>> \in S THEN Blank ELSE Picture(s)[<<r, c>>]
  <2> DEFINE i == s.origin + Row(r) + c
  <2>1. i \in Slots
    BY CellPlace
  <2>2. Picture(t)[<<r, c>>] = t.mem[i] /\ Picture(s)[<<r, c>>] = s.mem[i]
    BY <1>1, PictureIs DEF Cell, SamePlace
  <2>3. <<r, c>> \in S <=> from <= i /\ i < from + n
    BY DEF InStretch
  <2> QED
    BY <1>1, <2>1, <2>2, <2>3
<1>4. E = [p \in Rows \X Columns |-> E[p]]
  BY DEF ScreenShown!Erased, ScreenShown!Places, Rows, Columns
<1>5. ASSUME NEW p \in Rows \X Columns
      PROVE  Picture(t)[p] = E[p]
  <2>1. PICK r \in Rows, c \in Columns : p = <<r, c>>
    OBVIOUS
  <2>2. E[<<r, c>>] = IF <<r, c>> \in S THEN Blank ELSE Picture(s)[<<r, c>>]
    BY DEF ScreenShown!Erased, ScreenShown!Places, Rows, Columns
  <2> QED
    BY <1>3, <2>1, <2>2
<1>6. Picture(t) = [p \in Rows \X Columns |-> Picture(t)[p]]
  BY PictureIs
<1> HIDE DEF E
<1>7. [p \in Rows \X Columns |-> Picture(t)[p]] = [p \in Rows \X Columns |-> E[p]]
  BY <1>5
<1>8. Picture(t) = E
  BY <1>4, <1>6, <1>7
<1> QED
  BY <1>1, <1>2, <1>8 DEF Erases, E, t

\* The order of the places on the screen is their order in memory.
LEMMA PlaceOrder ==
    ASSUME NEW r \in Rows, NEW c \in Columns, NEW q \in Rows, NEW e \in 0 .. Cols
    PROVE  (r < q \/ (r = q /\ c < e)) <=> Row(r) + c < Row(q) + e
<1>1. /\ r \in Int /\ q \in Int /\ c \in Int /\ e \in Int
      /\ 0 <= c /\ c < Cols /\ 0 <= e /\ e <= Cols /\ Row(r) \in Int /\ Row(q) \in Int
  BY RowType, ScreenAssumption DEF Rows, Columns
<1>2. CASE r < q
  <2>1. Row(r) + Cols <= Row(q)
    BY <1>1, <1>2, RowOrder
  <2> QED
    BY <1>1, <1>2, <2>1, ScreenAssumption
<1>3. CASE r = q
  BY <1>1, <1>3
<1>4. CASE q < r
  <2>1. Row(q) + Cols <= Row(r)
    BY <1>1, <1>4, RowOrder
  <2> QED
    BY <1>1, <1>4, <2>1, ScreenAssumption
<1> QED
  BY <1>1, <1>2, <1>3, <1>4

\* What may be erased with the cursor in column e of line q.
BeforeCursor(q, e) == {p \in Rows \X Columns : ScreenShown!Before(p, <<q, e>>)}
BehindCursor(q, e) == {p \in Rows \X Columns : ~ ScreenShown!Before(p, <<q, e>>)}
LineBefore(q, e) == {p \in Rows \X Columns : p[1] = q /\ p[2] < e}
LineBehind(q, e) == {p \in Rows \X Columns : p[1] = q /\ p[2] >= e}
WholeLine(q) == {p \in Rows \X Columns : p[1] = q}
Stretches(q, e) ==
    {Rows \X Columns, BeforeCursor(q, e), BehindCursor(q, e),
     LineBefore(q, e), LineBehind(q, e), WholeLine(q)}

\* Where the cells of the screen are, from the cursor.
LEMMA CellNumbers ==
    ASSUME NEW s, Good(s), NEW r \in Rows, NEW c \in Columns
    PROVE  /\ r \in Int /\ c \in Int /\ Row(r) \in Int /\ 0 <= c /\ c < Cols
           /\ 0 <= Row(r) /\ s.origin + Row(r) + c < s.end
           /\ s.end \in Int /\ Cols \in Int /\ 0 < Cols
           /\ (r < s.y \/ (r = s.y /\ c < s.x)) <=> Row(r) + c < Row(s.y) + s.x
           /\ r = s.y => Row(r) = Row(s.y)
           /\ r < s.y => Row(r) + Cols <= Row(s.y)
           /\ s.y < r => Row(s.y) + Cols <= Row(r)
<1>1. r \in Int /\ c \in Int /\ Row(r) \in Int /\ 0 <= c /\ c < Cols /\ Cols \in Int /\ 0 < Cols
  BY RowType, ScreenAssumption DEF Rows, Columns
<1>2. s.x \in 0 .. Cols /\ s.y \in Rows /\ s.y \in Int
  BY CursorTypes
<1>3. r < s.y \/ (r = s.y /\ c < s.x) <=> Row(r) + c < Row(s.y) + s.x
  BY <1>2, PlaceOrder
<1>4. r < s.y => Row(r) + Cols <= Row(s.y)
  BY <1>1, <1>2, RowOrder
<1>5. s.y < r => Row(s.y) + Cols <= Row(r)
  BY <1>1, <1>2, RowOrder
<1>6. s.end \in Int
  BY DEF Good, Displays
<1> QED
  BY <1>1, <1>3, <1>4, <1>5, <1>6, CellPlace

\* csi_J(): from the cursor, to the cursor, or all.
LEMMA JErases ==
    ASSUME NEW s, Good(s), NEW p
    PROVE  csi_J(s, p) = s \/ \E S \in Stretches(s.y, s.x) : Erases(s, csi_J(s, p), S)
<1>1. /\ s.pos \in Int /\ s.origin \in Int /\ s.end \in Int /\ s.end - s.pos \in Int
      /\ s.pos - s.origin \in Int /\ Row(Lines) \in Int /\ s.end = s.origin + Row(Lines)
      /\ s.pos = s.origin + Row(s.y) + s.x /\ Row(s.y) \in Int /\ s.x \in Int
  BY CursorTypes, RowType, ScreenAssumption DEF Good, Inside, Displays
<1>2. CASE p = 0
  <2>1. ASSUME NEW r \in Rows, NEW c \in Columns
        PROVE  <<r, c>> \in BehindCursor(s.y, s.x) <=> InStretch(s, s.pos, s.end - s.pos, r, c)
    <3>1. <<r, c>> \in BehindCursor(s.y, s.x) <=> ~ (r < s.y \/ (r = s.y /\ c < s.x))
      BY DEF BehindCursor, ScreenShown!Before
    <3> QED
      BY <1>1, <3>1, CellNumbers DEF InStretch
  <2>2. Erases(s, Fill(s, s.pos, s.end - s.pos), BehindCursor(s.y, s.x))
    BY <1>1, <2>1, FillErases, ScreenFits
  <2> QED
    BY <1>2, <2>2 DEF csi_J, Stretches
<1>3. CASE p = 1
  <2>1. ASSUME NEW r \in Rows, NEW c \in Columns
        PROVE  <<r, c>> \in BeforeCursor(s.y, s.x)
                 <=> InStretch(s, s.origin, s.pos - s.origin, r, c)
    <3>1. <<r, c>> \in BeforeCursor(s.y, s.x) <=> r < s.y \/ (r = s.y /\ c < s.x)
      BY DEF BeforeCursor, ScreenShown!Before
    <3> QED
      BY <1>1, <3>1, CellNumbers DEF InStretch
  <2>2. Erases(s, Fill(s, s.origin, s.pos - s.origin), BeforeCursor(s.y, s.x))
    BY <1>1, <2>1, FillErases, ScreenFits
  <2> QED
    BY <1>3, <2>2 DEF csi_J, Stretches
<1>4. CASE p = 2
  <2>1. ASSUME NEW r \in Rows, NEW c \in Columns
        PROVE  <<r, c>> \in Rows \X Columns <=> InStretch(s, s.origin, Row(Lines), r, c)
    BY <1>1, CellNumbers DEF InStretch
  <2>2. Erases(s, Fill(s, s.origin, Row(Lines)), Rows \X Columns)
    BY <1>1, <2>1, FillErases, ScreenFits
  <2> QED
    BY <1>4, <2>2 DEF csi_J, Stretches
<1>5. CASE p \notin {0, 1, 2}
  BY <1>5 DEF csi_J
<1> QED
  BY <1>2, <1>3, <1>4, <1>5

\* csi_K(): the same in the line of the cursor.
LEMMA KErases ==
    ASSUME NEW s, Good(s), NEW p
    PROVE  csi_K(s, p) = s \/ \E S \in Stretches(s.y, s.x) : Erases(s, csi_K(s, p), S)
<1>1. /\ s.pos \in Int /\ s.origin \in Int /\ Cols \in Int /\ 0 < Cols
      /\ s.pos = s.origin + Row(s.y) + s.x /\ Row(s.y) \in Int /\ s.x \in Int
      /\ 0 <= s.x /\ s.x <= Cols /\ s.y \in Int
      /\ Cols - s.x \in Int /\ s.pos - s.x \in Int
  BY CursorTypes, ScreenAssumption
<1>2. CASE p = 0 /\ s.x >= Cols
  BY <1>2 DEF csi_K
<1>3. CASE p = 0 /\ ~ (s.x >= Cols)
  <2>1. ASSUME NEW r \in Rows, NEW c \in Columns
        PROVE  <<r, c>> \in LineBehind(s.y, s.x) <=> InStretch(s, s.pos, Cols - s.x, r, c)
    <3>1. <<r, c>> \in LineBehind(s.y, s.x) <=> r = s.y /\ c >= s.x
      BY DEF LineBehind
    <3> QED
      BY <1>1, <3>1, CellNumbers DEF InStretch
  <2>2. Erases(s, Fill(s, s.pos, Cols - s.x), LineBehind(s.y, s.x))
    BY <1>1, <2>1, FillErases, ScreenFits
  <2> QED
    BY <1>3, <2>2 DEF csi_K, Stretches
<1>4. CASE p = 1
  <2>0. Min2(s.x, Cols) = s.x
    BY <1>1 DEF Min2
  <2>1. ASSUME NEW r \in Rows, NEW c \in Columns
        PROVE  <<r, c>> \in LineBefore(s.y, s.x) <=> InStretch(s, s.pos - s.x, s.x, r, c)
    <3>1. <<r, c>> \in LineBefore(s.y, s.x) <=> r = s.y /\ c < s.x
      BY DEF LineBefore
    <3> QED
      BY <1>1, <3>1, CellNumbers DEF InStretch
  <2>2. Erases(s, Fill(s, s.pos - s.x, s.x), LineBefore(s.y, s.x))
    BY <1>1, <2>1, FillErases, ScreenFits
  <2> QED
    BY <1>4, <2>0, <2>2 DEF csi_K, Stretches
<1>5. CASE p = 2
  <2>1. ASSUME NEW r \in Rows, NEW c \in Columns
        PROVE  <<r, c>> \in WholeLine(s.y) <=> InStretch(s, s.pos - s.x, Cols, r, c)
    <3>1. <<r, c>> \in WholeLine(s.y) <=> r = s.y
      BY DEF WholeLine
    <3> QED
      BY <1>1, <3>1, CellNumbers DEF InStretch
  <2>2. Erases(s, Fill(s, s.pos - s.x, Cols), WholeLine(s.y))
    BY <1>1, <2>1, FillErases, ScreenFits
  <2> QED
    BY <1>5, <2>2 DEF csi_K, Stretches
<1>6. CASE p \notin {0, 1, 2}
  BY <1>6 DEF csi_K
<1> QED
  BY <1>2, <1>3, <1>4, <1>5, <1>6

\* del(): the character before the cursor.
LEMMA DelDoes ==
    ASSUME NEW s, Good(s), s.x # 0
    PROVE  /\ Good(del(s)) /\ del(s).top = s.top /\ del(s).bottom = s.bottom
           /\ del(s).x = s.x - 1 /\ del(s).y = s.y
           /\ Picture(del(s)) = ScreenShown!Erased(Picture(s), {<<s.y, s.x - 1>>})
<1> DEFINE b == BackSpace(s)
<1>1. MovesTo(s, b, s.x - 1, s.y)
  BY BackSpaceDoes
<1>2. del(s) = Fill(b, s.pos - 1, 1)
  BY DEF del
<1> HIDE DEF b
<1>3. Good(b) /\ b.x = s.x - 1 /\ b.y = s.y
  BY <1>1 DEF MovesTo
<1>4. /\ s.x \in Int /\ 0 <= s.x /\ s.x <= Cols /\ Cols \in Int /\ s.pos \in Int
      /\ s.x - 1 \in Columns /\ s.y \in Rows /\ s.y \in Int
  BY CursorTypes, ScreenAssumption DEF Columns
<1>5. b.pos = b.origin + Row(b.y) + b.x /\ b.origin \in Int /\ b.pos \in Int
      /\ Row(b.y) \in Int
  BY <1>3, CursorTypes
<1>6. b.pos = s.pos - 1
  BY CursorTypes, <1>4 DEF BackSpace, b, Good, Displays
<1>7. ASSUME NEW r \in Rows, NEW c \in Columns
      PROVE  <<r, c>> \in {<<s.y, s.x - 1>>} <=> InStretch(b, s.pos - 1, 1, r, c)
  <2>1. Row(r) \in Int /\ c \in Int
    BY RowType, ScreenAssumption DEF Rows, Columns
  <2>2. InStretch(b, s.pos - 1, 1, r, c) <=> Row(r) + c = Row(s.y) + (s.x - 1)
    BY <1>3, <1>4, <1>5, <1>6, <2>1 DEF InStretch
  <2>3. Row(r) + c = Row(s.y) + (s.x - 1) <=> r = s.y /\ c = s.x - 1
    BY <1>4, PlaceInjective
  <2> QED
    BY <2>2, <2>3
<1>8. Erases(b, Fill(b, s.pos - 1, 1), {<<s.y, s.x - 1>>})
  <2>1. s.pos - 1 \in Int /\ 0 <= s.pos - 1 /\ s.pos - 1 + 1 <= Memory
    BY <1>4, ScreenFits
  <2> QED
    BY <1>3, <1>7, <2>1, FillErases
<1> QED
  BY <1>1, <1>2, <1>8 DEF MovesTo, Erases, SamePlace

-----------------------------------------------------------------------------
(* Inserting and deleting, some number of times.                            *)

\* Cells that move in a line, from a column to its end.
CellsMove(s, t, n, at, from) ==
    \A r \in Rows, c \in Columns :
        Cell(t, r, c) = IF r # at \/ c < from THEN Cell(s, r, c)
                        ELSE IF from <= c + n /\ c + n < Cols THEN Cell(s, r, c + n)
                        ELSE Blank

\* The picture of cells that move.
LEMMA PictureShifted ==
    ASSUME NEW s, NEW t, NEW n \in Int, NEW at \in Rows, NEW from \in Nat,
           CellsMove(s, t, n, at, from)
    PROVE  Picture(t) = ScreenShown!Shifted(Picture(s), n, at, from)
<1> DEFINE M == ScreenShown!Shifted(Picture(s), n, at, from)
<1>1. ASSUME NEW r \in Rows, NEW c \in Columns
      PROVE  Picture(t)[<<r, c>>] = M[<<r, c>>]
  <2>1. c \in Int /\ (from <= c + n /\ c + n < Cols => c + n \in Columns)
    BY ScreenAssumption DEF Columns
  <2> QED
    BY <2>1, PictureIs DEF CellsMove, ScreenShown!Shifted, ScreenShown!Places, Rows, Columns
<1>2. M = [p \in Rows \X Columns |-> M[p]]
  BY DEF ScreenShown!Shifted, ScreenShown!Places, Rows, Columns
<1>3. ASSUME NEW p \in Rows \X Columns
      PROVE  Picture(t)[p] = M[p]
  <2> PICK r \in Rows, c \in Columns : p = <<r, c>>
    OBVIOUS
  <2> QED
    BY <1>1
<1>4. Picture(t) = [p \in Rows \X Columns |-> Picture(t)[p]]
  BY PictureIs
<1> HIDE DEF M
<1>5. [p \in Rows \X Columns |-> Picture(t)[p]] = [p \in Rows \X Columns |-> M[p]]
  BY <1>3
<1>6. Picture(t) = M
  BY <1>2, <1>4, <1>5
<1> QED
  BY <1>6 DEF M

\* The cursor, and the region, stay.
Stays(s, t) == t.x = s.x /\ t.y = s.y /\ t.top = s.top /\ t.bottom = s.bottom

\* The lines below the cursor move by n; the region is as it was.
BelowMoves(s, t, n) == Good(t) /\ Stays(s, t) /\ LinesMove(s, t, n, s.y, Lines)

\* The region while lines are inserted or deleted.
Whole(s) == [s EXCEPT !.top = s.y, !.bottom = Lines]

\* The region after that.
Again(s, u) == [u EXCEPT !.top = s.top, !.bottom = s.bottom]

\* It is a region of the same picture.
LEMMA WholeIs ==
    ASSUME NEW s, Good(s)
    PROVE  /\ Good(Whole(s)) /\ Whole(s).x = s.x /\ Whole(s).y = s.y
           /\ Whole(s).top = s.y /\ Whole(s).bottom = Lines
           /\ Whole(s).mem = s.mem /\ Whole(s).origin = s.origin
<1>1. s.y \in Int /\ Lines \in Int /\ 0 <= s.y /\ s.y < Lines /\ s \in Displays
  BY CursorTypes, ScreenAssumption DEF Good, Rows
<1>2. /\ Whole(s) \in Displays /\ Whole(s).x = s.x /\ Whole(s).y = s.y
      /\ Whole(s).top = s.y /\ Whole(s).bottom = Lines
      /\ Whole(s).mem = s.mem /\ Whole(s).origin = s.origin
      /\ Whole(s).end = s.end /\ Whole(s).pos = s.pos /\ Whole(s).out = s.out
  BY <1>1 DEF Whole, Displays
<1> QED
  BY <1>1, <1>2 DEF Good, Inside

\* A scroll of that region moves the lines below the cursor.
LEMMA BelowScrolls ==
    ASSUME NEW s, Good(s), NEW u, NEW n \in Int, Scrolls(Whole(s), u, n)
    PROVE  BelowMoves(s, Again(s, u), n)
<1> DEFINE t == Again(s, u)
<1>1. Good(u) /\ u.x = s.x /\ u.y = s.y /\ LinesMove(Whole(s), u, n, s.y, Lines)
  BY WholeIs DEF Scrolls
<1>2. s.top \in Int /\ s.bottom \in Int /\ 0 <= s.top /\ s.top < s.bottom /\ s.bottom <= Lines
  BY CursorTypes
<1>3. /\ t \in Displays /\ t.mem = u.mem /\ t.origin = u.origin /\ t.end = u.end
      /\ t.pos = u.pos /\ t.x = u.x /\ t.y = u.y /\ t.top = s.top /\ t.bottom = s.bottom
      /\ t.out = u.out
  BY <1>1, <1>2 DEF Good, Displays, Again
<1> HIDE DEF t
<1>4. Good(t)
  BY <1>1, <1>2, <1>3 DEF Good, Inside
<1>5. \A r, c : Cell(t, r, c) = Cell(u, r, c) /\ Cell(s, r, c) = Cell(Whole(s), r, c)
  BY <1>3, WholeIs DEF Cell
<1>6. LinesMove(s, t, n, s.y, Lines)
  BY <1>1, <1>5 DEF LinesMove
<1> QED
  BY <1>1, <1>3, <1>4, <1>6 DEF BelowMoves, Stays, t

\* insert_line() and delete_line().
LEMMA LineOperations ==
    ASSUME NEW s, Good(s)
    PROVE  BelowMoves(s, insert_line(s), -1) /\ BelowMoves(s, delete_line(s), 1)
<1>1. BelowMoves(s, insert_line(s), -1)
  <2>1. Scrolls(Whole(s), scrdown(Whole(s)), -1)
    BY WholeIs, ScrdownScrolls
  <2>2. insert_line(s) = Again(s, scrdown(Whole(s)))
    BY DEF insert_line, Below, Whole, Again
  <2> QED
    BY <2>1, <2>2, BelowScrolls
<1>2. BelowMoves(s, delete_line(s), 1)
  <2>1. Scrolls(Whole(s), scrup(Whole(s)), 1)
    BY WholeIs, ScrupScrolls
  <2>2. delete_line(s) = Again(s, scrup(Whole(s)))
    BY DEF delete_line, Below, Whole, Again
  <2> QED
    BY <2>1, <2>2, BelowScrolls
<1> QED
  BY <1>1, <1>2

\* The cells behind the cursor move by n.
RestMoves(s, t, n) == Good(t) /\ Stays(s, t) /\ CellsMove(s, t, n, s.y, s.x)

\* Cells of the line of the cursor, in memory.
LEMMA LinePlaces ==
    ASSUME NEW s, Good(s), NEW r \in Rows, NEW c \in Columns
    PROVE  /\ s.origin + Row(r) + c \in Slots
           /\ r = s.y => s.origin + Row(r) + c = s.pos - s.x + c
           /\ r < s.y => s.origin + Row(r) + c < s.pos - s.x
           /\ s.y < r => s.pos - s.x + Cols <= s.origin + Row(r) + c
           /\ 0 <= s.pos - s.x /\ s.pos - s.x + Cols <= Memory
<1>1. s.origin \in Int /\ Row(s.y) \in Int /\ s.x \in Int /\ s.pos - s.x = s.origin + Row(s.y)
  BY CursorTypes, ScreenAssumption
<1>2. /\ r \in Int /\ c \in Int /\ Row(r) \in Int /\ 0 <= c /\ c < Cols /\ Cols \in Int
      /\ r = s.y => Row(r) = Row(s.y)
      /\ r < s.y => Row(r) + Cols <= Row(s.y)
      /\ s.y < r => Row(s.y) + Cols <= Row(r)
  BY CellNumbers
<1>3. s.y \in Rows /\ 0 \in Columns /\ Cols - 1 \in Columns
  BY CursorTypes, ScreenAssumption DEF Columns
<1>4. s.origin + Row(s.y) + 0 \in Slots /\ s.origin + Row(s.y) + (Cols - 1) \in Slots
  BY <1>3, CellPlace
<1> QED
  BY <1>1, <1>2, <1>4, CellPlace, ScreenAssumption DEF Slots

\* insert_char().
LEMMA InsertMoves ==
    ASSUME NEW s, Good(s)
    PROVE  RestMoves(s, insert_char(s), -1)
<1>0. /\ s.pos \in Int /\ s.x \in Int /\ Cols \in Int /\ 0 < Cols /\ 0 <= s.x /\ s.x <= Cols
      /\ s \in Displays /\ s.y \in Rows
      /\ 0 <= s.pos - s.x /\ s.pos - s.x + Cols <= Memory /\ Memory \in Int
  <2>1. 0 \in Columns /\ s.y \in Rows
    BY CursorTypes, ScreenAssumption DEF Columns
  <2>2. 0 <= s.pos - s.x /\ s.pos - s.x + Cols <= Memory
    BY <2>1, LinePlaces
  <2> QED
    BY <2>1, <2>2, CursorTypes, ScreenAssumption DEF Good
<1>1. CASE s.x >= Cols
  <2>1. insert_char(s) = s
    BY <1>1 DEF insert_char
  <2>2. \A c \in Columns : c < s.x
    BY <1>0, <1>1 DEF Columns
  <2> QED
    BY <2>1, <2>2 DEF RestMoves, Stays, CellsMove
<1>2. CASE ~ (s.x >= Cols)
  <2> DEFINE u == Copy(s, s.pos + 1, s.pos, Cols - s.x - 1)
             t == Fill(u, s.pos, 1)
  <2>1. insert_char(s) = t
    BY <1>2 DEF insert_char
  <2>2. /\ u \in Displays /\ SamePlace(s, u)
        /\ \A i \in Slots : u.mem[i] =
             IF s.pos + 1 <= i /\ i < s.pos + 1 + (Cols - s.x - 1)
             THEN s.mem[i - (s.pos + 1) + s.pos] ELSE s.mem[i]
    <3>1. s.pos + 1 \in Int /\ Cols - s.x - 1 \in Int /\ 0 <= s.pos /\ 0 <= s.pos + 1
          /\ s.pos + (Cols - s.x - 1) <= Memory /\ s.pos + 1 + (Cols - s.x - 1) <= Memory
          /\ 0 <= Cols - s.x - 1
      BY <1>0, <1>2
    <3> QED
      BY <1>0, <3>1, CopyIs
  <2> HIDE DEF u
  <2>3. /\ t \in Displays /\ SamePlace(u, t)
        /\ \A i \in Slots : t.mem[i] =
             IF s.pos <= i /\ i < s.pos + 1 THEN Blank ELSE u.mem[i]
    <3>1. 1 \in Int /\ s.pos \in Int /\ u \in Displays /\ 0 <= s.pos /\ s.pos + 1 <= Memory
      BY <1>0, <1>2, <2>2
    <3> QED
      BY <3>1, FillIs
  <2> HIDE DEF t
  <2>4. SamePlace(s, t) /\ Good(t)
    BY <2>2, <2>3, GoodSame DEF SamePlace
  <2>5. CellsMove(s, t, -1, s.y, s.x)
    <3> SUFFICES ASSUME NEW r \in Rows, NEW c \in Columns
                 PROVE  Cell(t, r, c) = IF r # s.y \/ c < s.x THEN Cell(s, r, c)
                          ELSE IF s.x <= c + (-1) /\ c + (-1) < Cols
                               THEN Cell(s, r, c + (-1))
                          ELSE Blank
      BY DEF CellsMove
    <3> DEFINE i == s.origin + Row(r) + c
    <3>1. /\ i \in Slots /\ r \in Int /\ c \in Int /\ 0 <= c /\ c < Cols /\ s.y \in Int
          /\ r = s.y => i = s.pos - s.x + c
          /\ r < s.y => i < s.pos - s.x
          /\ s.y < r => s.pos - s.x + Cols <= i
          /\ Row(r) \in Int /\ s.origin \in Int
      BY LinePlaces, CellNumbers, CursorTypes
    <3>2. Cell(t, r, c) = t.mem[i] /\ Cell(s, r, c) = s.mem[i]
      BY <2>4 DEF Cell, SamePlace
    <3>3. i - (s.pos + 1) + s.pos = s.origin + Row(r) + (c + (-1))
      BY <1>0, <3>1
    <3>4. Cell(s, r, c + (-1)) = s.mem[i - (s.pos + 1) + s.pos]
      BY <3>3 DEF Cell
    <3> HIDE DEF i
    <3>5. CASE r # s.y \/ c < s.x
      <4>1. i \in Int /\ (i < s.pos \/ s.pos + 1 + (Cols - s.x - 1) <= i)
        <5>1. i \in Int /\ (r < s.y \/ s.y < r \/ (r = s.y /\ c < s.x))
          BY <3>1, <3>5 DEF Slots
        <5> QED
          BY <1>0, <3>1, <5>1
      <4>2. u.mem[i] = s.mem[i] /\ t.mem[i] = u.mem[i]
        BY <1>0, <1>2, <2>2, <2>3, <3>1, <4>1
      <4> QED
        BY <3>2, <3>5, <4>2
    <3>6. CASE r = s.y /\ c = s.x
      <4>1. t.mem[i] = Blank
        BY <1>0, <2>3, <3>1, <3>6 DEF Slots
      <4> QED
        BY <1>0, <3>1, <3>2, <3>6, <4>1
    <3>7. CASE r = s.y /\ c > s.x
      <4>1. t.mem[i] = s.mem[i - (s.pos + 1) + s.pos]
        BY <1>0, <2>2, <2>3, <3>1, <3>7 DEF Slots
      <4> QED
        BY <1>0, <3>1, <3>2, <3>4, <3>7, <4>1
    <3> QED
      BY <1>0, <3>1, <3>5, <3>6, <3>7
  <2> QED
    BY <2>1, <2>4, <2>5 DEF RestMoves, Stays, SamePlace
<1> QED
  BY <1>1, <1>2

\* delete_char().
LEMMA DeleteMoves ==
    ASSUME NEW s, Good(s)
    PROVE  RestMoves(s, delete_char(s), 1)
<1>0. /\ s.pos \in Int /\ s.x \in Int /\ Cols \in Int /\ 0 < Cols /\ 0 <= s.x /\ s.x <= Cols
      /\ s \in Displays /\ s.y \in Rows
      /\ 0 <= s.pos - s.x /\ s.pos - s.x + Cols <= Memory /\ Memory \in Int
  <2>1. 0 \in Columns /\ s.y \in Rows
    BY CursorTypes, ScreenAssumption DEF Columns
  <2>2. 0 <= s.pos - s.x /\ s.pos - s.x + Cols <= Memory
    BY <2>1, LinePlaces
  <2> QED
    BY <2>1, <2>2, CursorTypes, ScreenAssumption DEF Good
<1>1. CASE s.x >= Cols
  <2>1. delete_char(s) = s
    BY <1>1 DEF delete_char
  <2>2. \A c \in Columns : c < s.x
    BY <1>0, <1>1 DEF Columns
  <2> QED
    BY <2>1, <2>2 DEF RestMoves, Stays, CellsMove
<1>2. CASE ~ (s.x >= Cols)
  <2> DEFINE u == Copy(s, s.pos, s.pos + 1, Cols - s.x - 1)
             e == s.pos + Cols - s.x - 1
             t == Fill(u, e, 1)
  <2>1. delete_char(s) = t
    BY <1>2 DEF delete_char
  <2>2. /\ u \in Displays /\ SamePlace(s, u)
        /\ \A i \in Slots : u.mem[i] =
             IF s.pos <= i /\ i < s.pos + (Cols - s.x - 1)
             THEN s.mem[i - s.pos + (s.pos + 1)] ELSE s.mem[i]
    <3>1. s.pos + 1 \in Int /\ Cols - s.x - 1 \in Int /\ 0 <= s.pos + 1
          /\ s.pos + 1 + (Cols - s.x - 1) <= Memory /\ s.pos + (Cols - s.x - 1) <= Memory
          /\ 0 <= s.pos /\ 0 <= Cols - s.x - 1
      BY <1>0, <1>2
    <3> QED
      BY <1>0, <3>1, CopyIs
  <2>e. e \in Int /\ e = s.pos + (Cols - s.x - 1)
    BY <1>0
  <2> HIDE DEF u, e
  <2>3. /\ t \in Displays /\ SamePlace(u, t)
        /\ \A i \in Slots : t.mem[i] =
             IF e <= i /\ i < e + 1 THEN Blank ELSE u.mem[i]
    <3>1. 1 \in Int /\ e \in Int /\ u \in Displays /\ 0 <= e /\ e + 1 <= Memory
      BY <1>0, <1>2, <2>e, <2>2
    <3> QED
      BY <3>1, FillIs
  <2> HIDE DEF t
  <2>4. SamePlace(s, t) /\ Good(t)
    BY <2>2, <2>3, GoodSame DEF SamePlace
  <2>5. CellsMove(s, t, 1, s.y, s.x)
    <3> SUFFICES ASSUME NEW r \in Rows, NEW c \in Columns
                 PROVE  Cell(t, r, c) = IF r # s.y \/ c < s.x THEN Cell(s, r, c)
                          ELSE IF s.x <= c + 1 /\ c + 1 < Cols THEN Cell(s, r, c + 1)
                          ELSE Blank
      BY DEF CellsMove
    <3> DEFINE i == s.origin + Row(r) + c
    <3>1. /\ i \in Slots /\ r \in Int /\ c \in Int /\ 0 <= c /\ c < Cols /\ s.y \in Int
          /\ r = s.y => i = s.pos - s.x + c
          /\ r < s.y => i < s.pos - s.x
          /\ s.y < r => s.pos - s.x + Cols <= i
          /\ Row(r) \in Int /\ s.origin \in Int
      BY LinePlaces, CellNumbers, CursorTypes
    <3>2. Cell(t, r, c) = t.mem[i] /\ Cell(s, r, c) = s.mem[i]
      BY <2>4 DEF Cell, SamePlace
    <3>3. i - s.pos + (s.pos + 1) = s.origin + Row(r) + (c + 1)
      <4>1. s.pos \in Int /\ s.origin \in Int /\ Row(r) \in Int /\ c \in Int
        BY <1>0, <3>1
      <4>2. \A a, b, k, p \in Int : a + b + k - p + (p + 1) = a + b + (k + 1)
        OBVIOUS
      <4>3. i - s.pos = s.origin + Row(r) + c - s.pos
        BY <4>1
      <4> QED
        BY <4>1, <4>2, <4>3
    <3>4. Cell(s, r, c + 1) = s.mem[i - s.pos + (s.pos + 1)]
      BY <3>3 DEF Cell
    <3> HIDE DEF i
    <3>5. CASE r # s.y \/ c < s.x
      <4>1. i \in Int /\ (i < s.pos \/ s.pos + (Cols - s.x) <= i)
        <5>1. i \in Int /\ (r < s.y \/ s.y < r \/ (r = s.y /\ c < s.x))
          BY <3>1, <3>5 DEF Slots
        <5> QED
          BY <1>0, <3>1, <5>1
      <4>2. u.mem[i] = s.mem[i] /\ t.mem[i] = u.mem[i]
        BY <1>0, <1>2, <2>e, <2>2, <2>3, <3>1, <4>1
      <4> QED
        BY <3>2, <3>5, <4>2
    <3>6. CASE r = s.y /\ c >= s.x /\ c + 1 < Cols
      <4>1. t.mem[i] = s.mem[i - s.pos + (s.pos + 1)]
        BY <1>0, <2>e, <2>2, <2>3, <3>1, <3>6
      <4> QED
        BY <1>0, <3>1, <3>2, <3>4, <3>6, <4>1
    <3>7. CASE r = s.y /\ c >= s.x /\ ~ (c + 1 < Cols)
      <4>1. t.mem[i] = Blank
        BY <1>0, <2>e, <2>3, <3>1, <3>7
      <4> QED
        BY <1>0, <3>1, <3>2, <3>7, <4>1
    <3> QED
      BY <1>0, <3>1, <3>5, <3>6, <3>7
  <2> QED
    BY <2>1, <2>4, <2>5 DEF RestMoves, Stays, SamePlace
<1> QED
  BY <1>1, <1>2

\* A set with zero and with each successor has every number.
LEMMA Counting ==
    ASSUME NEW S, 0 \in S, \A k \in Nat : k \in S => k + 1 \in S
    PROVE  Nat \subseteq S
<1> DEFINE Less == OpToRel(<, Nat)
           T == Nat \ S
<1>1. ASSUME NEW i \in Nat, NEW j \in Nat, i < j
      PROVE  <<i, j>> \in Less
  BY <1>1 DEF OpToRel
<1>2. IsWellFoundedOn(Less, Nat)
  BY NatLessThanWellFounded
<1> HIDE DEF Less
<1>3. ASSUME T # {}
      PROVE  FALSE
  <2>1. T \subseteq Nat
    OBVIOUS
  <2> HIDE DEF T
  <2>2. PICK x \in T : \A y \in T : ~ (<<y, x>> \in Less)
    BY <1>2, <1>3, <2>1, WFMin
  <2> USE DEF T
  <2>3. x \in Nat /\ x \notin S /\ x # 0
    OBVIOUS
  <2>4. x - 1 \in Nat /\ x - 1 < x /\ x - 1 + 1 = x
    BY <2>3
  <2>5. x - 1 \in S
    BY <1>1, <2>2, <2>3, <2>4
  <2> QED
    BY <2>3, <2>4, <2>5
<1> QED
  BY <1>3

\* The displays after 0, 1, .. n repetitions.
AreRepeated(c, s, n, after) ==
    after = [k \in 0 .. n |-> IF k = 0 THEN s ELSE Once(c, after[k - 1])]

\* They exist, however many.
LEMMA RepeatedExist ==
    ASSUME NEW c, NEW s
    PROVE  \A n \in Nat : \E after : AreRepeated(c, s, n, after)
<1> DEFINE S == {n \in Nat : \E after : AreRepeated(c, s, n, after)}
<1>1. 0 \in S
  <2>1. AreRepeated(c, s, 0, [k \in 0 .. 0 |-> s])
    BY DEF AreRepeated
  <2> QED
    BY <2>1
<1>2. ASSUME NEW n \in Nat, n \in S
      PROVE  n + 1 \in S
  <2>1. PICK before : AreRepeated(c, s, n, before)
    BY <1>2
  <2> DEFINE after == [k \in 0 .. n + 1 |->
                         IF k = n + 1 THEN Once(c, before[n]) ELSE before[k]]
  <2>2. ASSUME NEW k \in 0 .. n + 1
        PROVE  after[k] = IF k = 0 THEN s ELSE Once(c, after[k - 1])
    <3>1. CASE k = 0
      BY <2>1, <3>1 DEF AreRepeated
    <3>2. CASE k # 0 /\ k # n + 1
      <4>1. k \in 0 .. n /\ k - 1 \in 0 .. n + 1 /\ k - 1 # n + 1
        BY <3>2
      <4>2. before[k] = Once(c, before[k - 1])
        BY <2>1, <3>2, <4>1 DEF AreRepeated
      <4> QED
        BY <3>2, <4>1, <4>2
    <3>3. CASE k = n + 1
      <4>1. k # 0 /\ k - 1 = n /\ n \in 0 .. n + 1 /\ n # n + 1
        BY <3>3
      <4> QED
        BY <3>3, <4>1
    <3> QED
      BY <3>1, <3>2, <3>3
  <2>3. after = [k \in 0 .. n + 1 |-> after[k]]
    OBVIOUS
  <2> HIDE DEF after
  <2>4. AreRepeated(c, s, n + 1, after)
    BY <2>2, <2>3 DEF AreRepeated
  <2> QED
    BY <2>4
<1>3. Nat \subseteq S
  <2> HIDE DEF S
  <2> QED
    BY <1>1, <1>2, Counting
<1> QED
  BY <1>3

\* What Repeated() is the last of.
LEMMA RepeatedIs ==
    ASSUME NEW c, NEW s, NEW n \in Nat
    PROVE  \E after : /\ after[0] = s /\ Repeated(c, s, n) = after[n]
                      /\ \A k \in Nat : k < n => after[k + 1] = Once(c, after[k])
<1>1. \E after : AreRepeated(c, s, n, after)
  BY RepeatedExist
<1>2. PICK after : AreRepeated(c, s, n, after) /\ Repeated(c, s, n) = after[n]
  BY <1>1 DEF Repeated, AreRepeated
<1>3. after[0] = s
  BY <1>2 DEF AreRepeated
<1>4. ASSUME NEW k \in Nat, k < n
      PROVE  after[k + 1] = Once(c, after[k])
  <2>1. k + 1 \in 0 .. n /\ k + 1 # 0 /\ (k + 1) - 1 = k
    BY <1>4
  <2> QED
    BY <1>2, <2>1 DEF AreRepeated
<1> QED
  BY <1>2, <1>3, <1>4

\* Lines that have moved by k move on.
LEMMA LinesMoveOn ==
    ASSUME NEW s, NEW t, NEW u, NEW k \in Nat, NEW from \in Nat
    PROVE  /\ LinesMove(s, t, k, from, Lines) /\ LinesMove(t, u, 1, from, Lines)
                => LinesMove(s, u, k + 1, from, Lines)
           /\ LinesMove(s, t, -k, from, Lines) /\ LinesMove(t, u, -1, from, Lines)
                => LinesMove(s, u, -(k + 1), from, Lines)
<1>1. ASSUME LinesMove(s, t, k, from, Lines), LinesMove(t, u, 1, from, Lines),
             NEW r \in Rows, NEW c \in Columns
      PROVE  Cell(u, r, c) = IF ~ (from <= r /\ r < Lines) THEN Cell(s, r, c)
                             ELSE IF from <= r + (k + 1) /\ r + (k + 1) < Lines
                                  THEN Cell(s, r + (k + 1), c)
                             ELSE Blank
  <2>1. r \in Int /\ 0 <= r /\ r < Lines /\ Lines \in Int /\ (r + 1) + k = r + (k + 1)
    BY ScreenAssumption DEF Rows
  <2>2. r + 1 < Lines => r + 1 \in Rows
    BY <2>1 DEF Rows
  <2>3. CASE r < from
    BY <1>1, <2>1, <2>3 DEF LinesMove
  <2>4. CASE from <= r /\ ~ (r + 1 < Lines)
    <3>1. Cell(u, r, c) = Blank
      BY <1>1, <2>1, <2>4 DEF LinesMove
    <3> QED
      BY <2>1, <2>4, <3>1
  <2>5. CASE from <= r /\ r + 1 < Lines
    <3>1. Cell(u, r, c) = Cell(t, r + 1, c)
      BY <1>1, <2>1, <2>5 DEF LinesMove
    <3>2. Cell(t, r + 1, c) = IF from <= (r + 1) + k /\ (r + 1) + k < Lines
                              THEN Cell(s, (r + 1) + k, c) ELSE Blank
      BY <1>1, <2>1, <2>2, <2>5 DEF LinesMove
    <3> QED
      BY <2>1, <2>5, <3>1, <3>2
  <2> QED
    BY <2>1, <2>3, <2>4, <2>5
<1>2. ASSUME LinesMove(s, t, -k, from, Lines), LinesMove(t, u, -1, from, Lines),
             NEW r \in Rows, NEW c \in Columns
      PROVE  Cell(u, r, c) = IF ~ (from <= r /\ r < Lines) THEN Cell(s, r, c)
                             ELSE IF from <= r + (-(k + 1)) /\ r + (-(k + 1)) < Lines
                                  THEN Cell(s, r + (-(k + 1)), c)
                             ELSE Blank
  <2>1. /\ r \in Int /\ 0 <= r /\ r < Lines /\ Lines \in Int
        /\ (r + (-1)) + (-k) = r + (-(k + 1)) /\ r + (-1) \in Int
    BY ScreenAssumption DEF Rows
  <2>2. 0 <= r + (-1) => r + (-1) \in Rows
    BY <2>1 DEF Rows
  <2>3. CASE r < from
    BY <1>2, <2>1, <2>3 DEF LinesMove
  <2>4. CASE from = r
    <3>1. Cell(u, r, c) = Blank
      BY <1>2, <2>1, <2>4 DEF LinesMove
    <3> QED
      BY <2>1, <2>4, <3>1
  <2>5. CASE from < r
    <3>1. Cell(u, r, c) = Cell(t, r + (-1), c)
      BY <1>2, <2>1, <2>5 DEF LinesMove
    <3>2. Cell(t, r + (-1), c) = IF from <= (r + (-1)) + (-k) /\ (r + (-1)) + (-k) < Lines
                                 THEN Cell(s, (r + (-1)) + (-k), c) ELSE Blank
      BY <1>2, <2>1, <2>2, <2>5 DEF LinesMove
    <3> QED
      BY <2>1, <2>5, <3>1, <3>2
  <2> QED
    BY <2>1, <2>3, <2>4, <2>5
<1> QED
  BY <1>1, <1>2 DEF LinesMove

\* Cells that have moved by k move on.
LEMMA CellsMoveOn ==
    ASSUME NEW s, NEW t, NEW u, NEW k \in Nat, NEW at, NEW from \in Nat
    PROVE  /\ CellsMove(s, t, k, at, from) /\ CellsMove(t, u, 1, at, from)
                => CellsMove(s, u, k + 1, at, from)
           /\ CellsMove(s, t, -k, at, from) /\ CellsMove(t, u, -1, at, from)
                => CellsMove(s, u, -(k + 1), at, from)
<1>1. ASSUME CellsMove(s, t, k, at, from), CellsMove(t, u, 1, at, from),
             NEW r \in Rows, NEW c \in Columns
      PROVE  Cell(u, r, c) = IF r # at \/ c < from THEN Cell(s, r, c)
                             ELSE IF from <= c + (k + 1) /\ c + (k + 1) < Cols
                                  THEN Cell(s, r, c + (k + 1))
                             ELSE Blank
  <2>1. c \in Int /\ 0 <= c /\ c < Cols /\ Cols \in Int /\ (c + 1) + k = c + (k + 1)
    BY ScreenAssumption DEF Columns
  <2>2. c + 1 < Cols => c + 1 \in Columns
    BY <2>1 DEF Columns
  <2>3. CASE r # at \/ c < from
    BY <1>1, <2>3 DEF CellsMove
  <2>4. CASE r = at /\ from <= c /\ ~ (c + 1 < Cols)
    <3>1. Cell(u, r, c) = Blank
      BY <1>1, <2>1, <2>4 DEF CellsMove
    <3> QED
      BY <2>1, <2>4, <3>1
  <2>5. CASE r = at /\ from <= c /\ c + 1 < Cols
    <3>1. Cell(u, r, c) = Cell(t, r, c + 1)
      BY <1>1, <2>1, <2>5 DEF CellsMove
    <3>2. Cell(t, r, c + 1) = IF from <= (c + 1) + k /\ (c + 1) + k < Cols
                              THEN Cell(s, r, (c + 1) + k) ELSE Blank
      BY <1>1, <2>1, <2>2, <2>5 DEF CellsMove
    <3> QED
      BY <2>1, <2>5, <3>1, <3>2
  <2> QED
    BY <2>1, <2>3, <2>4, <2>5
<1>2. ASSUME CellsMove(s, t, -k, at, from), CellsMove(t, u, -1, at, from),
             NEW r \in Rows, NEW c \in Columns
      PROVE  Cell(u, r, c) = IF r # at \/ c < from THEN Cell(s, r, c)
                             ELSE IF from <= c + (-(k + 1)) /\ c + (-(k + 1)) < Cols
                                  THEN Cell(s, r, c + (-(k + 1)))
                             ELSE Blank
  <2>1. /\ c \in Int /\ 0 <= c /\ c < Cols /\ Cols \in Int
        /\ (c + (-1)) + (-k) = c + (-(k + 1)) /\ c + (-1) \in Int
    BY ScreenAssumption DEF Columns
  <2>2. 0 <= c + (-1) => c + (-1) \in Columns
    BY <2>1 DEF Columns
  <2>3. CASE r # at \/ c < from
    BY <1>2, <2>3 DEF CellsMove
  <2>4. CASE r = at /\ c = from
    <3>1. Cell(u, r, c) = Blank
      BY <1>2, <2>1, <2>4 DEF CellsMove
    <3> QED
      BY <2>1, <2>4, <3>1
  <2>5. CASE r = at /\ from < c
    <3>1. Cell(u, r, c) = Cell(t, r, c + (-1))
      BY <1>2, <2>1, <2>5 DEF CellsMove
    <3>2. Cell(t, r, c + (-1)) = IF from <= (c + (-1)) + (-k) /\ (c + (-1)) + (-k) < Cols
                                 THEN Cell(s, r, (c + (-1)) + (-k)) ELSE Blank
      BY <1>2, <2>1, <2>2, <2>5 DEF CellsMove
    <3> QED
      BY <2>1, <2>5, <3>1, <3>2
  <2> QED
    BY <2>1, <2>3, <2>4, <2>5
<1> QED
  BY <1>1, <1>2 DEF CellsMove

\* What k times the letter c do.
Letters == {"L", "M", "P", "@"}
Way(c, k) == IF c \in {"L", "@"} THEN 0 - k ELSE k
Did(c, s, t, k) ==
    IF c \in {"L", "M"} THEN BelowMoves(s, t, Way(c, k)) ELSE RestMoves(s, t, Way(c, k))

\* Once.
LEMMA OnceDoes ==
    ASSUME NEW c \in Letters, NEW s, Good(s)
    PROVE  Did(c, s, Once(c, s), 1)
<1>0. 0 - 1 = -1
  OBVIOUS
<1>1. CASE c = "L"
  BY <1>0, <1>1, LineOperations DEF Did, Way, Once
<1>2. CASE c = "M"
  BY <1>2, LineOperations DEF Did, Way, Once
<1>3. CASE c = "P"
  BY <1>3, DeleteMoves DEF Did, Way, Once
<1>4. CASE c = "@"
  BY <1>0, <1>4, InsertMoves DEF Did, Way, Once
<1> QED
  BY <1>1, <1>2, <1>3, <1>4 DEF Letters

\* Not at all.
LEMMA NeverDoes ==
    ASSUME NEW c \in Letters, NEW s, Good(s)
    PROVE  Did(c, s, s, 0)
<1>1. Way(c, 0) = 0
  BY DEF Way
<1>2. \A r \in Rows : r \in Int /\ r + 0 = r /\ r < Lines
  BY ScreenAssumption DEF Rows
<1>3. \A e \in Columns : e \in Int /\ e + 0 = e /\ e < Cols
  BY ScreenAssumption DEF Columns
<1>4. s.y \in Int /\ s.x \in Int
  BY CursorTypes
<1>5. LinesMove(s, s, 0, s.y, Lines) /\ CellsMove(s, s, 0, s.y, s.x)
  BY <1>2, <1>3, <1>4, ScreenAssumption DEF LinesMove, CellsMove
<1> QED
  BY <1>1, <1>5 DEF Did, BelowMoves, RestMoves, Stays

\* Once more.
LEMMA OnceMoreDoes ==
    ASSUME NEW c \in Letters, NEW s, NEW t, NEW u, NEW k \in Nat,
           Good(s), Did(c, s, t, k), Did(c, t, u, 1)
    PROVE  Did(c, s, u, k + 1)
<1>0. 0 - 1 = -1 /\ 0 - k = -k /\ 0 - (k + 1) = -(k + 1)
  OBVIOUS
<1>1. s.y \in Nat /\ s.x \in Nat
  BY CursorTypes, ScreenAssumption DEF Rows
<1>2. CASE c = "L"
  BY <1>0, <1>1, <1>2, LinesMoveOn DEF Did, Way, BelowMoves, Stays
<1>3. CASE c = "M"
  BY <1>1, <1>3, LinesMoveOn DEF Did, Way, BelowMoves, Stays
<1>4. CASE c = "P"
  BY <1>1, <1>4, CellsMoveOn DEF Did, Way, RestMoves, Stays
<1>5. CASE c = "@"
  BY <1>0, <1>1, <1>5, CellsMoveOn DEF Did, Way, RestMoves, Stays
<1> QED
  BY <1>2, <1>3, <1>4, <1>5 DEF Letters

\* n times.
LEMMA RepeatedDoes ==
    ASSUME NEW c \in Letters, NEW s, Good(s), NEW n \in Nat
    PROVE  Did(c, s, Repeated(c, s, n), n)
<1>1. PICK after : /\ after[0] = s /\ Repeated(c, s, n) = after[n]
                   /\ \A k \in Nat : k < n => after[k + 1] = Once(c, after[k])
  BY RepeatedIs
<1> DEFINE S == {k \in Nat : k <= n => Did(c, s, after[k], k)}
<1>2. 0 \in S
  BY <1>1, NeverDoes
<1>3. ASSUME NEW k \in Nat, k \in S
      PROVE  k + 1 \in S
  <2> SUFFICES ASSUME k + 1 <= n
               PROVE  Did(c, s, after[k + 1], k + 1)
    OBVIOUS
  <2>1. k <= n /\ k < n
    OBVIOUS
  <2>2. Did(c, s, after[k], k)
    BY <1>3, <2>1
  <2>3. Good(after[k])
    BY <2>2 DEF Did, BelowMoves, RestMoves
  <2>4. Did(c, after[k], after[k + 1], 1)
    BY <1>1, <2>1, <2>3, OnceDoes
  <2> QED
    BY <2>2, <2>4, OnceMoreDoes
<1>4. Nat \subseteq S
  <2> HIDE DEF S
  <2> QED
    BY <1>2, <1>3, Counting
<1> QED
  BY <1>1, <1>4

-----------------------------------------------------------------------------
(* What a step does to the screen.                                          *)

\* The display is good after a step, and the picture changes as module Screen
\* lets it.
Shows == Good(d') /\ [ScreenShown!Next]_(ScreenShown!vars)

\* The state functions of module Screen.
LEMMA ScreenVars ==
    /\ ScreenShown!vars = <<Picture(d), d.x, d.y, d.top, d.bottom>>
    /\ ScreenShown!vars' = <<Picture(d'), d'.x, d'.y, d'.top, d'.bottom>>
BY DEF ScreenShown!vars

\* Nothing happens to the display.
LEMMA ShowsSame == ASSUME Good(d), d' = d PROVE Shows
<1>1. ScreenShown!vars' = ScreenShown!vars
  BY ScreenVars
<1> QED
  BY <1>1 DEF Shows

\* A line feed.
LEMMA ShowsDown ==
    ASSUME Good(d), GoesDown(d, d'), d'.x \in 0 .. Cols
    PROVE  Shows
<1>1. d'.top = d.top /\ d'.bottom = d.bottom /\ Good(d')
  BY DEF GoesDown
<1>2. ScreenShown!LineFeed
  BY DEF GoesDown, ScreenShown!LineFeed, ScreenShown!Down
<1>3. ScreenShown!Next
  BY <1>1, <1>2 DEF ScreenShown!Next
<1> QED
  BY <1>1, <1>3 DEF Shows

\* The cursor moves.
LEMMA ShowsMove ==
    ASSUME Good(d), NEW nx \in 0 .. Cols, NEW ny \in Rows, MovesTo(d, d', nx, ny)
    PROVE  Shows
<1>1. d'.top = d.top /\ d'.bottom = d.bottom /\ Good(d')
  BY DEF MovesTo
<1>2. ScreenShown!MoveCursor
  BY DEF MovesTo, ScreenShown!MoveCursor, Rows
<1>3. ScreenShown!Next
  BY <1>1, <1>2 DEF ScreenShown!Next
<1> QED
  BY <1>1, <1>3 DEF Shows

\* A routine that moves the cursor or feeds a line at most.
LEMMA ShowsGoto ==
    ASSUME Good(d), NEW nx \in Int, NEW ny \in Int, d' = gotoxy(d, nx, ny)
    PROVE  Shows
<1>1. CASE gotoxy(d, nx, ny) = d
  BY <1>1, ShowsSame
<1>2. CASE /\ nx \in 0 .. Cols /\ ny \in Rows
           /\ MovesTo(d, gotoxy(d, nx, ny), nx, ny)
  BY <1>2, ShowsMove
<1> QED
  BY <1>1, <1>2, GotoDoes

\* A character that is written.
LEMMA ShowsPut ==
    ASSUME Good(d), NEW c \in Chars, attr \in Attributes, d' = PutChar(d, c)
    PROVE  Shows
<1> DEFINE g == <<c, attr>>
<1>1. g \in Glyphs
  BY DEF Glyphs, Attributes
<1>2. d.x \in Int /\ Cols \in Int
  BY CursorTypes, ScreenAssumption
<1>3. /\ Good(d') /\ d'.top = d.top /\ d'.bottom = d.bottom
      /\ IF d.x < Cols
         THEN /\ d'.x = d.x + 1 /\ d'.y = d.y
              /\ Picture(d') = [Picture(d) EXCEPT ![<<d.y, d.x>>] = g]
         ELSE /\ d'.x = 1
              /\ IF d.y + 1 < d.bottom
                 THEN /\ d'.y = d.y + 1
                      /\ Picture(d') = [Picture(d) EXCEPT ![<<d.y + 1, 0>>] = g]
                 ELSE /\ d'.y = d.y
                      /\ Picture(d') =
                           [ScreenShown!Moved(Picture(d), 1, d.top, d.bottom)
                               EXCEPT ![<<d.y, 0>>] = g]
  BY PutCharDoes
<1> HIDE DEF g
<1>4. ScreenShown!PutChar
  <2>1. CASE d.x < Cols
    BY <1>1, <1>3, <2>1, Zenon DEF ScreenShown!PutChar
  <2>2. CASE ~ (d.x < Cols)
    <3>1. d.x >= Cols
      BY <1>2, <2>2
    <3>2. d.y + 1 < d.bottom \/ (~ (d.y + 1 < d.bottom) /\ d.y + 1 >= d.bottom)
      BY CursorTypes
    <3> QED
      BY <1>1, <1>3, <2>2, <3>1, <3>2, Zenon DEF ScreenShown!PutChar
  <2> QED
    BY <2>1, <2>2
<1>5. ScreenShown!Next
  BY <1>3, <1>4 DEF ScreenShown!Next
<1> QED
  BY <1>3, <1>5 DEF Shows

\* The line before.
LEMMA ShowsBack == ASSUME Good(d), d' = ri(d) PROVE Shows
<1>1. /\ Good(d') /\ d'.top = d.top /\ d'.bottom = d.bottom /\ d'.x = d.x
      /\ IF d.y > d.top THEN d'.y = d.y - 1 /\ Picture(d') = Picture(d)
         ELSE d'.y = d.y
              /\ Picture(d') = ScreenShown!Moved(Picture(d), -1, d.top, d.bottom)
  BY RiDoes
<1>2. ScreenShown!LineBack
  BY <1>1, Zenon DEF ScreenShown!LineBack
<1>3. ScreenShown!Next
  BY <1>1, <1>2 DEF ScreenShown!Next
<1> QED
  BY <1>1, <1>3 DEF Shows

\* A character that is taken back.
LEMMA ShowsRubout == ASSUME Good(d), d' = del(d) PROVE Shows
<1>1. CASE d.x = 0
  BY <1>1, ShowsSame DEF del
<1>2. CASE d.x # 0
  <2>1. /\ Good(d') /\ d'.top = d.top /\ d'.bottom = d.bottom
        /\ d'.x = d.x - 1 /\ d'.y = d.y /\ d.x > 0
        /\ Picture(d') = ScreenShown!Erased(Picture(d), {<<d.y, d.x - 1>>})
    BY <1>2, DelDoes, CursorTypes
  <2>2. ScreenShown!Rubout
    BY <2>1, Zenon DEF ScreenShown!Rubout
  <2>3. ScreenShown!Next
    BY <2>1, <2>2 DEF ScreenShown!Next
  <2> QED
    BY <2>1, <2>3 DEF Shows
<1> QED
  BY <1>1, <1>2

\* The stretches are those of module Screen.
LEMMA StretchesShown ==
    ASSUME NEW S \in Stretches(d.y, d.x), Picture(d') = ScreenShown!Erased(Picture(d), S),
           d'.x = d.x, d'.y = d.y
    PROVE  ScreenShown!Erase
<1>1. Rows \X Columns = ScreenShown!Places
  BY DEF Rows, Columns, ScreenShown!Places
<1> QED
  BY <1>1, Zenon DEF ScreenShown!Erase, Stretches, BeforeCursor, BehindCursor, LineBefore,
                     LineBehind, WholeLine

\* What is erased.
LEMMA ShowsErase ==
    ASSUME Good(d), d' = d \/ \E S \in Stretches(d.y, d.x) : Erases(d, d', S)
    PROVE  Shows
<1>1. CASE d' = d
  BY <1>1, ShowsSame
<1>2. ASSUME NEW S \in Stretches(d.y, d.x), Erases(d, d', S)
      PROVE  Shows
  <2>1. /\ Good(d') /\ d'.top = d.top /\ d'.bottom = d.bottom /\ d'.x = d.x /\ d'.y = d.y
        /\ Picture(d') = ScreenShown!Erased(Picture(d), S)
    BY <1>2 DEF Erases, SamePlace
  <2>2. ScreenShown!Erase
    BY <2>1, StretchesShown
  <2>3. ScreenShown!Next
    BY <2>1, <2>2 DEF ScreenShown!Next
  <2> QED
    BY <2>1, <2>3 DEF Shows
<1> QED
  BY <1>1, <1>2

\* What is inserted or deleted: no more lines than there are, nor cells.
LEMMA ShowsShift ==
    ASSUME Good(d), NEW c \in Letters, NEW n \in Nat,
           n <= IF c \in {"L", "M"} THEN Lines ELSE Cols,
           d' = Repeated(c, d, n)
    PROVE  Shows
<1>1. Did(c, d, d', n)
  BY RepeatedDoes
<1> DEFINE w == Way(c, n)
<1>2. /\ w \in Int
      /\ c \in {"L", "M"} => w \in -Lines .. Lines
      /\ c \notin {"L", "M"} => w \in -Cols .. Cols
  BY ScreenAssumption DEF Way
<1> HIDE DEF w
<1>3. d.y \in Nat /\ d.y \in Rows /\ d.x \in Nat /\ Lines \in Int /\ Lines <= Lines
  BY CursorTypes, ScreenAssumption DEF Rows
<1>4. CASE c \in {"L", "M"}
  <2>1. Good(d') /\ Stays(d, d') /\ LinesMove(d, d', w, d.y, Lines)
    BY <1>1, <1>4 DEF Did, BelowMoves, w
  <2>2. Picture(d') = ScreenShown!Moved(Picture(d), w, d.y, Lines)
    BY <1>2, <1>3, <2>1, PictureMoved
  <2>3. ScreenShown!Shift
    BY <1>2, <1>4, <2>1, <2>2, Zenon DEF ScreenShown!Shift, Stays
  <2> QED
    BY <2>1, <2>3 DEF Shows, Stays, ScreenShown!Next
<1>5. CASE c \notin {"L", "M"}
  <2>1. Good(d') /\ Stays(d, d') /\ CellsMove(d, d', w, d.y, d.x)
    BY <1>1, <1>5 DEF Did, RestMoves, w
  <2>2. Picture(d') = ScreenShown!Shifted(Picture(d), w, d.y, d.x)
    BY <1>2, <1>3, <2>1, PictureShifted
  <2>3. ScreenShown!Shift
    BY <1>2, <1>5, <2>1, <2>2, Zenon DEF ScreenShown!Shift, Stays
  <2> QED
    BY <2>1, <2>3 DEF Shows, Stays, ScreenShown!Next
<1> QED
  BY <1>4, <1>5

\* Another region of the screen.
LEMMA ShowsRegion ==
    ASSUME Good(d), NEW a \in Nat, NEW b \in Nat, a < b, b <= Lines,
           d' = [d EXCEPT !.top = a, !.bottom = b]
    PROVE  Shows
<1>0. d \in Displays /\ a \in Int /\ b \in Int
  BY DEF Good
<1>1. /\ d' \in Displays /\ d'.mem = d.mem /\ d'.origin = d.origin /\ d'.end = d.end
      /\ d'.pos = d.pos /\ d'.x = d.x /\ d'.y = d.y /\ d'.top = a /\ d'.bottom = b
  BY <1>0 DEF Displays
<1>2. Good(d')
  BY <1>1 DEF Good, Inside
<1>3. Picture(d') = Picture(d)
  BY <1>1 DEF Picture
<1>4. a \in 0 .. Lines - 1 /\ b \in a + 1 .. Lines
  BY ScreenAssumption
<1>5. ScreenShown!SetRegion
  BY <1>1, <1>3, <1>4 DEF ScreenShown!SetRegion
<1> QED
  BY <1>2, <1>5 DEF Shows, ScreenShown!Next

-----------------------------------------------------------------------------
(* What a character does.                                                   *)

\* The parameters, the saved cursor, the attribute and what is still to be
\* written: the rest of what the routines are called with.
ParOK == par \in [0 .. NPAR - 1 -> 0 .. MaxPar] /\ npar \in 0 .. NPAR - 1
SavedOK == saved \in (0 .. Cols) \X Rows
AttrOK == attr \in Attributes
InputOK == input \in Seq(Chars)

\* The display can be written to, and so it can with what else is kept.
Sound == Good(d) /\ ParOK /\ SavedOK /\ AttrOK

\* The invariant that is inductive: until a key comes within a character no
\* character is half done, and it is so.
IInv == torn \/ (Sound /\ InputOK /\ rest = Nothing)

\* Numbers up to n have a greatest one.
LEMMA Greatest ==
    ASSUME NEW n \in Nat, NEW S \in SUBSET (0 .. n), S # {}
    PROVE  \E i \in S : \A j \in S : j <= i
<1> SUFFICES ASSUME \A i \in S : \E j \in S : ~ (j <= i)
             PROVE  FALSE
  OBVIOUS
<1> DEFINE T == {k \in Nat : \E j \in S : k <= j}
<1>0. \A j \in S : j \in Int /\ 0 <= j /\ j <= n
  OBVIOUS
<1>1. 0 \in T
  <2>1. PICK j \in S : TRUE
    OBVIOUS
  <2> QED
    BY <1>0, <2>1
<1>2. ASSUME NEW k \in Nat, k \in T
      PROVE  k + 1 \in T
  <2>1. PICK j \in S : k <= j
    BY <1>2
  <2>2. PICK m \in S : ~ (m <= j)
    OBVIOUS
  <2>3. k + 1 <= m
    BY <1>0, <2>1, <2>2
  <2> QED
    BY <2>3
<1>3. Nat \subseteq T
  <2> HIDE DEF T
  <2> QED
    BY <1>1, <1>2, Counting
<1>4. n + 1 \in T
  <2>1. n + 1 \in Nat
    OBVIOUS
  <2> HIDE DEF T
  <2> QED
    BY <1>3, <2>1
<1>5. PICK j \in S : n + 1 <= j
  BY <1>4
<1> QED
  BY <1>0, <1>5

\* The saved cursor is a place to go to, and the cursor one to save.
LEMMA SavedIs ==
    /\ SavedOK => saved[1] \in Int /\ saved[2] \in Int
    /\ Good(d) => <<d.x, d.y>> \in (0 .. Cols) \X Rows
BY CursorTypes, ScreenAssumption DEF SavedOK, Rows

\* Outside of sequences.
LEMMA PlainDoes ==
    ASSUME Sound, NEW c \in Chars, Plain(c)
    PROVE  Shows /\ ParOK' /\ SavedOK' /\ AttrOK'
<1>1. ParOK' /\ SavedOK' /\ AttrOK'
  BY DEF Plain, sequence, Sound, ParOK, SavedOK, AttrOK
<1>2. Good(d) /\ attr \in Attributes
  BY DEF Sound, AttrOK
<1>3. CASE c = "LF"
  <2>1. d' = lf(d)
    BY <1>3 DEF Plain
  <2> QED
    BY <1>1, <1>2, <2>1, LfDoes, CursorTypes, ShowsDown
<1>4. CASE c = "CR"
  <2>1. d' = cr(d) /\ 0 \in 0 .. Cols
    BY <1>4, ScreenAssumption DEF Plain
  <2> QED
    BY <1>1, <1>2, <2>1, CrDoes, CursorTypes, ShowsMove
<1>5. CASE c = "DEL"
  <2>1. d' = del(d)
    BY <1>5 DEF Plain
  <2> QED
    BY <1>1, <1>2, <2>1, ShowsRubout
<1>6. CASE c = "BS"
  <2>1. d' = BackSpace(d)
    BY <1>6 DEF Plain
  <2>2. CASE d.x = 0
    BY <1>1, <1>2, <2>1, <2>2, ShowsSame DEF BackSpace
  <2>3. CASE d.x # 0
    <3>1. d.x - 1 \in 0 .. Cols /\ d.y \in Rows
      BY <1>2, <2>3, CursorTypes, ScreenAssumption
    <3> QED
      BY <1>1, <1>2, <2>1, <2>3, <3>1, BackSpaceDoes, ShowsMove
  <2> QED
    BY <2>2, <2>3
<1>7. CASE c = "TAB"
  <2>1. d' = Tabulate(d)
    BY <1>7 DEF Plain
  <2>2. PICK nx \in 0 .. Cols :
          \/ MovesTo(d, d', nx, d.y)
          \/ GoesDown(d, d') /\ d'.x = nx
    BY <1>2, <2>1, TabulateDoes
  <2> QED
    BY <1>1, <1>2, <2>2, CursorTypes, ShowsMove, ShowsDown
<1>8. CASE c \in {"ESC", "BEL"}
  <2>1. d' = d
    BY <1>8 DEF Plain
  <2> QED
    BY <1>1, <1>2, <2>1, ShowsSame
<1>9. CASE c \notin {"LF", "CR", "DEL", "BS", "TAB", "ESC", "BEL"}
  <2>1. d' = PutChar(d, c)
    BY <1>9 DEF Plain
  <2> QED
    BY <1>1, <1>2, <2>1, ShowsPut
<1> QED
  BY <1>3, <1>4, <1>5, <1>6, <1>7, <1>8, <1>9

\* After an ESC.
LEMMA EscapeDoes ==
    ASSUME Sound, NEW c \in Chars, Escape(c)
    PROVE  Shows /\ ParOK' /\ SavedOK' /\ AttrOK'
<1> DEFINE other == c \notin {"[", "E", "M", "D", "Z"}
<1>0. Good(d) /\ SavedOK
  BY DEF Sound
<1>1. ParOK' /\ AttrOK'
  BY DEF Escape, Sound, ParOK, AttrOK
<1>2. SavedOK'
  BY <1>0, SavedIs DEF Escape, SavedOK
<1>3. saved[1] \in Int /\ saved[2] \in Int /\ 0 \in Int /\ d.y + 1 \in Int
  BY <1>0, SavedIs, CursorTypes
<1>4. CASE c = "E"
  <2>1. d' = gotoxy(d, 0, d.y + 1)
    BY <1>4 DEF Escape
  <2> QED
    BY <1>0, <1>1, <1>2, <1>3, <2>1, ShowsGoto
<1>5. CASE c = "M"
  <2>1. d' = ri(d)
    BY <1>5 DEF Escape
  <2> QED
    BY <1>0, <1>1, <1>2, <2>1, ShowsBack
<1>6. CASE c = "D"
  <2>1. d' = lf(d)
    BY <1>6 DEF Escape
  <2> QED
    BY <1>0, <1>1, <1>2, <2>1, LfDoes, CursorTypes, ShowsDown
<1>7. CASE other /\ d.x = Eight
  <2>1. d' = gotoxy(d, saved[1], saved[2])
    BY <1>7 DEF Escape
  <2> QED
    BY <1>0, <1>1, <1>2, <1>3, <2>1, ShowsGoto
<1>8. CASE c \notin {"E", "M", "D"} /\ ~ (other /\ d.x = Eight)
  <2>1. d' = d
    BY <1>8 DEF Escape
  <2> QED
    BY <1>0, <1>1, <1>2, <2>1, ShowsSame
<1> QED
  BY <1>4, <1>5, <1>6, <1>7, <1>8

\* A letter that moves the cursor names a place.
LEMMA GoalIs ==
    ASSUME Sound, NEW c \in Movers, NEW p \in [0 .. NPAR - 1 -> 0 .. MaxPar]
    PROVE  Goal(c, p)[1] \in Int /\ Goal(c, p)[2] \in Int
<1>1. saved[1] \in Int /\ saved[2] \in Int /\ d.x \in Int /\ d.y \in Int
  BY SavedIs, CursorTypes DEF Sound
<1>2. p[0] \in Nat /\ p[1] \in Nat
  BY InputAssumption
<1>3. Less1(p[0]) \in Int /\ Less1(p[1]) \in Int /\ Least1(p[0]) \in Int
  BY <1>2 DEF Less1, Least1
<1> DEFINE n == Least1(p[0])
<1>4. Goal(c, p) \in {<<Less1(p[0]), d.y>>, <<d.x, d.y - n>>, <<d.x, d.y + n>>,
                      <<d.x + n, d.y>>, <<d.x - n, d.y>>, <<0, d.y + n>>, <<0, d.y - n>>,
                      <<d.x, Less1(p[0])>>, <<Less1(p[1]), Less1(p[0])>>, saved}
  BY DEF Goal, Movers
<1> HIDE DEF n
<1>5. /\ d.y - n \in Int /\ d.y + n \in Int /\ d.x - n \in Int /\ d.x + n \in Int
      /\ 0 \in Int
  BY <1>1, <1>3 DEF n
<1>6. saved \in Int \X Int
  BY ScreenAssumption DEF Sound, SavedOK, Rows
<1>7. Goal(c, p) \in Int \X Int
  <2>1. /\ <<Less1(p[0]), d.y>> \in Int \X Int /\ <<d.x, d.y - n>> \in Int \X Int
        /\ <<d.x, d.y + n>> \in Int \X Int /\ <<d.x + n, d.y>> \in Int \X Int
        /\ <<d.x - n, d.y>> \in Int \X Int /\ <<0, d.y + n>> \in Int \X Int
        /\ <<0, d.y - n>> \in Int \X Int /\ <<d.x, Less1(p[0])>> \in Int \X Int
        /\ <<Less1(p[1]), Less1(p[0])>> \in Int \X Int
    BY <1>1, <1>3, <1>5
  <2> QED
    BY <1>4, <1>6, <2>1, Zenon
<1> QED
  BY <1>7

\* The letter that ends a sequence, by what it does.
LEMMA FinalDoes ==
    ASSUME Sound, NEW c \in Chars, NEW p \in [0 .. NPAR - 1 -> 0 .. MaxPar],
           NEW n \in 0 .. NPAR - 1, Final(c, p, n)
    PROVE  Shows
<1>0. Good(d) /\ SavedOK
  BY DEF Sound
<1>2. p[0] \in Nat /\ p[1] \in Nat
  BY InputAssumption
<1> DEFINE a == Less1(p[0])
           b == IF p[1] = 0 THEN Lines ELSE p[1]
<1>3. a \in Nat /\ b \in Nat
  BY <1>2, ScreenAssumption DEF Less1
<1> HIDE DEF a
<1>4. CASE c \in Movers
  <2>1. Goal(c, p)[1] \in Int /\ Goal(c, p)[2] \in Int
    BY <1>0, <1>4, GoalIs
  <2>2. d' = gotoxy(d, Goal(c, p)[1], Goal(c, p)[2])
    BY <1>4 DEF Final, Movers
  <2> QED
    BY <1>0, <2>1, <2>2, ShowsGoto
<1>5. CASE c = "J"
  <2>1. d' = csi_J(d, p[0])
    BY <1>5 DEF Final, Movers
  <2> QED
    BY <1>0, <2>1, JErases, ShowsErase
<1>6. CASE c = "K"
  <2>1. d' = csi_K(d, p[0])
    BY <1>6 DEF Final, Movers
  <2> QED
    BY <1>0, <2>1, KErases, ShowsErase
<1>7. CASE c \in {"L", "M"}
  <2>1. d' = Repeated(c, d, Times(p[0], Lines))
    BY <1>7 DEF Final, Movers
  <2>2. Times(p[0], Lines) \in Nat /\ Times(p[0], Lines) <= Lines
    BY <1>2, ScreenAssumption DEF Times, Min2
  <2> QED
    BY <1>0, <1>7, <2>1, <2>2, ShowsShift DEF Letters
<1>8. CASE c \in {"P", "@"}
  <2>1. d' = Repeated(c, d, Times(p[0], Cols))
    BY <1>8 DEF Final, Movers
  <2>2. Times(p[0], Cols) \in Nat /\ Times(p[0], Cols) <= Cols
    BY <1>2, ScreenAssumption DEF Times, Min2
  <2> QED
    BY <1>0, <1>8, <2>1, <2>2, ShowsShift DEF Letters
<1>9. CASE c = "r" /\ a < b /\ b <= Lines
  <2>1. d' = [d EXCEPT !.top = a, !.bottom = b]
    BY <1>9 DEF Final, Movers, a
  <2> QED
    BY <1>0, <1>3, <1>9, <2>1, ShowsRegion
<1>10. CASE /\ c \notin Movers \cup {"J", "K", "L", "M", "P", "@"}
            /\ ~ (c = "r" /\ a < b /\ b <= Lines)
  <2>1. d' = d
    BY <1>10 DEF Final, a
  <2> QED
    BY <1>0, <2>1, ShowsSame
<1> QED
  BY <1>4, <1>5, <1>6, <1>7, <1>8, <1>9, <1>10

\* The letter that ends a sequence, and what it keeps.
LEMMA FinalKeeps ==
    ASSUME Sound, NEW c \in Chars, NEW p \in [0 .. NPAR - 1 -> 0 .. MaxPar],
           NEW n \in 0 .. NPAR - 1, Final(c, p, n)
    PROVE  ParOK' /\ SavedOK' /\ AttrOK'
<1>1. ParOK'
  BY DEF Final, ParOK
<1>2. SavedOK'
  BY SavedIs DEF Final, SavedOK, Sound
<1> DEFINE colours == {i \in 0 .. n : Attribute(p[i]) # -1}
           last == CHOOSE i \in colours : \A j \in colours : j <= i
<1>3. attr' = IF c = "m" /\ colours # {} THEN Attribute(p[last]) ELSE attr
  BY DEF Final
<1>4. ASSUME colours # {}
      PROVE  Attribute(p[last]) \in Attributes
  <2>1. n \in Nat /\ colours \in SUBSET (0 .. n)
    BY InputAssumption
  <2> HIDE DEF colours
  <2>2. \E i \in colours : \A j \in colours : j <= i
    BY <1>4, <2>1, Greatest
  <2>3. last \in colours
    BY <2>2
  <2> HIDE DEF last
  <2>4. Attribute(p[last]) # -1
    BY <2>3 DEF colours
  <2> QED
    BY <2>4 DEF Attribute, Attributes
<1> HIDE DEF colours, last
<1>5. AttrOK'
  BY <1>3, <1>4 DEF AttrOK, Sound
<1> QED
  BY <1>1, <1>2, <1>5

\* A character after the "[".
LEMMA SequenceDoes ==
    ASSUME Sound, NEW c \in Chars, Sequence(c)
    PROVE  Shows /\ ParOK' /\ SavedOK' /\ AttrOK'
<1> DEFINE p == Pars
           n == NPars
<1>0. Good(d) /\ ParOK /\ SavedOK /\ AttrOK
  BY DEF Sound
<1>1. p \in [0 .. NPAR - 1 -> 0 .. MaxPar] /\ n \in 0 .. NPAR - 1
  BY <1>0, InputAssumption DEF ParOK, NoPar, Pars, NPars
<1>2. CASE Question(c) \/ IsParameter(c, n)
  <2>1. /\ d' = d /\ attr' = attr /\ saved' = saved
        /\ (par' = p /\ npar' = n) \/ Parameter(c, p, n)
    BY <1>2 DEF Sequence
  <2>2. ParOK'
    <3>1. CASE par' = p /\ npar' = n
      BY <1>1, <3>1 DEF ParOK
    <3> HIDE DEF p, n
    <3>2. CASE npar' = n + 1 /\ n < NPAR - 1 /\ par' = p
      BY <1>1, <3>2, InputAssumption DEF ParOK
    <3>3. ASSUME NEW i \in 1 .. 10,
                 par' = [p EXCEPT ![n] = Min2(10 * @ + i - 1, MaxPar)], npar' = n
          PROVE  ParOK'
      <4> DEFINE v == Min2(10 * p[n] + i - 1, MaxPar)
      <4>1. p[n] \in 0 .. MaxPar
        BY <1>1
      <4>2. v \in 0 .. MaxPar
        BY <4>1, InputAssumption DEF Min2
      <4>3. par' = [p EXCEPT ![n] = v]
        BY <3>3
      <4> HIDE DEF v
      <4> QED
        BY <1>1, <3>3, <4>2, <4>3 DEF ParOK
    <3> QED
      BY <2>1, <3>1, <3>2, <3>3 DEF Parameter
  <2> QED
    BY <1>0, <2>1, <2>2, ShowsSame DEF SavedOK, AttrOK
<1>3. CASE ~ (Question(c) \/ IsParameter(c, n))
  <2>1. Final(c, p, n)
    BY <1>3 DEF Sequence
  <2> HIDE DEF p, n
  <2> QED
    BY <1>1, <2>1, FinalDoes, FinalKeeps
<1> QED
  BY <1>2, <1>3

-----------------------------------------------------------------------------
(* The theorems.                                                            *)

\* con_init() leaves a screen that can be written to.
LEMMA InitInvariant == Init => IInv
<1> SUFFICES ASSUME Init
             PROVE  IInv
  OBVIOUS
<1>1. PICK i \in 0 .. Cols - 1, j \in 0 .. Lines - 1 :
        d = [mem |-> [k \in 0 .. Memory - 1 |-> <<"bios", k>>], origin |-> 0,
             end |-> Row(Lines), pos |-> Row(j) + i, x |-> i, y |-> j,
             top |-> 0, bottom |-> Lines, out |-> FALSE]
  BY DEF Init
<1>2. Row(Lines) \in Int /\ Row(j) \in Int /\ Row(Lines) <= Memory
  BY RowType, ScreenAssumption DEF Row
<1>3. [k \in 0 .. Memory - 1 |-> <<"bios", k>>] \in [Slots -> Cells]
  BY DEF Slots, Cells
<1>4. d \in Displays
  BY <1>1, <1>2, <1>3, ScreenAssumption DEF Displays
<1>5. Inside(d)
  BY <1>1, <1>2, ScreenAssumption DEF Inside
<1>6. ParOK /\ SavedOK /\ AttrOK
  <2>1. ParOK
    BY InputAssumption DEF Init, ParOK, NoPar
  <2>2. 0 \in 0 .. Cols /\ 0 \in Rows
    BY ScreenAssumption DEF Rows
  <2>3. SavedOK /\ AttrOK
    BY <2>2 DEF Init, SavedOK, AttrOK, Attributes
  <2> QED
    BY <2>1, <2>3
<1>7. InputOK /\ rest = Nothing
  BY DEF Init, InputOK
<1> QED
  BY <1>4, <1>5, <1>6, <1>7 DEF IInv, Good, Sound

\* Nothing forgets that a key came within a character.
LEMMA StaysTorn == torn /\ [Next]_vars => torn'
BY DEF Next, con_write, Submit, Count, Key, KeyWithin, Resume, Done, vars

\* Where only what is not of the display changes, all stays sound.
LEMMA SoundStays ==
    ASSUME Sound, UNCHANGED <<d, sequence>>
    PROVE  Shows /\ Sound'
<1>1. /\ d' = d /\ par' = par /\ npar' = npar /\ saved' = saved /\ attr' = attr
  BY DEF sequence
<1>2. ParOK' /\ SavedOK' /\ AttrOK'
  BY <1>1 DEF Sound, ParOK, SavedOK, AttrOK
<1>3. Shows
  BY <1>1, ShowsSame DEF Sound
<1> QED
  BY <1>2, <1>3 DEF Sound, Shows

\* The characters taken and the texts put keep the queue one of characters.
LEMMA QueueStays ==
    ASSUME InputOK, input' = input \/ con_write \/ Submit \/ Key
    PROVE  InputOK'
<1>1. CASE input' = input
  BY <1>1 DEF InputOK
<1>2. CASE con_write
  BY <1>2 DEF con_write, InputOK
<1>3. CASE Submit
  BY <1>3, InputAssumption DEF Submit, InputOK
<1>4. CASE Key
  <2>1. PICK e \in Echoes : input' = input \o e
    BY <1>4 DEF Key, EchoKey
  <2>2. e \in Seq(Chars)
    BY InputAssumption
  <2> QED
    BY <2>1, <2>2 DEF InputOK
<1> QED
  BY <1>1, <1>2, <1>3, <1>4

\* A step keeps it so, and shows what module Screen lets it.
LEMMA StepInvariant == IInv /\ [Next]_vars => (torn' \/ Shows) /\ IInv'
<1> SUFFICES ASSUME IInv, [Next]_vars, ~ torn, ~ torn'
             PROVE  Shows /\ IInv'
  BY StaysTorn DEF IInv
<1>0. Sound /\ InputOK /\ rest = Nothing
  BY DEF IInv
<1>1. CASE con_write
  <2>1. PICK c \in IF input = <<>> THEN Stale ELSE {Head(input)} :
          Plain(c) \/ Escape(c) \/ Sequence(c)
    BY <1>1 DEF con_write
  <2>2. c \in Chars
    <3>1. CASE input = <<>>
      <4>1. c \in Stale
        BY <2>1, <3>1
      <4> QED
        BY <4>1, Zenon DEF Chars
    <3>2. CASE input # <<>>
      BY <1>0, <3>2 DEF InputOK
    <3> QED
      BY <3>1, <3>2
  <2>3. Shows /\ ParOK' /\ SavedOK' /\ AttrOK'
    BY <1>0, <2>1, <2>2, PlainDoes, EscapeDoes, SequenceDoes
  <2>4. rest' = Nothing
    BY <1>0, <1>1 DEF con_write
  <2> QED
    BY <1>0, <1>1, <2>3, <2>4, QueueStays DEF IInv, Sound, Shows
<1>2. CASE Submit
  <2>1. UNCHANGED <<d, sequence>> /\ rest' = Nothing
    BY <1>0, <1>2 DEF Submit
  <2> QED
    BY <1>0, <1>2, <2>1, SoundStays, QueueStays DEF IInv
<1>3. CASE Key
  <2>1. UNCHANGED <<d, sequence>> /\ rest' = Nothing
    BY <1>0, <1>3 DEF Key
  <2> QED
    BY <1>0, <1>3, <2>1, SoundStays, QueueStays DEF IInv
<1>4. CASE Count \/ UNCHANGED vars
  <2>1. UNCHANGED <<d, sequence, input>> /\ rest' = Nothing
    BY <1>0, <1>4 DEF Count, vars
  <2> QED
    BY <1>0, <2>1, SoundStays, QueueStays DEF IInv
<1>5. CASE KeyWithin
  BY <1>5 DEF KeyWithin
<1>6. CASE Resume
  BY <1>0, <1>6 DEF Resume
<1> QED
  BY <1>1, <1>2, <1>3, <1>4, <1>5, <1>6 DEF Next, Done

\* Whatever is written with con_write(), and echoed between two characters, on
\* either display: the cursor stays on the screen or behind its last column, pos,
\* origin and scr_end agree with it, the screen is inside of video memory, and
\* so is all that was ever written or read, until a key comes within a character.
THEOREM ScreenInVideoMemory == Spec => []InVideoMemory
<1>1. Init => IInv
  BY InitInvariant
<1>2. IInv /\ [Next]_vars => IInv'
  BY StepInvariant
<1>3. IInv => InVideoMemory
  BY DEF IInv, Sound, Good, InVideoMemory
<1> QED
  BY <1>1, <1>2, <1>3, PTL DEF Spec

\* And until then every character does to the picture one of the things module
\* Screen lists: an EGA that scrolls by its origin shows what the others copy.
THEOREM ConsoleImplementsScreen == Spec => ImplementsScreen
<1>1. Init => IInv
  BY InitInvariant
<1>2. IInv /\ [Next]_vars => IInv'
  BY StepInvariant
<1>3. Init => ScreenShown!Init
  <2> SUFFICES ASSUME Init
               PROVE  ScreenShown!Init
    OBVIOUS
  <2>1. Good(d)
    BY InitInvariant DEF IInv, Sound, Init
  <2>2. d.x \in 0 .. Cols /\ d.y \in 0 .. Lines - 1
    BY <2>1, CursorTypes DEF Rows
  <2>3. d.top = 0 /\ d.bottom = Lines
    BY DEF Init
  <2>4. DOMAIN Picture(d) = ScreenShown!Places
    BY DEF Picture, ScreenShown!Places
  <2> QED
    BY <2>2, <2>3, <2>4 DEF ScreenShown!Init
<1>4. IInv /\ [Next]_vars => [torn' \/ ScreenShown!Next]_(ScreenShown!vars)
  BY StepInvariant DEF Shows
<1> QED
  BY <1>1, <1>2, <1>3, <1>4, PTL DEF Spec, ImplementsScreen

-----------------------------------------------------------------------------
(* A terminal: how many line ends are in secondary.                         *)

\* No key takes characters back.
NothingTakenBack(j) ==
    \/ "ERASE" \notin j.keyset /\ "KILL" \notin j.keyset
    \/ ~ j.term.canon /\ ~ j.other.canon

\* Readers ask for a character each, and the keys are too few to fill the queue
\* without an end of line.
LineByLine(j) ==
    /\ \A t \in Tasks : j.reads[t] <= 1
    /\ j.keys < j.size - 1 - SPARE

\* What MCTerminalFindings shows to be needed: no key takes back what a reader
\* has found in the queue.
Calm == \A j \in Workloads : NothingTakenBack(j) \/ LineByLine(j)

Positions == 0 .. job.size - 1
Rings(S) == [buf : [Positions -> S], head : Positions, tail : Positions]
Typed == job.keyset \cup {"0"}
Cooked == Typed \cup {"NL"}

PCs == {"read", "check", "empty", "take", "taking", "give",
        "wait", "full", "room", "put", "fetch", "putting", "sent", "done"}
AtTake(t) == pc[t] \in {"take", "taking"}

QueuesOK ==
    /\ job \in Workloads /\ term \in {job.term, job.other}
    /\ read_q \in Rings(Typed) /\ secondary \in Rings(Cooked)
    /\ keys \in Nat /\ CHARS(read_q) + CHARS(secondary) + keys <= job.keys

InRead(t) == Reading(t) \/ pc[t] = "read"

OneReaderOK(t) ==
    /\ InRead(t) => job.reads[t] > 0 /\ (job.reads[t] = 1 => want[t] = 1)
    /\ AtTake(t) => /\ cur = t /\ ~ Empty(secondary)
                    /\ LineByLine(job) => data > 0 \/ ~ term.canon
    /\ pc[t] = "taking" => held = First(secondary)

ReadersOK ==
    /\ pc \in [Tasks -> PCs] /\ want \in [Tasks -> Int]
    /\ \A t \in Tasks : OneReaderOK(t)

ReadInv == LineEndsCounted /\ QueuesOK /\ ReadersOK

\* The sizes of a workload are numbers, and a queue has room for two.
LEMMA SizesOfJob ==
    ASSUME job \in Workloads
    PROVE  /\ job.size \in Nat /\ job.size > 1 /\ SPARE \in Nat
           /\ job.keys \in Nat /\ job.faults \in Nat /\ job.reads \in [Tasks -> Nat]
  BY TerminalAssumption

\* Modulo, within one size of the positions.
LEMMA ModIs ==
    ASSUME job \in Workloads, NEW a \in Int, NEW b \in Positions,
           a = b \/ a = b + job.size \/ a = b - job.size
    PROVE  Mod(a) = b
<1> DEFINE n == job.size
<1>1. n \in Nat /\ n > 0 /\ b \in 0 .. n - 1
  BY SizesOfJob DEF Positions
<1> HIDE DEF n
<1>2. CASE a = b
  BY <1>1, <1>2 DEF Mod, n
<1>3. CASE a = b + job.size
  <2>1. a \in n .. 2 * n - 1
    BY <1>1, <1>3 DEF n
  <2>2. a % n = a - n
    BY <1>1, <2>1
  <2> QED
    BY <1>1, <1>3, <2>2 DEF Mod, n
<1>4. CASE a = b - job.size
  <2>1. a \in -n .. -1
    BY <1>1, <1>4 DEF n
  <2>2. a % n = a + n
    BY <1>1, <2>1
  <2> QED
    BY <1>1, <1>4, <2>2 DEF Mod, n
<1> QED
  BY <1>2, <1>3, <1>4

\* The position after one.
LEMMA ModAfter ==
    ASSUME job \in Workloads, NEW h \in Positions
    PROVE  Mod(h + 1) = IF h = job.size - 1 THEN 0 ELSE h + 1
<1> DEFINE a == h + 1
           b == IF h = job.size - 1 THEN 0 ELSE h + 1
<1>1. a \in Int /\ b \in Positions /\ (a = b \/ a = b + job.size)
  BY SizesOfJob DEF Positions
<1> HIDE DEF a, b
<1>2. Mod(a) = b
  BY <1>1, ModIs
<1> QED
  BY <1>2 DEF a, b

\* The position before it.
LEMMA ModBefore ==
    ASSUME job \in Workloads, NEW h \in Positions
    PROVE  Mod(h - 1) = IF h = 0 THEN job.size - 1 ELSE h - 1
<1> DEFINE a == h - 1
           b == IF h = 0 THEN job.size - 1 ELSE h - 1
<1>1. a \in Int /\ b \in Positions /\ (a = b \/ a = b - job.size)
  BY SizesOfJob DEF Positions
<1> HIDE DEF a, b
<1>2. Mod(a) = b
  BY <1>1, ModIs
<1> QED
  BY <1>2 DEF a, b

\* The way from one position to another, one longer and one shorter.
Distance(t, h) == IF t <= h THEN h - t ELSE h - t + job.size
LEMMA DistanceChanges ==
    ASSUME job \in Workloads, NEW t \in Positions, NEW h \in Positions
    PROVE  /\ Distance(t, h) # job.size - 1 =>
                Distance(t, IF h = job.size - 1 THEN 0 ELSE h + 1) = Distance(t, h) + 1
           /\ t # h => /\ Distance(t, IF h = 0 THEN job.size - 1 ELSE h - 1) = Distance(t, h) - 1
                       /\ Distance(IF t = job.size - 1 THEN 0 ELSE t + 1, h) = Distance(t, h) - 1
<1> DEFINE n == job.size
<1>1. n \in Nat /\ n > 1 /\ t \in 0 .. n - 1 /\ h \in 0 .. n - 1
  BY SizesOfJob DEF Positions
<1> HIDE DEF n
<1>2. Distance(t, h) # n - 1 => Distance(t, IF h = n - 1 THEN 0 ELSE h + 1) = Distance(t, h) + 1
  <2>1. CASE h = n - 1
    BY <1>1, <2>1 DEF Distance, n
  <2>2. CASE h # n - 1
    BY <1>1, <2>2 DEF Distance, n
  <2> QED
    BY <2>1, <2>2
<1>3. t # h => Distance(t, IF h = 0 THEN n - 1 ELSE h - 1) = Distance(t, h) - 1
  <2>1. CASE h = 0
    BY <1>1, <2>1 DEF Distance, n
  <2>2. CASE h # 0
    BY <1>1, <2>2 DEF Distance, n
  <2> QED
    BY <2>1, <2>2
<1>4. t # h => Distance(IF t = n - 1 THEN 0 ELSE t + 1, h) = Distance(t, h) - 1
  <2>1. CASE t = n - 1
    BY <1>1, <2>1 DEF Distance, n
  <2>2. CASE t # n - 1
    BY <1>1, <2>2 DEF Distance, n
  <2> QED
    BY <2>1, <2>2
<1> QED
  BY <1>2, <1>3, <1>4 DEF n

\* How many characters are in a queue, and how many fit.
LEMMA RingCounts ==
    ASSUME job \in Workloads, NEW S, NEW q \in Rings(S)
    PROVE  /\ CHARS(q) = IF q.tail <= q.head THEN q.head - q.tail
                         ELSE q.head - q.tail + job.size
           /\ CHARS(q) \in Positions
           /\ Left(q) = job.size - 1 - CHARS(q)
           /\ Empty(q) <=> CHARS(q) = 0
           /\ Full(q) <=> CHARS(q) = job.size - 1
<1>1. job.size \in Nat /\ job.size > 1
  BY SizesOfJob
<1>2. q.head \in Positions /\ q.tail \in Positions
  BY DEF Rings
<1>3. CHARS(q) = IF q.tail <= q.head THEN q.head - q.tail
                 ELSE q.head - q.tail + job.size
  <2> DEFINE a == q.head - q.tail
             b == IF q.tail <= q.head THEN a ELSE a + job.size
  <2>1. a \in Int /\ b \in Positions /\ (a = b \/ a = b - job.size)
    BY <1>1, <1>2 DEF Positions
  <2>2. Mod(a) = b
    <3> HIDE DEF a, b
    <3> QED
      BY <2>1, ModIs
  <2> QED
    BY <2>2 DEF CHARS
<1>4. CHARS(q) \in Positions
  BY <1>1, <1>2, <1>3 DEF Positions
<1>5. Left(q) = job.size - 1 - CHARS(q)
  <2> DEFINE a == q.tail - q.head - 1
             b == job.size - 1 - CHARS(q)
  <2>1. a \in Int /\ b \in Positions /\ (a = b \/ a = b - job.size)
    BY <1>1, <1>2, <1>3, <1>4 DEF Positions
  <2>2. Mod(a) = b
    <3> HIDE DEF a, b
    <3> QED
      BY <2>1, ModIs
  <2> QED
    BY <2>2 DEF Left
<1>6. Empty(q) <=> CHARS(q) = 0
  BY <1>1, <1>2, <1>3 DEF Positions, Empty
<1>7. Full(q) <=> CHARS(q) = job.size - 1
  BY <1>1, <1>4, <1>5 DEF Full, Positions
<1> QED
  BY <1>3, <1>4, <1>5, <1>6, <1>7

\* Where the i-th character of a queue is.
Place(q, i) == IF q.tail + i - 1 < job.size THEN q.tail + i - 1 ELSE q.tail + i - 1 - job.size

\* What a queue holds.
LEMMA RingContent ==
    ASSUME job \in Workloads, NEW S, NEW q \in Rings(S), NEW i \in 1 .. CHARS(q)
    PROVE  /\ Place(q, i) \in Positions
           /\ Content(q)[i] = q.buf[Place(q, i)]
           /\ Content(q)[i] \in S
<1>1. job.size \in Nat /\ job.size > 1
  BY SizesOfJob
<1>2. q.tail \in Positions /\ CHARS(q) \in Positions /\ q.buf \in [Positions -> S]
  BY RingCounts DEF Rings
<1>3. Place(q, i) \in Positions
  BY <1>1, <1>2 DEF Place, Positions
<1>4. Mod(q.tail + i - 1) = Place(q, i)
  <2> DEFINE a == q.tail + i - 1
             b == Place(q, i)
  <2>1. a \in Int /\ (a = b \/ a = b + job.size)
    BY <1>1, <1>2 DEF Positions, Place
  <2>2. Mod(a) = b
    <3> HIDE DEF a, b
    <3> QED
      BY <1>3, <2>1, ModIs DEF b
  <2> QED
    BY <2>2
<1>5. Content(q)[i] = q.buf[Place(q, i)]
  BY <1>4 DEF Content
<1> QED
  BY <1>2, <1>3, <1>5

\* The first and the last character.
LEMMA RingEnds ==
    ASSUME job \in Workloads, NEW S, NEW q \in Rings(S), ~ Empty(q)
    PROVE  /\ CHARS(q) > 0 /\ First(q) = Content(q)[1]
           /\ LastOf(q) = Content(q)[CHARS(q)]
<1>1. job.size \in Nat /\ job.size > 1
  BY SizesOfJob
<1>2. q.head \in Positions /\ q.tail \in Positions /\ CHARS(q) \in Positions /\ CHARS(q) > 0
  <2>1. q.head \in Positions /\ q.tail \in Positions
    BY DEF Rings
  <2>2. CHARS(q) \in Positions /\ CHARS(q) # 0
    BY RingCounts
  <2> QED
    BY <1>1, <2>1, <2>2 DEF Positions
<1>3. 1 \in 1 .. CHARS(q) /\ CHARS(q) \in 1 .. CHARS(q)
  BY <1>1, <1>2 DEF Positions
<1>4. First(q) = Content(q)[1]
  <2>1. Place(q, 1) = q.tail
    BY <1>1, <1>2 DEF Place, Positions
  <2> QED
    BY <1>3, <2>1, RingContent DEF First
<1>5. LastOf(q) = Content(q)[CHARS(q)]
  <2>2. Mod(q.head - 1) = IF q.head = 0 THEN job.size - 1 ELSE q.head - 1
    BY <1>1, <1>2, ModBefore
  <2>3. CHARS(q) = IF q.tail <= q.head THEN q.head - q.tail ELSE q.head - q.tail + job.size
    BY RingCounts
  <2>4. Place(q, CHARS(q)) = Mod(q.head - 1)
    BY <1>1, <1>2, <2>2, <2>3 DEF Place, Positions
  <2> QED
    BY <1>3, <2>4, RingContent DEF LastOf
<1> QED
  BY <1>2, <1>4, <1>5

\* A queue whose characters are at the same places.
LEMMA RingAlike ==
    ASSUME job \in Workloads, NEW S, NEW q \in Rings(S), NEW r \in Rings(S), r.tail = q.tail,
           NEW i, i \in 1 .. CHARS(q), i \in 1 .. CHARS(r), r.buf[Place(q, i)] = q.buf[Place(q, i)]
    PROVE  Content(r)[i] = Content(q)[i]
<1>1. Place(r, i) = Place(q, i)
  BY DEF Place
<1> QED
  BY <1>1, RingContent

\* PUTCH appends a character.
LEMMA PutchAppends ==
    ASSUME job \in Workloads, NEW S, NEW q \in Rings(S), NEW c \in S, ~ Full(q)
    PROVE  /\ Putch(q, c) \in Rings(S)
           /\ CHARS(Putch(q, c)) = CHARS(q) + 1
           /\ \A i \in 1 .. CHARS(q) : Content(Putch(q, c))[i] = Content(q)[i]
           /\ Content(Putch(q, c))[CHARS(q) + 1] = c
<1> DEFINE r == Putch(q, c)
<1>1. job.size \in Nat /\ job.size > 1
  BY SizesOfJob
<1>2. /\ q.head \in Positions /\ q.tail \in Positions /\ q.buf \in [Positions -> S]
      /\ CHARS(q) \in Positions /\ CHARS(q) # job.size - 1
      /\ CHARS(q) = IF q.tail <= q.head THEN q.head - q.tail ELSE q.head - q.tail + job.size
  BY RingCounts DEF Rings
<1>3. Mod(q.head + 1) = IF q.head = job.size - 1 THEN 0 ELSE q.head + 1
  BY <1>2, ModAfter
<1>4. r = [buf |-> [q.buf EXCEPT ![q.head] = c], head |-> Mod(q.head + 1), tail |-> q.tail]
  <2>1. q = [buf |-> q.buf, head |-> q.head, tail |-> q.tail]
    BY DEF Rings
  <2>2. Store(q, c) = [buf |-> [q.buf EXCEPT ![q.head] = c], head |-> q.head, tail |-> q.tail]
    BY <2>1 DEF Store
  <2> QED
    BY <2>2 DEF Putch, IncHead
<1>5. r \in Rings(S)
  BY <1>1, <1>2, <1>3, <1>4 DEF Rings, Positions
<1> HIDE DEF r
<1>6. CHARS(r) = Distance(r.tail, r.head) /\ CHARS(q) = Distance(q.tail, q.head)
  BY <1>5, RingCounts DEF Distance
<1>6a. r.head = (IF q.head = job.size - 1 THEN 0 ELSE q.head + 1) /\ r.tail = q.tail
  BY <1>3, <1>4
<1>7. CHARS(r) = CHARS(q) + 1
  BY <1>2, <1>6, <1>6a, DistanceChanges
<1>8. ASSUME NEW i \in 1 .. CHARS(q)
      PROVE  Content(r)[i] = Content(q)[i]
  <2>1. i \in 1 .. CHARS(r) /\ Place(q, i) \in Positions
    BY <1>1, <1>2, <1>7, RingContent DEF Positions
  <2>2. Place(q, i) # q.head
    BY <1>1, <1>2 DEF Place, Positions
  <2>3. r.buf[Place(q, i)] = q.buf[Place(q, i)]
    BY <1>2, <1>4, <2>1, <2>2
  <2> QED
    BY <1>5, <1>6a, <2>1, <2>3, RingAlike
<1>9. Content(r)[CHARS(q) + 1] = c
  <2>1. CHARS(q) + 1 \in 1 .. CHARS(r)
    BY <1>1, <1>2, <1>7 DEF Positions
  <2>2. Place(r, CHARS(q) + 1) = q.head
    BY <1>1, <1>2, <1>4 DEF Place, Positions
  <2>3. Content(r)[CHARS(q) + 1] = r.buf[q.head]
    BY <1>5, <2>1, <2>2, RingContent
  <2> QED
    BY <1>2, <1>4, <2>3
<1> QED
  BY <1>5, <1>7, <1>8, <1>9 DEF r

\* DEC takes the last one back.
LEMMA DecHeadTakesLast ==
    ASSUME job \in Workloads, NEW S, NEW q \in Rings(S), ~ Empty(q)
    PROVE  /\ DecHead(q) \in Rings(S)
           /\ CHARS(DecHead(q)) = CHARS(q) - 1
           /\ \A i \in 1 .. CHARS(q) - 1 : Content(DecHead(q))[i] = Content(q)[i]
<1> DEFINE r == DecHead(q)
<1>1. job.size \in Nat /\ job.size > 1
  BY SizesOfJob
<1>2. /\ q.head \in Positions /\ q.tail \in Positions /\ q.buf \in [Positions -> S]
      /\ CHARS(q) \in Positions /\ q.head # q.tail
      /\ CHARS(q) = IF q.tail <= q.head THEN q.head - q.tail ELSE q.head - q.tail + job.size
  BY RingCounts DEF Rings, Empty
<1>3. Mod(q.head - 1) = IF q.head = 0 THEN job.size - 1 ELSE q.head - 1
  BY <1>2, ModBefore
<1>4. r = [buf |-> q.buf, head |-> Mod(q.head - 1), tail |-> q.tail]
  BY DEF DecHead, Rings
<1>5. r \in Rings(S)
  BY <1>1, <1>2, <1>3, <1>4 DEF Rings, Positions
<1> HIDE DEF r
<1>6. CHARS(r) = Distance(r.tail, r.head) /\ CHARS(q) = Distance(q.tail, q.head)
  BY <1>5, RingCounts DEF Distance
<1>6a. r.head = (IF q.head = 0 THEN job.size - 1 ELSE q.head - 1) /\ r.tail = q.tail
  BY <1>3, <1>4
<1>7. CHARS(r) = CHARS(q) - 1
  BY <1>2, <1>6, <1>6a, DistanceChanges
<1>8. ASSUME NEW i \in 1 .. CHARS(q) - 1
      PROVE  Content(r)[i] = Content(q)[i]
  <2>1. i \in 1 .. CHARS(r) /\ i \in 1 .. CHARS(q)
    BY <1>1, <1>2, <1>7 DEF Positions
  <2> QED
    BY <1>4, <1>5, <2>1, RingAlike
<1> QED
  BY <1>5, <1>7, <1>8 DEF r

\* GETCH takes the first one.
LEMMA IncTailTakesFirst ==
    ASSUME job \in Workloads, NEW S, NEW q \in Rings(S), ~ Empty(q)
    PROVE  /\ IncTail(q) \in Rings(S)
           /\ CHARS(IncTail(q)) = CHARS(q) - 1
           /\ \A i \in 1 .. CHARS(q) - 1 : Content(IncTail(q))[i] = Content(q)[i + 1]
<1> DEFINE r == IncTail(q)
<1>1. job.size \in Nat /\ job.size > 1
  BY SizesOfJob
<1>2. /\ q.head \in Positions /\ q.tail \in Positions /\ q.buf \in [Positions -> S]
      /\ CHARS(q) \in Positions /\ q.head # q.tail
      /\ CHARS(q) = IF q.tail <= q.head THEN q.head - q.tail ELSE q.head - q.tail + job.size
  BY RingCounts DEF Rings, Empty
<1>3. Mod(q.tail + 1) = IF q.tail = job.size - 1 THEN 0 ELSE q.tail + 1
  BY <1>2, ModAfter
<1>4. r = [buf |-> q.buf, head |-> q.head, tail |-> Mod(q.tail + 1)]
  BY DEF IncTail, Rings
<1>5. r \in Rings(S)
  BY <1>1, <1>2, <1>3, <1>4 DEF Rings, Positions
<1> HIDE DEF r
<1>6. CHARS(r) = Distance(r.tail, r.head) /\ CHARS(q) = Distance(q.tail, q.head)
  BY <1>5, RingCounts DEF Distance
<1>6a. r.tail = (IF q.tail = job.size - 1 THEN 0 ELSE q.tail + 1) /\ r.head = q.head
  BY <1>3, <1>4
<1>7. CHARS(r) = CHARS(q) - 1
  BY <1>2, <1>6, <1>6a, DistanceChanges
<1>8. ASSUME NEW i \in 1 .. CHARS(q) - 1
      PROVE  Content(r)[i] = Content(q)[i + 1]
  <2>1. i \in 1 .. CHARS(r) /\ i + 1 \in 1 .. CHARS(q)
    BY <1>1, <1>2, <1>7 DEF Positions
  <2>2. Place(r, i) = Place(q, i + 1)
    <3>1. i \in Nat /\ i >= 1 /\ i <= job.size - 1 /\ q.tail \in 0 .. job.size - 1
      BY <1>1, <1>2 DEF Positions
    <3>2. CASE q.tail = job.size - 1
      BY <1>1, <1>6a, <3>1, <3>2 DEF Place
    <3>3. CASE q.tail # job.size - 1
      BY <1>1, <1>6a, <3>1, <3>3 DEF Place
    <3> QED
      BY <3>2, <3>3
  <2> QED
    BY <1>4, <1>5, <2>1, <2>2, RingContent
<1> QED
  BY <1>5, <1>7, <1>8 DEF r

\* The places of line ends among the characters of a queue.
Ended(q) == {i \in 1 .. CHARS(q) : Content(q)[i] \in LineEnds}

\* They can be counted.
LEMMA EndedFinite ==
    ASSUME job \in Workloads, NEW S, NEW q \in Rings(S)
    PROVE  /\ IsFiniteSet(Ended(q)) /\ Cardinality(Ended(q)) \in Nat
           /\ Cardinality(Ended(q)) > 0 => \E i \in 1 .. CHARS(q) : Content(q)[i] \in LineEnds
<1>1. CHARS(q) \in Int
  BY RingCounts, SizesOfJob DEF Positions
<1>2. IsFiniteSet(1 .. CHARS(q))
  BY <1>1, FS_Interval
<1>3. IsFiniteSet(Ended(q))
  BY <1>2, FS_Subset DEF Ended
<1>4. Cardinality(Ended(q)) \in Nat
  BY <1>3, FS_CardinalityType
<1>5. Ended(q) # {} => \E i \in 1 .. CHARS(q) : Content(q)[i] \in LineEnds
  BY DEF Ended
<1> QED
  BY <1>3, <1>4, <1>5, FS_EmptySet

\* A character that is appended counts if it ends a line.
LEMMA EndedPutch ==
    ASSUME job \in Workloads, NEW S, NEW q \in Rings(S), NEW c \in S, ~ Full(q)
    PROVE  Cardinality(Ended(Putch(q, c)))
             = Cardinality(Ended(q)) + (IF c \in LineEnds THEN 1 ELSE 0)
<1> DEFINE r == Putch(q, c)
           n == CHARS(q)
<1>1. /\ n \in Nat /\ CHARS(r) = n + 1 /\ Content(r)[n + 1] = c
      /\ \A i \in 1 .. n : Content(r)[i] = Content(q)[i]
  BY PutchAppends, RingCounts, SizesOfJob DEF Positions
<1>2. IsFiniteSet(Ended(q))
  BY EndedFinite
<1> HIDE DEF r, n
<1>3. CASE c \in LineEnds
  <2>1. Ended(r) = Ended(q) \cup {n + 1} /\ n + 1 \notin Ended(q)
    BY <1>1, <1>3 DEF Ended, n
  <2> QED
    BY <1>2, <1>3, <2>1, FS_AddElement DEF r
<1>4. CASE c \notin LineEnds
  <2>1. Ended(r) = Ended(q)
    BY <1>1, <1>4 DEF Ended, n
  <2> QED
    BY <1>4, <2>1, EndedFinite DEF r
<1> QED
  BY <1>3, <1>4

\* One that is taken back does not.
LEMMA EndedDecHead ==
    ASSUME job \in Workloads, NEW S, NEW q \in Rings(S), ~ Empty(q), LastOf(q) \notin LineEnds
    PROVE  Ended(DecHead(q)) = Ended(q)
<1> DEFINE r == DecHead(q)
           n == CHARS(q)
<1>1. /\ n \in Nat /\ n > 0 /\ CHARS(r) = n - 1 /\ Content(q)[n] \notin LineEnds
      /\ \A i \in 1 .. n - 1 : Content(r)[i] = Content(q)[i]
  BY DecHeadTakesLast, RingEnds, RingCounts, SizesOfJob DEF Positions
<1> HIDE DEF r, n
<1>2. Ended(r) = Ended(q)
  BY <1>1 DEF Ended, n
<1> QED
  BY <1>2 DEF r

\* The first one counts no more when it is taken.
LEMMA EndedIncTail ==
    ASSUME job \in Workloads, NEW S, NEW q \in Rings(S), ~ Empty(q)
    PROVE  Cardinality(Ended(IncTail(q)))
             = Cardinality(Ended(q)) - (IF First(q) \in LineEnds THEN 1 ELSE 0)
<1> DEFINE r == IncTail(q)
           n == CHARS(q)
           Rest == Ended(q) \ {1}
           Shift == [i \in Rest |-> i - 1]
<1>1. /\ n \in Nat /\ n > 0 /\ CHARS(r) = n - 1 /\ First(q) = Content(q)[1]
      /\ \A i \in 1 .. n - 1 : Content(r)[i] = Content(q)[i + 1]
  BY IncTailTakesFirst, RingEnds, RingCounts, SizesOfJob DEF Positions
<1>2. IsFiniteSet(Ended(q)) /\ Cardinality(Ended(q)) \in Nat
  BY EndedFinite
<1> HIDE DEF r, n
<1>3. Shift \in Bijection(Rest, Ended(r))
  <2>1. ASSUME NEW i \in Rest
        PROVE  i - 1 \in Ended(r)
    <3>1. i \in Nat /\ i > 1 /\ i <= n /\ Content(q)[i] \in LineEnds
      BY <1>1 DEF Ended, n
    <3>2. i - 1 \in 1 .. n - 1 /\ i - 1 + 1 = i
      BY <1>1, <3>1
    <3> QED
      BY <1>1, <3>1, <3>2 DEF Ended
  <2>2. ASSUME NEW k \in Ended(r)
        PROVE  k + 1 \in Rest /\ k + 1 - 1 = k
    BY <1>1 DEF Ended, n
  <2>3. Shift \in [Rest -> Ended(r)]
    BY <2>1
  <2>4. \A i, k \in Rest : Shift[i] = Shift[k] => i = k
    BY <1>1 DEF Ended
  <2>5. ASSUME NEW k \in Ended(r)
        PROVE  \E i \in Rest : Shift[i] = k
    <3>1. k \in Int /\ k + 1 \in Rest /\ k + 1 - 1 = k
      BY <1>1, <2>2 DEF Ended
    <3> HIDE DEF Rest
    <3>2. Shift[k + 1] = k + 1 - 1
      BY <3>1
    <3> QED
      BY <3>1, <3>2
  <2> HIDE DEF Rest, Shift
  <2>6. Shift \in Injection(Rest, Ended(r))
    BY <2>3, <2>4 DEF Injection, IsInjective
  <2>7. Shift \in Surjection(Rest, Ended(r))
    BY <2>3, <2>5 DEF Surjection
  <2> QED
    BY <2>6, <2>7 DEF Bijection
<1>4. IsFiniteSet(Rest)
  BY <1>2, FS_Subset
<1>5. Cardinality(Ended(r)) = Cardinality(Rest)
  <2>1. ExistsBijection(Rest, Ended(r))
    BY <1>3 DEF ExistsBijection
  <2> QED
    BY <1>4, <2>1, FS_Bijection
<1>6. CASE First(q) \in LineEnds
  <2>1. 1 \in Ended(q)
    BY <1>1, <1>6 DEF Ended, n
  <2> QED
    BY <1>2, <1>5, <1>6, <2>1, FS_RemoveElement DEF r
<1>7. CASE First(q) \notin LineEnds
  <2>1. Rest = Ended(q)
    BY <1>1, <1>7 DEF Ended
  <2>2. Cardinality(Ended(r)) = Cardinality(Ended(q))
    BY <1>5, <2>1
  <2> QED
    BY <1>2, <1>7, <2>2 DEF r
<1> QED
  BY <1>6, <1>7

-----------------------------------------------------------------------------
(* What the handler of a key works on.                                      *)

Fields == {"read_q", "write_q", "secondary", "data", "signal", "line", "txie"}
Shaped(s) == s = [f \in Fields |-> s[f]]
Work(s) ==
    /\ Shaped(s)
    /\ s.read_q \in Rings(Typed) /\ s.secondary \in Rings(Cooked)
    /\ s.data = Cardinality(Ended(s.secondary))

\* Nothing but what is echoed is new.
SameInput(s, t) ==
    Shaped(t) /\ t.read_q = s.read_q /\ t.secondary = s.secondary /\ t.data = s.data

\* Characters have moved from read_q to secondary or are gone; line ends stay, and so
\* does the first character while no key can take it back.
Guarded(s) == NothingTakenBack(job) \/ ~ term.canon \/ s.data > 0
FirstStays(s, t) ==
    ~ Empty(s.secondary) =>
      ~ Empty(t.secondary) /\ First(t.secondary) = First(s.secondary)
Cooks(s, t) ==
    /\ Work(t) /\ t.data >= s.data
    /\ CHARS(t.read_q) + CHARS(t.secondary) <= CHARS(s.read_q) + CHARS(s.secondary)
    /\ Guarded(s) => FirstStays(s, t)

\* Characters of the line that is typed are taken back.
TakesBack(s, t) ==
    /\ Work(t) /\ t.read_q = s.read_q /\ t.data = s.data
    /\ CHARS(t.secondary) <= CHARS(s.secondary)
    /\ s.data > 0 => FirstStays(s, t)

\* The counts of what a handler works on are numbers.
LEMMA WorkCounts ==
    ASSUME job \in Workloads, NEW s, Work(s)
    PROVE  /\ s.data \in Nat /\ CHARS(s.read_q) \in Nat /\ CHARS(s.secondary) \in Nat
<1>1. CHARS(s.read_q) \in Positions /\ CHARS(s.secondary) \in Positions
  BY RingCounts DEF Work
<1>2. s.data \in Nat
  BY EndedFinite DEF Work
<1> QED
  BY <1>1, <1>2, SizesOfJob DEF Positions

\* A handler that does nothing, and one that goes on.
LEMMA CooksTransitive ==
    ASSUME job \in Workloads, NEW s, NEW t, NEW u, Work(s)
    PROVE  /\ Cooks(s, s) /\ TakesBack(s, s)
           /\ Cooks(s, t) /\ Cooks(t, u) => Cooks(s, u)
           /\ TakesBack(s, t) /\ TakesBack(t, u) => TakesBack(s, u)
<1>1. Cooks(s, s) /\ TakesBack(s, s)
  BY WorkCounts DEF Cooks, TakesBack, FirstStays
<1>2. ASSUME Cooks(s, t), Cooks(t, u)
      PROVE  Cooks(s, u)
  <2>1. Work(t) /\ Work(u)
    BY <1>2 DEF Cooks
  <2>2. /\ s.data \in Nat /\ t.data \in Nat /\ u.data \in Nat
        /\ CHARS(s.read_q) + CHARS(s.secondary) \in Nat
        /\ CHARS(t.read_q) + CHARS(t.secondary) \in Nat
        /\ CHARS(u.read_q) + CHARS(u.secondary) \in Nat
    BY <2>1, WorkCounts
  <2>3. Guarded(s) => Guarded(t)
    BY <1>2, <2>2 DEF Guarded, Cooks
  <2> QED
    BY <1>2, <2>1, <2>2, <2>3 DEF Cooks, FirstStays
<1>3. ASSUME TakesBack(s, t), TakesBack(t, u)
      PROVE  TakesBack(s, u)
  <2>1. /\ CHARS(s.secondary) \in Nat /\ CHARS(t.secondary) \in Nat
        /\ CHARS(u.secondary) \in Nat
    BY <1>3, WorkCounts DEF TakesBack
  <2> QED
    BY <1>3, <2>1 DEF TakesBack, FirstStays
<1> QED
  BY <1>1, <1>2, <1>3

\* An echo is for the line.
LEMMA EchoKeeps ==
    ASSUME NEW s, Shaped(s), NEW chars
    PROVE  SameInput(s, Echo(s, chars))
<1>1. CASE ~ term.echo
  BY <1>1 DEF Echo, SameInput
<1>2. CASE term.echo
  <2> DEFINE w == [s EXCEPT !.write_q = PutAll(@, chars)]
  <2>1. /\ Shaped(w)
        /\ w.read_q = s.read_q /\ w.secondary = s.secondary /\ w.data = s.data
    BY DEF Shaped, Fields
  <2> HIDE DEF w
  <2>2. SameInput(s, Write(w))
    <3>1. CASE job.console
      <4> DEFINE v == [w EXCEPT !.line = @ \o Content(w.write_q),
                                !.write_q.tail = w.write_q.head]
      <4>1. /\ Shaped(v)
            /\ v.read_q = w.read_q /\ v.secondary = w.secondary /\ v.data = w.data
        BY <2>1 DEF Shaped, Fields
      <4> HIDE DEF v
      <4>2. SameInput(s, v)
        BY <2>1, <4>1 DEF SameInput
      <4> QED
        BY <3>1, <4>2 DEF Write, v
    <3>2. CASE ~ job.console
      <4> DEFINE v == [w EXCEPT !.txie = @ \/ ~ Empty(w.write_q)]
      <4>1. /\ Shaped(v)
            /\ v.read_q = w.read_q /\ v.secondary = w.secondary /\ v.data = w.data
        BY <2>1 DEF Shaped, Fields
      <4> HIDE DEF v
      <4>2. SameInput(s, v)
        BY <2>1, <4>1 DEF SameInput
      <4> QED
        BY <3>2, <4>2 DEF Write, v
    <3> QED
      BY <3>1, <3>2
  <2> QED
    BY <1>2, <2>2 DEF Echo, w
<1> QED
  BY <1>1, <1>2

\* secondary is replaced.
LEMMA SecondarySet ==
    ASSUME NEW s, Shaped(s), NEW q
    PROVE  LET t == [s EXCEPT !.secondary = q] IN
           Shaped(t) /\ t.secondary = q /\ t.read_q = s.read_q /\ t.data = s.data
  BY DEF Shaped, Fields

\* ERASE takes back no end of a line.
LEMMA TakeBackTakesBack ==
    ASSUME job \in Workloads, NEW s, Work(s)
    PROVE  TakesBack(s, TakeBack(s))
<1>1. CASE ~ Unended(s)
  BY <1>1, CooksTransitive DEF TakeBack
<1>2. CASE Unended(s)
  <2> DEFINE e == Echo(s, Erased(LastOf(s.secondary)))
             q == s.secondary
             t == [e EXCEPT !.secondary = DecHead(e.secondary)]
  <2>1. TakeBack(s) = t
    BY <1>2 DEF TakeBack
  <2>2. SameInput(s, e)
    BY EchoKeeps DEF Work
  <2>3. q \in Rings(Cooked) /\ ~ Empty(q) /\ LastOf(q) \notin LineEnds
    BY <1>2 DEF Unended, Work
  <2> HIDE DEF e, q
  <2>4. e.secondary = q /\ e.read_q = s.read_q /\ e.data = s.data /\ Work(e)
    BY <2>2 DEF SameInput, Work, q
  <2>5. /\ Shaped(t) /\ t.secondary = DecHead(q)
        /\ t.read_q = s.read_q /\ t.data = s.data
    BY <2>4, SecondarySet DEF Work
  <2> HIDE DEF t
  <2>6. /\ DecHead(q) \in Rings(Cooked) /\ Ended(DecHead(q)) = Ended(q)
        /\ CHARS(DecHead(q)) = CHARS(q) - 1
        /\ \A i \in 1 .. CHARS(q) - 1 : Content(DecHead(q))[i] = Content(q)[i]
    BY <2>3, DecHeadTakesLast, EndedDecHead
  <2>7. Work(t)
    BY <2>4, <2>5, <2>6 DEF Work, q
  <2>8. CHARS(q) \in Nat
    BY <2>3, RingCounts, SizesOfJob DEF Positions
  <2>9. ASSUME s.data > 0
        PROVE  FirstStays(s, t)
    <3>1. PICK i \in 1 .. CHARS(q) : Content(q)[i] \in LineEnds
      BY <2>3, <2>9, EndedFinite DEF Work, q
    <3>2. Content(q)[CHARS(q)] \notin LineEnds
      BY <2>3, RingEnds
    <3>3. CHARS(q) - 1 > 0 /\ 1 \in 1 .. CHARS(q) - 1
      BY <2>8, <3>1, <3>2
    <3>4. ~ Empty(DecHead(q))
      BY <2>6, <3>3, RingCounts
    <3>5. First(DecHead(q)) = First(q)
      BY <2>3, <2>6, <3>3, <3>4, RingEnds
    <3> QED
      BY <2>5, <3>4, <3>5 DEF FirstStays, q
  <2> QED
    BY <2>1, <2>5, <2>6, <2>7, <2>8, <2>9 DEF TakesBack, q
<1> QED
  BY <1>1, <1>2

\* A turn of either loop of a handler: of KILL, or of copy_to_cooked() itself.
Turn(loop, s) == IF loop = "kill" THEN TakeBack(s) ELSE CookOne(s)
AreTurns(loop, s, n, after) ==
    after = [k \in 0 .. n |-> IF k = 0 THEN s ELSE Turn(loop, after[k - 1])]

\* They can be taken, however many.
LEMMA TurnsExist ==
    ASSUME NEW loop, NEW s
    PROVE  \A n \in Nat : \E after : AreTurns(loop, s, n, after)
<1> DEFINE S == {n \in Nat : \E after : AreTurns(loop, s, n, after)}
<1>1. 0 \in S
  <2>1. AreTurns(loop, s, 0, [k \in 0 .. 0 |-> s])
    BY DEF AreTurns
  <2> QED
    BY <2>1
<1>2. ASSUME NEW n \in Nat, n \in S
      PROVE  n + 1 \in S
  <2>1. PICK before : AreTurns(loop, s, n, before)
    BY <1>2
  <2> DEFINE after == [k \in 0 .. n + 1 |->
                         IF k = n + 1 THEN Turn(loop, before[n]) ELSE before[k]]
  <2>2. ASSUME NEW k \in 0 .. n + 1
        PROVE  after[k] = IF k = 0 THEN s ELSE Turn(loop, after[k - 1])
    <3>1. CASE k = 0
      BY <2>1, <3>1 DEF AreTurns
    <3>2. CASE k # 0 /\ k # n + 1
      <4>1. k \in 0 .. n /\ k - 1 \in 0 .. n + 1 /\ k - 1 # n + 1
        BY <3>2
      <4>2. before[k] = Turn(loop, before[k - 1])
        BY <2>1, <3>2, <4>1 DEF AreTurns
      <4> QED
        BY <3>2, <4>1, <4>2
    <3>3. CASE k = n + 1
      <4>1. k # 0 /\ k - 1 = n /\ n \in 0 .. n + 1 /\ n # n + 1
        BY <3>3
      <4> QED
        BY <3>3, <4>1
    <3> QED
      BY <3>1, <3>2, <3>3
  <2>3. after = [k \in 0 .. n + 1 |-> after[k]]
    OBVIOUS
  <2> HIDE DEF after
  <2>4. AreTurns(loop, s, n + 1, after)
    BY <2>2, <2>3 DEF AreTurns
  <2> QED
    BY <2>4
<1>3. Nat \subseteq S
  <2> HIDE DEF S
  <2> QED
    BY <1>1, <1>2, Counting
<1> QED
  BY <1>3

\* What each turn may do, all of them may.
Allows(loop, s, t) == IF loop = "kill" THEN TakesBack(s, t) ELSE Cooks(s, t)
LEMMA TurnsAllowed ==
    ASSUME job \in Workloads, NEW loop, NEW s, Work(s), NEW n \in Nat, NEW after,
           AreTurns(loop, s, n, after),
           \A u : Work(u) => Allows(loop, u, Turn(loop, u))
    PROVE  Allows(loop, s, after[n])
<1> DEFINE S == {k \in Nat : k <= n => Allows(loop, s, after[k])}
<1>1. 0 \in S
  <2>1. after[0] = s
    BY DEF AreTurns
  <2> QED
    BY <2>1, CooksTransitive DEF Allows
<1>2. ASSUME NEW k \in Nat, k \in S
      PROVE  k + 1 \in S
  <2> SUFFICES ASSUME k + 1 <= n
               PROVE  Allows(loop, s, after[k + 1])
    OBVIOUS
  <2>1. k + 1 \in 0 .. n /\ k + 1 # 0 /\ k + 1 - 1 = k /\ k <= n
    OBVIOUS
  <2>2. Allows(loop, s, after[k])
    BY <1>2, <2>1
  <2>3. after[k + 1] = Turn(loop, after[k])
    BY <2>1 DEF AreTurns
  <2>4. Work(after[k])
    BY <2>2 DEF Allows, TakesBack, Cooks
  <2>5. Allows(loop, after[k], after[k + 1])
    BY <2>3, <2>4
  <2> QED
    BY <2>2, <2>5, CooksTransitive DEF Allows
<1>3. n \in S
  <2> HIDE DEF S
  <2> QED
    BY <1>1, <1>2, Counting
<1> QED
  BY <1>3

\* KILL takes back no end of a line either.
LEMMA KillTakesBack ==
    ASSUME job \in Workloads, NEW s, Work(s)
    PROVE  TakesBack(s, Kill(s))
<1>1. job.size \in Nat
  BY SizesOfJob
<1>2. \E after : AreTurns("kill", s, job.size, after)
  BY <1>1, TurnsExist
<1>3. PICK after : AreTurns("kill", s, job.size, after) /\ Kill(s) = after[job.size]
  BY <1>2 DEF Kill, AreTurns, Turn
<1>4. \A u : Work(u) => Allows("kill", u, Turn("kill", u))
  BY TakeBackTakesBack DEF Allows, Turn
<1>5. Allows("kill", s, after[job.size])
  BY <1>1, <1>3, <1>4, TurnsAllowed
<1> QED
  BY <1>3, <1>5 DEF Allows

\* An end of a line is counted as it is put into the queue.
LEMMA AcceptCooks ==
    ASSUME job \in Workloads, NEW s, Work(s), ~ Full(s.secondary), NEW c \in Cooked
    PROVE  /\ Work(Accept(s, c)) /\ Accept(s, c).read_q = s.read_q
           /\ Accept(s, c).data >= s.data
           /\ CHARS(Accept(s, c).secondary) = CHARS(s.secondary) + 1
           /\ FirstStays(s, Accept(s, c))
<1> DEFINE x == [s EXCEPT !.data = @ + (IF c \in LineEnds THEN 1 ELSE 0)]
           e == Echo(x, Echoed(c))
           q == s.secondary
           r == Putch(q, c)
           t == [e EXCEPT !.secondary = Putch(e.secondary, c)]
<1>1. Accept(s, c) = t
  BY DEF Accept
<1>2. /\ Shaped(x) /\ x.read_q = s.read_q /\ x.secondary = q
      /\ x.data = s.data + (IF c \in LineEnds THEN 1 ELSE 0)
  BY DEF Work, Shaped, Fields
<1> HIDE DEF x, q
<1>3. SameInput(x, e)
  BY <1>2, EchoKeeps
<1> HIDE DEF e
<1>4. /\ Shaped(t) /\ t.read_q = s.read_q /\ t.secondary = r
      /\ t.data = s.data + (IF c \in LineEnds THEN 1 ELSE 0)
  BY <1>2, <1>3, SecondarySet DEF SameInput
<1> HIDE DEF t, r
<1>5. q \in Rings(Cooked) /\ ~ Full(q) /\ s.data = Cardinality(Ended(q)) /\ s.data \in Nat
  BY WorkCounts DEF Work, q
<1>6. /\ r \in Rings(Cooked) /\ CHARS(r) = CHARS(q) + 1
      /\ \A i \in 1 .. CHARS(q) : Content(r)[i] = Content(q)[i]
  BY <1>5, PutchAppends DEF r
<1>7. t.data = Cardinality(Ended(r))
  BY <1>4, <1>5, EndedPutch DEF r
<1>8. Work(t)
  BY <1>4, <1>6, <1>7 DEF Work
<1>9. FirstStays(s, t)
  <2> SUFFICES ASSUME ~ Empty(q)
               PROVE  ~ Empty(r) /\ First(r) = First(q)
    BY <1>4 DEF FirstStays, q
  <2>1. CHARS(q) > 0 /\ CHARS(q) \in Nat
    BY <1>5, RingEnds, WorkCounts DEF q
  <2>2. ~ Empty(r)
    BY <1>6, <2>1, RingCounts
  <2> QED
    BY <1>5, <1>6, <2>1, <2>2, RingEnds
<1> QED
  BY <1>1, <1>4, <1>5, <1>6, <1>8, <1>9 DEF q

\* A key of the queue is cooked.
LEMMA CookOneCooks ==
    ASSUME job \in Workloads, term \in {job.term, job.other}, NEW s, Work(s)
    PROVE  Cooks(s, CookOne(s))
<1> DEFINE k == First(s.read_q)
           c == IF k = "CR" /\ term.crnl THEN "NL" ELSE k
           r == [s EXCEPT !.read_q = IncTail(@)]
<1>1. CASE Empty(s.read_q) \/ Full(s.secondary)
  BY <1>1, CooksTransitive DEF CookOne
<1>2. CASE ~ Empty(s.read_q) /\ ~ Full(s.secondary)
  <2>1. CookOne(s) =
          CASE term.canon /\ c = "KILL" -> Kill(r)
            [] term.canon /\ c = "ERASE" -> TakeBack(r)
            [] term.isig /\ c \in {"INTR", "QUIT"} -> Interrupt(r, c)
            [] OTHER -> Accept(r, c)
    BY <1>2 DEF CookOne
  <2>2. /\ Shaped(r) /\ r.read_q = IncTail(s.read_q) /\ r.secondary = s.secondary
        /\ r.data = s.data
    BY DEF Work, Shaped, Fields
  <2>3. k \in Typed
    <3>1. s.read_q.tail \in Positions /\ s.read_q.buf \in [Positions -> Typed]
      BY DEF Work, Rings
    <3> QED
      BY <3>1 DEF First
  <2>4. /\ c \in Cooked
        /\ c \in {"KILL", "ERASE"} => c \in job.keyset
    BY <2>3 DEF Cooked, Typed
  <2>5. term.canon /\ c \in {"KILL", "ERASE"} => ~ NothingTakenBack(job)
    BY <2>4 DEF NothingTakenBack
  <2> HIDE DEF c, k, r
  <2>6. /\ IncTail(s.read_q) \in Rings(Typed)
        /\ CHARS(IncTail(s.read_q)) = CHARS(s.read_q) - 1
    BY <1>2, IncTailTakesFirst DEF Work
  <2>7. Work(r) /\ CHARS(r.read_q) = CHARS(s.read_q) - 1
    BY <2>2, <2>6 DEF Work
  <2>8. CHARS(s.read_q) \in Nat /\ CHARS(s.secondary) \in Nat /\ s.data \in Nat
    BY WorkCounts
  <2>9. ASSUME NEW t, TakesBack(r, t), term.canon, ~ NothingTakenBack(job)
        PROVE  Cooks(s, t)
    <3>1. CHARS(t.secondary) \in Nat
      BY <2>9, WorkCounts DEF TakesBack
    <3> QED
      BY <2>2, <2>7, <2>8, <2>9, <3>1 DEF TakesBack, Cooks, Guarded, FirstStays
  <2>10. CASE term.canon /\ c = "KILL"
    <3>1. CookOne(s) = Kill(r)
      BY <2>1, <2>10
    <3> QED
      BY <2>5, <2>7, <2>9, <2>10, <3>1, KillTakesBack
  <2>11. CASE term.canon /\ c = "ERASE"
    <3>1. CookOne(s) = TakeBack(r)
      BY <2>1, <2>11
    <3> QED
      BY <2>5, <2>7, <2>9, <2>11, <3>1, TakeBackTakesBack
  <2>12. CASE ~ (term.canon /\ c \in {"KILL", "ERASE"}) /\ term.isig /\ c \in {"INTR", "QUIT"}
    <3>1. CookOne(s) = Interrupt(r, c)
      BY <2>1, <2>12
    <3> DEFINE t == Interrupt(r, c)
    <3>2. Shaped(t) /\ t.read_q = r.read_q /\ t.secondary = r.secondary /\ t.data = r.data
      BY <2>2 DEF Interrupt, Shaped, Fields
    <3> HIDE DEF t
    <3>3. Work(t)
      BY <2>7, <3>2 DEF Work
    <3> QED
      BY <2>2, <2>7, <2>8, <3>1, <3>2, <3>3 DEF Cooks, FirstStays, t
  <2>13. CASE ~ (term.canon /\ c \in {"KILL", "ERASE"}) /\ ~ (term.isig /\ c \in {"INTR", "QUIT"})
    <3>1. CookOne(s) = Accept(r, c)
      BY <2>1, <2>13
    <3>2. /\ Work(Accept(r, c)) /\ Accept(r, c).read_q = r.read_q
          /\ Accept(r, c).data >= r.data
          /\ CHARS(Accept(r, c).secondary) = CHARS(r.secondary) + 1
          /\ FirstStays(r, Accept(r, c))
      BY <1>2, <2>2, <2>4, <2>7, AcceptCooks
    <3> QED
      BY <2>2, <2>7, <2>8, <3>1, <3>2 DEF Cooks, FirstStays
  <2> QED
    BY <2>10, <2>11, <2>12, <2>13
<1> QED
  BY <1>1, <1>2

\* All that is there is cooked.
LEMMA CopyToCookedCooks ==
    ASSUME job \in Workloads, term \in {job.term, job.other}, NEW s, Work(s)
    PROVE  Cooks(s, copy_to_cooked(s))
<1>1. job.size \in Nat
  BY SizesOfJob
<1>2. \E after : AreTurns("cook", s, job.size, after)
  BY <1>1, TurnsExist
<1>3. PICK after : AreTurns("cook", s, job.size, after) /\ copy_to_cooked(s) = after[job.size]
  BY <1>2 DEF copy_to_cooked, AreTurns, Turn
<1>4. \A u : Work(u) => Allows("cook", u, Turn("cook", u))
  BY CookOneCooks DEF Allows, Turn
<1>5. Allows("cook", s, after[job.size])
  BY <1>1, <1>3, <1>4, TurnsAllowed
<1> QED
  BY <1>3, <1>5 DEF Allows

-----------------------------------------------------------------------------
(* The invariant is kept.                                                   *)

\* It begins with empty queues.
LEMMA InitReads == TtyInit => ReadInv
<1> SUFFICES ASSUME TtyInit
             PROVE  ReadInv
  OBVIOUS
<1>1. /\ job \in Workloads /\ term = job.term /\ data = 0 /\ keys = job.keys
      /\ want = job.reads /\ read_q = EmptyQueue /\ secondary = EmptyQueue
  BY DEF TtyInit
<1>2. EmptyQueue \in Rings(Typed) /\ EmptyQueue \in Rings(Cooked) /\ Empty(EmptyQueue)
  BY <1>1, SizesOfJob DEF EmptyQueue, Rings, Typed, Cooked, Positions, Empty
<1>3. CHARS(EmptyQueue) = 0
  BY <1>1, <1>2, RingCounts
<1>4. LineEndsCounted
  <2>1. Ended(EmptyQueue) = {}
    BY <1>3 DEF Ended
  <2> QED
    BY <1>1, <2>1, FS_EmptySet DEF LineEndsCounted, Ended
<1>5. QueuesOK
  BY <1>1, <1>2, <1>3, SizesOfJob DEF QueuesOK
<1>6. ReadersOK
  <2>1. pc = [t \in Tasks |-> IF job.texts[t] # <<>> THEN "wait"
                             ELSE IF job.reads[t] > 0 THEN "read" ELSE "done"]
    BY DEF TtyInit
  <2>2. pc \in [Tasks -> PCs] /\ \A t \in Tasks : pc[t] \in {"wait", "read", "done"}
    BY <2>1 DEF PCs
  <2>3. \A t \in Tasks : pc[t] = "read" => job.reads[t] > 0
    BY <2>1
  <2> QED
    BY <1>1, <2>2, <2>3, SizesOfJob DEF ReadersOK, OneReaderOK, InRead, AtTake, Reading
<1> QED
  BY <1>4, <1>5, <1>6 DEF ReadInv

\* What the handlers work on is in order.
LEMMA HereWorks ==
    ASSUME ReadInv
    PROVE  Work(Here) /\ data \in Nat
<1>1. Shaped(Here) /\ Here.read_q = read_q /\ Here.secondary = secondary /\ Here.data = data
  BY DEF Here, Shaped, Fields
<1>2. Work(Here)
  BY <1>1 DEF ReadInv, QueuesOK, LineEndsCounted, Work, Ended
<1> QED
  BY <1>1, <1>2, WorkCounts DEF ReadInv, QueuesOK

\* The next state of the queues, seen with the job of this one.
LEMMA SameJob ==
    ASSUME UNCHANGED job
    PROVE  /\ Rings(Typed)' = Rings(Typed) /\ Rings(Cooked)' = Rings(Cooked)
           /\ CHARS(read_q)' = CHARS(read_q') /\ CHARS(secondary)' = CHARS(secondary')
           /\ Empty(secondary)' <=> Empty(secondary')
           /\ First(secondary)' = First(secondary')
           /\ LineEndsCounted' <=> data' = Cardinality(Ended(secondary'))
           /\ LineByLine(job)' <=> LineByLine(job)
<1>1. Rings(Typed)' = Rings(Typed) /\ Rings(Cooked)' = Rings(Cooked)
  BY DEF Rings, Typed, Cooked, Positions
<1>2. CHARS(read_q)' = CHARS(read_q') /\ CHARS(secondary)' = CHARS(secondary')
  BY DEF CHARS, Mod
<1>3. Content(secondary)' = Content(secondary')
  BY DEF Content, CHARS, Mod
<1>4. LineEndsCounted' <=> data' = Cardinality(Ended(secondary'))
  BY <1>2, <1>3 DEF LineEndsCounted, Ended
<1> QED
  BY <1>1, <1>2, <1>4 DEF Empty, First, LineByLine

\* A key keeps it.
LEMMA ReceiveReads ==
    ASSUME Calm, ReadInv, Receive
    PROVE  ReadInv'
<1>1. /\ job \in Workloads /\ term \in {job.term, job.other} /\ keys \in Nat /\ keys > 0
      /\ read_q \in Rings(Typed) /\ secondary \in Rings(Cooked)
      /\ keys' = keys - 1
      /\ UNCHANGED <<job, term, cur, pc, want, held>>
  BY DEF ReadInv, QueuesOK, Receive
<1>2. PICK c \in job.keyset :
        LET stored == Store(read_q, c)
            q == IF Full(read_q) THEN stored ELSE IncHead(stored) IN
        Become(copy_to_cooked([Here EXCEPT !.read_q = q]))
  BY DEF Receive
<1> DEFINE stored == Store(read_q, c)
           q == IF Full(read_q) THEN stored ELSE IncHead(stored)
           s == [Here EXCEPT !.read_q = q]
           t == copy_to_cooked(s)
<1>3. q \in Rings(Typed) /\ CHARS(q) <= CHARS(read_q) + 1 /\ CHARS(q) \in Nat
  <2>1. c \in Typed
    BY DEF Typed
  <2>2. CASE Full(read_q)
    <3>1. stored \in Rings(Typed) /\ stored.head = read_q.head /\ stored.tail = read_q.tail
      BY <1>1, <2>1 DEF Store, Rings
    <3>2. CHARS(stored) = CHARS(read_q) /\ CHARS(read_q) \in Positions
      BY <1>1, <3>1, RingCounts DEF CHARS
    <3> QED
      BY <1>1, <2>2, <3>1, <3>2, SizesOfJob DEF Positions
  <2>3. CASE ~ Full(read_q)
    <3>1. q = Putch(read_q, c)
      BY <2>3 DEF Putch
    <3> HIDE DEF q
    <3>2. q \in Rings(Typed) /\ CHARS(q) = CHARS(read_q) + 1 /\ CHARS(read_q) \in Positions
      BY <1>1, <2>1, <2>3, <3>1, PutchAppends, RingCounts
    <3> QED
      BY <1>1, <3>2, SizesOfJob DEF Positions
  <2> QED
    BY <2>2, <2>3
<1> HIDE DEF stored, q
<1>4. /\ Shaped(s) /\ s.read_q = q /\ s.secondary = secondary /\ s.data = data
  BY DEF Here, Shaped, Fields
<1>5. Work(s) /\ data \in Nat
  BY <1>1, <1>3, <1>4, HereWorks DEF ReadInv, LineEndsCounted, Ended, Work
<1> HIDE DEF s
<1>6. Cooks(s, t)
  BY <1>1, <1>5, CopyToCookedCooks
<1>7. read_q' = t.read_q /\ secondary' = t.secondary /\ data' = t.data
  BY <1>2 DEF Become, t, s, q, stored
<1> HIDE DEF t
<1>8. /\ Work(t) /\ data' >= data /\ data' \in Nat
      /\ CHARS(read_q') \in Nat /\ CHARS(secondary') \in Nat /\ CHARS(secondary) \in Nat
      /\ CHARS(read_q') + CHARS(secondary') <= CHARS(q) + CHARS(secondary)
      /\ CHARS(read_q) \in Nat
  BY <1>1, <1>4, <1>5, <1>6, <1>7, WorkCounts, HereWorks DEF Cooks, Here
<1>9. LineEndsCounted'
  BY <1>1, <1>7, <1>8, SameJob DEF Work
<1>10. QueuesOK'
  <2>1. read_q' \in Rings(Typed) /\ secondary' \in Rings(Cooked)
    BY <1>7, <1>8 DEF Work
  <2>2. CHARS(read_q') + CHARS(secondary') + keys' <= job.keys
    <3>1. CHARS(read_q) + CHARS(secondary) + keys <= job.keys /\ job.keys \in Nat
      BY <1>1, SizesOfJob DEF ReadInv, QueuesOK
    <3> QED
      BY <1>1, <1>3, <1>8, <3>1
  <2>3. keys' \in Nat
    BY <1>1
  <2> QED
    BY <1>1, <2>1, <2>2, <2>3, SameJob DEF QueuesOK
<1>11. ReadersOK'
  <2>1. ASSUME NEW r \in Tasks, AtTake(r)
        PROVE  /\ ~ Empty(secondary') /\ First(secondary') = First(secondary)
               /\ LineByLine(job) => data' > 0 \/ ~ term.canon
    <3>1. ~ Empty(secondary) /\ (LineByLine(job) => data > 0 \/ ~ term.canon)
      BY <2>1 DEF ReadInv, ReadersOK, OneReaderOK
    <3>2. Guarded(s)
      BY <1>1, <1>4, <3>1 DEF Guarded, Calm
    <3>3. FirstStays(s, t)
      BY <1>6, <3>2 DEF Cooks
    <3> QED
      BY <1>4, <1>5, <1>7, <1>8, <3>1, <3>3 DEF FirstStays
  <2> QED
    BY <1>1, <2>1, SameJob DEF ReadInv, ReadersOK, OneReaderOK, InRead, AtTake, Reading
<1> QED
  BY <1>9, <1>10, <1>11 DEF ReadInv

\* Steps that leave the queues alone.
LEMMA QueuesKept ==
    ASSUME ReadInv, UNCHANGED <<job, secondary, data, keys>>, term' \in {term, job.other},
           read_q' = read_q \/ read_q' = Flushed(read_q)
    PROVE  LineEndsCounted' /\ QueuesOK'
<1>1. job \in Workloads /\ read_q \in Rings(Typed) /\ secondary \in Rings(Cooked)
  BY DEF ReadInv, QueuesOK
<1>2. read_q' \in Rings(Typed) /\ CHARS(read_q') <= CHARS(read_q)
  <2>1. CASE read_q' = read_q
    BY <1>1, <2>1, RingCounts, SizesOfJob DEF Positions
  <2>2. CASE read_q' = Flushed(read_q)
    <3>1. Flushed(read_q) \in Rings(Typed) /\ Empty(Flushed(read_q))
      BY <1>1 DEF Flushed, Rings, Empty
    <3> QED
      BY <1>1, <2>2, <3>1, RingCounts, SizesOfJob DEF Positions
  <2> QED
    BY <2>1, <2>2
<1>3. CHARS(read_q) \in Nat /\ CHARS(read_q') \in Nat /\ CHARS(secondary) \in Nat
  BY <1>1, <1>2, RingCounts, SizesOfJob DEF Positions
<1>4. LineEndsCounted'
  BY SameJob DEF ReadInv, LineEndsCounted, Ended
<1>5. QueuesOK'
  BY <1>2, <1>3, SameJob, SizesOfJob DEF ReadInv, QueuesOK
<1> QED
  BY <1>4, <1>5

\* Steps with which no task comes to take a character.
LEMMA ReadersKept ==
    ASSUME ReadInv, NEW t, UNCHANGED <<job, term, secondary, data, want, held>>,
           pc' \in [Tasks -> PCs], \A u \in Tasks : u # t => pc'[u] = pc[u],
           pc'[t] = pc[t] \/ (~ AtTake(t)' /\ (InRead(t)' => InRead(t))),
           \/ cur' = cur
           \/ cur = t /\ cur' = None /\ ~ AtTake(t)'
           \/ cur = None /\ cur' = t
    PROVE  ReadersOK'
<1>1. None \notin Tasks
  BY TerminalAssumption
<1>2. ReadersOK
  BY DEF ReadInv
<1>3. ASSUME NEW u \in Tasks
      PROVE  /\ AtTake(u)' => AtTake(u)
             /\ pc'[u] = "taking" => pc[u] = "taking"
             /\ InRead(u)' => InRead(u)
  BY DEF AtTake, InRead, Reading
<1>4. pc' \in [Tasks -> PCs] /\ want' \in [Tasks -> Int]
  BY <1>2 DEF ReadersOK
<1>5. ASSUME NEW u \in Tasks
      PROVE  OneReaderOK(u)'
  <2>1. OneReaderOK(u)
    BY <1>2 DEF ReadersOK
  <2>2. InRead(u)' => job.reads[u] > 0 /\ (job.reads[u] = 1 => want[u] = 1)
    BY <1>3, <2>1 DEF OneReaderOK
  <2>3. pc'[u] = "taking" => held = First(secondary)
    BY <1>3, <2>1 DEF OneReaderOK
  <2>4. AtTake(u)' => /\ cur = u /\ ~ Empty(secondary)
                      /\ LineByLine(job) => data > 0 \/ ~ term.canon
    BY <1>3, <2>1 DEF OneReaderOK
  <2>5. AtTake(u)' /\ cur = u => cur' = u
    BY <1>1
  <2> QED
    BY <2>2, <2>3, <2>4, <2>5, SameJob DEF OneReaderOK
<1> QED
  BY <1>4, <1>5 DEF ReadersOK

\* A reader comes to take a character that is there.
LEMMA TakesNext ==
    ASSUME ReadInv, NEW t \in Tasks, UNCHANGED <<job, term, secondary, data, held>>,
           cur = t, cur' = t, InRead(t), pc' = [pc EXCEPT ![t] = "take"],
           ~ Empty(secondary), LineByLine(job) => data > 0 \/ ~ term.canon,
           want' \in [Tasks -> Int], \A u \in Tasks : u # t => want'[u] = want[u],
           job.reads[t] = 1 => want'[t] = want[t]
    PROVE  ReadersOK'
<1>1. ReadersOK
  BY DEF ReadInv
<1>2. pc' \in [Tasks -> PCs] /\ pc'[t] = "take" /\ \A u \in Tasks : u # t => pc'[u] = pc[u]
  BY <1>1 DEF ReadersOK, PCs
<1>3. ASSUME NEW u \in Tasks
      PROVE  OneReaderOK(u)'
  <2>1. OneReaderOK(u)
    BY <1>1 DEF ReadersOK
  <2>2. CASE u = t
    BY <1>2, <2>1, <2>2, SameJob DEF OneReaderOK, InRead, AtTake
  <2>3. CASE u # t
    BY <1>2, <2>1, <2>3, SameJob DEF OneReaderOK, InRead, Reading, AtTake
  <2> QED
    BY <2>2, <2>3
<1> QED
  BY <1>2, <1>3 DEF ReadersOK

\* A task whose reads are to return at once, or go on to take what is there.
LEMMA CheckReads ==
    ASSUME Calm, ReadInv, NEW t \in Tasks, Check(t)
    PROVE  ReadersOK'
<1>1. /\ cur = t /\ pc[t] = "check" /\ pc \in [Tasks -> PCs]
      /\ UNCHANGED <<job, term, secondary, data, want, held>>
  BY DEF Check, At, queues, ReadInv, ReadersOK
<1>2. CASE signal[t] # {} \/ NoLine
  <2>1. \/ pc' = [pc EXCEPT ![t] = "done"] /\ cur' = None
        \/ pc' = [pc EXCEPT ![t] = "empty"] /\ cur' = cur
    BY <1>2 DEF Check, ReadReturns, GoTo, Leave
  <2>2. /\ pc' \in [Tasks -> PCs] /\ pc'[t] \in {"done", "empty"}
        /\ \A u \in Tasks : u # t => pc'[u] = pc[u]
    BY <1>1, <2>1 DEF PCs
  <2> QED
    BY <1>1, <2>1, <2>2, ReadersKept DEF AtTake, InRead, Reading
<1>3. CASE signal[t] = {} /\ ~ NoLine
  <2>1. pc' = [pc EXCEPT ![t] = "take"] /\ cur' = cur
    BY <1>3 DEF Check, GoTo
  <2>2. ~ Empty(secondary)
    BY <1>3 DEF NoLine
  <2>3. LineByLine(job) => data > 0 \/ ~ term.canon
    <3> SUFFICES ASSUME LineByLine(job), term.canon
                 PROVE  data > 0
      OBVIOUS
    <3>1. /\ job \in Workloads /\ secondary \in Rings(Cooked) /\ read_q \in Rings(Typed)
          /\ keys \in Nat /\ CHARS(read_q) + CHARS(secondary) + keys <= job.keys
      BY DEF ReadInv, QueuesOK
    <3>2. /\ Left(secondary) = job.size - 1 - CHARS(secondary)
          /\ CHARS(secondary) \in Nat /\ CHARS(read_q) \in Nat
      BY <3>1, RingCounts, SizesOfJob DEF Positions
    <3>3. Left(secondary) > SPARE
      BY <3>1, <3>2, SizesOfJob DEF LineByLine
    <3>4. data # 0
      BY <1>3, <3>3 DEF NoLine
    <3> QED
      BY <3>4, HereWorks
  <2>4. InRead(t) /\ want \in [Tasks -> Int]
    BY <1>1 DEF InRead, Reading, ReadInv, ReadersOK
  <2> QED
    BY <1>1, <2>1, <2>2, <2>3, <2>4, TakesNext
<1> QED
  BY <1>2, <1>3

\* GETCH reads the character, and then moves tail.
LEMMA TakeReads ==
    ASSUME ReadInv, NEW t \in Tasks, Take(t)
    PROVE  ReadInv'
<1>1. /\ cur = t /\ pc \in [Tasks -> PCs] /\ want \in [Tasks -> Int]
      /\ UNCHANGED <<job, term, read_q, keys, want>>
      /\ job \in Workloads /\ secondary \in Rings(Cooked) /\ read_q \in Rings(Typed)
  BY DEF Take, At, bounds, ReadInv, QueuesOK, ReadersOK
<1>2. \A u \in Tasks : OneReaderOK(u)
  BY DEF ReadInv, ReadersOK
<1>3. ASSUME NEW u \in Tasks, u # t
      PROVE  ~ AtTake(u)
  BY <1>1, <1>2, <1>3 DEF OneReaderOK
<1>4. CASE At(t, "take")
  <2>1. /\ held' = First(secondary) /\ pc' = [pc EXCEPT ![t] = "taking"]
        /\ pc[t] = "take" /\ UNCHANGED <<secondary, data, cur>>
    BY <1>4 DEF Take, At, GoTo
  <2>2. LineEndsCounted' /\ QueuesOK'
    BY <1>1, <2>1, QueuesKept
  <2>3. ASSUME NEW u \in Tasks
        PROVE  OneReaderOK(u)'
    <3>1. OneReaderOK(u)
      BY <1>2
    <3>2. /\ InRead(u)' <=> InRead(u)
          /\ AtTake(u)' <=> AtTake(u)
      BY <1>1, <2>1 DEF Reading, InRead, AtTake
    <3> QED
      BY <1>1, <2>1, <3>1, <3>2, SameJob DEF OneReaderOK
  <2>4. pc' \in [Tasks -> PCs]
    BY <1>1, <2>1 DEF PCs
  <2> QED
    BY <1>1, <2>2, <2>3, <2>4 DEF ReadInv, ReadersOK
<1>5. CASE At(t, "taking")
  <2>1. /\ pc[t] = "taking" /\ secondary' = IncTail(secondary)
        /\ data' = IF held \in LineEnds THEN data - 1 ELSE data
        /\ \E p \in {"done", "give"} : pc' = [pc EXCEPT ![t] = p]
    BY <1>5 DEF Take, At, GoTo
  <2>2. held = First(secondary) /\ ~ Empty(secondary)
    BY <1>2, <2>1 DEF OneReaderOK, AtTake
  <2>3. LineEndsCounted'
    <3>1. data = Cardinality(Ended(secondary)) /\ data \in Nat
      BY HereWorks DEF ReadInv, LineEndsCounted, Ended
    <3>2. data' = Cardinality(Ended(IncTail(secondary)))
      BY <1>1, <2>1, <2>2, <3>1, EndedIncTail
    <3> QED
      BY <1>1, <2>1, <3>2, SameJob
  <2>4. QueuesOK'
    <3>1. /\ secondary' \in Rings(Cooked) /\ CHARS(secondary') = CHARS(secondary) - 1
      BY <1>1, <2>1, <2>2, IncTailTakesFirst
    <3>2. /\ CHARS(read_q) + CHARS(secondary) + keys <= job.keys /\ keys \in Nat
          /\ job.keys \in Nat
      BY <1>1, SizesOfJob DEF ReadInv, QueuesOK
    <3>3. CHARS(read_q) \in Nat /\ CHARS(secondary) \in Nat
      BY <1>1, RingCounts, SizesOfJob DEF Positions
    <3>4. CHARS(read_q') + CHARS(secondary') + keys' <= job.keys
      BY <1>1, <3>1, <3>2, <3>3
    <3> QED
      BY <1>1, <3>1, <3>2, <3>4, SameJob DEF ReadInv, QueuesOK
  <2>5. /\ pc' \in [Tasks -> PCs] /\ pc'[t] \in {"done", "give"}
        /\ \A u \in Tasks : u # t => pc'[u] = pc[u]
    BY <1>1, <2>1 DEF PCs
  <2>6. ASSUME NEW u \in Tasks
        PROVE  OneReaderOK(u)'
    <3>1. ~ AtTake(u)' /\ pc'[u] # "taking"
      BY <1>3, <2>5 DEF AtTake
    <3>2. InRead(u)' => InRead(u)
      BY <2>1, <2>5 DEF InRead, Reading
    <3> QED
      BY <1>1, <1>2, <3>1, <3>2 DEF OneReaderOK
  <2> QED
    BY <1>1, <2>3, <2>4, <2>5, <2>6 DEF ReadInv, ReadersOK
<1> QED
  BY <1>4, <1>5 DEF Take

\* A reader that has given a character to its user goes on only where it wants
\* more than one.
LEMMA GiveReads ==
    ASSUME ReadInv, NEW t \in Tasks, Give(t)
    PROVE  ReadersOK'
<1>1. /\ cur = t /\ pc[t] = "give" /\ pc \in [Tasks -> PCs] /\ want \in [Tasks -> Int]
      /\ UNCHANGED <<job, term, secondary, data, held>> /\ job \in Workloads
      /\ want' = [want EXCEPT ![t] = @ - 1]
  BY DEF Give, At, queues, ReadInv, QueuesOK, ReadersOK
<1>2. ReadersOK /\ \A u \in Tasks : OneReaderOK(u)
  BY DEF ReadInv, ReadersOK
<1>3. /\ want' \in [Tasks -> Int] /\ want'[t] = want[t] - 1
      /\ \A u \in Tasks : u # t => want'[u] = want[u]
  BY <1>1
<1>4. InRead(t) /\ job.reads[t] > 0 /\ (job.reads[t] = 1 => want[t] = 1)
  BY <1>1, <1>2 DEF OneReaderOK, InRead, Reading
<1>5. \/ pc' = [pc EXCEPT ![t] = "done"]
      \/ want[t] # 1 /\ ~ Empty(secondary) /\ pc' = [pc EXCEPT ![t] = "take"] /\ cur' = cur
      \/ want[t] # 1 /\ pc' = [pc EXCEPT ![t] = "check"]
  BY DEF Give, ReadReturns, GoTo
<1>6. CASE want[t] # 1 /\ ~ Empty(secondary) /\ pc' = [pc EXCEPT ![t] = "take"] /\ cur' = cur
  <2>1. job.reads[t] # 1
    BY <1>4, <1>6
  <2>2. ~ LineByLine(job)
    BY <1>1, <1>4, <2>1, SizesOfJob DEF LineByLine
  <2> QED
    BY <1>1, <1>3, <1>4, <1>6, <2>1, <2>2, TakesNext
<1>7. CASE \/ pc' = [pc EXCEPT ![t] = "done"]
           \/ want[t] # 1 /\ pc' = [pc EXCEPT ![t] = "check"]
  <2>1. /\ pc' \in [Tasks -> PCs] /\ \A u \in Tasks : u # t => pc'[u] = pc[u]
        /\ pc'[t] = "done" \/ (pc'[t] = "check" /\ want[t] # 1)
    BY <1>1, <1>7 DEF PCs
  <2>2. ASSUME NEW u \in Tasks
        PROVE  OneReaderOK(u)'
    <3>1. CASE u = t
      BY <1>1, <1>4, <2>1, <3>1 DEF OneReaderOK, InRead, Reading, AtTake
    <3>2. CASE u # t
      <4>1. ~ AtTake(u)
        BY <1>1, <1>2, <3>2 DEF OneReaderOK
      <4> QED
        BY <1>1, <1>2, <1>3, <2>1, <3>2, <4>1 DEF OneReaderOK, InRead, Reading, AtTake
    <3> QED
      BY <3>1, <3>2
  <2> QED
    BY <1>3, <2>1, <2>2 DEF ReadersOK
<1> QED
  BY <1>5, <1>6, <1>7

\* The mode is not changed between the test of a reader and its GETCH.
LEMMA IoctlReads ==
    ASSUME ReadInv, Ioctl
    PROVE  ReadInv'
<1>1. /\ cur = None /\ UNCHANGED <<job, secondary, data, keys, cur, pc, want, held>>
      /\ term' = term \/ term' = job.other
      /\ read_q' = read_q \/ read_q' = Flushed(read_q)
  BY DEF Ioctl
<1>2. ReadersOK /\ None \notin Tasks
  BY TerminalAssumption DEF ReadInv
<1>3. LineEndsCounted' /\ QueuesOK'
  <2>1. job \in Workloads /\ read_q \in Rings(Typed) /\ secondary \in Rings(Cooked)
        /\ term \in {job.term, job.other}
    BY DEF ReadInv, QueuesOK
  <2> QED
    BY <1>1, <2>1, QueuesKept
<1>4. ASSUME NEW u \in Tasks
      PROVE  OneReaderOK(u)'
  <2>1. OneReaderOK(u) /\ ~ AtTake(u)
    BY <1>1, <1>2 DEF ReadersOK, OneReaderOK
  <2> QED
    BY <1>1, <2>1, SameJob DEF OneReaderOK, AtTake, InRead, Reading
<1> QED
  BY <1>1, <1>2, <1>3, <1>4 DEF ReadInv, ReadersOK

\* The steps with which no task comes to take a character.
Elsewhere(t) ==
    \/ Alarm(t) \/ Dispatch(t) \/ FaultAt(t) \/ ReadCall(t) \/ SleepIf(t) \/ WaitForRoom(t)
    \/ PutNext(t) \/ Send(t) \/ PrintNext(t) \/ WriteOn(t)
WriterPCs == {"full", "done", "room", "put", "fetch", "putting", "sent", "wait"}
LEMMA ElsewhereReads ==
    ASSUME ReadInv, NEW t \in Tasks, Elsewhere(t)
    PROVE  ReadInv'
<1>1. /\ UNCHANGED <<job, term, read_q, secondary, data, keys, want, held>>
      /\ pc \in [Tasks -> PCs]
  BY DEF Elsewhere, Alarm, Dispatch, FaultAt, ReadCall, SleepIf, WaitForRoom, PutNext, Send,
         PrintNext, WriteOn, queues, bounds, ReadInv, ReadersOK
<1>2. LineEndsCounted' /\ QueuesOK'
  <2>1. term \in {job.term, job.other}
    BY DEF ReadInv, QueuesOK
  <2> QED
    BY <1>1, <2>1, QueuesKept
<1>3. /\ \/ pc' = pc
         \/ \E p \in WriterPCs : pc' = [pc EXCEPT ![t] = p]
         \/ pc[t] \in {"read", "empty"} /\ pc' = [pc EXCEPT ![t] = "check"]
      /\ \/ cur' = cur
         \/ cur = None /\ cur' = t
         \/ cur = t /\ cur' = None /\ pc' = pc /\ ~ AtTake(t)
         \/ cur = t /\ cur' = None /\ \E p \in WriterPCs : pc' = [pc EXCEPT ![t] = p]
  <2>1. CASE Alarm(t)
    BY <2>1 DEF Alarm
  <2>2. CASE Dispatch(t)
    <3>1. cur = None
      BY <2>2 DEF Dispatch
    <3>2. CASE ~ Waits(t)
      BY <2>2, <3>1, <3>2 DEF Dispatch
    <3>3. CASE Waits(t)
      BY <2>2, <3>1, <3>3 DEF Dispatch, Waits, Wakes, GoTo, After, SleepOn, Leave, WriterPCs
    <3> QED
      BY <3>2, <3>3
  <2>3. CASE ReadCall(t)
    BY <2>3 DEF ReadCall, At, GoTo
  <2>4. CASE WaitForRoom(t)
    BY <2>4 DEF WaitForRoom, At, GoTo, Leave, WriterPCs
  <2>5. CASE PutNext(t)
    BY <2>5 DEF PutNext, At, GoTo, WriterPCs
  <2>6. CASE Send(t)
    BY <2>6 DEF Send, At, GoTo, WriterPCs
  <2>7. CASE PrintNext(t)
    BY <2>7 DEF PrintNext, At
  <2>8. CASE WriteOn(t)
    BY <2>8 DEF WriteOn, At, GoTo, Leave, WriterPCs
  <2>9. CASE FaultAt(t)
    BY <2>9 DEF FaultAt, Leave, AtTake
  <2>10. CASE SleepIf(t)
    BY <2>10 DEF SleepIf, GoTo, After, SleepOn, Leave, AtTake, WriterPCs
  <2> QED
    BY <2>1, <2>2, <2>3, <2>4, <2>5, <2>6, <2>7, <2>8, <2>9, <2>10 DEF Elsewhere
<1>4. /\ pc' \in [Tasks -> PCs] /\ \A u \in Tasks : u # t => pc'[u] = pc[u]
      /\ \/ pc'[t] = pc[t]
         \/ pc'[t] \in WriterPCs
         \/ pc'[t] = "check" /\ pc[t] \in {"read", "empty"}
      /\ \/ cur' = cur
         \/ cur = None /\ cur' = t
         \/ cur = t /\ cur' = None /\ (pc'[t] \in WriterPCs \/ (pc'[t] = pc[t] /\ ~ AtTake(t)))
  BY <1>1, <1>3 DEF PCs, WriterPCs
<1>5. ReadersOK'
  <2>1. pc'[t] = pc[t] \/ (~ AtTake(t)' /\ (InRead(t)' => InRead(t)))
    BY <1>4 DEF AtTake, InRead, Reading, WriterPCs
  <2>2. \/ cur' = cur
        \/ cur = t /\ cur' = None /\ ~ AtTake(t)'
        \/ cur = None /\ cur' = t
    BY <1>4 DEF AtTake, WriterPCs
  <2> QED
    BY <1>1, <1>4, <2>1, <2>2, ReadersKept
<1> QED
  BY <1>2, <1>5 DEF ReadInv

\* Every step keeps it.
LEMMA StepReads ==
    ASSUME Calm, ReadInv, [TtyNext]_tty_vars
    PROVE  ReadInv'
<1>0. term \in {job.term, job.other}
  BY DEF ReadInv, QueuesOK
<1>1. CASE Receive
  BY <1>1, ReceiveReads
<1>2. CASE Ioctl
  BY <1>2, IoctlReads
<1>3. ASSUME NEW t \in Tasks, Give(t)
      PROVE  ReadInv'
  <2>1. UNCHANGED <<job, term, read_q, secondary, data, keys>>
    BY <1>3 DEF Give, queues, bounds
  <2>2. LineEndsCounted' /\ QueuesOK'
    BY <1>0, <2>1, QueuesKept
  <2> QED
    BY <1>3, <2>2, GiveReads DEF ReadInv
<1>4. ASSUME NEW t \in Tasks, Check(t)
      PROVE  ReadInv'
  <2>1. UNCHANGED <<job, term, read_q, secondary, data, keys>>
    BY <1>4 DEF Check, queues, bounds
  <2>2. LineEndsCounted' /\ QueuesOK'
    BY <1>0, <2>1, QueuesKept
  <2> QED
    BY <1>4, <2>2, CheckReads DEF ReadInv
<1>5. ASSUME NEW t \in Tasks, Take(t)
      PROVE  ReadInv'
  BY <1>5, TakeReads
<1>6. ASSUME NEW t \in Tasks, Elsewhere(t)
      PROVE  ReadInv'
  BY <1>6, ElsewhereReads
<1>7. CASE Transmit \/ UNCHANGED tty_vars
  <2>1. UNCHANGED <<job, term, read_q, secondary, data, keys, cur, pc, want, held>>
    BY <1>7 DEF Transmit, tty_vars, queues, bounds
  <2>2. LineEndsCounted' /\ QueuesOK'
    BY <1>0, <2>1, QueuesKept
  <2>3. ReadersOK'
    BY <2>1, ReadersKept DEF ReadInv, ReadersOK
  <2> QED
    BY <2>2, <2>3 DEF ReadInv
<1> QED
  BY <1>1, <1>2, <1>3, <1>4, <1>5, <1>6, <1>7 DEF TtyNext, Handler, Run, Elsewhere

\* Whatever keys come, whoever reads and writes, and through every change of the mode:
\* secondary.data is the number of line ends in the queue, for queues of every size,
\* where no key can take back what a reader has found there.
THEOREM LineEndsAreCounted ==
    ASSUME Calm
    PROVE  TtySpec => []LineEndsCounted
<1>1. TtyInit => ReadInv
  BY InitReads
<1>2. ReadInv /\ [TtyNext]_tty_vars => ReadInv'
  BY StepReads
<1>3. ReadInv => LineEndsCounted
  BY DEF ReadInv
<1> QED
  BY <1>1, <1>2, <1>3, PTL DEF TtySpec

=============================================================================
