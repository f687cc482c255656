------------------------------- MODULE Screen -------------------------------
(***************************************************************************)
(* What the console shows: lines of cells, a cursor that may stand behind  *)
(* the last column, and a region of lines that scrolls.  This is what the  *)
(* operations of kernel/chr_drv/console.c promise; module Console does     *)
(* them in video memory, with an origin that moves.                        *)
(***************************************************************************)
EXTENDS Integers

CONSTANTS
    Cols, Lines,
    Glyphs, Blank   \* what may be written in a cell

VARIABLES
    picture,        \* a function from lines and columns to cells
    x, y,           \* the cursor
    top, bottom     \* the scrolling region: lines top to bottom - 1

vars == <<picture, x, y, top, bottom>>

Places == (0 .. Lines - 1) \X (0 .. Cols - 1)
Before(p, q) == p[1] < q[1] \/ (p[1] = q[1] /\ p[2] < q[2])

\* Lines from .. to - 1 move up by n (down, if n is negative); what comes in
\* is blank.
Moved(pic, n, from, to) ==
    [p \in Places |->
       IF ~ (from <= p[1] /\ p[1] < to) THEN pic[p]
       ELSE IF from <= p[1] + n /\ p[1] + n < to THEN pic[<<p[1] + n, p[2]>>]
       ELSE Blank]

\* The cells from a column to the end of the line move left by n, or right.
Shifted(pic, n, at, from) ==
    [p \in Places |->
       IF p[1] # at \/ p[2] < from THEN pic[p]
       ELSE IF from <= p[2] + n /\ p[2] + n < Cols THEN pic[<<at, p[2] + n>>]
       ELSE Blank]

Erased(pic, S) == [p \in Places |-> IF p \in S THEN Blank ELSE pic[p]]

\* One line down, where the region ends by scrolling it.
Down(now) == IF y + 1 < bottom THEN y' = y + 1 /\ now = picture
             ELSE y' = y /\ now = Moved(picture, 1, top, bottom)

PutChar ==
    \E c \in Glyphs :
       \/ /\ x < Cols
          /\ x' = x + 1 /\ y' = y
          /\ picture' = [picture EXCEPT ![<<y, x>>] = c]
       \/ /\ x >= Cols
          /\ x' = 1
          /\ \/ y + 1 < bottom /\ y' = y + 1
                /\ picture' = [picture EXCEPT ![<<y + 1, 0>>] = c]
             \/ y + 1 >= bottom /\ y' = y
                /\ picture' = [Moved(picture, 1, top, bottom) EXCEPT ![<<y, 0>>] = c]

LineFeed == Down(picture') /\ x' \in 0 .. Cols

LineBack ==
    /\ x' = x
    /\ IF y > top THEN y' = y - 1 /\ picture' = picture
       ELSE y' = y /\ picture' = Moved(picture, -1, top, bottom)

MoveCursor ==
    /\ x' \in 0 .. Cols /\ y' \in 0 .. Lines - 1
    /\ picture' = picture

Rubout ==
    /\ x > 0 /\ x' = x - 1 /\ y' = y
    /\ picture' = Erased(picture, {<<y, x - 1>>})

\* Erase to or from the cursor, in its line or on the screen, or all.
Erase ==
    /\ \E S \in {Places,
                 {p \in Places : Before(p, <<y, x>>)}, {p \in Places : ~ Before(p, <<y, x>>)},
                 {p \in Places : p[1] = y /\ p[2] < x}, {p \in Places : p[1] = y /\ p[2] >= x},
                 {p \in Places : p[1] = y}} :
         picture' = Erased(picture, S)
    /\ UNCHANGED <<x, y>>

\* Insert or delete lines below the cursor, or cells behind it.
Shift ==
    /\ \/ \E n \in -Lines .. Lines : picture' = Moved(picture, n, y, Lines)
       \/ \E n \in -Cols .. Cols : picture' = Shifted(picture, n, y, x)
    /\ UNCHANGED <<x, y>>

SetRegion ==
    /\ top' \in 0 .. Lines - 1 /\ bottom' \in top' + 1 .. Lines
    /\ UNCHANGED <<picture, x, y>>

Init ==
    /\ x \in 0 .. Cols /\ y \in 0 .. Lines - 1
    /\ top = 0 /\ bottom = Lines
    /\ DOMAIN picture = Places

Next ==
    \/ /\ PutChar \/ LineFeed \/ LineBack \/ MoveCursor \/ Rubout \/ Erase \/ Shift
       /\ UNCHANGED <<top, bottom>>
    \/ SetRegion

Spec == Init /\ [][Next]_vars

=============================================================================
