----------------------------- MODULE MCTerminal -----------------------------
(***************************************************************************)
(* Instances of Terminal for TLC.                                          *)
(***************************************************************************)
EXTENDS Terminal

CONSTANTS t1, t2

Keyboard == {"x", "CR", "EOF", "ERASE", "KILL", "INTR"}
raw == [canon |-> FALSE, echo |-> FALSE, isig |-> FALSE, crnl |-> FALSE, post |-> FALSE]
cooked == [canon |-> TRUE, echo |-> TRUE, isig |-> TRUE, crnl |-> TRUE, post |-> TRUE]

Job(console, mode, texts, reads, nkeys, nioctls, nfaults) ==
    [console |-> console, size |-> IF console THEN 8 ELSE 4,
     term |-> mode, other |-> raw, keyset |-> IF console THEN Keyboard ELSE {"x", "EOF"},
     texts |-> t1 :> texts[1] @@ t2 :> texts[2], reads |-> t1 :> reads[1] @@ t2 :> reads[2],
     time |-> FALSE, min |-> 1, keys |-> nkeys, ioctls |-> nioctls, faults |-> nfaults]
Nothing == <<<<>>, <<>>>>

\* Two tasks write to a serial line, one or both more than its queue holds; it is
\* flushed, or bytes of the tasks are swapped out.
Six == <<"a", "b", "c", "d", "e", "f">>
Serial == {Job(FALSE, raw, <<Six, <<"u", "v">>>>, <<0, 0>>, 0, n, 0) : n \in {0, 1}}
Long == {Job(FALSE, raw, <<Six, <<"u", "v", "w", "x">>>>, <<0, 0>>, 0, 0, 0)}
Swapped == {Job(FALSE, raw, <<<<"a", "b", "c">>, <<"u", "v", "w">>>>, <<0, 0>>, 0, 0, 1)}
\* A serial line is read while it is written, with a timeout or a minimum.
Both == {[Job(FALSE, raw, <<<<"a", "b">>, <<>>>>, <<0, 2>>, 3, 0, 1) EXCEPT !.time = b, !.min = n] :
           b \in BOOLEAN, n \in 0 .. 2}
\* Lines are typed and edited while two tasks read a character each, or one
\* until another mode is set, or while another waits to write.
Typed == {Job(TRUE, cooked, Nothing, <<1, 1>>, 3, 0, 0), Job(TRUE, cooked, Nothing, <<1, 0>>, 3, 1, 0)}
HalfLine == {Job(TRUE, cooked, <<<<>>, <<"a">>>>, <<1, 0>>, 1, 0, 0)}
\* A task writes lines to the console.
Written == {Job(TRUE, cooked, <<<<"a", "NL", "NL", "b", "NL", "c", "NL">>, <<>>>>, <<0, 0>>, 0, 0, 2)}

SmallWorkloads == Serial \cup Long \cup Swapped \cup Both \cup Typed \cup HalfLine \cup Written

\* Two tasks write to the console, one as much as its queue holds.
TwoWriters == {Job(TRUE, cooked, <<<<"a", "b", "c", "d", "e", "f", "NL">>, <<"u">>>>, <<0, 0>>, 0, 0, 0)}
\* A task writes to the console, where keys are echoed.
Echoing == {Job(TRUE, cooked, <<<<"a", "b">>, <<>>>>, <<0, 0>>, 1, 0, 0)}
\* A task reads more than the first line while the next is typed.
Editing == {Job(TRUE, cooked, Nothing, <<3, 0>>, 3, 0, 0)}

AllWorkloads == Serial \cup Long \cup Swapped \cup Typed \cup TwoWriters \cup Echoing \cup Editing
=============================================================================
