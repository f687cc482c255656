----------------------------- MODULE MCConsole -----------------------------
(***************************************************************************)
(* Instances of Console for TLC.                                           *)
(***************************************************************************)
EXTENDS Console

Csi(s) == <<"ESC", "[">> \o s

\* Plain characters, and the end of a line that is too long.
Plains == {<<"a">>, <<"a", "b", "a", "b", "a">>, <<"LF">>, <<"CR">>, <<"DEL">>, <<"BS">>,
           <<"TAB">>, <<"LF", "LF", "LF", "LF", "LF", "LF", "LF">>}
Escapes == {<<"ESC", c>> : c \in {"E", "M", "D", "7"}}
Moves == {Csi(<<c>>) : c \in {"A", "B", "C", "D", "E", "F", "G", "d", "s", "u"}}
         \cup {Csi(<<"3", ";", "5", "H">>), Csi(<<"9", "9", "B">>), Csi(<<"?", "2", "C">>)}
Erases == {Csi(<<n, c>>) : n \in {"0", "1", "2"}, c \in {"J", "K"}}
Shifts == {Csi(<<n, c>>) : n \in {"1", "2", "9"}, c \in {"L", "M", "P", "@"}}
Regions == {Csi(<<"1", ";", "2", "r">>), Csi(<<"2", ";", "3", "r">>), Csi(<<"r">>)}
Colours == {Csi(<<"1", ";", "7", "m">>), Csi(<<"m">>)}

\* A character, Return and the ERASE of one before.
SmallEchoes == {<<"a">>, <<"LF", "CR">>, <<"DEL">>}
SmallStale == {"a", "LF", "ESC"}

\* A move that echoes come within.
OneMove == {Csi(<<"3", ";", "3", "H">>)}

SmallInputs == Plains \cup Escapes \cup Moves \cup Erases \cup Shifts \cup Regions \cup Colours
=============================================================================
