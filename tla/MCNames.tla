------------------------------ MODULE MCNames ------------------------------
(***************************************************************************)
(* Instances of Names for TLC.                                             *)
(***************************************************************************)
EXTENDS Names

CONSTANTS t1, t2

On(calls, left) == [alive |-> TRUE, calls |-> calls, left |-> left]
Off == [alive |-> FALSE, calls |-> {}, left |-> 0]

\* One task, in one directory and in a directory of it.
Alone ==
    [t \in {t1, t2} |->
       IF t = t2 THEN Off ELSE
       On({Open(<<"a">>, {"creat", "write"}), Open(<<"/", "a">>, {"trunc"}),
           Call("mkdir", <<"d">>), Call("rmdir", <<"/", "d">>), Call("unlink", <<"/", "a">>),
           Link(<<"a">>, <<"d", "b">>), Call("unlink", <<"d", "b">>), Call("mknod", <<"b">>),
           Call("write", 0), Call("write", 5), Call("close", <<>>), Call("chdir", <<"d">>),
           Call("chdir", <<"..", "">>), Call("exec", <<"a">>), Call("touch", <<"a">>)}, 4)]

\* Two tasks, the second of them forked or there from the beginning.
Two(calls) == [t \in {t1, t2} |-> On(calls, 2)]

TwoOne(calls) == [t \in {t1, t2} |-> On(calls, IF t = t1 THEN 2 ELSE 1)]

\* Nothing is removed.
Makers == TwoOne({Open(<<"a">>, {"creat", "write"}), Call("mkdir", <<"d">>),
               Open(<<"d", "b">>, {"creat", "excl"}), Link(<<"a">>, <<"d", "c">>),
               Call("sync", <<>>), Call("close", <<>>)})
Removers == TwoOne({Open(<<"a">>, {"creat", "write"}), Call("mkdir", <<"d">>),
               Call("unlink", <<"a">>), Call("rmdir", <<"d">>), Call("close", <<>>),
               Call("chdir", <<"d">>)})
Forkers == [t \in {t1, t2} |->
   IF t = t1 THEN On({Open(<<"a">>, {"creat"}), Call("fork", <<>>), Call("dup", <<>>),
                      Call("close", <<>>), Call("chroot", <<"/", "">>), Call("sync", <<>>)}, 4)
   ELSE [Off EXCEPT !.calls = {Call("exit", <<>>), Call("touch", <<"a">>)}, !.left = 2]]

\* A directory of two blocks, of which the first becomes empty again.
Big == [t \in {t1, t2} |->
   IF t = t2 THEN Off ELSE
   On({Call("mkdir", <<"d">>), Call("rmdir", <<"d">>), Call("mknod", <<"d", "a">>)}
      \cup {Link(<<"d", "a">>, <<"d", x>>) : x \in {"b", "c"}}
      \cup {Call("unlink", <<"d", x>>) : x \in {"a", "b"}}, 7)]

\* The disk is full and so is the directory when another name is to be made.
Crammed == [t \in {t1, t2} |->
   IF t = t2 THEN Off ELSE
   On({Open(<<"a">>, {"creat", "write"}), Call("write", 5), Call("mknod", <<"b">>),
       Open(<<"c">>, {"creat"}), Link(<<"a">>, <<"d">>), Call("mknod", <<"e">>)}, 4)]

SmallUses == {Alone, Makers, Forkers, Removers, Big, Crammed}

\* Two tasks fill the root directory, and another entry needs a second block.
CrowdedUses == {Two({Open(<<"a">>, {"creat", "write"}), Call("mkdir", <<"d">>)})}

\* The directory and the disk are full when mkdir wants to enter the new one.
Full == [t \in {t1, t2} |->
   IF t = t2 THEN Off
   ELSE On({Call("mknod", <<"a">>), Call("mknod", <<"b">>), Call("mkdir", <<"d">>)}, 3)]
FullUses == {Full}
=============================================================================
