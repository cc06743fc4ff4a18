------------------------------ MODULE MCShell -------------------------------
(***************************************************************************)
(* The instances of Shell that TLC checks.  Buffers have the code's 64     *)
(* bytes: a directory name of 55 characters leaves room for a command of   *)
(* six characters behind its prompt, one of 63 does not fit the prompt.    *)
(***************************************************************************)
EXTENDS Shell, TLC

RootDir == <<"0", ":", "/">>
DirA    == <<"0", ":", "/", "A">>
Deep    == [i \in 1 .. 55 |-> IF i < 4 THEN RootDir[i] ELSE "D"]
Deepest == [i \in 1 .. 63 |-> IF i < 4 THEN RootDir[i] ELSE "E"]
AllDirs == {RootDir, DirA, Deep, Deepest}

\* A directory is named by its path or, here, by a letter.
Everywhere == [d \in AllDirs |-> d] @@ (<<"/">> :> RootDir) @@ (<<"a">> :> DirA)
              @@ (<<"d">> :> Deep) @@ (<<"e">> :> Deepest)
JustA == {DirA}

\* An inverse-video l, as the screen keeps it.
InverseVideo == "l^" :> "l"

\* Commands of every kind: on the console and on files, in the parent, wrong ones.
AllTexts ==
    {<<"c", "a", "t">>,
     <<"l^", "S">>,
     <<"c", "d", " ", "a">>,
     <<"c", "d", " ", "-">>,
     <<"c", "d", " ", "e">>,
     <<"c", "a", "t", " ", "<", "f", " ", ">", ">", "g", " ", "2", ">", "h">>,
     <<"k", "i", "l", "l", " ", "-", "2", " ", "1">>,
     <<"m", "v", " ", " ", "a", "\t", "b", " ", ">", "f">>,
     <<"e", "c", "h", "o", " ", ">", "f", " ", ">", "g">>,
     <<"k", "i", "l", "l", " ", "-", "9", " ", "1">>,
     <<">", " ", "g", " ", "r", "m", " ", "x">>}

\* A command with a redirection behind its sixth character.
CutTexts == {<<"c", "d", " ", "d">>, <<"c", "a", "t", " ", "f", " ", ">", "g">>}

\* All lines of at most five of these characters, and of at most seven of fewer.
Upto(n, chars) == UNION {[1 .. k -> chars] : k \in 0 .. n}
Short == Upto(5, {"x", " ", "2", ">", "<"}) \cup Upto(7, {"x", " ", ">"})
=============================================================================
