----------------------------- MODULE MCApplets ------------------------------
(***************************************************************************)
(* The instance of Applets that TLC checks: right and wrong uses of every  *)
(* applet over two files, a directory and a free name.                     *)
(***************************************************************************)
EXTENDS Applets, TLC

SevenBits == << >>
TooLong   == [i \in 1 .. 64 |-> "x"]
Uses ==
    {[id |-> "rm", args |-> <<TooLong>>],
     [id |-> "cat", args |-> <<>>],
     [id |-> "cat", args |-> <<<<"a">>>>],
     [id |-> "cat", args |-> <<<<"a">>, <<"b">>>>],
     [id |-> "cat", args |-> <<<<"c">>>>],
     [id |-> "cp", args |-> <<<<"a">>, <<"b">>>>],
     [id |-> "cp", args |-> <<<<"a">>, <<"n">>>>],
     [id |-> "cp", args |-> <<<<"a">>, <<"A">>>>],
     [id |-> "cp", args |-> <<<<"a">>, <<"a">>>>],
     [id |-> "cp", args |-> <<<<"a">>, <<"d">>>>],
     [id |-> "cp", args |-> <<<<"a">>>>],
     [id |-> "ls", args |-> <<>>],
     [id |-> "ls", args |-> <<<<"a">>, <<"b">>>>],
     [id |-> "ps", args |-> <<>>],
     [id |-> "ps", args |-> <<<<"x">>>>],
     [id |-> "pwd", args |-> <<>>],
     [id |-> "echo", args |-> <<<<"h", "i">>, <<"x">>>>],
     [id |-> "kill", args |-> <<<<"-", "9">>, <<"7">>>>],
     [id |-> "kill", args |-> <<<<"-", "9">>, <<"8">>>>],
     [id |-> "kill", args |-> <<<<"-", "1", "5">>, <<"3">>>>],
     [id |-> "kill", args |-> <<<<"9">>, <<"3">>>>],
     [id |-> "rm", args |-> <<<<"a">>>>],
     [id |-> "rm", args |-> <<<<"d">>>>],
     [id |-> "mkdir", args |-> <<<<"n">>>>],
     [id |-> "mkdir", args |-> <<<<"a">>>>],
     [id |-> "rmdir", args |-> <<<<"d">>>>],
     [id |-> "mv", args |-> <<<<"a">>, <<"n">>>>],
     [id |-> "mv", args |-> <<<<"a">>, <<"b">>>>]}

Names == {<<"A">>, <<"B">>, <<"C">>, <<"D">>, <<"N">>}
Disk  == (<<"A">> :> [kind |-> "file", data |-> <<"1", "2", "3">>])
         @@ (<<"B">> :> [kind |-> "file", data |-> <<"4">>])
         @@ (<<"D">> :> [kind |-> "dir", data |-> << >>])
         @@ [p \in {<<"C">>, <<"N">>} |-> NoFile]
Input == <<"7", "7">>
Here  == <<"0", ":", "/">>

\* A directory of three places: a file before a directory, and room.
Kinds  == {[name |-> "x", dir |-> TRUE], [name |-> "y", dir |-> FALSE]}
Places == <<[name |-> "file", dir |-> FALSE], [name |-> "sub", dir |-> TRUE], NoEntry>>

\* A process table of three, and what a process may become.
Info(s, w, o) == [parent |-> 0, state |-> s, wait |-> w, object |-> o, signal |-> 2]
Absent == [Info("EMPTY", "NONE", 0) EXCEPT !.signal = 0]
States == {Absent, Info("READY", "NONE", 0), Info("BLOCKED", "LOCK", 1), Info("BLOCKED", "PROCESS", 1)}
Tasks  == (0 :> Info("RUNNING", "NONE", 0)) @@ (1 :> Absent) @@ (2 :> Info("BLOCKED", "PROCESS", 1))

\* Numbers around the powers of ten and at the top of TLC's range.
Numbers1 == (0 .. 120) \cup {999, 1000, 65535, 65536, 99999, 1000000, 2147483647}
Words3   == UNION {[1 .. n -> {"0", "1", "2", "7", "9", "x"}] : n \in 0 .. 4}
=============================================================================
