--------------------------- MODULE CommandMeaning ---------------------------
(***************************************************************************)
(* What a command line means, stated without a scan: its words are the     *)
(* maximal runs of non-spaces; an operator names a stream and a mode and   *)
(* takes the rest of its word, or else the next word, as its file; the     *)
(* other words are the command.  docs/shell/command_execution_modes.md     *)
(* lists the operators.  The parser of CommandLine is compared with this.  *)
(***************************************************************************)
EXTENDS CommandLine

StartsWord(t, i) == ~IsSpace(t[i]) /\ (i = 1 \/ IsSpace(t[i - 1]))
WordAt(t, i) ==
    LET n == CHOOSE n \in 1 .. Len(t) :
                /\ \A j \in i .. i + n - 1 : j <= Len(t) /\ ~IsSpace(t[j])
                /\ i + n > Len(t) \/ IsSpace(t[i + n])
    IN SubSeq(t, i, i + n - 1)

\* The members of a finite set of numbers in their order, and what a function
\* has at them.  (TLC evaluates the sequence once because of the concatenation.)
Listed(S)    == [n \in 1 .. Cardinality(S) |-> CHOOSE i \in S : Cardinality({j \in S : j <= i}) = n]
Picked(f, S) == LET at == Listed(S) IN << >> \o [n \in DOMAIN at |-> f[at[n]]]

Beginnings(t) == {i \in 1 .. Len(t) : StartsWord(t, i)}
Words(t)      == Picked([i \in Beginnings(t) |-> WordAt(t, i)], Beginnings(t))

IsOp(ws, k)   == \E o \in Operators : Starts(ws[k], o.text)
OpOf(ws, k)   == CHOOSE o \in Operators :
                    /\ Starts(ws[k], o.text)
                    /\ \A q \in Operators : Starts(ws[k], q.text) => Starts(o.text, q.text)
IsBare(ws, k) == IsOp(ws, k) /\ ws[k] = OpOf(ws, k).text
FileOf(ws, k) == IF IsBare(ws, k) THEN ws[k + 1]
                 ELSE SubSeq(ws[k], Len(OpOf(ws, k).text) + 1, Len(ws[k]))

\* The operators on one stream, and the words of the command.
OpsOn(ws, fd)   == {k \in DOMAIN ws : IsOp(ws, k) /\ OpOf(ws, k).fd = fd}
CommandAt(ws)   == {k \in DOMAIN ws : ~IsOp(ws, k) /\ (k = 1 \/ ~IsBare(ws, k - 1))}

WellFormed(ws) ==
    /\ \A k \in DOMAIN ws : IsBare(ws, k) => k < Len(ws) /\ ~IsOp(ws, k + 1)
    /\ \A fd \in 0 .. 2 : Cardinality(OpsOn(ws, fd)) <= 1
    /\ (\E k \in DOMAIN ws : IsOp(ws, k)) => CommandAt(ws) # {}

PlanOf(ws) ==
    [fd \in 0 .. 2 |->
        IF OpsOn(ws, fd) = {} THEN Unused
        ELSE LET k == CHOOSE k \in OpsOn(ws, fd) : TRUE
             IN [mode |-> OpOf(ws, k).mode, path |-> FileOf(ws, k)]]

CommandWords(ws) == Picked(ws, CommandAt(ws))

\* The meaning of a line: accepted or not, the streams, the words.
Meaning(t) ==
    LET ws == Words(t) IN
    IF WellFormed(ws) THEN [ok |-> TRUE, plan |-> PlanOf(ws), words |-> CommandWords(ws)]
    ELSE [ok |-> FALSE, plan |-> EmptyPlan, words |-> << >>]

\* The parser says what the meaning says.
Agrees(t) ==
    LET p == ParseRedirections(t)
        m == Meaning(t)
    IN /\ (p.verdict = "ok") = m.ok
       /\ m.ok => p.plan = m.plan /\ Words(p.command) = m.words /\ Len(p.command) < LineMax
=============================================================================
