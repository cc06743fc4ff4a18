---------------------------- MODULE CommandLine ----------------------------
(***************************************************************************)
(* The text processing of neosh.c, nbox.c and applet_args.c: from the raw  *)
(* console line to a redirection plan, a command and its arguments.        *)
(*                                                                         *)
(* A text is a sequence of one-character strings.  Buffers hold LineMax    *)
(* bytes with their terminator; a text in a buffer is its bytes before the *)
(* terminator.                                                             *)
(***************************************************************************)
EXTENDS Naturals, Sequences, FiniteSets

CONSTANTS
    LineMax,    \* NEOSH_LINE_MAX, NEOSH_PROMPT_MAX, NBOX_LINE_MAX, NEOX_PATH_MAX: 64
    HighBit     \* from characters with bit 7 set to their 7-bit character

ASSUME CommandLineAssumption == LineMax \in Nat /\ LineMax > 3
ASSUME HighBitAssumption     == \A c \in DOMAIN HighBit : HighBit[c] \in STRING

CommandMax == 6                         \* NBOX_COMMAND_MAX

IsSpace(c) == c \in {" ", "\t"}
LineEnd    == {"\r", "\n", "nul"}

\* c & 0x7F
Seven(c) == IF c \in DOMAIN HighBit THEN HighBit[c] ELSE c

\* The first position from i on that holds no space; the end of the word at i.
SkipSpaces(t, i) ==
    CHOOSE j \in i .. Len(t) + 1 :
        (j = Len(t) + 1 \/ ~IsSpace(t[j])) /\ \A k \in i .. j - 1 : IsSpace(t[k])
WordEnd(t, i) ==
    CHOOSE j \in i .. Len(t) + 1 :
        (j = Len(t) + 1 \/ IsSpace(t[j])) /\ \A k \in i .. j - 1 : ~IsSpace(t[k])

\* Where the line that goes on at i ends.
EndOfLine(t, i) ==
    CHOOSE j \in i .. Len(t) + 1 :
        (j = Len(t) + 1 \/ t[j] \in LineEnd) /\ \A k \in i .. j - 1 : t[k] \notin LineEnd

(***************************************************************************)
(* The prompt.  Its core is what the line editor hands back in front of    *)
(* the command; an empty core means that the default prompt is shown.      *)
(***************************************************************************)
PromptCore(cwd) == Append(cwd, ">")

\* A comparison that only looks at the length.
HasPromptByLength(raw, core) == core # << >> /\ Len(core) <= Len(raw)

HasPrompt(raw, core) ==
    /\ core # << >> /\ Len(core) <= Len(raw)
    /\ \A i \in 1 .. Len(core) : Seven(raw[i]) = core[i]

CleanLine(raw, core) ==
    LET text  == [i \in DOMAIN raw |-> Seven(raw[i])]
        first == SkipSpaces(text, IF HasPrompt(raw, core) THEN Len(core) + 1 ELSE 1)
        stop  == EndOfLine(text, first)
    IN SubSeq(text, first, IF stop - first < LineMax THEN stop - 1 ELSE first + LineMax - 2)

(***************************************************************************)
(* Tokens and redirections.                                                *)
(***************************************************************************)
NextToken(t, i) ==
    LET s == SkipSpaces(t, i) IN
    [word |-> SubSeq(t, s, WordEnd(t, s) - 1), cursor |-> WordEnd(t, s)]

Operators == {[text |-> <<"<">>,           fd |-> 0, mode |-> "READ"],
              [text |-> <<">">>,           fd |-> 1, mode |-> "TRUNC"],
              [text |-> <<">", ">">>,      fd |-> 1, mode |-> "APPEND"],
              [text |-> <<"2", ">">>,      fd |-> 2, mode |-> "TRUNC"],
              [text |-> <<"2", ">", ">">>, fd |-> 2, mode |-> "APPEND"]}

Starts(w, p) == Len(p) <= Len(w) /\ SubSeq(w, 1, Len(p)) = p

\* The operators that a token begins with; the code takes the longest.
OperatorsOf(w)   == {o \in Operators : Starts(w, o.text)}
IsRedirection(w) == OperatorsOf(w) # {}

Classify(w) ==
    CHOOSE o \in OperatorsOf(w) : \A q \in OperatorsOf(w) : Len(q.text) <= Len(o.text)

Unused    == [mode |-> "NONE", path |-> << >>]
EmptyPlan == [fd \in 0 .. 2 |-> Unused]
Redirected(plan) == \E fd \in 0 .. 2 : plan[fd].mode # "NONE"

\* A parse in progress: where the scan is, what it has collected, its verdict.
Scan == [cursor |-> 1, plan |-> EmptyPlan, command |-> << >>, verdict |-> "scan"]

\* A store that lets a later redirection of the same stream win.
StoreRedirectionAgain(s, op, path, cursor) ==
    [s EXCEPT !.plan[op.fd] = [mode |-> op.mode, path |-> path], !.cursor = cursor]

StoreRedirection(s, op, path, cursor) ==
    IF s.plan[op.fd].mode # "NONE" \/ path = << >> \/ Len(path) >= LineMax
    THEN [s EXCEPT !.verdict = "bad"]
    ELSE [s EXCEPT !.plan[op.fd] = [mode |-> op.mode, path |-> path], !.cursor = cursor]

AppendCommandToken(s, word, cursor) ==
    LET text == IF s.command = << >> THEN word ELSE s.command \o <<" ">> \o word IN
    IF (s.command # << >> /\ Len(s.command) >= LineMax - 1) \/ Len(text) >= LineMax
    THEN [s EXCEPT !.verdict = "bad"]
    ELSE [s EXCEPT !.command = text, !.cursor = cursor]

\* One round of the loop: a word, or an operator with the path glued to it or
\* in the next token, which must not be an operator itself.
ParseStep(t, s) ==
    LET tok  == NextToken(t, s.cursor)
        op   == Classify(tok.word)
        path == NextToken(t, tok.cursor)
    IN IF s.verdict # "scan" THEN s
       ELSE IF tok.word = << >>
            THEN [s EXCEPT !.verdict = IF s.command = << >> /\ Redirected(s.plan) THEN "bad" ELSE "ok"]
       ELSE IF ~IsRedirection(tok.word) THEN AppendCommandToken(s, tok.word, tok.cursor)
       ELSE IF Len(tok.word) > Len(op.text)
            THEN StoreRedirection(s, op, SubSeq(tok.word, Len(op.text) + 1, Len(tok.word)), tok.cursor)
       ELSE IF path.word = << >> \/ IsRedirection(path.word) THEN [s EXCEPT !.verdict = "bad"]
       ELSE StoreRedirection(s, op, path.word, path.cursor)

\* Every round consumes a character, so Len(t) + 1 rounds finish the loop;
\* after[n] holds the one scan there is after n rounds.
ParseRedirections(t) ==
    LET after[n \in 0 .. Len(t) + 1] ==
            IF n = 0 THEN {Scan} ELSE {ParseStep(t, s) : s \in after[n - 1]}
    IN CHOOSE s \in after[Len(t) + 1] : TRUE

(***************************************************************************)
(* nbox: the command table, resolution and arguments.                      *)
(***************************************************************************)
Letters == <<"a", "b", "c", "d", "e", "f", "g", "h", "i", "j", "k", "l", "m",
             "n", "o", "p", "q", "r", "s", "t", "u", "v", "w", "x", "y", "z">>
Capitals == <<"A", "B", "C", "D", "E", "F", "G", "H", "I", "J", "K", "L", "M",
              "N", "O", "P", "Q", "R", "S", "T", "U", "V", "W", "X", "Y", "Z">>

UpperCase == [c \in {Letters[i] : i \in 1 .. 26} |-> Capitals[CHOOSE i \in 1 .. 26 : Letters[i] = c]]

Upper(c) == IF Seven(c) \in DOMAIN UpperCase THEN UpperCase[Seven(c)] ELSE Seven(c)

Commands == {[name |-> <<"P", "W", "D">>,           id |-> "pwd",   mode |-> "CHILD"],
             [name |-> <<"C", "D">>,                id |-> "cd",    mode |-> "PARENT"],
             [name |-> <<"L", "S">>,                id |-> "ls",    mode |-> "CHILD"],
             [name |-> <<"C", "A", "T">>,           id |-> "cat",   mode |-> "CHILD"],
             [name |-> <<"E", "C", "H", "O">>,      id |-> "echo",  mode |-> "CHILD"],
             [name |-> <<"R", "M">>,                id |-> "rm",    mode |-> "CHILD"],
             [name |-> <<"M", "V">>,                id |-> "mv",    mode |-> "CHILD"],
             [name |-> <<"M", "K", "D", "I", "R">>, id |-> "mkdir", mode |-> "CHILD"],
             [name |-> <<"R", "M", "D", "I", "R">>, id |-> "rmdir", mode |-> "CHILD"],
             [name |-> <<"C", "P">>,                id |-> "cp",    mode |-> "CHILD"],
             [name |-> <<"P", "S">>,                id |-> "ps",    mode |-> "CHILD"],
             [name |-> <<"K", "I", "L", "L">>,      id |-> "kill",  mode |-> "PARENT"]}

Unresolved(mode) == [id |-> "none", mode |-> mode]

TokenMatches(w, name) == Len(w) = Len(name) /\ \A i \in DOMAIN w : Upper(w[i]) = name[i]

Resolve(t) ==
    LET w == NextToken(t, 1).word IN
    IF w = << >> THEN Unresolved("NONE")
    ELSE IF Len(w) > CommandMax \/ ~\E c \in Commands : TokenMatches(w, c.name)
    THEN Unresolved("UNKNOWN")
    ELSE LET c == CHOOSE c \in Commands : TokenMatches(w, c.name)
         IN [id |-> c.id, mode |-> c.mode]

\* The text from the first argument on, as execute_child and make_context cut it.
Arguments(t) == SubSeq(t, SkipSpaces(t, NextToken(t, 1).cursor), Len(t))

IsCdDash(args) == args # << >> /\ args[1] = "-" /\ \A i \in 2 .. Len(args) : IsSpace(args[i])

\* The arguments an applet's cursor yields, in order.
ArgList(args) ==
    LET from[i \in 1 .. Len(args) + 1] ==
            LET a == NextToken(args, i) IN
            IF a.word = << >> THEN << >> ELSE <<a.word>> \o from[a.cursor]
    IN from[1]

\* neox_applet_copy_argument: whether an argument fits a buffer of that size.
CopyArgumentFits(word, size) == Len(word) < size
=============================================================================
