------------------------------ MODULE Numbers -------------------------------
(***************************************************************************)
(* The number conversions of kill.c and applet_support.c.  A text is a     *)
(* sequence of one-character strings; words of the code are W bits wide    *)
(* where they can wrap.                                                    *)
(***************************************************************************)
EXTENDS Integers, Sequences

Digits    == <<"0", "1", "2", "3", "4", "5", "6", "7", "8", "9">>
HexDigits == Digits \o <<"A", "B", "C", "D", "E", "F">>
MaxPid    == 7                          \* NEOX_MAX_PROCESSES - 1
NoNumber  == 256                        \* a refused argument

IsDigit(c)    == \E i \in 1 .. 10 : Digits[i] = c
DigitValue(c) == (CHOOSE i \in 1 .. 10 : Digits[i] = c) - 1

\* A parse that checks the bound on the digit before the last only.
ParseDecimalLate(w, maximum) ==
    LET value[i \in 0 .. Len(w)] ==
            IF i = 0 THEN 0
            ELSE IF value[i - 1] = -1 \/ ~IsDigit(w[i]) \/ value[i - 1] > maximum THEN -1
            ELSE (value[i - 1] * 10 + DigitValue(w[i])) % 65536
    IN IF w = << >> \/ value[Len(w)] = -1 THEN NoNumber ELSE value[Len(w)] % 256

\* The running value of kill_parse_decimal, a uint16_t, and its refusal.
ParseDecimal(w, maximum) ==
    LET value[i \in 0 .. Len(w)] ==
            IF i = 0 THEN 0
            ELSE LET v == value[i - 1] IN
                 IF v = -1 \/ ~IsDigit(w[i]) THEN -1
                 ELSE LET n == (v * 10 + DigitValue(w[i])) % 65536
                      IN IF n > maximum THEN -1 ELSE n
    IN IF w = << >> \/ value[Len(w)] = -1 THEN NoNumber ELSE value[Len(w)]

Signals == {2, 9, 18, 19}               \* NEOX_SIG_INT, _KILL, _CONT, _STOP

ParseSignal(w) ==
    LET n == ParseDecimal(Tail(w), 19) IN
    IF Len(w) < 2 \/ w[1] # "-" \/ n \notin Signals THEN NoNumber ELSE n

\* The signal a kill command line asks for; pid 0 when it is refused.
KillRequest(as) ==
    IF Len(as) = 2 /\ ParseSignal(as[1]) # NoNumber /\ ParseDecimal(as[2], MaxPid) \notin {NoNumber, 0}
    THEN [pid |-> ParseDecimal(as[2], MaxPid), signal |-> ParseSignal(as[1])]
    ELSE [pid |-> 0, signal |-> 0]

\* neox_applet_format_u32: the digits of value, least significant first, reversed.
FormatU32(value) ==
    LET digits[v \in 0 .. value] ==
            IF v < 10 THEN <<Digits[v + 1]>> ELSE Append(digits[v \div 10], Digits[(v % 10) + 1])
    IN digits[value]

FormatHex8(value) == <<HexDigits[(value \div 16) + 1], HexDigits[(value % 16) + 1]>>
=============================================================================
