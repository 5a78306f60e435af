------------------------------ MODULE MCLibrary ------------------------------
(* The library of the programs: malloc, or else the formatter on one of its  *)
(* inputs, pairs of directives over words of eight bits.                     *)
EXTENDS UserMalloc, Format

MCDigits == <<"0", "1", "2", "3", "4", "5", "6", "7", "8", "9", "A", "B", "C", "D", "E", "F">>

MCCharacters == ToSet(MCDigits) \cup {"%", "l", "s", "c", "x", "d", "u", " "}

Directive(conv, zero, width, long, value) ==
    [conv |-> conv, zero |-> zero, width |-> width, long |-> long, value |-> value]

Numbers ==
    {Directive(conv, zero, width, long, value) :
        conv \in {"d", "u", "x"}, zero \in BOOLEAN, width \in {0, 2, 10}, long \in 0..2,
        value \in {0, 9, 10, 99, 100, 231, 232, 255, 256}}

Others == {Directive("s", FALSE, 0, 0, <<>>), Directive("s", FALSE, 0, 0, <<"%", "d">>),
           Directive("c", FALSE, 0, 0, "l"), Directive("%", FALSE, 0, 0, ""),
           Directive("text", FALSE, 0, 0, <<"1", "l">>)}

\* Every number, as an argument of each conversion.
Singles == {<<Directive(conv, FALSE, 0, 0, v)>> : conv \in {"d", "u", "x"}, v \in 0..300}

Pairs == {<<a, b>> : a \in Numbers, b \in Others} \cup {<<b, a>> : a \in Numbers, b \in Others}
         \cup (Others \X Others)

MCInputs == {<<>>} \cup Singles \cup Pairs

MCInit == Init /\ FormatInit

Malloc == input = <<>> /\ lib = "user" /\ Next /\ UNCHANGED formatVars

Printf == FormatNext /\ UNCHANGED vars

MCSpec == MCInit /\ [][Malloc \/ Printf]_<<vars, formatVars>>
=============================================================================
