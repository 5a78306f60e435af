------------------------------- MODULE Format -------------------------------
(***************************************************************************)
(* vasprintf, the formatter behind kprintf and log (core/kprintf.c) and    *)
(* behind printf of the programs' library (bomboclaat-os/lib/stdio.c,      *)
(* which is a variant of it).  A step is one turn of the loop over the     *)
(* format.  Characters are strings of one letter; Digits[n + 1] is the     *)
(* character of the digit n.                                               *)
(***************************************************************************)
EXTENDS Integers, Sequences, SequencesExt

CONSTANTS
    UInt,           \* 2^32, the numbers of an unsigned int
    HexWidth,       \* 8, the hexadecimal digits of one
    Characters,
    Digits,
    Inputs          \* sequences of directives

Digit(n) == Digits[n + 1]
IsDigit(c) == \E n \in 0..9 : c = Digit(n)

\* Powers of a base.
Power(base) == LET p[n \in Nat] == IF n = 0 THEN 1 ELSE base * p[n - 1] IN p

\* A directive is plain text or a conversion, with its flag, how many l, its
\* width, which fits an int, and its argument, which is a number, a character
\* or a string.
IsDirective(d) ==
    /\ d.conv \in {"text", "%", "s", "c", "x", "d", "u"}
    /\ d.zero \in BOOLEAN /\ d.long \in 0..2 /\ d.width \in Nat /\ d.width < UInt \div 2
    /\ d.conv = "text" => d.value # <<>> /\ \A k \in DOMAIN d.value : d.value[k] # "%"
    /\ d.conv \in {"text", "s"} => d.value \in Seq(Characters)
    /\ d.conv = "c" => d.value \in Characters
    /\ d.conv \in {"x", "d", "u"} => d.value \in Nat

ASSUME FormatAssumption ==
    /\ HexWidth \in Nat \ {0} /\ UInt \in Nat /\ UInt = Power(16)[HexWidth]
    /\ Digits \in Seq(Characters) /\ Len(Digits) = 16
    /\ \A m, n \in 0..15 : Digit(m) = Digit(n) => m = n
    /\ {"%", "l", "s", "c", "x", "d", "u", " "} \subseteq Characters
    /\ \A n \in 0..9 : Digit(n) \notin {"%", "l", "s", "c", "x", "d", "u"}
    /\ \A s \in Inputs : s \in Seq({s[k] : k \in DOMAIN s}) /\ \A k \in DOMAIN s : IsDirective(s[k])

VARIABLES
    lib,            \* "kernel" or "user": which of the two
    input,          \* the directives the caller meant
    index,          \* into the format
    taken,          \* how many arguments have been taken
    out

formatVars == <<lib, input, index, taken, out>>

Repeat(c, n) == [k \in 1..n |-> c]

-----------------------------------------------------------------------------
(* Numbers and directives as they are written down.                        *)
Places(value, base) ==
    LET power == Power(base)
    IN  CHOOSE n \in 1..(value + 1) : value < power[n] /\ \A m \in 1..(n - 1) : power[m] <= value

Numeral(value, base) ==
    LET n == Places(value, base)
    IN  [k \in 1..n |-> Digit((value \div Power(base)[n - k]) % base)]

Written(d) ==
    CASE d.conv = "text" -> d.value
      [] d.conv = "%" -> <<"%", "%">>
      [] OTHER -> <<"%">> \o (IF d.zero THEN <<Digit(0)>> ELSE <<>>)
                  \o (IF d.width = 0 THEN <<>> ELSE Numeral(d.width, 10))
                  \o Repeat("l", d.long) \o <<d.conv>>

TakesArgument(d) == d.conv \notin {"text", "%"}

fmt == FlattenSeq([k \in DOMAIN input |-> Written(input[k])])

Argument(d) == IF TakesArgument(d) THEN <<d.value>> ELSE <<>>

args == FlattenSeq([k \in DOMAIN input |-> Argument(input[k])])

\* The programs' version has neither u nor l.
Offered(d) == lib = "user" => d.conv # "u" /\ d.long = 0

FormatInit ==
    /\ lib \in {"kernel", "user"}
    /\ input \in Inputs
    /\ \A k \in DOMAIN input : Offered(input[k])
    /\ index = 1 /\ taken = 0 /\ out = <<>>

-----------------------------------------------------------------------------
\* The largest number of one digit more after each turn of the loop that
\* counts digits; it wraps around.
Largest(base) ==
    LET i[k \in Nat] == IF k = 0 THEN base - 1 ELSE (i[k - 1] * base + base - 1) % UInt IN i

\* The loop ends at the first number that is large enough, or at the largest.
CountTurns(value, base) ==
    LET i == Largest(base)
        ends(k) == ~(value > i[k] /\ i[k] < UInt - 1)
    IN  CHOOSE k \in 0..UInt : ends(k) /\ \A m \in 0..(k - 1) : ~ends(m)

\* (fault: the largest number of n digits counts as one of n + 1)
WidthOneMore(value, base) == IF value = base - 1 THEN 2 ELSE 1 + CountTurns(value, base)

Width(value, base) == 1 + CountTurns(value, base)

\* The last n digits, the lowest first divided off.
DigitsFrom(value, base, n) ==
    LET rest[k \in Nat] == IF k = 0 THEN value ELSE rest[k - 1] \div base
    IN  [k \in 1..n |-> Digit(rest[n - k] % base)]

\* Both take the argument as an unsigned int, long or not.
print_dec(long, width, pad) ==
    LET value == long % UInt
        n == Width(value, 10)
    IN  Repeat(pad, IF n < width THEN width - n ELSE 0) \o DigitsFrom(value, 10, n)

print_hex(long, width) ==
    LET value == long % UInt
        n == Width(value, 16)
        w == IF width = 0 THEN HexWidth ELSE width
    IN  Repeat(Digit(0), IF n < w THEN w - n ELSE 0) \o DigitsFrom(value, 16, n)

-----------------------------------------------------------------------------
At(k) == IF k <= Len(fmt) THEN fmt[k] ELSE "end"

\* The first place from k on that is not a digit.
Behind(k) == CHOOSE j \in k..(Len(fmt) + 1) :
                 ~IsDigit(At(j)) /\ \A m \in k..(j - 1) : IsDigit(At(m))

DigitValue(c) == CHOOSE m \in 0..9 : IsDigit(c) => Digit(m) = c

\* The number that the n places from k on spell.
NumberAt(k, n) ==
    LET arg_width[j \in Nat] ==
            IF j = 0 THEN 0 ELSE 10 * arg_width[j - 1] + DigitValue(At(k + j - 1))
    IN  arg_width[n]

Literal ==
    /\ index <= Len(fmt) /\ At(index) # "%"
    /\ out' = Append(out, At(index))
    /\ index' = index + 1
    /\ UNCHANGED <<lib, input, taken>>

\* Flag, width, length, conversion.  In the programs' version zeros begin the
\* width, and numbers are always padded with zeros.
Conversion ==
    /\ index <= Len(fmt) /\ At(index) = "%"
    /\ LET kernel == lib = "kernel"
           flag == kernel /\ At(index + 1) = Digit(0)
           from == IF flag THEN index + 2 ELSE index + 1
           behind == Behind(from)
           width == NumberAt(from, behind - from)
           ells == IF ~kernel \/ At(behind) # "l" THEN 0 ELSE IF At(behind + 1) # "l" THEN 1 ELSE 2
           c == At(behind + ells)
           pad == IF kernel /\ ~flag THEN " " ELSE Digit(0)
           value == args[taken + 1]
       IN  /\ index' = behind + ells + 1
           /\ \/ /\ c = "s"
                 /\ out' = out \o value /\ taken' = taken + 1
              \/ /\ c = "c"
                 /\ out' = Append(out, value) /\ taken' = taken + 1
              \/ /\ c = "x"
                 /\ out' = out \o print_hex(value, width) /\ taken' = taken + 1
              \/ /\ c = "d" \/ (c = "u" /\ kernel)
                 /\ out' = out \o print_dec(value, width, pad) /\ taken' = taken + 1
              \/ /\ c \notin {"s", "c", "x", "d"} /\ ~(c = "u" /\ kernel)
                 /\ out' = Append(out, c) /\ UNCHANGED taken
    /\ UNCHANGED <<lib, input>>

FormatNext == Literal \/ Conversion

FormatSpec == FormatInit /\ [][FormatNext]_formatVars

-----------------------------------------------------------------------------
(* The reference: what C prints for the directive.                         *)
Padded(s, n, pad) == IF Len(s) < n THEN Repeat(pad, n - Len(s)) \o s ELSE s

Meant(d) ==
    CASE d.conv \in {"text", "s"} -> d.value
      [] d.conv = "c" -> <<d.value>>
      [] d.conv = "%" -> <<"%">>
      [] d.conv = "x" ->
            Padded(Numeral(d.value, 16), IF d.width = 0 THEN HexWidth ELSE d.width, Digit(0))
      [] d.conv \in {"d", "u"} ->
            Padded(Numeral(d.value, 10), d.width,
                   IF d.zero \/ lib = "user" THEN Digit(0) ELSE " ")

\* 10^10 - 1 as an unsigned int: up to there the width is counted right.
DecLimit == (Power(10)[Places(UInt, 10)] - 1) % UInt

\* The numbers it can print.
Printable(d) ==
    /\ d.conv = "x" => d.value < UInt
    /\ d.conv \in {"d", "u"} => d.value <= DecLimit

\* Whatever directives stand next to each other: the output is what each of
\* them means, and every one gets its own argument.  Decimal numbers above
\* DecLimit come out with up to 32 digits, and longs lose their upper half.
FormatExact ==
    index > Len(fmt) /\ (\A k \in DOMAIN input : Printable(input[k])) =>
        /\ out = FlattenSeq([k \in DOMAIN input |-> Meant(input[k])])
        /\ taken = Len(args)
=============================================================================
